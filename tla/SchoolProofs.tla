---------------------------- MODULE SchoolProofs ----------------------------
(***************************************************************************)
(* Proofs about attendance and topics over one set of profiles, about the  *)
(* monthly grades and about KPI and payslips, for any values of their      *)
(* constants: a profile shows what was earned, an absence is told, the     *)
(* figures of the register agree, topics are led through in order and paid *)
(* once, a grade counts once and is not lost, a payslip is what its rules, *)
(* results and approval make it.                                           *)
(***************************************************************************)
EXTENDS MCSchool, Sums, FiniteSetTheorems, TLAPS

-----------------------------------------------------------------------------
(* Profiles: what their levels and streaks are, and what an award does *)

\* A finite set of integers has a greatest element, which Max is.
LEMMA MaxOf ==
  ASSUME NEW S, IsFiniteSet(S), S \subseteq Int, S # {}
  PROVE  Max(S) \in S /\ \A y \in S : Max(S) >= y
<1> DEFINE P == {T \in SUBSET S : T = {} \/ \E m \in T : \A y \in T : m >= y}
<1>1. ASSUME NEW T \in SUBSET S, NEW x \in S \ T, T \in P
      PROVE  T \cup {x} \in P
  <2>1. CASE T = {}
    BY <1>1, <2>1
  <2>2. ASSUME NEW m \in T, \A y \in T : m >= y
        PROVE  T \cup {x} \in P
    <3>1. CASE m >= x
      BY <1>1, <2>2, <3>1
    <3>2. CASE ~(m >= x)
      <4>1. \A y \in T : x >= y
        BY <2>2, <3>2
      <4> QED
        BY <1>1, <4>1
    <3> QED
      BY <3>1, <3>2
  <2> QED
    BY <1>1, <2>1, <2>2
<1>2. {} \in P
  OBVIOUS
<1> HIDE DEF P
<1>3. S \in P
  BY <1>1, <1>2, FiniteInduction
<1>4. \E m \in S : \A y \in S : m >= y
  BY <1>3 DEF P
<1> QED
  BY <1>4, Zenon DEF Max

\* The greater of two numbers.
LEMMA MaxOfTwo ==
  ASSUME NEW a \in Int, NEW b \in Int
  PROVE  /\ Max({a, b}) \in {a, b} /\ Max({a, b}) >= a /\ Max({a, b}) >= b
<1>1. IsFiniteSet({a}) /\ {a} \cup {b} = {a, b}
  BY FS_Singleton
<1>2. IsFiniteSet({a, b}) /\ {a, b} \subseteq Int /\ {a, b} # {}
  BY <1>1, FS_AddElement
<1> QED
  BY <1>2, MaxOf

\* The lesser of two numbers.
LEMMA MinOfTwo ==
  ASSUME NEW a \in Int, NEW b \in Int
  PROVE  /\ Min({a, b}) \in {a, b} /\ Min({a, b}) <= a /\ Min({a, b}) <= b
<1>1. \E x \in {a, b} : \A y \in {a, b} : x <= y
  <2>1. CASE a <= b
    BY <2>1
  <2>2. CASE b <= a
    BY <2>2
  <2> QED
    BY <2>1, <2>2
<1>2. Min({a, b}) \in {a, b} /\ \A y \in {a, b} : Min({a, b}) <= y
  BY <1>1, Zenon DEF Min
<1> QED
  BY <1>2

\* The level of an amount of XP is one of the levels, and no higher one is reached.
LEMMA LevelOf ==
  ASSUME NEW n \in Nat
  PROVE  /\ CalcLevel(n) \in 1..Len(XP_LEVELS)
         /\ \A i \in 1..Len(XP_LEVELS) : n >= XP_LEVELS[i] => i <= CalcLevel(n)
<1> DEFINE S == {1} \cup {i \in DOMAIN XP_LEVELS : n >= XP_LEVELS[i]}
<1>1. /\ XP_LEVELS \in Seq(Nat) /\ Len(XP_LEVELS) \in Nat \ {0}
      /\ DOMAIN XP_LEVELS = 1..Len(XP_LEVELS)
  BY SchoolAssumption
<1>2. S \subseteq 1..Len(XP_LEVELS) /\ S # {}
  BY <1>1
<1>3. IsFiniteSet(1..Len(XP_LEVELS))
  BY <1>1, FS_Interval
<1>4. IsFiniteSet(S) /\ S \subseteq Int
  BY <1>1, <1>2, <1>3, FS_Subset
<1>8. Max(S) \in S /\ \A y \in S : Max(S) >= y
  <2> HIDE DEF S
  <2> QED
    BY <1>2, <1>4, MaxOf
<1>5. CalcLevel(n) = Max(S)
  BY DEF CalcLevel
<1> HIDE DEF S
<1>6. CalcLevel(n) \in 1..Len(XP_LEVELS)
  BY <1>2, <1>5, <1>8
<1>7. ASSUME NEW i \in 1..Len(XP_LEVELS), n >= XP_LEVELS[i]
      PROVE  i <= CalcLevel(n)
  <2>1. i \in S
    BY <1>1, <1>7 DEF S
  <2> QED
    BY <1>1, <1>2, <1>5, <1>8, <2>1
<1> QED
  BY <1>6, <1>7

\* Nothing is needed for the next level only on the last.
LEMMA NothingNeeded ==
  ASSUME NEW n \in Nat, LevelInfo(n).needed = 0
  PROVE  LevelInfo(n).level = Len(XP_LEVELS)
<1> DEFINE c == CalcLevel(n)
           next == XP_LEVELS[IF c < Len(XP_LEVELS) THEN c + 1 ELSE c]
<1>1. /\ c \in 1..Len(XP_LEVELS)
      /\ \A i \in 1..Len(XP_LEVELS) : n >= XP_LEVELS[i] => i <= c
  BY LevelOf
<1>2. XP_LEVELS \in Seq(Nat) /\ Len(XP_LEVELS) \in Nat \ {0}
  BY SchoolAssumption
<1>3. LevelInfo(n).level = c /\ LevelInfo(n).needed = Max({0, next - n})
  BY DEF LevelInfo
<1> SUFFICES ASSUME c # Len(XP_LEVELS) PROVE FALSE
  BY <1>3
<1>4. c + 1 \in 1..Len(XP_LEVELS) /\ next = XP_LEVELS[c + 1] /\ next \in Nat
  BY <1>1, <1>2
<1> HIDE DEF c, next
<1>5. next - n \in Int
  BY <1>4
<1>6. Max({0, next - n}) >= next - n
  <2> DEFINE x == next - n
  <2>1. x \in Int
    BY <1>5
  <2> HIDE DEF x
  <2>2. 0 \in Int
    OBVIOUS
  <2>3. Max({0, x}) >= x
    BY <2>1, <2>2, MaxOfTwo, Zenon
  <2> QED
    BY <2>3 DEF x
<1>7. n >= XP_LEVELS[c + 1]
  BY <1>3, <1>4, <1>5, <1>6
<1> QED
  BY <1>1, <1>2, <1>4, <1>7

-----------------------------------------------------------------------------

\* The run of days that ends with a day after those of a set.
LEMMA RunGrows ==
  ASSUME NEW D, IsFiniteSet(D), D \subseteq Nat, NEW d \in Nat, \A x \in D : x <= d
  PROVE  /\ IsFiniteSet(D \cup {d}) /\ Max(D \cup {d}) = d
         /\ D = {} => RunLength(D \cup {d}) = 1
         /\ \A m \in D : (\A x \in D : x <= m) =>
              /\ RunLength(D) \in Nat
              /\ d = m => RunLength(D \cup {d}) = RunLength(D)
              /\ d = m + 1 => RunLength(D \cup {d}) = RunLength(D) + 1
              /\ d > m + 1 => RunLength(D \cup {d}) = 1
<1> DEFINE F == D \cup {d}
           R(S, m) == {x \in S : x..m \subseteq S}
<1>1. IsFiniteSet(F) /\ F \subseteq Int /\ F # {}
  BY FS_AddElement
<1>2. Max(F) \in F /\ \A y \in F : Max(F) >= y
  <2> HIDE DEF F
  <2> QED
    BY <1>1, MaxOf
<1>3. Max(F) = d
  <2> DEFINE x == Max(F)
  <2>1. x \in F /\ x >= d
    BY <1>2
  <2> HIDE DEF x
  <2>2. x = d
    BY <2>1
  <2> QED
    BY <2>2 DEF x
<1>4. RunLength(F) = Cardinality(R(F, d))
  BY <1>3 DEF RunLength
<1>5. IsFiniteSet({d}) /\ Cardinality({d}) = 1
  BY FS_Singleton
<1>6. ASSUME D = {}
      PROVE  RunLength(F) = 1
  <2>1. R(F, d) = {d}
    BY <1>6
  <2> QED
    BY <1>4, <1>5, <2>1
<1>7. ASSUME NEW m \in D, \A x \in D : x <= m
      PROVE  /\ RunLength(D) \in Nat
             /\ d = m => RunLength(F) = RunLength(D)
             /\ d = m + 1 => RunLength(F) = RunLength(D) + 1
             /\ d > m + 1 => RunLength(F) = 1
  <2>1. Max(D) \in D /\ \A y \in D : Max(D) >= y
    <3>1. D \subseteq Int /\ D # {}
      BY <1>7
    <3> QED
      BY <3>1, MaxOf
  <2>2. Max(D) = m
    <3> DEFINE x == Max(D)
    <3>1. x \in D /\ x >= m
      BY <1>7, <2>1
    <3> HIDE DEF x
    <3>2. x = m
      BY <1>7, <3>1
    <3> QED
      BY <3>2 DEF x
  <2>3. RunLength(D) = Cardinality(R(D, m))
    BY <2>2 DEF RunLength
  <2>4. IsFiniteSet(R(D, m)) /\ RunLength(D) \in Nat
    <3>1. R(D, m) \subseteq D
      OBVIOUS
    <3> QED
      BY <2>3, <3>1, FS_Subset, FS_CardinalityType
  <2>5. ASSUME d = m
        PROVE  RunLength(F) = RunLength(D)
    <3>1. F = D
      BY <2>5
    <3> QED
      BY <3>1
  <2>6. ASSUME d = m + 1
        PROVE  RunLength(F) = RunLength(D) + 1
    <3>1. ASSUME NEW x
          PROVE  x \in R(F, d) <=> x \in R(D, m) \cup {d}
      <4>1. CASE x = d
        BY <4>1
      <4>2. CASE x # d /\ x \in D
        <5>1. x \in Nat /\ m \in Nat /\ x..d = (x..m) \cup {d} /\ d \notin x..m
          BY <1>7, <2>6, <4>2
        <5> QED
          BY <4>2, <5>1
      <4>3. CASE x # d /\ x \notin D
        BY <4>3
      <4> QED
        BY <4>1, <4>2, <4>3
    <3>2. R(F, d) = R(D, m) \cup {d}
      BY <3>1
    <3>3. d \notin R(D, m)
      BY <1>7, <2>6
    <3> HIDE DEF R, F
    <3> QED
      BY <1>4, <2>3, <2>4, <3>2, <3>3, FS_AddElement
  <2>7. ASSUME d > m + 1
        PROVE  RunLength(F) = 1
    <3>1. ASSUME NEW x
          PROVE  x \in R(F, d) <=> x \in {d}
      <4>1. CASE x = d
        BY <4>1
      <4>2. CASE x # d /\ x \in D
        <5>1. m + 1 \in x..d /\ m + 1 \notin F
          BY <1>7, <2>7, <4>2
        <5> QED
          BY <4>2, <5>1
      <4>3. CASE x # d /\ x \notin D
        BY <4>3
      <4> QED
        BY <4>1, <4>2, <4>3
    <3>2. R(F, d) = {d}
      BY <3>1
    <3> QED
      BY <1>4, <1>5, <3>2
  <2> QED
    BY <2>4, <2>5, <2>6, <2>7
<1> QED
  BY <1>1, <1>3, <1>6, <1>7

-----------------------------------------------------------------------------

\* What the clock says.
LEMMA TodayIs ==
  ASSUME now \in Nat
  PROVE  /\ Today \in Nat
         /\ now' = now + 1 => Today' \in Nat /\ Today' >= Today
         /\ now' = now => Today' = Today
<1>1. DayLength \in Nat \ {0}
  BY SchoolAssumption
<1>2. \A n \in Nat : n \div DayLength \in Nat
  BY <1>1
<1>3. ASSUME now' = now + 1
      PROVE  (now + 1) \div DayLength >= now \div DayLength
  <2>1. ASSUME NEW n \in Nat
        PROVE  \E q \in Nat, r \in 0..DayLength - 1 : q = n \div DayLength /\ n = DayLength * q + r
    <3>1. /\ n = DayLength * (n \div DayLength) + (n % DayLength)
          /\ n % DayLength \in 0..DayLength - 1 /\ n \div DayLength \in Nat
      BY <1>1
    <3> QED
      BY <3>1, Zenon
  <2>2. PICK q \in Nat, r \in 0..DayLength - 1 : q = now \div DayLength /\ now = DayLength * q + r
    BY <2>1
  <2>3. PICK p \in Nat, t \in 0..DayLength - 1 :
          p = (now + 1) \div DayLength /\ now + 1 = DayLength * p + t
    <3>1. now + 1 \in Nat
      OBVIOUS
    <3> QED
      BY <2>1, <3>1, Zenon
  <2>4. DayLength * q < DayLength * (p + 1)
    <3>1. now = DayLength * q + r /\ now + 1 = DayLength * p + t
      BY <2>2, <2>3
    <3>2. DayLength * (p + 1) = DayLength * p + DayLength
      BY <1>1
    <3> QED
      BY <1>1, <3>1, <3>2
  <2>5. q < p + 1
    BY <1>1, <2>4
  <2> QED
    BY <2>2, <2>3, <2>5
<1> QED
  BY <1>2, <1>3 DEF Today

\* A streak and its record are numbers.
LEMMA StreakType ==
  ASSUME NEW p \in Profile, NEW d \in Nat
  PROVE  Streak(p, d).streak \in Nat /\ Streak(p, d).longest \in Nat
<1>1. p.streak \in Nat /\ p.longest \in Nat /\ p.last \in Nat \cup {Nil}
  BY DEF Profile
<1>2. Max({p.longest, p.streak + 1}) \in Nat
  <2> DEFINE x == p.longest
             y == p.streak + 1
  <2>1. x \in Nat /\ y \in Nat
    BY <1>1
  <2> HIDE DEF x, y
  <2>2. x \in Int /\ y \in Int
    BY <2>1
  <2>3. Max({x, y}) \in {x, y}
    BY <2>2, MaxOfTwo
  <2>4. Max({x, y}) \in Nat
    BY <2>1, <2>3
  <2> QED
    BY <2>4 DEF x, y
<1> QED
  BY <1>1, <1>2 DEF Streak

\* The profile a student begins with.
LEMMA NewProfileType == NewProfile \in Profile
BY SchoolAssumption DEF NewProfile, Profile

\* An award on a profile, for a student whose profile it is.
LEMMA AwardType ==
  ASSUME NEW amount \in Nat, XpInv, NEW s \in Learners
  PROVE  /\ AwardIsSound(s, profile[s], Awarded(profile[s], amount), amount)
         /\ Awarded(profile[s], amount) # Nil
<1> DEFINE l == profile[s]
           p == IF l = Nil THEN NewProfile ELSE l
           a == Awarded(l, amount)
<1>1. /\ l \in Profile \cup {Nil} /\ p \in Profile /\ now \in Nat
      /\ l # Nil => l.total <= xpLog[s].sum
  BY NewProfileType DEF XpInv, XpAgrees, GTypeOK, XpIsEarned, Score
<1>2. /\ a.total = p.total + amount /\ a.weekly = p.weekly + amount
      /\ a.level = CalcLevel(p.total + amount) /\ a.last = Today
      /\ a.streak = Streak(p, Today).streak /\ a.longest = Streak(p, Today).longest
      /\ a = [total |-> a.total, weekly |-> a.weekly, level |-> a.level,
              streak |-> a.streak, longest |-> a.longest, last |-> a.last]
  BY DEF Awarded
<1>3. p.total + amount \in Nat /\ p.weekly + amount \in Nat
  <2> HIDE DEF p
  <2>1. p.total \in Nat /\ p.weekly \in Nat
    BY <1>1 DEF Profile
  <2> QED
    BY <2>1
<1>4. Today \in Nat
  BY <1>1, TodayIs
<1>5. CalcLevel(p.total + amount) \in 1..Len(XP_LEVELS)
  BY <1>3, LevelOf
<1>6. Streak(p, Today).streak \in Nat /\ Streak(p, Today).longest \in Nat
  BY <1>1, <1>4, StreakType
<1>7. p.last # Nil /\ limit = 1 => p.last <= Today
  BY <1>1 DEF XpInv, DaysAgree, NewProfile
<1> HIDE DEF a
<1>8. a \in Profile
  BY <1>2, <1>3, <1>4, <1>5, <1>6 DEF Profile
<1>9. a # Nil
  BY <1>8, SchoolAssumption
<1>10. AwardIsSound(s, l, a, amount)
  BY <1>1, <1>2, <1>4, <1>7, <1>8 DEF AwardIsSound
<1> QED
  BY <1>9, <1>10 DEF a

\* What COMMIT leaves of a row that was loaded and changed.
LEMMA WrittenRow ==
  ASSUME NEW r \in Profile, NEW l \in Profile, NEW n \in Profile
  PROVE  /\ Written(r, l, n) \in Profile
         /\ Written(r, l, n).total = IF n.total = l.total THEN r.total ELSE n.total
         /\ r = l => Written(r, l, n) = n
<1>1. l # Nil
  BY SchoolAssumption
<1>2. Written(r, l, n) = [c \in DOMAIN n |-> IF n[c] = l[c] THEN r[c] ELSE n[c]]
  BY <1>1 DEF Written
<1>3. DOMAIN n = {"total", "weekly", "level", "streak", "longest", "last"}
  BY DEF Profile
<1>4. Written(r, l, n) =
        [total   |-> IF n.total = l.total THEN r.total ELSE n.total,
         weekly  |-> IF n.weekly = l.weekly THEN r.weekly ELSE n.weekly,
         level   |-> IF n.level = l.level THEN r.level ELSE n.level,
         streak  |-> IF n.streak = l.streak THEN r.streak ELSE n.streak,
         longest |-> IF n.longest = l.longest THEN r.longest ELSE n.longest,
         last    |-> IF n.last = l.last THEN r.last ELSE n.last]
  BY <1>2, <1>3
<1>5. Written(r, l, n) \in Profile
  BY <1>4 DEF Profile
<1>6. ASSUME r = l
      PROVE  Written(r, l, n) = n
  BY <1>4, <1>6 DEF Profile
<1> QED
  BY <1>4, <1>5, <1>6

\* Nobody loses a profile or XP, and time goes on.
XpGrows ==
  /\ limit' = limit /\ Today' >= Today
  /\ \A s \in Learners : /\ profile[s] # Nil => profile'[s] # Nil
                         /\ xpLog'[s].sum >= xpLog[s].sum

\* An award under way stays sound while others write; with one request at a time
\* nobody does.
LEMMA AwardsStaySound ==
  ASSUME XpInv, XpInv', XpGrows, NEW l, NEW n, NEW amount, AwardsAreSound(l, n, amount),
         \A s \in Learners : limit = 1 /\ n[s] # Nil => profile'[s] = profile[s]
  PROVE  AwardsAreSound(l, n, amount)'
<1> SUFFICES ASSUME NEW s \in Learners, n[s] # Nil
             PROVE  AwardIsSound(s, l[s], n[s], amount)'
  BY DEF AwardsAreSound
<1>1. AwardIsSound(s, l[s], n[s], amount)
  BY DEF AwardsAreSound
<1>2. xpLog[s].sum \in Nat /\ xpLog'[s].sum \in Nat /\ Today \in Nat /\ Today' \in Nat
  <2>1. xpLog[s].sum \in Nat /\ now \in Nat
    BY DEF XpInv, XpAgrees, GTypeOK, XpTransactions
  <2>2. xpLog'[s].sum \in Nat
    BY DEF XpInv, XpAgrees, GTypeOK, XpTransactions
  <2>3. Today \in Nat
    BY <2>1, TodayIs
  <2>4. Today' \in Nat
    <3>1. now' \in Nat
      BY DEF XpInv
    <3>2. DayLength \in Nat \ {0}
      BY SchoolAssumption
    <3>3. \A i \in Nat : i \div DayLength \in Nat
      BY <3>2
    <3> QED
      BY <3>1, <3>3 DEF Today
  <2> QED
    BY <2>1, <2>2, <2>3, <2>4
<1>3. l[s] # Nil => l[s].total \in Nat
  BY <1>1 DEF AwardIsSound, Profile
<1> QED
  BY <1>1, <1>2, <1>3 DEF AwardIsSound, XpGrows

\* What a COMMIT does for one student.
LEMMA SaveForOne ==
  ASSUME XpInv, NEW amount \in Nat, NEW seen, NEW new, NEW s \in Learners,
         AwardsAreSound(seen, new, amount), SaveAwards(seen, new, amount),
         UNCHANGED <<now, limit>>, new[s] # Nil
  PROVE  /\ profile'[s] \in Profile /\ profile'[s] # Nil /\ xpLog'[s] \in XpTransactions
         /\ xpLog'[s].sum = xpLog[s].sum + amount
         /\ profile'[s].total <= xpLog'[s].sum
         /\ limit = 1 =>
              /\ profile'[s] = new[s] /\ profile'[s].total = xpLog'[s].sum
              /\ profile'[s].streak = RunLength(xpLog'[s].days)
              /\ LET D == xpLog'[s].days
                 IN  /\ IsFiniteSet(D) /\ profile'[s].last \in D
                     /\ \A d \in D : d <= profile'[s].last /\ d <= Today
<1>1. /\ profile'[s] = Written(profile[s], seen[s], new[s])
      /\ xpLog'[s] = [sum |-> xpLog[s].sum + amount, days |-> xpLog[s].days \cup {new[s].last}]
      /\ seen[s] = Nil => profile[s] = Nil
  BY DEF SaveAwards
<1>2. AwardIsSound(s, seen[s], new[s], amount)
  BY DEF AwardsAreSound
<1>3. xpLog[s].sum \in Nat /\ xpLog[s].days \in SUBSET Nat /\ now \in Nat
  BY DEF XpInv, XpAgrees, GTypeOK, XpTransactions
<1>4. new[s].last \in Nat /\ Today \in Nat /\ new[s].last <= Today
  <2>1. Today \in Nat
    BY <1>3, TodayIs
  <2> QED
    BY <1>2, <2>1 DEF AwardIsSound
<1>5. /\ xpLog'[s] \in XpTransactions /\ xpLog'[s].sum = xpLog[s].sum + amount
      /\ xpLog'[s].days = xpLog[s].days \cup {new[s].last}
  BY <1>1, <1>3, <1>4 DEF XpTransactions
<1>6. \A x \in Profile : x # Nil /\ x.total \in Nat
  BY SchoolAssumption DEF Profile
<1>7. /\ profile'[s] \in Profile /\ profile'[s].total <= xpLog'[s].sum
      /\ limit = 1 => profile'[s] = new[s]
  <2>1. CASE seen[s] = Nil
    <3>1. profile'[s] = new[s] /\ new[s] \in Profile /\ new[s].total = 0 + amount
      BY <1>1, <1>2, <2>1 DEF Written, AwardIsSound, NewProfile
    <3> QED
      BY <1>3, <1>5, <3>1
  <2>2. CASE seen[s] # Nil
    <3>1. /\ seen[s] \in Profile /\ new[s] \in Profile /\ profile[s] # Nil
          /\ new[s].total = seen[s].total + amount /\ seen[s].total <= xpLog[s].sum
          /\ limit = 1 => profile[s] = seen[s]
      BY <1>2, <2>2 DEF AwardIsSound
    <3>2. profile[s] \in Profile /\ profile[s].total <= xpLog[s].sum
      BY <3>1 DEF XpInv, XpAgrees, GTypeOK, XpIsEarned, Score
    <3>3. /\ profile'[s] \in Profile
          /\ profile'[s].total = IF new[s].total = seen[s].total THEN profile[s].total ELSE new[s].total
          /\ profile[s] = seen[s] => profile'[s] = new[s]
      BY <1>1, <3>1, <3>2, WrittenRow
    <3>4. profile[s].total \in Nat /\ seen[s].total \in Nat
      BY <1>6, <3>1, <3>2
    <3> QED
      BY <1>3, <1>5, <3>1, <3>2, <3>3, <3>4
  <2> QED
    BY <2>1, <2>2
<1>8. ASSUME limit = 1
      PROVE  /\ profile'[s].total = xpLog'[s].sum
             /\ profile'[s].streak = RunLength(xpLog'[s].days)
             /\ LET D == xpLog'[s].days
                IN  /\ IsFiniteSet(D) /\ profile'[s].last \in D
                    /\ \A d \in D : d <= profile'[s].last /\ d <= Today
  <2> DEFINE F == xpLog[s].days
             e == new[s].last
  <2>1. /\ profile'[s] = new[s] /\ seen[s] = profile[s]
        /\ new[s].total = (IF profile[s] = Nil THEN NewProfile ELSE profile[s]).total + amount
        /\ new[s].streak = Streak(IF profile[s] = Nil THEN NewProfile ELSE profile[s], e).streak
        /\ (IF profile[s] = Nil THEN NewProfile ELSE profile[s]).last # Nil
             => (IF profile[s] = Nil THEN NewProfile ELSE profile[s]).last <= e
    BY <1>2, <1>7, <1>8 DEF AwardIsSound
  <2>2. CASE profile[s] = Nil
    <3>1. xpLog[s] = [sum |-> 0, days |-> {}]
      BY <1>8, <2>2 DEF XpInv, DaysAgree
    <3>2. F = {} /\ xpLog[s].sum = 0
      BY <3>1
    <3>3. new[s].total = 0 + amount /\ new[s].streak = 1
      BY <2>1, <2>2 DEF NewProfile, Streak
    <3>4. IsFiniteSet(F)
      BY <3>2, FS_EmptySet
    <3> HIDE DEF F, e
    <3>5. IsFiniteSet(F \cup {e}) /\ RunLength(F \cup {e}) = 1
      BY <1>4, <3>2, <3>4, RunGrows DEF e
    <3> QED
      BY <1>3, <1>4, <1>5, <2>1, <3>2, <3>3, <3>5 DEF F, e
  <2>3. CASE profile[s] # Nil
    <3> DEFINE m == profile[s].last
    <3>1. /\ IsFiniteSet(F) /\ m \in F /\ \A x \in F : x <= m /\ x <= Today
      BY <1>8, <2>3 DEF XpInv, DaysAgree
    <3>2. profile[s].total = xpLog[s].sum /\ profile[s].streak = RunLength(F)
      BY <1>8, <2>3 DEF XpInv, XpAgrees, ProfileIsExact
    <3>3. m \in Nat /\ m # Nil /\ e \in Nat /\ m <= e /\ F \subseteq Nat
      <4>1. m \in Nat
        BY <1>3, <3>1
      <4>2. m # Nil
        BY <4>1, SchoolAssumption
      <4> QED
        BY <1>3, <1>4, <2>1, <2>3, <4>1, <4>2
    <3>4. new[s].streak = IF e = m + 1 THEN RunLength(F) + 1
                          ELSE IF e > m + 1 THEN 1 ELSE RunLength(F)
      <4>1. new[s].streak = Streak(profile[s], e).streak
        BY <2>1, <2>3
      <4>2. e - m = 1 <=> e = m + 1
        BY <3>3
      <4>3. e - m > 1 <=> e > m + 1
        BY <3>3
      <4>4. ~(e = m + 1 /\ e > m + 1)
        BY <3>3
      <4> HIDE DEF e
      <4>5. CASE e - m = 1
        BY <3>2, <3>3, <4>1, <4>2, <4>3, <4>4, <4>5 DEF Streak
      <4>6. CASE e - m > 1
        BY <3>2, <3>3, <4>1, <4>2, <4>3, <4>4, <4>6 DEF Streak
      <4>7. CASE e - m # 1 /\ ~(e - m > 1)
        BY <3>2, <3>3, <4>1, <4>2, <4>3, <4>4, <4>7 DEF Streak
      <4> QED
        BY <4>5, <4>6, <4>7
    <3>5. \A x \in F : x <= e
      BY <1>3, <3>1, <3>3
    <3> HIDE DEF F, e, m
    <3>6. /\ IsFiniteSet(F \cup {e})
          /\ e = m => RunLength(F \cup {e}) = RunLength(F)
          /\ e = m + 1 => RunLength(F \cup {e}) = RunLength(F) + 1
          /\ e > m + 1 => RunLength(F \cup {e}) = 1
      BY <3>1, <3>3, <3>5, RunGrows
    <3>7. new[s].streak = RunLength(F \cup {e})
      BY <3>3, <3>4, <3>6
    <3>8. new[s].total = xpLog[s].sum + amount
      BY <2>1, <2>3, <3>2
    <3> QED
      BY <1>3, <1>4, <1>5, <2>1, <3>1, <3>5, <3>6, <3>7, <3>8 DEF F, e
  <2> QED
    BY <2>2, <2>3
<1> QED
  BY <1>5, <1>6, <1>7, <1>8

\* A COMMIT of awards keeps what profiles promise.
LEMMA SaveStep ==
  ASSUME XpInv, NEW amount \in Nat, NEW seen, NEW new,
         AwardsAreSound(seen, new, amount), SaveAwards(seen, new, amount),
         UNCHANGED <<now, limit>>
  PROVE  /\ XpInv' /\ XpGrows
         /\ \A s \in Learners :
              xpLog'[s].sum = xpLog[s].sum + IF new[s] = Nil THEN 0 ELSE amount
<1>1. \A s \in Learners : xpLog[s].sum \in Nat /\ now \in Nat
  BY DEF XpInv, XpAgrees, GTypeOK, XpTransactions
<1>2. /\ profile' = [s \in Learners |-> profile'[s]] /\ xpLog' = [s \in Learners |-> xpLog'[s]]
      /\ Today' = Today /\ Today \in Nat
  <2>1. profile' = [s \in Learners |-> profile'[s]] /\ xpLog' = [s \in Learners |-> xpLog'[s]]
    BY DEF SaveAwards
  <2> QED
    BY <2>1, TodayIs DEF XpInv, Today
<1>3. ASSUME NEW s \in Learners, new[s] = Nil
      PROVE  profile'[s] = profile[s] /\ xpLog'[s] = xpLog[s]
  BY <1>3 DEF SaveAwards
<1>4. \A s \in Learners : profile[s] = Nil \/ profile[s] \in Profile
  BY DEF XpInv, XpAgrees, GTypeOK
<1>5. ASSUME NEW s \in Learners
      PROVE  /\ profile'[s] = Nil \/ profile'[s] \in Profile
             /\ xpLog'[s] \in XpTransactions
             /\ (IF profile'[s] = Nil THEN 0 ELSE profile'[s].total) <= xpLog'[s].sum
             /\ profile[s] # Nil => profile'[s] # Nil
             /\ xpLog'[s].sum = xpLog[s].sum + IF new[s] = Nil THEN 0 ELSE amount
  <2>1. CASE new[s] = Nil
    BY <1>1, <1>3, <2>1 DEF XpInv, XpAgrees, GTypeOK, XpIsEarned, Score
  <2>2. CASE new[s] # Nil
    BY <2>2, SaveForOne
  <2> QED
    BY <2>1, <2>2
<1>6. ASSUME limit = 1, NEW s \in Learners
      PROVE  /\ profile'[s] # Nil =>
                  /\ profile'[s].total = xpLog'[s].sum
                  /\ profile'[s].level = LevelInfo(xpLog'[s].sum).level
                  /\ LevelInfo(profile'[s].total).needed = 0 => profile'[s].level = Len(XP_LEVELS)
                  /\ profile'[s].streak = RunLength(xpLog'[s].days)
                  /\ LET D == xpLog'[s].days
                     IN  /\ IsFiniteSet(D) /\ profile'[s].last \in D
                         /\ \A d \in D : d <= profile'[s].last /\ d <= Today
             /\ profile'[s] = Nil => xpLog'[s] = [sum |-> 0, days |-> {}]
  <2>1. CASE new[s] = Nil
    BY <1>3, <1>6, <2>1 DEF XpInv, XpAgrees, ProfileIsExact, DaysAgree, Shown
  <2>2. CASE new[s] # Nil
    <3>1. /\ profile'[s] # Nil /\ profile'[s] = new[s] /\ profile'[s].total = xpLog'[s].sum
          /\ profile'[s].streak = RunLength(xpLog'[s].days) /\ xpLog'[s] \in XpTransactions
      <4>1. profile'[s] # Nil /\ xpLog'[s] \in XpTransactions
        BY <2>2, SaveForOne
      <4>2. profile'[s] = new[s] /\ profile'[s].total = xpLog'[s].sum
        BY <1>6, <2>2, SaveForOne
      <4>3. profile'[s].streak = RunLength(xpLog'[s].days)
        BY <1>6, <2>2, SaveForOne
      <4> QED
        BY <4>1, <4>2, <4>3
    <3>2. LET D == xpLog'[s].days
          IN  /\ IsFiniteSet(D) /\ profile'[s].last \in D
              /\ \A d \in D : d <= profile'[s].last /\ d <= Today
      BY <1>6, <2>2, SaveForOne
    <3>3. profile'[s].level = CalcLevel(profile'[s].total)
      BY <1>6, <2>2, <3>1 DEF AwardsAreSound, AwardIsSound
    <3>4. profile'[s].level = LevelInfo(xpLog'[s].sum).level
      BY <3>1, <3>3 DEF LevelInfo
    <3>5. xpLog'[s].sum \in Nat
      BY <3>1 DEF XpTransactions
    <3>6. LevelInfo(xpLog'[s].sum).needed = 0 => profile'[s].level = Len(XP_LEVELS)
      BY <3>4, <3>5, NothingNeeded
    <3> QED
      BY <3>1, <3>2, <3>4, <3>6
  <2> QED
    BY <2>1, <2>2
<1>7. GTypeOK'
  BY <1>5 DEF GTypeOK
<1>8. XpIsEarned'
  BY <1>5 DEF XpIsEarned, Score
<1>9. ProfileIsExact'
  BY <1>6 DEF ProfileIsExact, Shown
<1>10. DaysAgree'
  BY <1>2, <1>6 DEF DaysAgree
<1>11. XpInv'
  BY <1>1, <1>2, <1>7, <1>8, <1>9, <1>10 DEF XpInv, XpAgrees
<1>12. XpGrows
  BY <1>1, <1>2, <1>5 DEF XpGrows
<1> QED
  BY <1>5, <1>11, <1>12

\* Time that passes, or nothing that concerns profiles.
LEMMA XpStays ==
  ASSUME XpInv, UNCHANGED <<limit, xp>>, now' = now + 1 \/ now' = now
  PROVE  XpInv' /\ XpGrows
<1>1. /\ now \in Nat /\ now' \in Nat /\ Today \in Nat /\ Today' \in Nat /\ Today' >= Today
      /\ profile' = profile /\ xpLog' = xpLog /\ limit' = limit
  BY TodayIs DEF XpInv, xp
<1>2. GTypeOK' /\ XpIsEarned' /\ ProfileIsExact'
  BY <1>1 DEF XpInv, XpAgrees, GTypeOK, XpIsEarned, ProfileIsExact, Score, Shown
<1>3. \A s \in Learners : xpLog[s].days \subseteq Nat /\ xpLog[s].sum \in Nat
  BY DEF XpInv, XpAgrees, GTypeOK, XpTransactions
<1>4. DaysAgree'
  BY <1>1, <1>3 DEF XpInv, DaysAgree
<1> QED
  BY <1>1, <1>2, <1>3, <1>4 DEF XpInv, XpAgrees, XpGrows

\* Nobody has earned anything at first.
LEMMA XpStart ==
  ASSUME GInit
  PROVE  XpInv
<1>1. /\ now = 0 /\ \A s \in Learners : profile[s] = Nil /\ xpLog[s] = [sum |-> 0, days |-> {}]
      /\ profile = [s \in Learners |-> profile[s]] /\ xpLog = [s \in Learners |-> xpLog[s]]
  BY DEF GInit
<1>2. \A s \in Learners : xpLog[s] \in XpTransactions /\ xpLog[s].sum = 0
  BY <1>1 DEF XpTransactions
<1> QED
  BY <1>1, <1>2 DEF XpInv, XpAgrees, GTypeOK, XpIsEarned, ProfileIsExact, DaysAgree, Score

-----------------------------------------------------------------------------
(* Attendance: what the others of a request keep, and its steps *)

\* A request that did not move, while tables only gain rows and keys.
SheetStays(o) ==
  /\ sheet'[o] = sheet[o] /\ todo'[o] = todo[o] /\ where'[o] = where[o] /\ wrote'[o] = wrote[o]
  /\ fresh'[o] = fresh[o] /\ loaded'[o] = loaded[o] /\ earned'[o] = earned[o]
RegisterGrows ==
  /\ now' \in Nat /\ now' >= now
  /\ \A l \in HeldLessons, s \in Learners : attendance[l][s] # Nil => attendance'[l][s] # Nil
  /\ \A d \in Dates, s \in Learners : told[d][s] # Nil => told'[d][s] # Nil

\* What the proofs use of the constants.
LEMMA LessonsAre ==
  /\ UtcOffset \in Nat /\ XpLesson \in Nat /\ XpTopic \in Nat
  /\ \A l \in HeldLessons : l.deadline \in Int /\ l.date \in Dates
  /\ \A x \in Nat \cup Profile \cup Row \cup [old : Mark, new : Row] : x # Nil
BY SchoolAssumption DEF Dates

\* It stays sound.
LEMMA OtherSheetStays ==
  ASSUME now \in Nat, RegisterGrows, NEW o \in Teachers, SheetStays(o), RequestIsSound(o)
  PROVE  RequestIsSound(o)' /\ (Busy(o)' <=> Busy(o))
<1>1. Busy(o)' <=> Busy(o)
  BY DEF Busy, SheetStays
<1>2. Busy(o) => SheetIsSound(o)
  BY DEF RequestIsSound
<1>3. Busy(o) => SheetIsSound(o)'
  BY <1>2, LessonsAre DEF SheetIsSound, SheetStays, RegisterGrows
<1>4. Busy(o) => sheet[o].lesson \in HeldLessons /\ sheet[o].lesson.date \in Dates
  BY <1>2, LessonsAre DEF SheetIsSound
<1>5. ASSUME NEW s \in Learners, wrote[o][s] # Nil
      PROVE  FlushIsSound(o, s)' /\ Busy(o)
  <2>1. FlushIsSound(o, s) /\ Busy(o)
    BY <1>5 DEF RequestIsSound, FlushIsSound
  <2>2. Entry(o, s)' = Entry(o, s)
    BY DEF Entry, SheetStays
  <2> QED
    BY <1>1, <1>4, <2>1, <2>2 DEF FlushIsSound, SheetStays, RegisterGrows
<1>6. AbsenceIsUnderway(o)'
  BY <1>4, <1>5 DEF RequestIsSound, AbsenceIsUnderway, SheetStays, RegisterGrows
<1>7. \A s \in Learners : wrote'[o][s] # Nil => FlushIsSound(o, s)'
  BY <1>5 DEF SheetStays
<1> QED
  BY <1>1, <1>3, <1>6, <1>7 DEF RequestIsSound, SheetStays, Blank

\* Steps that concern no sheet: time, and the topics' awards.
LEMMA AttendanceStays ==
  ASSUME AInv, XpInv, XpInv', XpGrows, UNCHANGED avars, now' >= now,
         \A t \in Teachers : limit = 1 /\ Busy(t) => profile' = profile
  PROVE  AInv'
<1>1. /\ UNCHANGED <<attendance, told, bare, sheet, todo, where, wrote, fresh, loaded, earned>>
      /\ now \in Nat /\ now' \in Nat /\ limit' = limit
  BY DEF avars, submission, XpInv, XpGrows
<1>2. RegisterGrows /\ \A o \in Teachers : SheetStays(o)
  BY <1>1 DEF RegisterGrows, SheetStays
<1>3. \A o \in Teachers : RequestIsSound(o)' /\ (Busy(o)' <=> Busy(o))
  BY <1>1, <1>2, OtherSheetStays DEF AInv
<1>4. ASSUME NEW o \in Teachers
      PROVE  AwardsAreSound(loaded[o], earned[o], XpLesson)'
  <2> SUFFICES ASSUME NEW l, l = loaded[o], NEW n, n = earned[o]
               PROVE  AwardsAreSound(l, n, XpLesson)'
    BY <1>1
  <2>1. AwardsAreSound(l, n, XpLesson)
    BY DEF AInv, AwardsOfSheets
  <2>2. \A s \in Learners : n[s] # Nil => Busy(o)
    <3>1. RequestIsSound(o)
      BY DEF AInv
    <3>2. ~Busy(o) => n = [s \in Learners |-> Nil]
      BY <3>1 DEF RequestIsSound, Blank
    <3> QED
      BY <3>2
  <2> QED
    BY <2>1, <2>2, AwardsStaySound
<1>5. TablesAreSound' /\ RequestsAreKept' /\ AbsenceIsTold'
  BY <1>1 DEF AInv, TablesAreSound, RequestsAreKept, AbsenceIsTold
<1>6. LateIsLate'
  BY <1>1, LessonsAre DEF AInv, LateIsLate
<1> QED
  BY <1>1, <1>3, <1>4, <1>5, <1>6 DEF AInv, AwardsOfSheets, OneSheet

\* A step of one request before its COMMIT.
LEMMA SheetMoves ==
  ASSUME AInv, XpInv, NEW t \in Teachers, UNCHANGED <<now, limit, xp, attendance, told, bare>>,
         \A o \in Teachers \ {t} : SheetStays(o), RequestsAreKept',
         RequestIsSound(t)', AwardsAreSound(loaded[t], earned[t], XpLesson)',
         limit = 1 /\ Busy(t)' => Busy(t) \/ \A o \in Teachers \ {t} : ~Busy(o)
  PROVE  AInv' /\ XpInv'
<1>1. now \in Nat /\ now' = now /\ limit' = limit /\ profile' = profile /\ xpLog' = xpLog
  BY DEF XpInv, xp
<1>2. RegisterGrows
  BY <1>1 DEF RegisterGrows
<1>3. \A o \in Teachers \ {t} : RequestIsSound(o)' /\ (Busy(o)' <=> Busy(o))
  BY <1>1, <1>2, OtherSheetStays DEF AInv
<1>4. XpInv' /\ XpGrows
  BY <1>1, XpStays
<1>5. ASSUME NEW o \in Teachers \ {t}
      PROVE  AwardsAreSound(loaded[o], earned[o], XpLesson)'
  <2> SUFFICES ASSUME NEW l, l = loaded[o], NEW n, n = earned[o]
               PROVE  AwardsAreSound(l, n, XpLesson)'
    BY DEF SheetStays
  <2>1. AwardsAreSound(l, n, XpLesson)
    BY DEF AInv, AwardsOfSheets
  <2> QED
    BY <1>1, <1>4, <2>1, AwardsStaySound
<1>6. AwardsOfSheets'
  BY <1>5 DEF AwardsOfSheets
<1>7. TablesAreSound' /\ AbsenceIsTold' /\ LateIsLate'
  BY <1>1 DEF AInv, TablesAreSound, AbsenceIsTold, LateIsLate
<1>8. OneSheet'
  BY <1>1, <1>3 DEF AInv, OneSheet
<1> QED
  BY <1>3, <1>4, <1>6, <1>7, <1>8 DEF AInv

-----------------------------------------------------------------------------

\* A new sheet.
LEMMA SubmitStep ==
  ASSUME AInv, XpInv, NEW t \in Teachers, NEW h \in Sheets, SubmitAttendance(t, h)
  PROVE  AInv' /\ XpInv'
<1>1. /\ where[t].at = "idle" /\ Cardinality(Others(t)) < limit
      /\ sheet' = [sheet EXCEPT ![t] = [lesson |-> h.lesson, marks |-> h.marks, teacher |-> h.teacher,
                                       isLate |-> IsLateSubmission(h.lesson)]]
      /\ todo' = [todo EXCEPT ![t] = DOMAIN h.marks]
      /\ where' = [where EXCEPT ![t] = [at |-> "next", student |-> Nil]]
      /\ UNCHANGED <<now, limit, xp, attendance, told, bare, wrote, fresh, loaded, earned>>
  BY DEF SubmitAttendance, Goto
<1>2. /\ sheet = [o \in Teachers |-> sheet[o]] /\ todo = [o \in Teachers |-> todo[o]]
      /\ where = [o \in Teachers |-> where[o]]
  BY DEF AInv, RequestsAreKept
<1>3. /\ sheet'[t] = [lesson |-> h.lesson, marks |-> h.marks, teacher |-> h.teacher,
                      isLate |-> IsLateSubmission(h.lesson)]
      /\ todo'[t] = DOMAIN h.marks /\ where'[t] = [at |-> "next", student |-> Nil]
      /\ fresh'[t] = fresh[t] /\ wrote'[t] = wrote[t] /\ loaded'[t] = loaded[t] /\ earned'[t] = earned[t]
  BY <1>1, <1>2
<1>4. \A o \in Teachers \ {t} : SheetStays(o)
  BY <1>1, <1>2 DEF SheetStays
<1>5. RequestsAreKept'
  BY <1>1, <1>2 DEF AInv, RequestsAreKept
<1>6. ~Busy(t) /\ Busy(t)'
  BY <1>1, <1>3 DEF Busy
<1>7. RequestIsSound(t) /\ \A s \in Learners : wrote[t][s] = Nil
  BY <1>6 DEF AInv, RequestIsSound, FlushIsSound
<1>8. SheetIsSound(t)'
  <2>1. now \in Nat /\ now' = now
    BY <1>1 DEF XpInv
  <2>2. /\ h.lesson \in HeldLessons /\ h.teacher \in BOOLEAN /\ DOMAIN h.marks \subseteq Learners
        /\ \A s \in DOMAIN h.marks : h.marks[s] \in Statuses
    BY SchoolAssumption
  <2>3. h.lesson.deadline \in Int /\ UtcOffset \in Nat
    BY <2>2, LessonsAre
  <2>4. IsLateSubmission(h.lesson) \in BOOLEAN /\ (IsLateSubmission(h.lesson) => now > h.lesson.deadline)
    BY <2>1, <2>3 DEF IsLateSubmission
  <2> QED
    BY <1>3, <2>1, <2>2, <2>4 DEF SheetIsSound
<1>9. RequestIsSound(t)'
  BY <1>3, <1>6, <1>7, <1>8 DEF RequestIsSound, AbsenceIsUnderway
<1>10. AwardsAreSound(loaded[t], earned[t], XpLesson)'
  BY <1>3, <1>6, <1>7 DEF RequestIsSound, Blank, AwardsAreSound
<1>11. limit = 1 => \A o \in Teachers \ {t} : ~Busy(o)
  <2>1. Others(t) \subseteq Teachers /\ IsFiniteSet(Teachers)
    BY SchoolAssumption DEF Others
  <2>2. IsFiniteSet(Others(t))
    BY <2>1, FS_Subset
  <2>3. Cardinality(Others(t)) \in Nat /\ (Cardinality(Others(t)) = 0 <=> Others(t) = {})
    BY <2>2, FS_CardinalityType, FS_EmptySet
  <2> QED
    BY <1>1, <2>3 DEF Others
<1> QED
  BY <1>1, <1>4, <1>5, <1>9, <1>10, <1>11, SheetMoves

\* The row of the next student.
LEMMA FindRowStep ==
  ASSUME AInv, XpInv, NEW t \in Teachers, NEW s \in Learners, FindRow(t, s)
  PROVE  AInv' /\ XpInv'
<1> DEFINE row == attendance[sheet[t].lesson][s]
           w   == [old |-> row, new |-> Entry(t, s)]
<1>1. /\ where[t].at = "next" /\ s \in todo[t]
      /\ todo' = [todo EXCEPT ![t] = @ \ {s}]
      /\ wrote' = [wrote EXCEPT ![t][s] = w]
      /\ where' = [where EXCEPT ![t] = [at |-> IF row = Nil THEN "missing" ELSE "written", student |-> s]]
      /\ UNCHANGED <<now, limit, xp, attendance, told, bare, sheet, fresh, loaded, earned>>
  BY DEF FindRow, Goto
<1> HIDE DEF w
<1>2. /\ todo = [o \in Teachers |-> todo[o]] /\ where = [o \in Teachers |-> where[o]]
      /\ wrote = [o \in Teachers |-> [x \in Learners |-> wrote[o][x]]]
  BY DEF AInv, RequestsAreKept
<1>3. /\ todo'[t] = todo[t] \ {s} /\ where'[t].student = s /\ where'[t].at \in {"missing", "written"}
      /\ where'[t] = [at |-> where'[t].at, student |-> where'[t].student]
      /\ wrote'[t] = [x \in Learners |-> IF x = s THEN w ELSE wrote[t][x]]
      /\ sheet'[t] = sheet[t] /\ fresh'[t] = fresh[t] /\ loaded'[t] = loaded[t] /\ earned'[t] = earned[t]
  BY <1>1, <1>2
<1>4. \A o \in Teachers \ {t} : SheetStays(o)
  BY <1>1, <1>2 DEF SheetStays
<1>5. RequestsAreKept'
  <2>1. wrote' = [o \in Teachers |-> [x \in Learners |-> wrote'[o][x]]]
    BY <1>1, <1>2
  <2>2. todo' = [o \in Teachers |-> todo'[o]] /\ where' = [o \in Teachers |-> where'[o]]
    BY <1>1, <1>2
  <2> QED
    BY <1>1, <2>1, <2>2 DEF AInv, RequestsAreKept
<1>6. Busy(t) /\ Busy(t)' /\ RequestIsSound(t)
  BY <1>1, <1>3 DEF Busy, AInv
<1>7. SheetIsSound(t)
  BY <1>6 DEF RequestIsSound
<1>8. SheetIsSound(t)'
  BY <1>1, <1>3, <1>7 DEF SheetIsSound
<1>9. \A x \in Learners : Entry(t, x)' = Entry(t, x)
  BY <1>3 DEF Entry
<1>10. ASSUME NEW x \in Learners, wrote'[t][x] # Nil
       PROVE  FlushIsSound(t, x)'
  <2>1. CASE x = s
    <3>1. wrote'[t][x] = w /\ w = [old |-> w.old, new |-> Entry(t, x)] /\ w.old = row
      BY <1>3, <2>1 DEF w
    <3>2. row \in Mark /\ s \in DOMAIN sheet[t].marks
      BY <1>1, <1>7 DEF AInv, TablesAreSound, SheetIsSound
    <3> QED
      BY <1>1, <1>3, <1>6, <1>9, <2>1, <3>1, <3>2 DEF FlushIsSound
  <2>2. CASE x # s
    <3>1. wrote'[t][x] = wrote[t][x] /\ FlushIsSound(t, x)
      BY <1>3, <1>6, <1>10, <2>2 DEF RequestIsSound
    <3> QED
      BY <1>1, <1>3, <1>6, <1>9, <3>1 DEF FlushIsSound
  <2> QED
    BY <2>1, <2>2
<1>11. AbsenceIsUnderway(t)'
  BY <1>1, <1>3, <1>6 DEF RequestIsSound, AbsenceIsUnderway
<1>12. RequestIsSound(t)'
  BY <1>3, <1>6, <1>8, <1>10, <1>11 DEF RequestIsSound
<1>13. AwardsAreSound(loaded[t], earned[t], XpLesson)'
  <2>1. AwardsAreSound(loaded[t], earned[t], XpLesson)
    BY DEF AInv, AwardsOfSheets
  <2> QED
    BY <1>1, <2>1 DEF AwardsAreSound, AwardIsSound, xp, Today
<1> QED
  BY <1>1, <1>4, <1>5, <1>6, <1>12, <1>13, SheetMoves

\* A step within a sheet: the request goes on to another place with the same student
\* or is done with him, having inserted no less than before.
LEMMA WithinSheet ==
  ASSUME AInv, XpInv, NEW t \in Teachers, NEW at \in {"next", "written"}, NEW who,
         UNCHANGED <<now, limit, xp, attendance, told, bare, sheet, todo, wrote>>,
         Busy(t), where[t].at # "next", where' = [where EXCEPT ![t] = [at |-> at, student |-> who]],
         at # "next" => who = where[t].student,
         \A o \in Teachers \ {t} : fresh'[o] = fresh[o] /\ loaded'[o] = loaded[o] /\ earned'[o] = earned[o],
         fresh' = [o \in Teachers |-> fresh'[o]],
         loaded' = [o \in Teachers |-> [x \in Learners |-> loaded'[o][x]]],
         earned' = [o \in Teachers |-> [x \in Learners |-> earned'[o][x]]],
         fresh'[t] = [row |-> fresh'[t].row, key |-> fresh'[t].key], fresh[t].key \subseteq fresh'[t].key,
         AwardsAreSound(loaded[t], earned[t], XpLesson)',
         at = "next" =>
           LET s == where[t].student
           IN  sheet[t].marks[s] = "absent" /\ sheet[t].teacher =>
                 told[sheet[t].lesson.date][s] # Nil \/ s \in fresh'[t].key
  PROVE  AInv' /\ XpInv'
<1>1. /\ where = [o \in Teachers |-> where[o]] /\ RequestsAreKept /\ RequestIsSound(t)
  BY DEF AInv, RequestsAreKept
<1>2. /\ where'[t] = [at |-> at, student |-> who] /\ \A o \in Teachers \ {t} : where'[o] = where[o]
      /\ sheet'[t] = sheet[t] /\ todo'[t] = todo[t] /\ wrote'[t] = wrote[t]
  BY <1>1
<1>3. \A o \in Teachers \ {t} : SheetStays(o)
  BY <1>2 DEF SheetStays
<1>4. RequestsAreKept'
  BY <1>1, <1>2 DEF RequestsAreKept
<1>5. Busy(t)'
  BY <1>2 DEF Busy
<1>6. SheetIsSound(t)
  BY <1>1 DEF RequestIsSound
<1>7. SheetIsSound(t)'
  BY <1>2, <1>6 DEF SheetIsSound
<1>8. ASSUME NEW x \in Learners, wrote[t][x] # Nil
      PROVE  FlushIsSound(t, x)' /\ wrote[t][x].new.status = sheet[t].marks[x]
  <2>1. FlushIsSound(t, x)
    BY <1>1, <1>8 DEF RequestIsSound
  <2>2. Entry(t, x)' = Entry(t, x) /\ Entry(t, x).status = sheet[t].marks[x]
    BY DEF Entry
  <2>3. wrote[t][x].new.status = sheet[t].marks[x]
    BY <2>1, <2>2 DEF FlushIsSound
  <2> QED
    BY <1>2, <1>5, <2>1, <2>2, <2>3 DEF FlushIsSound
<1>9. AbsenceIsUnderway(t)'
  BY <1>1, <1>2, <1>8 DEF RequestIsSound, AbsenceIsUnderway
<1>10. RequestIsSound(t)'
  BY <1>2, <1>5, <1>7, <1>8, <1>9 DEF RequestIsSound
<1> QED
  BY <1>3, <1>4, <1>10, SheetMoves

\* The steps of a student: his row, his award, the message to his parents.
LEMMA StudentStep ==
  ASSUME AInv, XpInv, NEW t \in Teachers,
         InsertRow(t) \/ AwardXp(t) \/ NotifyParentAbsent(t) \/ Excused(t)
  PROVE  AInv' /\ XpInv'
<1> DEFINE s == where[t].student
<1>1. /\ where = [o \in Teachers |-> where[o]] /\ fresh = [o \in Teachers |-> fresh[o]]
      /\ loaded = [o \in Teachers |-> [x \in Learners |-> loaded[o][x]]]
      /\ earned = [o \in Teachers |-> [x \in Learners |-> earned[o][x]]]
      /\ fresh[t] = [row |-> fresh[t].row, key |-> fresh[t].key]
      /\ where[t].at \in {"missing", "written"}
  BY DEF AInv, RequestsAreKept, RequestIsSound, InsertRow, AwardXp, NotifyParentAbsent, Excused, Says
<1>2. Busy(t) /\ SheetIsSound(t) /\ s \in Learners
  <2>1. Busy(t)
    BY <1>1 DEF Busy
  <2>2. SheetIsSound(t)
    BY <2>1 DEF AInv, RequestIsSound
  <2> QED
    BY <1>1, <2>1, <2>2 DEF SheetIsSound
<1>3. AwardsAreSound(loaded[t], earned[t], XpLesson)
  BY DEF AInv, AwardsOfSheets
<1>4. ASSUME UNCHANGED <<now, limit, xp, loaded, earned>>
      PROVE  AwardsAreSound(loaded[t], earned[t], XpLesson)'
  BY <1>3, <1>4 DEF AwardsAreSound, AwardIsSound, xp, Today
<1>5. CASE InsertRow(t)
  <2>1. /\ UNCHANGED <<now, limit, xp, attendance, told, bare, sheet, todo, wrote, loaded, earned>>
        /\ where' = [where EXCEPT ![t] = [at |-> "written", student |-> s]]
        /\ fresh' = [fresh EXCEPT ![t].row = @ \cup {s}]
    BY <1>5 DEF InsertRow, Goto
  <2>2. /\ fresh' = [o \in Teachers |-> fresh'[o]] /\ \A o \in Teachers \ {t} : fresh'[o] = fresh[o]
        /\ fresh'[t] = [row |-> fresh'[t].row, key |-> fresh'[t].key] /\ fresh'[t].key = fresh[t].key
        /\ fresh[t].key \subseteq fresh'[t].key
        /\ loaded' = [o \in Teachers |-> [x \in Learners |-> loaded'[o][x]]]
        /\ earned' = [o \in Teachers |-> [x \in Learners |-> earned'[o][x]]]
    BY <1>1, <2>1
  <2>3. AwardsAreSound(loaded[t], earned[t], XpLesson)'
    BY <1>4, <2>1
  <2> QED
    BY <1>1, <1>2, <2>1, <2>2, <2>3, WithinSheet
<1>6. CASE AwardXp(t)
  <2> DEFINE a == Awarded(profile[s], XpLesson)
  <2>1. /\ UNCHANGED <<now, limit, xp, attendance, told, bare, sheet, todo, wrote, fresh>>
        /\ where' = [where EXCEPT ![t] = [at |-> "next", student |-> Nil]]
        /\ loaded' = [loaded EXCEPT ![t][s] = profile[s]] /\ earned' = [earned EXCEPT ![t][s] = a]
        /\ sheet[t].marks[s] # "absent"
    BY <1>6 DEF AwardXp, Goto, Says
  <2>2. AwardIsSound(s, profile[s], a, XpLesson)
    BY <1>2, LessonsAre, AwardType
  <2> HIDE DEF a
  <2>3. /\ \A o \in Teachers \ {t} : loaded'[o] = loaded[o] /\ earned'[o] = earned[o]
        /\ loaded'[t] = [x \in Learners |-> IF x = s THEN profile[s] ELSE loaded[t][x]]
        /\ earned'[t] = [x \in Learners |-> IF x = s THEN a ELSE earned[t][x]]
        /\ loaded' = [o \in Teachers |-> [x \in Learners |-> loaded'[o][x]]]
        /\ earned' = [o \in Teachers |-> [x \in Learners |-> earned'[o][x]]]
    BY <1>1, <1>2, <2>1
  <2>4. AwardsAreSound(loaded[t], earned[t], XpLesson)'
    <3> SUFFICES ASSUME NEW l, l = loaded'[t], NEW n, n = earned'[t]
                 PROVE  AwardsAreSound(l, n, XpLesson)'
      OBVIOUS
    <3>1. ASSUME NEW x \in Learners, n[x] # Nil
          PROVE  AwardIsSound(x, l[x], n[x], XpLesson)
      <4>1. CASE x = s
        BY <2>2, <2>3, <4>1
      <4>2. CASE x # s
        BY <1>3, <2>3, <3>1, <4>2 DEF AwardsAreSound
      <4> QED
        BY <4>1, <4>2
    <3> QED
      BY <2>1, <3>1 DEF AwardsAreSound, AwardIsSound, xp, Today
  <2> QED
    BY <1>1, <1>2, <2>1, <2>3, <2>4, WithinSheet
<1>7. CASE NotifyParentAbsent(t)
  <2> DEFINE d     == sheet[t].lesson.date
             first == sheet[t].teacher /\ KeyAge(d, s) = Nil
  <2>1. /\ UNCHANGED <<now, limit, xp, attendance, told, bare, sheet, todo, wrote, loaded, earned>>
        /\ where' = [where EXCEPT ![t] = [at |-> "next", student |-> Nil]]
        /\ fresh' = [fresh EXCEPT ![t].key = IF first THEN @ \cup {s} ELSE @]
    BY <1>7 DEF NotifyParentAbsent, Goto
  <2>2. sheet[t].teacher => told[d][s] # Nil \/ first
    BY DEF KeyAge
  <2> HIDE DEF first, d
  <2>3. /\ fresh' = [o \in Teachers |-> fresh'[o]] /\ \A o \in Teachers \ {t} : fresh'[o] = fresh[o]
        /\ fresh'[t] = [row |-> fresh'[t].row, key |-> fresh'[t].key]
        /\ fresh'[t].key = IF first THEN fresh[t].key \cup {s} ELSE fresh[t].key
        /\ fresh[t].key \subseteq fresh'[t].key
        /\ loaded' = [o \in Teachers |-> [x \in Learners |-> loaded'[o][x]]]
        /\ earned' = [o \in Teachers |-> [x \in Learners |-> earned'[o][x]]]
    BY <1>1, <2>1
  <2>4. AwardsAreSound(loaded[t], earned[t], XpLesson)'
    BY <1>4, <2>1
  <2>5. sheet[t].teacher => told[sheet[t].lesson.date][s] # Nil \/ s \in fresh'[t].key
    BY <2>2, <2>3 DEF d
  <2> QED
    BY <1>1, <1>2, <2>1, <2>3, <2>4, <2>5, WithinSheet
<1>8. CASE Excused(t)
  <2>1. /\ UNCHANGED <<now, limit, xp, attendance, told, bare, sheet, todo, wrote, fresh, loaded, earned>>
        /\ where' = [where EXCEPT ![t] = [at |-> "next", student |-> Nil]]
        /\ sheet[t].marks[s] # "absent"
    BY <1>8 DEF Excused, Goto, Says
  <2>2. AwardsAreSound(loaded[t], earned[t], XpLesson)'
    BY <1>4, <2>1
  <2> QED
    BY <1>1, <1>2, <2>1, <2>2, WithinSheet
<1> QED
  BY <1>5, <1>6, <1>7, <1>8

-----------------------------------------------------------------------------

\* A request that ends holds nothing.
LEMMA FinishEnds ==
  ASSUME AInv, NEW t \in Teachers, Finish(t)
  PROVE  /\ \A o \in Teachers \ {t} : SheetStays(o)
         /\ RequestsAreKept' /\ RequestIsSound(t)' /\ ~Busy(t)'
         /\ AwardsAreSound(loaded[t], earned[t], XpLesson)'
<1>1. RequestsAreKept
  BY DEF AInv
<1>2. /\ sheet'[t] = Nil /\ todo'[t] = {} /\ wrote'[t] = Blank(Nil) /\ fresh'[t] = NoLocks
      /\ earned'[t] = Blank(Nil) /\ where'[t] = [at |-> "over", student |-> Nil]
  BY <1>1 DEF Finish, Goto, RequestsAreKept
<1>3. \A o \in Teachers \ {t} : SheetStays(o)
  BY <1>1 DEF Finish, Goto, RequestsAreKept, SheetStays
<1>4. RequestsAreKept'
  <2>1. Blank(Nil) = [x \in Learners |-> Nil]
    BY DEF Blank
  <2>2. /\ wrote' = [o \in Teachers |-> [x \in Learners |-> wrote'[o][x]]]
        /\ loaded' = [o \in Teachers |-> [x \in Learners |-> loaded'[o][x]]]
        /\ earned' = [o \in Teachers |-> [x \in Learners |-> earned'[o][x]]]
    BY <1>1, <2>1 DEF Finish, RequestsAreKept
  <2>3. /\ sheet' = [o \in Teachers |-> sheet'[o]] /\ todo' = [o \in Teachers |-> todo'[o]]
        /\ where' = [o \in Teachers |-> where'[o]] /\ fresh' = [o \in Teachers |-> fresh'[o]]
    BY <1>1 DEF Finish, Goto, RequestsAreKept
  <2> QED
    BY <2>2, <2>3 DEF RequestsAreKept
<1>5. ~Busy(t)'
  BY <1>2 DEF Busy
<1>6. RequestIsSound(t)'
  BY <1>2, <1>5 DEF RequestIsSound, AbsenceIsUnderway, Blank, NoLocks
<1>7. AwardsAreSound(loaded[t], earned[t], XpLesson)'
  BY <1>2 DEF AwardsAreSound, Blank
<1> QED
  BY <1>3, <1>4, <1>5, <1>6, <1>7

\* An error or a crash before the COMMIT.
LEMMA AbortSheetStep ==
  ASSUME AInv, XpInv, NEW t \in Teachers, AbortSheet(t)
  PROVE  AInv' /\ XpInv'
BY FinishEnds, SheetMoves DEF AbortSheet

\* A row after a COMMIT that wrote it.
LEMMA RowSaved ==
  ASSUME NEW r \in Mark, NEW old \in Mark, NEW n \in Row, old # Nil => r # Nil
  PROVE  /\ Written(r, old, n) \in Row
         /\ Written(r, old, n).status = "absent" => n.status = "absent" \/ (r # Nil /\ r.status = "absent")
         /\ Written(r, old, n).late => n.late \/ (r # Nil /\ r.late)
<1>1. n = [status |-> n.status, late |-> n.late] /\ DOMAIN n = {"status", "late"}
  BY DEF Row
<1>2. CASE old = Nil
  BY <1>2 DEF Written
<1>3. CASE old # Nil
  <2>1. r \in Row
    BY <1>3 DEF Mark
  <2> DEFINE w == Written(r, old, n)
  <2>2. w = [c \in {"status", "late"} |-> IF n[c] = old[c] THEN r[c] ELSE n[c]]
    BY <1>1, <1>3 DEF Written
  <2> HIDE DEF w
  <2>3. w.status \in {r.status, n.status} /\ w.late \in {r.late, n.late}
    BY <2>2
  <2>4. w = [status |-> w.status, late |-> w.late]
    BY <2>2
  <2>5. w \in Row
    BY <2>1, <2>3, <2>4 DEF Row
  <2> QED
    BY <1>3, <2>1, <2>3, <2>5 DEF Row, w
<1> QED
  BY <1>2, <1>3

\* The COMMIT makes rows, keys and awards visible together.
LEMMA CommitSheetStep ==
  ASSUME AInv, XpInv, NEW t \in Teachers, CommitSheet(t)
  PROVE  AInv' /\ XpInv'
<1> DEFINE l == sheet[t].lesson
           d == sheet[t].lesson.date
           w == wrote[t]
<1>1. /\ where[t].at = "next" /\ todo[t] = {}
      /\ attendance' = [attendance EXCEPT ![l] =
           [s \in Learners |-> IF w[s] = Nil THEN attendance[l][s]
                               ELSE Written(attendance[l][s], w[s].old, w[s].new)]]
      /\ told' = [told EXCEPT ![d] = [s \in Learners |-> IF s \in fresh[t].key THEN Today ELSE told[d][s]]]
      /\ bare' = IF sheet[t].teacher THEN bare
                 ELSE bare \cup {s \in Learners : w[s] # Nil /\ w[s].new.status = "absent"}
      /\ SaveAwards(loaded[t], earned[t], XpLesson) /\ Finish(t) /\ UNCHANGED <<now, limit>>
  BY DEF CommitSheet
<1>2. /\ Busy(t) /\ RequestIsSound(t) /\ SheetIsSound(t) /\ TablesAreSound
      /\ AwardsAreSound(loaded[t], earned[t], XpLesson)
  BY <1>1 DEF Busy, AInv, RequestIsSound, AwardsOfSheets
<1>3. /\ l \in HeldLessons /\ d \in Dates /\ now \in Nat /\ now' = now /\ limit' = limit
      /\ Today \in Nat /\ Today # Nil
  BY <1>1, <1>2, TodayIs, LessonsAre DEF SheetIsSound, XpInv
<1>4. XpInv' /\ XpGrows
  BY <1>1, <1>2, LessonsAre, SaveStep
<1>5. /\ \A o \in Teachers \ {t} : SheetStays(o)
      /\ RequestsAreKept' /\ RequestIsSound(t)' /\ ~Busy(t)'
      /\ AwardsAreSound(loaded[t], earned[t], XpLesson)'
  BY <1>1, FinishEnds
\* What it saves of a student.
<1>6. ASSUME NEW s \in Learners, w[s] # Nil
      PROVE  /\ w[s].old \in Mark /\ w[s].new \in Row /\ attendance[l][s] \in Mark
             /\ w[s].old # Nil => attendance[l][s] # Nil
             /\ w[s].new.late => now > l.deadline
             /\ w[s].new.status = "absent" /\ sheet[t].teacher => told[d][s] # Nil \/ s \in fresh[t].key
  <2>1. FlushIsSound(t, s)
    BY <1>2, <1>6 DEF RequestIsSound
  <2>2. Entry(t, s) \in Row /\ (Entry(t, s).late => now > l.deadline)
    BY <1>2, <2>1 DEF FlushIsSound, SheetIsSound, Entry, Row
  <2>3. w[s].new \in Row /\ (w[s].new.late => now > l.deadline)
    BY <2>1, <2>2 DEF FlushIsSound
  <2>4. attendance[l][s] \in Mark
    BY <1>2, <1>3 DEF TablesAreSound
  <2>5. w[s].new.status = "absent" /\ sheet[t].teacher => told[d][s] # Nil \/ s \in fresh[t].key
    BY <1>1, <1>2, <1>6 DEF RequestIsSound, AbsenceIsUnderway
  <2> QED
    BY <2>1, <2>3, <2>4, <2>5 DEF FlushIsSound
<1> DEFINE new(s) == Written(attendance[l][s], w[s].old, w[s].new)
<1>7. ASSUME NEW s \in Learners, w[s] # Nil
      PROVE  /\ new(s) \in Row
             /\ new(s).status = "absent" => w[s].new.status = "absent"
                                            \/ (attendance[l][s] # Nil /\ attendance[l][s].status = "absent")
             /\ new(s).late => w[s].new.late \/ (attendance[l][s] # Nil /\ attendance[l][s].late)
  BY <1>6, <1>7, RowSaved
<1>8. /\ attendance = [k \in HeldLessons |-> [s \in Learners |-> attendance[k][s]]]
      /\ told = [k \in Dates |-> [s \in Learners |-> told[k][s]]]
  BY <1>2 DEF TablesAreSound
<1>9. \A k \in HeldLessons, s \in Learners :
        attendance'[k][s] = IF k = l /\ w[s] # Nil THEN new(s) ELSE attendance[k][s]
  BY <1>1, <1>3, <1>8
<1>10. \A k \in Dates, s \in Learners :
         told'[k][s] = IF k = d /\ s \in fresh[t].key THEN Today ELSE told[k][s]
  BY <1>1, <1>3, <1>8
<1>11. /\ attendance' = [k \in HeldLessons |-> [s \in Learners |-> attendance'[k][s]]]
       /\ told' = [k \in Dates |-> [s \in Learners |-> told'[k][s]]]
  BY <1>1, <1>3, <1>8
<1> HIDE DEF new, w, d, l
<1>12. \A k \in HeldLessons, s \in Learners : attendance'[k][s] \in Mark
  BY <1>2, <1>7, <1>9 DEF TablesAreSound, Mark
<1>13. \A k \in Dates, s \in Learners : told'[k][s] \in Nat \cup {Nil}
  BY <1>2, <1>3, <1>10 DEF TablesAreSound
<1>14. TablesAreSound'
  <2>1. attendance' \in [HeldLessons -> [Learners -> Mark]]
    BY <1>11, <1>12
  <2>2. told' \in [Dates -> [Learners -> Nat \cup {Nil}]]
    BY <1>11, <1>13
  <2>3. bare' \subseteq Learners
    BY <1>1, <1>2 DEF TablesAreSound
  <2> QED
    BY <2>1, <2>2, <2>3 DEF TablesAreSound
<1>15. RegisterGrows
  <2>1. \A k \in HeldLessons, s \in Learners : attendance[k][s] # Nil => attendance'[k][s] # Nil
    BY <1>7, <1>9, LessonsAre
  <2>2. \A k \in Dates, s \in Learners : told[k][s] # Nil => told'[k][s] # Nil
    BY <1>3, <1>10
  <2> QED
    BY <1>3, <2>1, <2>2 DEF RegisterGrows
<1>16. \A o \in Teachers \ {t} : RequestIsSound(o)' /\ (Busy(o)' <=> Busy(o))
  BY <1>3, <1>5, <1>15, OtherSheetStays DEF AInv
<1>17. AbsenceIsTold'
  <2> SUFFICES ASSUME NEW k \in HeldLessons, NEW s \in Learners,
                      attendance'[k][s] # Nil, attendance'[k][s].status = "absent"
               PROVE  told'[k.date][s] # Nil \/ s \in bare'
    BY DEF AbsenceIsTold
  <2>1. k.date \in Dates
    BY LessonsAre
  <2>2. told[k.date][s] # Nil \/ s \in bare => told'[k.date][s] # Nil \/ s \in bare'
    BY <1>1, <1>15, <2>1 DEF RegisterGrows
  <2>3. attendance[k][s] # Nil /\ attendance[k][s].status = "absent" => told[k.date][s] # Nil \/ s \in bare
    BY DEF AInv, AbsenceIsTold
  <2>4. CASE k = l /\ w[s] # Nil
    <3>1. CASE w[s].new.status = "absent"
      <4>1. CASE sheet[t].teacher
        <5>1. told[d][s] # Nil \/ s \in fresh[t].key
          BY <1>6, <2>4, <3>1, <4>1
        <5>2. d = k.date
          BY <2>4 DEF d, l
        <5> QED
          BY <1>3, <1>10, <2>1, <5>1, <5>2
      <4>2. CASE ~sheet[t].teacher
        BY <1>1, <2>4, <3>1, <4>2
      <4> QED
        BY <4>1, <4>2
    <3>2. CASE w[s].new.status # "absent"
      BY <1>7, <1>9, <2>2, <2>3, <2>4, <3>2
    <3> QED
      BY <3>1, <3>2
  <2>5. CASE ~(k = l /\ w[s] # Nil)
    BY <1>9, <2>2, <2>3, <2>5
  <2> QED
    BY <2>4, <2>5
<1>18. LateIsLate'
  <2> SUFFICES ASSUME NEW k \in HeldLessons, NEW s \in Learners,
                      attendance'[k][s] # Nil, attendance'[k][s].late
               PROVE  now > k.deadline
    BY <1>3 DEF LateIsLate
  <2>1. attendance[k][s] # Nil /\ attendance[k][s].late => now > k.deadline
    BY DEF AInv, LateIsLate
  <2> QED
    BY <1>6, <1>7, <1>9, <2>1
<1>19. ASSUME NEW o \in Teachers
       PROVE  AwardsAreSound(loaded[o], earned[o], XpLesson)'
  <2>1. CASE o = t
    BY <1>5, <2>1
  <2>2. CASE o # t
    <3> SUFFICES ASSUME NEW a, a = loaded[o], NEW b, b = earned[o]
                 PROVE  AwardsAreSound(a, b, XpLesson)'
      BY <1>5, <2>2 DEF SheetStays
    <3>1. AwardsAreSound(a, b, XpLesson)
      BY DEF AInv, AwardsOfSheets
    <3>2. \A s \in Learners : b[s] # Nil => Busy(o)
      <4>1. RequestIsSound(o)
        BY DEF AInv
      <4>2. ~Busy(o) => b = [s \in Learners |-> Nil]
        BY <4>1 DEF RequestIsSound, Blank
      <4> QED
        BY <4>2
    <3>3. \A s \in Learners : limit = 1 /\ b[s] # Nil => profile'[s] = profile[s]
      BY <1>2, <2>2, <3>2 DEF AInv, OneSheet
    <3> QED
      BY <1>4, <3>1, <3>3, AwardsStaySound
  <2> QED
    BY <2>1, <2>2
<1>20. OneSheet'
  BY <1>3, <1>5, <1>16 DEF AInv, OneSheet
<1> QED
  BY <1>4, <1>5, <1>14, <1>16, <1>17, <1>18, <1>19, <1>20 DEF AInv, AwardsOfSheets

\* Every step of the attendance keeps its invariant and that of the profiles.
LEMMA AttendanceStep ==
  ASSUME AInv, XpInv, ANext
  PROVE  /\ AInv' /\ XpInv' /\ XpGrows /\ UNCHANGED <<now, limit>>
         /\ profile' = profile \/ \E t \in Teachers : Busy(t)
<1>1. PICK t \in Teachers :
        \/ \E h \in Sheets : SubmitAttendance(t, h)
        \/ \E s \in Learners : FindRow(t, s)
        \/ InsertRow(t) \/ AwardXp(t) \/ NotifyParentAbsent(t) \/ Excused(t)
        \/ CommitSheet(t) \/ AbortSheet(t)
  BY DEF ANext
<1>2. AInv' /\ XpInv'
  BY <1>1, SubmitStep, FindRowStep, StudentStep, CommitSheetStep, AbortSheetStep
<1>3. UNCHANGED <<now, limit>>
  BY <1>1 DEF SubmitAttendance, FindRow, InsertRow, AwardXp, NotifyParentAbsent, Excused, CommitSheet, AbortSheet
<1>4. CASE CommitSheet(t)
  <2>1. XpGrows
    BY <1>4, SaveStep, LessonsAre DEF CommitSheet, AInv, AwardsOfSheets
  <2>2. Busy(t)
    BY <1>4 DEF CommitSheet, Busy
  <2> QED
    BY <1>2, <1>3, <2>1, <2>2
<1>5. CASE ~CommitSheet(t)
  <2>1. UNCHANGED <<limit, xp, now>>
    BY <1>1, <1>5 DEF SubmitAttendance, FindRow, InsertRow, AwardXp, NotifyParentAbsent, Excused, AbortSheet
  <2>2. XpGrows /\ profile' = profile
    BY <2>1, XpStays DEF xp
  <2> QED
    BY <1>2, <1>3, <2>2
<1> QED
  BY <1>4, <1>5

\* Nothing is submitted at first.
LEMMA AttendanceStart ==
  ASSUME AInit, GInit
  PROVE  AInv /\ XpInv /\ \A t \in Teachers : ~Busy(t)
<1>1. \A t \in Teachers : ~Busy(t)
  BY DEF AInit, Busy
<1>2. \A t \in Teachers : wrote[t] = Blank(Nil) /\ earned[t] = Blank(Nil) /\ loaded[t] = Blank(Nil)
  BY DEF AInit
<1>3. \A t \in Teachers : RequestIsSound(t)
  BY <1>1, <1>2 DEF AInit, RequestIsSound, AbsenceIsUnderway, Blank, NoLocks
<1>4. TablesAreSound
  BY DEF AInit, TablesAreSound, Blank, Mark
<1>5. RequestsAreKept
  <2>1. Blank(Nil) = [s \in Learners |-> Nil]
    BY DEF Blank
  <2>2. /\ wrote = [t \in Teachers |-> [s \in Learners |-> wrote[t][s]]]
        /\ loaded = [t \in Teachers |-> [s \in Learners |-> loaded[t][s]]]
        /\ earned = [t \in Teachers |-> [s \in Learners |-> earned[t][s]]]
    BY <2>1 DEF AInit
  <2>3. /\ sheet = [t \in Teachers |-> sheet[t]] /\ todo = [t \in Teachers |-> todo[t]]
        /\ where = [t \in Teachers |-> where[t]] /\ fresh = [t \in Teachers |-> fresh[t]]
    BY DEF AInit
  <2> QED
    BY <2>2, <2>3 DEF RequestsAreKept
<1>6. AwardsOfSheets
  BY <1>2 DEF AwardsOfSheets, AwardsAreSound, Blank
<1>7. LateIsLate /\ AbsenceIsTold
  BY DEF AInit, LateIsLate, AbsenceIsTold, Blank
<1> QED
  BY <1>1, <1>3, <1>4, <1>5, <1>6, <1>7, XpStart DEF AInv, OneSheet

-----------------------------------------------------------------------------
(* The figures of the register *)

\* Tenths of a percent: everybody, nobody and somebody.
LEMMA PercentIs ==
  ASSUME NEW n \in Nat, NEW w \in Nat \ {0}
  PROVE  /\ Percent(n, w) = 1000 /\ n <= w /\ w < 2000 => n = w
         /\ Percent(n, w) = 1000 => n # 0
         /\ n # 0 /\ w <= 2000 => Percent(n, w) > 0
<1> DEFINE a == 2000 * n + w
           b == 2 * w
           q == a \div b
<1>1. a \in Nat /\ b \in Nat \ {0}
  OBVIOUS
<1> HIDE DEF a, b
<1>2. q \in Nat /\ q * b <= a /\ a < q * b + b
  BY <1>1, SMTT(30)
<1>3. Percent(n, w) = q
  BY DEF Percent, a, b
<1> HIDE DEF q
<1>4. ASSUME q = 1000 PROVE 2000 * n + w >= 2000 * w
  BY <1>2, <1>4 DEF a, b
<1>5. q = 0 => 2000 * n + w < 2 * w
  BY <1>2 DEF a, b
<1> QED
  BY <1>2, <1>3, <1>4, <1>5

\* Sets of students and lessons: they are counted, and not empty when somebody is in them.
LEMMA CountOf ==
  ASSUME NEW S, IsFiniteSet(S), NEW R \in SUBSET S
  PROVE  Cardinality(R) \in Nat /\ Cardinality(R) <= Cardinality(S) /\ (R # {} <=> Cardinality(R) > 0)
<1>1. IsFiniteSet(R)
  BY FS_Subset
<1>2. Cardinality(R) \in Nat /\ (Cardinality(R) = 0 <=> R = {})
  BY <1>1, FS_CardinalityType, FS_EmptySet
<1>3. Cardinality(R) <= Cardinality(S)
  BY FS_Subset
<1> QED
  BY <1>2, <1>3

\* What the endpoints show of a register that is sound does not contradict itself.
LEMMA FiguresOfRegister ==
  ASSUME TablesAreSound, Cardinality(HeldLessons) < 2000, Cardinality(Learners) <= 2000
  PROVE  FiguresAgree
<1> SUFFICES ASSUME NEW l \in HeldLessons, l.group \in GroupsOn[l.date], Members[l.group] # {}
    PROVE  /\ Summary(l).came <= StatsForDate(l.date).present
           /\ Summary(l).total > 0 => StatsForDate(l.date).marked > 0
           /\ \A s \in Learners : StudentHistory(s).percent = 1000 /\ attendance[l][s] # Nil
                => StatsForDate(l.date).present > 0 /\ Summary(l).percent > 0
  BY DEF FiguresAgree
<1> DEFINE d       == l.date
           entered == {s \in Learners : attendance[l][s] # Nil /\ attendance[l][s].status \in Statuses}
           came    == {s \in Learners : attendance[l][s] # Nil /\ attendance[l][s].status \in Came}
           held    == {k \in HeldLessons : k.date = d /\ k.group \in GroupsOn[d]}
           present == {s \in Learners : CameTo(held, s)}
           marked  == {k \in held : \E s \in Learners : attendance[k][s] # Nil}
<1>1. /\ Summary(l).total = Cardinality(entered) /\ Summary(l).came = Cardinality(came)
      /\ Summary(l).percent = Percent(Cardinality(came), Cardinality(entered))
  BY DEF Summary
<1>2. StatsForDate(d).present = Cardinality(present) /\ StatsForDate(d).marked = Cardinality(marked)
  <2>1. UNION {Members[g] : g \in GroupsOn[d]} # {}
    OBVIOUS
  <2> QED
    BY <2>1 DEF StatsForDate
<1>3. /\ Cardinality(entered) \in Nat /\ Cardinality(entered) <= 2000 /\ (entered # {} <=> Cardinality(entered) > 0)
      /\ Cardinality(came) \in Nat /\ (came # {} <=> Cardinality(came) > 0)
      /\ Cardinality(present) \in Nat
      /\ came \subseteq present => Cardinality(came) <= Cardinality(present)
      /\ marked # {} <=> Cardinality(marked) > 0
  <2>1. IsFiniteSet(Learners) /\ IsFiniteSet(HeldLessons)
    BY SchoolAssumption
  <2>2. entered \in SUBSET Learners /\ came \in SUBSET Learners /\ present \in SUBSET Learners
        /\ marked \in SUBSET HeldLessons
    OBVIOUS
  <2> HIDE DEF entered, came, present, marked
  <2>3. Cardinality(Learners) \in Nat
    BY <2>1, FS_CardinalityType
  <2>4. Cardinality(entered) \in Nat /\ Cardinality(entered) <= Cardinality(Learners)
        /\ (entered # {} <=> Cardinality(entered) > 0)
    BY <2>1, <2>2, CountOf
  <2>5. Cardinality(came) \in Nat /\ (came # {} <=> Cardinality(came) > 0)
    BY <2>1, <2>2, CountOf
  <2>6. Cardinality(present) \in Nat /\ (came \subseteq present => Cardinality(came) <= Cardinality(present))
    <3>1. IsFiniteSet(present)
      BY <2>1, <2>2, FS_Subset
    <3>2. came \in SUBSET present => Cardinality(came) <= Cardinality(present)
      BY <3>1, CountOf
    <3> QED
      BY <2>1, <2>2, <3>2, CountOf
  <2>7. marked # {} <=> Cardinality(marked) > 0
    BY <2>1, <2>2, CountOf
  <2> QED
    BY <2>3, <2>4, <2>5, <2>6, <2>7
<1>4. entered # {} => marked # {}
  BY DEF entered, marked
<1>5. came \subseteq present
  <2>1. l \in held
    OBVIOUS
  <2> QED
    BY <2>1 DEF CameTo, MarksOf
<1>6. came \subseteq entered
  BY DEF Came, Statuses
<1> HIDE DEF entered, came, present, marked, held
<1>7. came # {} => Cardinality(present) > 0
  BY <1>3, <1>5
<1>8. ASSUME NEW s \in Learners, StudentHistory(s).percent = 1000, attendance[l][s] # Nil
      PROVE  s \in came
  <2> DEFINE had == {k \in HeldLessons : attendance[k][s] # Nil}
             kept == {k \in had : attendance[k][s].status \in Came}
  <2>1. Percent(Cardinality(kept), Cardinality(had)) = 1000
    BY <1>8 DEF StudentHistory
  <2>2. had \in SUBSET HeldLessons /\ kept \in SUBSET had /\ l \in had /\ IsFiniteSet(HeldLessons)
    BY <1>8, SchoolAssumption
  <2>3. l \in kept => s \in came
    BY DEF came
  <2> HIDE DEF had, kept
  <2>4. IsFiniteSet(had) /\ IsFiniteSet(kept) /\ Cardinality(HeldLessons) \in Nat
    BY <2>2, FS_Subset, FS_CardinalityType
  <2>5. /\ Cardinality(had) \in Nat /\ Cardinality(had) <= Cardinality(HeldLessons) /\ Cardinality(had) > 0
    BY <2>2, CountOf
  <2>6. Cardinality(kept) \in Nat /\ Cardinality(kept) <= Cardinality(had)
    BY <2>2, <2>4, CountOf
  <2>7. Cardinality(had) < 2000
    BY <2>4, <2>5
  <2>8. Cardinality(kept) = Cardinality(had)
    BY <2>1, <2>5, <2>6, <2>7, PercentIs
  <2>9. kept = had
    BY <2>2, <2>4, <2>8, FS_Subset
  <2> QED
    BY <2>2, <2>3, <2>9
<1>9. came # {} => Summary(l).percent > 0
  <2>1. came # {} => Cardinality(came) # 0 /\ Cardinality(entered) # 0
    BY <1>3, <1>6
  <2>2. Cardinality(came) # 0 /\ Cardinality(entered) # 0
        => Percent(Cardinality(came), Cardinality(entered)) > 0
    BY <1>3, PercentIs
  <2> QED
    BY <1>1, <2>1, <2>2
<1> QED
  BY <1>1, <1>2, <1>3, <1>4, <1>5, <1>7, <1>8, <1>9

\* What the invariant says of the register.
LEMMA RegisterIsSound ==
  ASSUME AInv, Cardinality(HeldLessons) < 2000, Cardinality(Learners) <= 2000
  PROVE  RegisterAgrees
<1>1. TablesAreSound /\ LateIsLate /\ \A t \in Teachers : RequestIsSound(t)
  BY DEF AInv
<1>2. ASSUME NEW t \in Teachers PROVE todo[t] \subseteq Learners
  <2>1. RequestIsSound(t)
    BY <1>1
  <2> QED
    BY <2>1 DEF RequestIsSound, SheetIsSound
<1>3. ASSUME NEW t \in Teachers, NEW s \in Learners, wrote[t][s] # Nil
      PROVE  wrote[t][s].new \in Row
  <2>1. RequestIsSound(t)
    BY <1>1
  <2>2. FlushIsSound(t, s)
    BY <1>3, <2>1 DEF RequestIsSound
  <2>3. SheetIsSound(t)
    BY <2>1, <2>2 DEF RequestIsSound, FlushIsSound
  <2>4. Entry(t, s) \in Row
    BY <2>2, <2>3 DEF FlushIsSound, SheetIsSound, Entry, Row
  <2> QED
    BY <2>2, <2>4 DEF FlushIsSound
<1>4. ATypeOK
  BY <1>1, <1>2, <1>3 DEF ATypeOK, TablesAreSound
<1> QED
  BY <1>1, <1>4, FiguresOfRegister DEF RegisterAgrees

-----------------------------------------------------------------------------
(* The syllabus by itself: a topic is paid once *)

\* The syllabus by itself; profiles and the clock may change in every step.
SSpec == SInit /\ [][SNext]_svars

\* A request, for the students D and the indexes I it may hold.
Task(D, I) ==
  [at : {"idle", "over", "add", "next", "insert"}, topic : Topics \cup {Nil}, todo : D,
   student : Learners \cup {Nil}, index : I]

Shapes ==
  /\ done \in [Learners -> SUBSET Topics] /\ paid \in [Learners -> [Topics -> Nat]]
  /\ pending \in [Editors -> SUBSET Learners]
  /\ \E D, I : task \in [Editors -> Task(D, I)]
  /\ \A e \in Editors :
       /\ task[e].at \in {"next", "insert"} => task[e].topic \in Topics
       /\ task[e].at = "insert" => task[e].student \in Learners

\* A progress that is being inserted is new, to the table and to the others.
PendingIsNew ==
  \A e \in Editors :
    /\ pending[e] # {} => task[e].at \in {"next", "insert"}
    /\ \A s \in pending[e] : task[e].topic \notin done[s]
    /\ \A o \in Editors \ {e} : task[o].topic = task[e].topic => pending[o] \cap pending[e] = {}

\* The transactions are those of the rows, until the rows are deleted.
PaidIsDone ==
  IF status = "deleted"
  THEN /\ Kept = {} /\ \A e \in Editors : pending[e] = {}
       /\ \A s \in Learners : done[s] = {}
       /\ \A s \in Learners, t \in Topics : paid[s][t] <= 1
  ELSE \A s \in Learners, t \in Topics : paid[s][t] = IF t \in done[s] THEN 1 ELSE 0

SInv == Shapes /\ PendingIsNew /\ PaidIsDone

-----------------------------------------------------------------------------

\* What a request starts with, and one that is over.
LEMMA NoTaskType ==
  /\ NoTask \in Task({{}}, {0}) /\ NoTask.at = "idle"
  /\ [NoTask EXCEPT !.at = "over"] \in Task({{}}, {0})
  /\ [NoTask EXCEPT !.at = "over"].at = "over"
<1>1. NoTask \in Task({{}}, {0}) /\ NoTask.at = "idle"
  BY DEF NoTask, Task
<1> QED
  BY <1>1 DEF Task

\* A request goes on.
LEMMA TaskChange ==
  ASSUME Shapes, NEW e \in Editors, NEW D, NEW I, NEW r \in Task(D, I),
         task' = [task EXCEPT ![e] = r]
  PROVE  /\ \E J, N : task' \in [Editors -> Task(J, N)]
         /\ \A o \in Editors : task'[o] = IF o = e THEN r ELSE task[o]
<1>1. PICK J, N : task \in [Editors -> Task(J, N)]
  BY DEF Shapes
<1>2. \A x \in Task(J, N) \cup Task(D, I) : x \in Task(J \cup D, N \cup I)
  BY DEF Task
<1>3. task' \in [Editors -> Task(J \cup D, N \cup I)]
  BY <1>1, <1>2
<1> QED
  BY <1>1, <1>3

\* A step of a request that changes where it stands, takes back what it has
\* inserted or leaves it, and writes no row.
LEMMA TaskStep ==
  ASSUME SInv, UNCHANGED <<done, paid>>, NEW e \in Editors, NEW D, NEW I, NEW r \in Task(D, I),
         task' = [task EXCEPT ![e] = r],
         \/ pending' = pending /\ r.topic = task[e].topic /\ (r.at = task[e].at \/ r.at \in {"next", "insert"})
         \/ pending' = pending /\ pending[e] = {}
         \/ pending' = [pending EXCEPT ![e] = {}],
         r.at \in {"next", "insert"} => r.topic \in Topics,
         r.at = "insert" => r.student \in Learners,
         status' = status /\ (status = "deleted" => Kept' = {})
  PROVE  SInv'
<1>1. /\ \E J, N : task' \in [Editors -> Task(J, N)]
      /\ \A o \in Editors : task'[o] = IF o = e THEN r ELSE task[o]
  BY TaskChange DEF SInv
<1>2. /\ pending' \in [Editors -> SUBSET Learners]
      /\ \A o \in Editors : pending'[o] \subseteq pending[o]
      /\ pending'[e] = {} \/ (r.topic = task[e].topic /\ (r.at = task[e].at \/ r.at \in {"next", "insert"}))
  BY DEF SInv, Shapes
<1>3. Shapes'
  BY <1>1, <1>2 DEF SInv, Shapes
<1>4. PendingIsNew'
  BY <1>1, <1>2 DEF SInv, PendingIsNew
<1>5. PaidIsDone'
  BY <1>2 DEF SInv, PaidIsDone
<1> QED
  BY <1>3, <1>4, <1>5 DEF SInv

\* A step that writes topics or assignments of a syllabus that is not deleted.
LEMMA EditStep ==
  ASSUME SInv, UNCHANGED <<done, paid, pending, task>>, status # "deleted", status' # "deleted"
  PROVE  SInv'
BY DEF SInv, Shapes, PendingIsNew, PaidIsDone

\* The deletion of the syllabus keeps the invariant.
LEMMA DeleteStep ==
  ASSUME SInv, NEW e \in Editors, DeleteSyllabus(e)
  PROVE  SInv'
<1>1. /\ \A o \in Editors : pending[o] = {}
      /\ status' = "deleted" /\ topic' = [t \in Topics |-> Nil]
      /\ done' = [s \in Learners |-> {}] /\ UNCHANGED <<paid, pending, task>>
      /\ status # "deleted"
  BY DEF DeleteSyllabus, Edit, Unasked, open
<1>2. Kept' = {}
  BY <1>1 DEF Kept
<1>3. \A s \in Learners, t \in Topics : paid[s][t] \in {0, 1}
  BY <1>1 DEF SInv, PaidIsDone
<1>4. \A s \in Learners, t \in Topics : paid'[s][t] <= 1
  BY <1>1, <1>3
<1> QED
  BY <1>1, <1>2, <1>4 DEF SInv, Shapes, PendingIsNew, PaidIsDone

\* The INSERT, which the database refuses when another holds the same row.
LEMMA CompleteStep ==
  ASSUME SInv, NEW e \in Editors, CompleteTopic(e)
  PROVE  SInv'
<1> DEFINE s == task[e].student
           t == task[e].topic
           r == [task[e] EXCEPT !.at = "next"]
<1>1. /\ task[e].at = "insert" /\ t \in Kept /\ t \notin done[s]
      /\ \A o \in Editors \ {e} : task[o].topic = t => s \notin pending[o]
      /\ pending' = [pending EXCEPT ![e] = @ \cup {s}]
      /\ task' = [task EXCEPT ![e] = r]
      /\ UNCHANGED <<topic, status, done, paid>>
  BY DEF CompleteTopic, topicRows, SInv, Shapes
<1>2. s \in Learners /\ t \in Topics
  BY <1>1 DEF SInv, Shapes
<1>3. PICK D, I : r \in Task(D, I) /\ r.topic = t /\ r.at = "next"
  <2>1. PICK D, I : task[e] \in Task(D, I)
    BY DEF SInv, Shapes
  <2> QED
    BY <2>1 DEF Task
<1> HIDE DEF r
<1>4. /\ \E J, N : task' \in [Editors -> Task(J, N)]
      /\ \A o \in Editors : task'[o] = IF o = e THEN r ELSE task[o]
  BY <1>1, <1>3, TaskChange DEF SInv
<1>5. /\ pending' \in [Editors -> SUBSET Learners]
      /\ \A o \in Editors : pending'[o] = IF o = e THEN pending[e] \cup {s} ELSE pending[o]
  BY <1>1, <1>2 DEF SInv, Shapes
<1>6. Shapes'
  BY <1>1, <1>2, <1>3, <1>4, <1>5 DEF SInv, Shapes
<1>7. PendingIsNew'
  BY <1>1, <1>2, <1>3, <1>4, <1>5 DEF SInv, PendingIsNew
<1>8. PaidIsDone'
  <2>1. status # "deleted"
    BY <1>1 DEF SInv, PaidIsDone
  <2> QED
    BY <1>1, <2>1 DEF SInv, PaidIsDone
<1> QED
  BY <1>6, <1>7, <1>8 DEF SInv

\* COMMIT makes the inserted rows and their transactions visible together.
LEMMA CommitStep ==
  ASSUME SInv, NEW e \in Editors, CommitTopics(e)
  PROVE  SInv'
<1> DEFINE t == task[e].topic
           r == [NoTask EXCEPT !.at = "over"]
<1>1. /\ task[e].at = "next"
      /\ done' = [s \in Learners |-> IF s \in pending[e] THEN done[s] \cup {t} ELSE done[s]]
      /\ paid' = [s \in Learners |-> IF s \in pending[e] THEN [paid[s] EXCEPT ![t] = @ + 1]
                                     ELSE paid[s]]
      /\ task' = [task EXCEPT ![e] = r]
      /\ pending' = [pending EXCEPT ![e] = {}]
      /\ UNCHANGED <<topic, status>>
  BY DEF CommitTopics, Leave
<1>2. t \in Topics
  BY <1>1 DEF SInv, Shapes
<1>3. r \in Task({{}}, {0}) /\ r.at = "over"
  BY NoTaskType
<1> HIDE DEF r
<1>4. /\ \E J, N : task' \in [Editors -> Task(J, N)]
      /\ \A o \in Editors : task'[o] = IF o = e THEN r ELSE task[o]
  BY <1>1, <1>3, TaskChange DEF SInv
<1>5. /\ \A o \in Editors : task'[o] = IF o = e THEN r ELSE task[o]
      /\ pending' \in [Editors -> SUBSET Learners]
      /\ \A o \in Editors : pending'[o] = IF o = e THEN {} ELSE pending[o]
  BY <1>1, <1>4 DEF SInv, Shapes
<1>6. /\ done' \in [Learners -> SUBSET Topics]
      /\ paid' \in [Learners -> [Topics -> Nat]]
  BY <1>1, <1>2 DEF SInv, Shapes
<1>7. Shapes'
  BY <1>3, <1>5, <1>6, <1>4 DEF SInv, Shapes
<1>8. PendingIsNew'
  <2> SUFFICES ASSUME NEW o \in Editors \ {e}
               PROVE  /\ pending'[o] # {} => task'[o].at \in {"next", "insert"}
                      /\ \A s \in pending'[o] : task'[o].topic \notin done'[s]
                      /\ \A p \in Editors \ {o} : task'[p].topic = task'[o].topic
                           => pending'[p] \cap pending'[o] = {}
    BY <1>5 DEF PendingIsNew
  <2>1. pending'[o] = pending[o] /\ task'[o] = task[o] /\ pending[o] \subseteq Learners
    BY <1>5 DEF SInv, Shapes
  <2>2. \A s \in pending[o] : task[o].topic \notin done'[s]
    BY <1>1, <2>1 DEF SInv, PendingIsNew
  <2>3. ASSUME NEW p \in Editors \ {o}, task'[p].topic = task'[o].topic
        PROVE  pending'[p] \cap pending'[o] = {}
    BY <1>5, <2>1, <2>3 DEF SInv, PendingIsNew
  <2> QED
    BY <2>1, <2>2, <2>3 DEF SInv, PendingIsNew
<1>9. PaidIsDone'
  <2>1. CASE status = "deleted"
    <3>1. pending[e] = {}
      BY <2>1 DEF SInv, PaidIsDone
    <3>2. done' = done /\ paid' = paid
      BY <1>1, <3>1 DEF SInv, Shapes
    <3>3. Kept' = Kept
      BY <1>1 DEF Kept
    <3> QED
      BY <1>1, <1>5, <2>1, <3>2, <3>3 DEF SInv, PaidIsDone
  <2>2. CASE status # "deleted"
    <3> SUFFICES ASSUME NEW s \in Learners, NEW u \in Topics
                 PROVE  paid'[s][u] = IF u \in done'[s] THEN 1 ELSE 0
      BY <1>1, <2>2 DEF PaidIsDone
    <3>1. paid[s][u] = IF u \in done[s] THEN 1 ELSE 0
      BY <2>2 DEF SInv, PaidIsDone
    <3>2. s \in pending[e] => t \notin done[s]
      BY DEF SInv, PendingIsNew
    <3>3. paid[s] \in [Topics -> Nat]
      BY DEF SInv, Shapes
    <3> QED
      BY <1>1, <1>2, <3>1, <3>2, <3>3
  <2> QED
    BY <2>1, <2>2
<1> QED
  BY <1>7, <1>8, <1>9 DEF SInv

\* Every step preserves SInv.
LEMMA SyllabusStep == SInv /\ [SNext]_svars => SInv'
<1> SUFFICES ASSUME SInv, [SNext]_svars PROVE SInv'
  OBVIOUS
<1>1. CASE UNCHANGED svars
  BY <1>1 DEF svars, topicRows, open, SInv, Shapes, PendingIsNew, PaidIsDone, Kept
<1>2. ASSUME NEW e \in Editors, AbortTopics(e)
      PROVE  SInv'
  <2>1. Kept' = Kept
    BY <1>2 DEF AbortTopics, topicRows, Kept
  <2> QED
    BY <1>2, <2>1, NoTaskType, TaskStep DEF AbortTopics, Leave, topicRows, SInv, PaidIsDone
<1>3. ASSUME NEW e \in Editors, ReadMaxIndex(e) \/ \E t \in Topics, S \in Assignees : BulkComplete(e, t, S)
      PROVE  SInv'
  <2>1. /\ task[e].at = "idle" /\ UNCHANGED <<topicRows, pending>> /\ status # "deleted"
    <3>1. CASE ReadMaxIndex(e)
      BY <3>1 DEF ReadMaxIndex, Unasked
    <3>2. ASSUME NEW t \in Topics, NEW S, BulkComplete(e, t, S)
          PROVE  task[e].at = "idle" /\ UNCHANGED <<topicRows, pending>> /\ status # "deleted"
      BY <3>2 DEF BulkComplete, Unasked
    <3> QED
      BY <1>3, <3>1, <3>2
  <2>2. pending[e] = {}
    BY <2>1 DEF SInv, PendingIsNew
  <2>3. CASE ReadMaxIndex(e)
    <3> DEFINE r == [NoTask EXCEPT !.at = "add", !.index = MaxIndex + 1]
    <3>1. task' = [task EXCEPT ![e] = r]
      BY <2>3 DEF ReadMaxIndex
    <3>2. r \in Task({{}}, {MaxIndex + 1}) /\ r.at = "add"
      BY NoTaskType DEF Task
    <3> HIDE DEF r
    <3> QED
      BY <2>1, <2>2, <3>1, <3>2, TaskStep DEF topicRows
  <2>4. ASSUME NEW t \in Topics, NEW S, BulkComplete(e, t, S)
        PROVE  SInv'
    <3> DEFINE r == [NoTask EXCEPT !.at = "next", !.topic = t, !.todo = S]
    <3>1. task' = [task EXCEPT ![e] = r]
      BY <2>4 DEF BulkComplete
    <3>2. r \in Task({S}, {0}) /\ r.at = "next" /\ r.topic = t
      BY NoTaskType DEF Task
    <3> HIDE DEF r
    <3> QED
      BY <2>1, <2>2, <3>1, <3>2, TaskStep DEF topicRows
  <2> QED
    BY <1>3, <2>3, <2>4
<1>4. ASSUME NEW e \in Editors, NEW t \in Topics, AddTopic(e, t)
      PROVE  SInv'
  <2>1. /\ task[e].at = "add" /\ task' = [task EXCEPT ![e] = NoTask]
        /\ UNCHANGED <<done, paid, pending, status>> /\ status # "deleted"
    BY <1>4 DEF AddTopic
  <2>2. pending[e] = {}
    BY <2>1 DEF SInv, PendingIsNew
  <2> QED
    BY <2>1, <2>2, NoTaskType, TaskStep
<1>5. ASSUME NEW e \in Editors, NEW s \in Learners, CheckTopic(e, s)
      PROVE  SInv'
  <2>1. PICK at \in {"insert", "next"} :
          task' = [task EXCEPT ![e] = [task[e] EXCEPT !.todo = @ \ {s}, !.student = s, !.at = at]]
    BY <1>5 DEF CheckTopic, SInv, Shapes
  <2> DEFINE r == [task[e] EXCEPT !.todo = @ \ {s}, !.student = s, !.at = at]
  <2>2. /\ task[e].at = "next" /\ UNCHANGED <<topicRows, pending>> /\ Kept' = Kept
    BY <1>5 DEF CheckTopic, topicRows, Kept
  <2>3. PICK D, I : /\ r \in Task(D, I) /\ r.at = at
                    /\ r.topic = task[e].topic /\ r.student = s
    <3>1. PICK J, I : task[e] \in Task(J, I)
      BY DEF SInv, Shapes
    <3>2. /\ r \in Task({task[e].todo \ {s}}, I) /\ r.at = at
          /\ r.topic = task[e].topic /\ r.student = s
      BY <3>1 DEF Task
    <3> QED
      BY <3>2
  <2>4. task[e].topic \in Topics
    BY <2>2 DEF SInv, Shapes
  <2>5. task' = [task EXCEPT ![e] = r]
    BY <2>1
  <2> HIDE DEF r
  <2> QED
    BY <2>2, <2>3, <2>4, <2>5, TaskStep DEF topicRows, SInv, PaidIsDone
<1>6. ASSUME NEW e \in Editors,
             \/ \E t \in Topics : DeleteTopic(e, t) \/ \E i \in Places : AddTopicAt(e, t, i) \/ MoveTopic(e, t, i)
             \/ \E a, b \in Topics : ReorderTopics(e, <<a, b>>)
             \/ \E s \in {"active", "archived"} : UpdateSyllabus(e, s)
             \/ \E g \in Assignees : Assign(e, g) \/ Unassign(e, g)
      PROVE  SInv'
  <2>1. UNCHANGED <<done, paid, pending, task>> /\ status # "deleted" /\ status' # "deleted"
    BY <1>6 DEF DeleteTopic, AddTopicAt, MoveTopic, ReorderTopics, UpdateSyllabus, Assign, Unassign,
                Edit, Unasked, open
  <2> QED
    BY <2>1, EditStep
<1> QED
  BY <1>1, <1>2, <1>3, <1>4, <1>5, <1>6, DeleteStep, CompleteStep, CommitStep DEF SNext

\* Nothing is completed at first.
LEMMA SyllabusStart ==
  ASSUME SInit
  PROVE  SInv
<1>1. \E D, I : task \in [Editors -> Task(D, I)]
  BY NoTaskType DEF SInit
<1> QED
  BY <1>1, NoTaskType DEF SInit, SInv, Shapes, PendingIsNew, PaidIsDone

\* A topic is paid once for each student, and what is completed was paid.
THEOREM TopicPaidOnceCorrect == SSpec => []TopicIsPaidOnce
<1>1. SInv => TopicIsPaidOnce
  BY DEF SInv, PaidIsDone, TopicIsPaidOnce
<1> QED
  BY <1>1, SyllabusStart, SyllabusStep, PTL DEF SSpec

-----------------------------------------------------------------------------
(* The order of the topics, with the profiles they pay into *)

\* What the proofs use of the constants and of the invariant.
LEMMA TopicRows ==
  ASSUME TInv
  PROVE  /\ topic = [t \in Topics |-> topic[t]] /\ Kept \subseteq Topics
         /\ \A x \in [index : Int, active : BOOLEAN] : x # Nil
         /\ \A t \in Kept : topic[t] \in [index : Int, active : BOOLEAN] /\ At(t) \in Int
         /\ \A t \in Topics \ Kept : topic[t] = Nil
BY SchoolAssumption DEF TInv, TopicsAreSound, Kept, At

\* An award under way stays sound while another commits.
LEMMA TaskAwardsStay ==
  ASSUME XpInv, XpInv', XpGrows, NEW o \in Editors, TaskIsSound(o), SInv,
         limit = 1 /\ Underway(o) => profile' = profile,
         before'[o] = before[o], after'[o] = after[o]
  PROVE  AwardsAreSound(before[o], after[o], XpTopic)'
<1> SUFFICES ASSUME NEW l, l = before[o], NEW n, n = after[o]
             PROVE  AwardsAreSound(l, n, XpTopic)'
  OBVIOUS
<1>1. AwardsAreSound(l, n, XpTopic)
  BY DEF TaskIsSound
<1>2. \A s \in Learners : n[s] # Nil => Underway(o)
  BY DEF TaskIsSound, SInv, PendingIsNew, Underway
<1> QED
  BY <1>1, <1>2, AwardsStaySound

\* Steps that concern no topic: time, and the awards of lessons.
LEMMA TopicsStay ==
  ASSUME TInv, SInv, XpInv, XpInv', XpGrows, UNCHANGED svars,
         \A e \in Editors : limit = 1 /\ Underway(e) => profile' = profile
  PROVE  TInv' /\ SInv'
<1>1. UNCHANGED <<topic, status, assigned, done, paid, tidy, squeezed, edits, task, pending, before, after>>
  BY DEF svars, topicRows, open
<1>2. SInv'
  BY SyllabusStep
<1>3. STypeOK' /\ TopicsAreSound' /\ AwardsAreKept' /\ CompletedInOrder'
  BY <1>1 DEF TInv, STypeOK, TopicsAreSound, AwardsAreKept, CompletedInOrder, Led, Previous, Active, Kept, At
<1>4. ASSUME NEW e \in Editors PROVE TaskIsSound(e)'
  <2>1. TaskIsSound(e)
    BY DEF TInv
  <2>2. AwardsAreSound(before[e], after[e], XpTopic)'
    BY <1>1, <2>1, TaskAwardsStay
  <2> QED
    BY <1>1, <2>1, <2>2 DEF TaskIsSound, Coming, Led, Previous, Active, Kept, At, InOrder
<1>5. OneTask'
  BY <1>1 DEF TInv, OneTask, Underway, XpGrows
<1>6. SumsCoverTopics'
  <2> SUFFICES ASSUME NEW s \in Learners
               PROVE  XpTopic * Cardinality(done[s]) <= xpLog'[s].sum
    BY <1>1 DEF SumsCoverTopics
  <2> DEFINE c == XpTopic * Cardinality(done[s])
  <2>1. c <= xpLog[s].sum
    BY DEF TInv, SumsCoverTopics
  <2>2. c \in Nat
    <3>1. done[s] \in SUBSET Topics /\ IsFiniteSet(Topics) /\ XpTopic \in Nat
      BY SchoolAssumption DEF SInv, Shapes
    <3>2. Cardinality(done[s]) \in Nat
      BY <3>1, CountOf
    <3> QED
      BY <3>1, <3>2
  <2>3. xpLog[s].sum \in Nat /\ xpLog'[s].sum \in Nat /\ xpLog'[s].sum >= xpLog[s].sum
    BY DEF XpInv, XpAgrees, GTypeOK, XpTransactions, XpGrows
  <2> HIDE DEF c
  <2>4. c <= xpLog'[s].sum
    BY <2>1, <2>2, <2>3
  <2> QED
    BY <2>4 DEF c
<1> QED
  BY <1>2, <1>3, <1>4, <1>5, <1>6 DEF TInv

\* A request that goes on, or ends, and writes no row.
LEMMA TaskMoves ==
  ASSUME TInv, SInv, XpInv, NEW e \in Editors, UNCHANGED <<now, limit, xp, topicRows>>,
         \A o \in Editors \ {e} : /\ task'[o] = task[o] /\ pending'[o] = pending[o]
                                  /\ before'[o] = before[o] /\ after'[o] = after[o],
         AwardsAreKept', TaskIsSound(e)',
         limit = 1 /\ Underway(e)' => Underway(e) \/ \A o \in Editors \ {e} : ~Underway(o)
  PROVE  TInv' /\ XpInv'
<1>1. /\ UNCHANGED <<topic, status, assigned, done, paid, tidy, squeezed, edits, profile, xpLog>>
      /\ now' = now /\ limit' = limit
  BY DEF topicRows, xp
<1>2. XpInv' /\ XpGrows
  BY <1>1, XpStays
<1>3. STypeOK' /\ TopicsAreSound' /\ CompletedInOrder' /\ SumsCoverTopics'
  BY <1>1 DEF TInv, STypeOK, TopicsAreSound, CompletedInOrder, Led, Previous, Active, Kept, At, SumsCoverTopics
<1>4. ASSUME NEW o \in Editors \ {e} PROVE TaskIsSound(o)'
  <2>1. TaskIsSound(o)
    BY DEF TInv
  <2>2. AwardsAreSound(before[o], after[o], XpTopic)'
    BY <1>1, <1>2, <2>1, TaskAwardsStay
  <2>3. Coming(o)' = Coming(o)
    BY DEF Coming
  <2> QED
    BY <1>1, <2>1, <2>2, <2>3 DEF TaskIsSound, Led, Previous, Active, Kept, At, InOrder
<1>5. OneTask'
  BY <1>1 DEF TInv, OneTask, Underway
<1> QED
  BY <1>2, <1>3, <1>4, <1>5 DEF TInv

\* An administrative change of rows: nothing is promised of the order any more, or no
\* active topic is where there was none.
LEMMA RowsChange ==
  ASSUME TInv, SInv, XpInv, UNCHANGED <<now, limit, xp, done, paid, squeezed, open>>, STypeOK',
         topic' \in [Topics -> [index : Int, active : BOOLEAN] \cup {Nil}], Kept' = Kept,
         status # "deleted", status' # "deleted",
         ~tidy' \/ (tidy' = tidy /\ Active' \subseteq Active /\ \A t \in Kept : At(t)' = At(t))
  PROVE  TInv' /\ XpInv'
<1>1. UNCHANGED <<task, pending, before, after, profile, xpLog, now, limit, done, paid, squeezed>>
  BY DEF open, xp
<1>2. XpInv' /\ XpGrows
  BY <1>1, XpStays DEF xp
<1>3. TopicsAreSound'
  BY DEF TopicsAreSound
<1>4. ASSUME tidy', NEW s \in Learners, NEW t \in Kept, Led(s, t)
      PROVE  Led(s, t)'
  <2>1. Previous(t)' \subseteq Previous(t)
    BY <1>4 DEF Previous, Active
  <2> QED
    BY <1>1, <1>4, <2>1 DEF Led
<1>5. ASSUME NEW e \in Editors PROVE TaskIsSound(e)'
  <2>1. TaskIsSound(e)
    BY DEF TInv
  <2>2. AwardsAreSound(before[e], after[e], XpTopic)'
    BY <1>1, <1>2, <2>1, TaskAwardsStay
  <2>3. Coming(e)' = Coming(e) /\ Coming(e) \subseteq Learners
    BY <1>1 DEF Coming, SInv, Shapes
  <2> SUFFICES ASSUME NEW t, t = task[e].topic PROVE TaskIsSound(e)'
    OBVIOUS
  <2>4. InOrder' => \A s \in Coming(e) : Led(s, t)'
    BY <1>4, <2>1, <2>3 DEF TaskIsSound, InOrder
  <2>5. t = task'[e].topic
    BY <1>1
  <2> QED
    BY <1>1, <2>1, <2>2, <2>3, <2>4, <2>5 DEF TaskIsSound
<1>6. CompletedInOrder'
  BY <1>1, <1>4 DEF TInv, STypeOK, CompletedInOrder
<1>7. AwardsAreKept' /\ OneTask' /\ SumsCoverTopics'
  BY <1>1 DEF TInv, AwardsAreKept, OneTask, Underway, SumsCoverTopics
<1> QED
  BY <1>2, <1>3, <1>5, <1>6, <1>7 DEF TInv

\* The highest index is one, or nothing is there.
LEMMA MaxIndexIs ==
  ASSUME TInv
  PROVE  MaxIndex \in Int
<1>1. CASE Kept = {}
  BY <1>1 DEF MaxIndex
<1>2. CASE Kept # {}
  <2> DEFINE T == {At(t) : t \in Kept}
             f == [t \in Kept |-> At(t)]
  <2>1. IsFiniteSet(Kept)
    BY SchoolAssumption, TopicRows, FS_Subset
  <2>2. f \in Surjection(Kept, T)
    BY DEF Surjection
  <2>3. T \subseteq Int /\ T # {}
    BY <1>2, TopicRows
  <2> HIDE DEF f
  <2>4. IsFiniteSet(T)
    BY <2>1, <2>2, FS_Surjection
  <2>5. MaxIndex = Max(T)
    BY <1>2 DEF MaxIndex
  <2> HIDE DEF T
  <2> QED
    BY <2>3, <2>4, <2>5, MaxOf
<1> QED
  BY <1>1, <1>2

\* A request that is not under way, or was just taken up when there was room.
LEMMA RoomForOne ==
  ASSUME Room, limit = 1, NEW e \in Editors
  PROVE  ~Underway(e)
<1> DEFINE R == {x \in Editors : Underway(x)}
<1>1. IsFiniteSet(Editors) /\ R \in SUBSET Editors
  BY SchoolAssumption
<1>2. Cardinality(R) < 1
  BY DEF Room
<1> HIDE DEF R
<1>3. Cardinality(R) \in Nat /\ (R # {} <=> Cardinality(R) > 0)
  BY <1>1, CountOf
<1>4. R = {}
  BY <1>2, <1>3
<1> QED
  BY <1>4 DEF R

\* What the step of one request leaves alone.
LEMMA TaskOnly ==
  ASSUME TInv, SInv, NEW e \in Editors, NEW r, task' = [task EXCEPT ![e] = r],
         UNCHANGED <<pending, before, after>>
  PROVE  /\ task'[e] = r /\ AwardsAreKept'
         /\ \A o \in Editors \ {e} : /\ task'[o] = task[o] /\ pending'[o] = pending[o]
                                     /\ before'[o] = before[o] /\ after'[o] = after[o]
<1>1. PICK D, I : task \in [Editors -> Task(D, I)]
  BY DEF SInv, Shapes
<1> QED
  BY <1>1 DEF TInv, AwardsAreKept

\* The awards of a request that stay as they are.
LEMMA AwardsOfTask ==
  ASSUME TInv, NEW e \in Editors, UNCHANGED <<now, limit, xp, before, after>>
  PROVE  AwardsAreSound(before[e], after[e], XpTopic)'
<1>1. AwardsAreSound(before[e], after[e], XpTopic)
  BY DEF TInv, TaskIsSound
<1> QED
  BY <1>1 DEF AwardsAreSound, AwardIsSound, xp, Today

\* A request that is idle holds nothing.
LEMMA IdleHolds ==
  ASSUME TInv, SInv, NEW e \in Editors, task[e].at \notin {"next", "insert"}
  PROVE  pending[e] = {} /\ \A s \in Learners : after[e][s] = Nil
BY DEF TInv, TaskIsSound, SInv, PendingIsNew

\* A request is taken up: for a new topic ...
LEMMA ReadStep ==
  ASSUME TInv, SInv, XpInv, NEW e \in Editors, ReadMaxIndex(e)
  PROVE  TInv' /\ XpInv'
<1> DEFINE r == [NoTask EXCEPT !.at = "add", !.index = MaxIndex + 1]
<1>1. /\ task[e].at = "idle" /\ Room /\ task' = [task EXCEPT ![e] = r]
      /\ UNCHANGED <<now, limit, xp, topicRows, pending, before, after>>
  BY DEF ReadMaxIndex, Unasked
<1>2. r.at = "add" /\ r.index = MaxIndex + 1
  BY DEF NoTask
<1> HIDE DEF r
<1>3. /\ task'[e] = r /\ AwardsAreKept'
      /\ \A o \in Editors \ {e} : /\ task'[o] = task[o] /\ pending'[o] = pending[o]
                                  /\ before'[o] = before[o] /\ after'[o] = after[o]
  BY <1>1, TaskOnly
<1>4. pending[e] = {} /\ \A s \in Learners : after[e][s] = Nil
  BY <1>1, IdleHolds
<1>5. Coming(e)' = {}
  BY <1>1, <1>2, <1>3, <1>4 DEF Coming
<1>6. AwardsAreSound(before[e], after[e], XpTopic)'
  BY <1>1, AwardsOfTask
<1>7. MaxIndex + 1 \in Int
  BY MaxIndexIs
<1>9. TaskIsSound(e)'
  BY <1>1, <1>2, <1>3, <1>4, <1>5, <1>6, <1>7 DEF TaskIsSound
<1>10. limit = 1 => \A o \in Editors : ~Underway(o)
  BY <1>1, RoomForOne
<1> QED
  BY <1>1, <1>3, <1>9, <1>10, TaskMoves

\* ... or for students.
LEMMA BulkStep ==
  ASSUME TInv, SInv, XpInv, NEW e \in Editors, NEW t \in Topics, NEW S, BulkComplete(e, t, S)
  PROVE  TInv' /\ XpInv'
<1> DEFINE r == [NoTask EXCEPT !.at = "next", !.topic = t, !.todo = S]
<1>1. /\ task[e].at = "idle" /\ Room /\ task' = [task EXCEPT ![e] = r]
      /\ UNCHANGED <<now, limit, xp, topicRows, pending, before, after>>
  BY DEF BulkComplete, Unasked
<1>2. r.at = "next"
  BY DEF NoTask
<1> HIDE DEF r
<1>3. /\ task'[e] = r /\ AwardsAreKept'
      /\ \A o \in Editors \ {e} : /\ task'[o] = task[o] /\ pending'[o] = pending[o]
                                  /\ before'[o] = before[o] /\ after'[o] = after[o]
  BY <1>1, TaskOnly
<1>4. pending[e] = {} /\ \A s \in Learners : after[e][s] = Nil
  BY <1>1, IdleHolds
<1>5. Coming(e)' = {}
  BY <1>1, <1>2, <1>3, <1>4 DEF Coming
<1>6. AwardsAreSound(before[e], after[e], XpTopic)'
  BY <1>1, AwardsOfTask
<1>7. TaskIsSound(e)'
  BY <1>1, <1>2, <1>3, <1>4, <1>5, <1>6 DEF TaskIsSound
<1>8. limit = 1 => \A o \in Editors : ~Underway(o)
  BY <1>1, RoomForOne
<1> QED
  BY <1>1, <1>3, <1>7, <1>8, TaskMoves

\* The next student of a request.
LEMMA CheckStep ==
  ASSUME TInv, SInv, XpInv, NEW e \in Editors, NEW s \in Learners, CheckTopic(e, s)
  PROVE  TInv' /\ XpInv'
<1> DEFINE t == task[e].topic
           at == IF t \notin done[s] /\ Completable(s, t) THEN "insert" ELSE "next"
           r == [task[e] EXCEPT !.todo = @ \ {s}, !.student = s, !.at = at]
<1>1. /\ task[e].at = "next" /\ t \in Kept /\ task' = [task EXCEPT ![e] = r]
      /\ UNCHANGED <<now, limit, xp, topicRows, pending, before, after>>
  BY DEF CheckTopic
<1>2. /\ at \in {"insert", "next"} /\ (at = "insert" => Completable(s, t))
  OBVIOUS
<1> HIDE DEF at
<1>3. r.at = at /\ r.topic = t /\ r.student = s
  <2>1. PICK D, I : task[e] \in Task(D, I)
    BY DEF SInv, Shapes
  <2> QED
    BY <2>1 DEF Task
<1> HIDE DEF r, t
<1>4. /\ task'[e] = r /\ AwardsAreKept'
      /\ \A o \in Editors \ {e} : /\ task'[o] = task[o] /\ pending'[o] = pending[o]
                                  /\ before'[o] = before[o] /\ after'[o] = after[o]
  BY <1>1, TaskOnly
<1>5. TaskIsSound(e)
  BY DEF TInv
<1>6. AwardsAreSound(before[e], after[e], XpTopic)'
  BY <1>1, AwardsOfTask
<1>7. \A x \in Coming(e)' : x \in Coming(e) \/ (x = s /\ at = "insert")
  BY <1>1, <1>3, <1>4 DEF Coming
<1>9. Kept' = Kept /\ status' = status /\ done' = done
  BY <1>1 DEF topicRows, Kept
<1>10. task'[e].topic = t /\ task'[e].at # "add"
  BY <1>2, <1>3, <1>4
<1>11. \A x \in Learners : after'[e][x] # Nil <=> x \in pending'[e]
  BY <1>1, <1>5 DEF TaskIsSound
<1>12. TaskIsSound(e)'
  <2> SUFFICES ASSUME NEW u, u = t PROVE TaskIsSound(e)'
    OBVIOUS
  <2>1. InOrder' => \A x \in Coming(e)' : Led(x, u)'
    <3> SUFFICES ASSUME InOrder', NEW x \in Coming(e)' PROVE Led(x, u)'
      OBVIOUS
    <3>1. InOrder /\ (Led(x, u)' <=> Led(x, u))
      BY <1>1 DEF topicRows, InOrder, Led, Previous, Active, Kept, At
    <3>2. CASE x \in Coming(e)
      BY <1>5, <3>1, <3>2 DEF TaskIsSound, t
    <3>3. CASE x = s /\ at = "insert"
      BY <1>2, <3>1, <3>3 DEF Completable, Led
    <3> QED
      BY <1>7, <3>2, <3>3
  <2>2. task'[e].topic = u
    BY <1>10
  <2> QED
    BY <1>1, <1>6, <1>9, <1>10, <1>11, <2>1, <2>2 DEF TaskIsSound
<1>13. limit = 1 /\ Underway(e)' => Underway(e)
  BY <1>1 DEF Underway
<1> QED
  BY <1>1, <1>4, <1>12, <1>13, TaskMoves

\* The INSERT of a progress, and its award.
LEMMA CompleteTopicStep ==
  ASSUME TInv, SInv, XpInv, NEW e \in Editors, CompleteTopic(e)
  PROVE  TInv' /\ XpInv'
<1> DEFINE s == task[e].student
           r == [task[e] EXCEPT !.at = "next"]
           a == Awarded(profile[s], XpTopic)
<1>1. /\ task[e].at = "insert" /\ task' = [task EXCEPT ![e] = r]
      /\ pending' = [pending EXCEPT ![e] = @ \cup {s}]
      /\ before' = [before EXCEPT ![e][s] = profile[s]] /\ after' = [after EXCEPT ![e][s] = a]
      /\ UNCHANGED <<now, limit, xp, topicRows>> /\ s \in Learners
  <2>1. /\ task[e].at = "insert" /\ task' = [task EXCEPT ![e].at = "next"]
        /\ pending' = [pending EXCEPT ![e] = @ \cup {s}]
        /\ before' = [before EXCEPT ![e][s] = profile[s]] /\ after' = [after EXCEPT ![e][s] = a]
        /\ UNCHANGED <<now, limit, xp, topicRows>>
    BY DEF CompleteTopic
  <2> QED
    BY <2>1 DEF SInv, Shapes
<1>2. AwardIsSound(s, profile[s], a, XpTopic) /\ a # Nil
  BY <1>1, LessonsAre, AwardType
<1>3. r.at = "next" /\ r.topic = task[e].topic
  <2>1. PICK D, I : task[e] \in Task(D, I)
    BY DEF SInv, Shapes
  <2> QED
    BY <2>1 DEF Task
<1> HIDE DEF r, a
<1>4. /\ before = [o \in Editors |-> [x \in Learners |-> before[o][x]]]
      /\ after = [o \in Editors |-> [x \in Learners |-> after[o][x]]]
      /\ pending \in [Editors -> SUBSET Learners]
  BY DEF TInv, AwardsAreKept, SInv, Shapes
<1>5. task'[e] = r /\ \A o \in Editors \ {e} : task'[o] = task[o]
  <2>1. PICK D, I : task \in [Editors -> Task(D, I)]
    BY DEF SInv, Shapes
  <2> QED
    BY <1>1, <2>1
<1>6. /\ AwardsAreKept' /\ pending'[e] = pending[e] \cup {s}
      /\ \A o \in Editors \ {e} : /\ pending'[o] = pending[o]
                                  /\ before'[o] = before[o] /\ after'[o] = after[o]
      /\ before'[e] = [x \in Learners |-> IF x = s THEN profile[s] ELSE before[e][x]]
      /\ after'[e] = [x \in Learners |-> IF x = s THEN a ELSE after[e][x]]
  <2>1. pending'[e] = pending[e] \cup {s} /\ \A o \in Editors \ {e} : pending'[o] = pending[o]
    BY <1>1, <1>4
  <2>2. /\ before' = [o \in Editors |-> [x \in Learners |-> before'[o][x]]]
        /\ \A o \in Editors \ {e} : before'[o] = before[o]
        /\ before'[e] = [x \in Learners |-> IF x = s THEN profile[s] ELSE before[e][x]]
    BY <1>1, <1>4
  <2>3. /\ after' = [o \in Editors |-> [x \in Learners |-> after'[o][x]]]
        /\ \A o \in Editors \ {e} : after'[o] = after[o]
        /\ after'[e] = [x \in Learners |-> IF x = s THEN a ELSE after[e][x]]
    BY <1>1, <1>4
  <2> QED
    BY <2>1, <2>2, <2>3 DEF AwardsAreKept
<1>7. TaskIsSound(e)
  BY DEF TInv
<1>8. AwardsAreSound(before[e], after[e], XpTopic)'
  <2> SUFFICES ASSUME NEW l, l = before'[e], NEW n, n = after'[e]
               PROVE  AwardsAreSound(l, n, XpTopic)'
    OBVIOUS
  <2>1. ASSUME NEW x \in Learners, n[x] # Nil
        PROVE  AwardIsSound(x, l[x], n[x], XpTopic)
    <3>1. CASE x = s
      BY <1>2, <1>6, <3>1
    <3>2. CASE x # s
      BY <1>6, <1>7, <2>1, <3>2 DEF TaskIsSound, AwardsAreSound
    <3> QED
      BY <3>1, <3>2
  <2> QED
    BY <1>1, <2>1 DEF AwardsAreSound, AwardIsSound, xp, Today
<1>9. Coming(e)' = Coming(e)
  BY <1>1, <1>3, <1>5, <1>6 DEF Coming
<1>10. \A x \in Learners : after'[e][x] # Nil <=> x \in pending'[e]
  BY <1>2, <1>6, <1>7 DEF TaskIsSound
<1>11. TaskIsSound(e)'
  <2> SUFFICES ASSUME NEW t, t = task[e].topic PROVE TaskIsSound(e)'
    OBVIOUS
  <2>1. InOrder' => \A x \in Coming(e) : Led(x, t)'
    BY <1>1, <1>7 DEF TaskIsSound, topicRows, InOrder, Led, Previous, Active, Kept, At
  <2>2. Coming(e) # {} /\ status' # "deleted" => t \in Kept'
    BY <1>1, <1>7 DEF TaskIsSound, topicRows, Kept
  <2>3. task'[e].topic = t /\ task'[e].at # "add"
    BY <1>3, <1>5
  <2> QED
    BY <1>8, <1>9, <1>10, <2>1, <2>2, <2>3 DEF TaskIsSound
<1>12. limit = 1 /\ Underway(e)' => Underway(e)
  BY <1>1 DEF Underway
<1> QED
  BY <1>1, <1>5, <1>6, <1>11, <1>12, TaskMoves

\* What a request leaves when it ends.
LEMMA LeaveEnds ==
  ASSUME TInv, SInv, NEW e \in Editors, Leave(e)
  PROVE  /\ task'[e].at = "over" /\ pending'[e] = {} /\ AwardsAreKept'
         /\ \A s \in Learners : after'[e][s] = Nil
         /\ \A o \in Editors \ {e} : /\ task'[o] = task[o] /\ pending'[o] = pending[o]
                                     /\ before'[o] = before[o] /\ after'[o] = after[o]
<1>1. PICK D, I : task \in [Editors -> Task(D, I)]
  BY DEF SInv, Shapes
<1>2. /\ before = [o \in Editors |-> [x \in Learners |-> before[o][x]]]
      /\ after = [o \in Editors |-> [x \in Learners |-> after[o][x]]]
      /\ pending \in [Editors -> SUBSET Learners]
  BY DEF TInv, AwardsAreKept, SInv, Shapes
<1>3. Nobody = [x \in Learners |-> Nil]
  BY DEF Nobody
<1>4. task'[e].at = "over" /\ \A o \in Editors \ {e} : task'[o] = task[o]
  BY <1>1, NoTaskType DEF Leave
<1> QED
  BY <1>2, <1>3, <1>4 DEF Leave, AwardsAreKept

\* It is sound then.
LEMMA EndedIsSound ==
  ASSUME NEW e \in Editors, task'[e].at = "over", pending'[e] = {}, \A s \in Learners : after'[e][s] = Nil
  PROVE  TaskIsSound(e)'
<1>1. Coming(e)' = {}
  BY DEF Coming
<1>2. AwardsAreSound(before[e], after[e], XpTopic)'
  BY DEF AwardsAreSound
<1> QED
  BY <1>1, <1>2 DEF TaskIsSound

\* An error or a crash before the COMMIT.
LEMMA AbortTopicsStep ==
  ASSUME TInv, SInv, XpInv, NEW e \in Editors, AbortTopics(e)
  PROVE  TInv' /\ XpInv'
<1>1. Leave(e) /\ UNCHANGED <<now, limit, xp, topicRows>>
  BY DEF AbortTopics
<1>2. ~Underway(e)'
  BY <1>1, LeaveEnds DEF Underway
<1> QED
  BY <1>1, <1>2, LeaveEnds, EndedIsSound, TaskMoves

\* The administrative changes.
LEMMA EditSteps ==
  ASSUME TInv, SInv, XpInv, NEW e \in Editors,
         \/ \E t \in Topics : DeleteTopic(e, t) \/ \E i \in Places : MoveTopic(e, t, i)
         \/ \E a, b \in Topics : ReorderTopics(e, <<a, b>>)
         \/ \E s \in {"active", "archived"} : UpdateSyllabus(e, s)
         \/ \E g \in Assignees : Assign(e, g) \/ Unassign(e, g)
  PROVE  TInv' /\ XpInv'
<1> DEFINE Rows == [Topics -> [index : Int, active : BOOLEAN] \cup {Nil}]
           Same == tidy' = tidy /\ Active' \subseteq Active /\ \A t \in Kept : At(t)' = At(t)
<1>1. UNCHANGED <<now, limit, xp, done, paid, squeezed, open>> /\ status # "deleted"
  BY DEF DeleteTopic, MoveTopic, ReorderTopics, UpdateSyllabus, Assign, Unassign, Edit, Unasked
<1>2. STypeOK /\ topic \in Rows
  BY DEF TInv, TopicsAreSound
<1>3. status' # "deleted" /\ status' \in {"active", "archived"} /\ assigned' \subseteq Assignees
  <2>1. status \in {"active", "archived"} /\ assigned \subseteq Assignees
    BY <1>1, <1>2 DEF STypeOK
  <2>2. status' \in {"active", "archived"} /\ assigned' \subseteq Assignees
    BY <2>1 DEF DeleteTopic, MoveTopic, ReorderTopics, UpdateSyllabus, Assign, Unassign
  <2> QED
    BY <2>2
<1>4. ASSUME NEW t \in Topics, DeleteTopic(e, t)
      PROVE  topic' \in Rows /\ Kept' = Kept /\ Same
  <2>1. t \in Kept /\ tidy' = tidy /\ topic' = [topic EXCEPT ![t].active = FALSE]
    BY <1>4 DEF DeleteTopic, Active
  <2> DEFINE x == [topic[t] EXCEPT !.active = FALSE]
  <2>2. x \in [index : Int, active : BOOLEAN] /\ x.index = At(t) /\ ~x.active
    BY <2>1, TopicRows DEF At
  <2>3. topic' = [topic EXCEPT ![t] = x]
    BY <2>1
  <2> HIDE DEF x
  <2>4. topic' \in Rows /\ topic'[t] = x /\ \A u \in Topics \ {t} : topic'[u] = topic[u]
    BY <1>2, <2>2, <2>3
  <2>5. Kept' = Kept
    BY <2>1, <2>2, <2>4, TopicRows DEF Kept
  <2>6. \A u \in Kept : At(u)' = At(u)
    BY <2>2, <2>4, TopicRows DEF At
  <2>7. Active' \subseteq Active
    BY <2>2, <2>4, <2>5, TopicRows DEF Active
  <2> QED
    BY <2>1, <2>4, <2>5, <2>6, <2>7
<1>5. ASSUME NEW t \in Topics, NEW i \in Places, MoveTopic(e, t, i)
      PROVE  topic' \in Rows /\ Kept' = Kept /\ ~tidy'
  <2>1. t \in Kept /\ ~tidy' /\ i \in Int /\ topic' = [topic EXCEPT ![t].index = i]
    BY <1>5, SchoolAssumption DEF MoveTopic
  <2> DEFINE x == [topic[t] EXCEPT !.index = i]
  <2>2. x \in [index : Int, active : BOOLEAN] /\ topic' = [topic EXCEPT ![t] = x]
    BY <2>1, TopicRows
  <2> HIDE DEF x
  <2>3. topic' \in Rows /\ topic'[t] = x /\ \A u \in Topics \ {t} : topic'[u] = topic[u]
    BY <1>2, <2>2
  <2>4. Kept' = Kept
    BY <2>1, <2>2, <2>3, TopicRows DEF Kept
  <2> QED
    BY <2>1, <2>3, <2>4
<1>6. ASSUME NEW a \in Topics, NEW b \in Topics, ReorderTopics(e, <<a, b>>)
      PROVE  topic' \in Rows /\ Kept' = Kept /\ ~tidy'
  <2> DEFINE order == <<a, b>>
             place(t) == (CHOOSE i \in DOMAIN order : order[i] = t) - 1
  <2>1. /\ ~tidy' /\ \A i \in DOMAIN order : order[i] \in Kept
        /\ topic' = [t \in Topics |-> IF \E i \in DOMAIN order : order[i] = t
                                      THEN [topic[t] EXCEPT !.index = place(t)] ELSE topic[t]]
    BY <1>6 DEF ReorderTopics
  <2>2. DOMAIN order = 1..2
    OBVIOUS
  <2>3. \A t : (\E i \in DOMAIN order : order[i] = t) => place(t) \in Nat
    BY <2>2
  <2> HIDE DEF order, place
  <2>4. ASSUME NEW t \in Topics
        PROVE  /\ topic'[t] \in [index : Int, active : BOOLEAN] \cup {Nil}
               /\ topic'[t] # Nil <=> topic[t] # Nil
    <3>1. CASE \E i \in DOMAIN order : order[i] = t
      <4>1. t \in Kept /\ place(t) \in Nat
        BY <2>1, <2>3, <3>1
      <4>2. topic[t] \in [index : Int, active : BOOLEAN]
        BY <4>1, TopicRows
      <4>3. [topic[t] EXCEPT !.index = place(t)] \in [index : Int, active : BOOLEAN]
        BY <4>1, <4>2
      <4>4. topic'[t] = [topic[t] EXCEPT !.index = place(t)]
        BY <2>1, <3>1
      <4> QED
        BY <4>1, <4>3, <4>4, TopicRows DEF Kept
    <3>2. CASE ~\E i \in DOMAIN order : order[i] = t
      BY <1>2, <2>1, <3>2
    <3> QED
      BY <3>1, <3>2
  <2>5. topic' \in [Topics -> [index : Int, active : BOOLEAN] \cup {Nil}]
    BY <2>1, <2>4
  <2>6. Kept' = Kept
    BY <2>4 DEF Kept
  <2> QED
    BY <2>1, <2>5, <2>6
<1>7. ASSUME \/ \E s \in {"active", "archived"} : UpdateSyllabus(e, s)
             \/ \E g \in Assignees : Assign(e, g) \/ Unassign(e, g)
      PROVE  topic' \in Rows /\ Kept' = Kept /\ Same
  <2>1. topic' = topic /\ tidy' = tidy
    BY <1>7 DEF UpdateSyllabus, Assign, Unassign
  <2> QED
    BY <1>2, <2>1 DEF Kept, Active, At
<1> HIDE DEF Rows, Same
<1>8. topic' \in Rows /\ Kept' = Kept /\ (~tidy' \/ Same)
  BY <1>4, <1>5, <1>6, <1>7
<1>9. STypeOK'
  <2>1. \A t \in Kept' : At(t)' \in Int /\ topic'[t].active \in BOOLEAN
    <3>1. \A t \in Kept' : topic'[t] \in [index : Int, active : BOOLEAN]
      BY <1>8 DEF Kept, Rows
    <3> QED
      BY <3>1 DEF At
  <2>2. \A s \in Learners : done'[s] \subseteq Kept' /\ paid'[s] \in [Topics -> Nat]
    BY <1>1, <1>2, <1>8 DEF STypeOK
  <2> QED
    BY <1>3, <2>1, <2>2 DEF STypeOK
<1> QED
  BY <1>1, <1>3, <1>8, <1>9, RowsChange DEF Rows, Same

\* A new topic is put below none that is there, or does not count as one before it.
LEMMA NewTopicIs ==
  ASSUME TInv, NEW t \in Topics, NEW n \in Int, NewTopic(t, n),
         UNCHANGED <<status, assigned, done, paid, tidy>>
  PROVE  /\ STypeOK' /\ TopicsAreSound' /\ Kept \subseteq Kept'
         /\ \A s \in Learners, u \in Kept : Led(s, u) => Led(s, u)'
<1> DEFINE row == [index |-> n, active |-> TRUE]
<1>1. /\ topic[t] = Nil /\ topic' = [topic EXCEPT ![t] = row]
      /\ squeezed \subseteq squeezed' /\ ((\E u \in Kept : At(u) > n) => t \in squeezed')
  BY DEF NewTopic
<1>2. row \in [index : Int, active : BOOLEAN] /\ row # Nil /\ row.index = n
  BY TopicRows
<1> HIDE DEF row
<1>3. STypeOK /\ topic \in [Topics -> [index : Int, active : BOOLEAN] \cup {Nil}]
  BY DEF TInv, TopicsAreSound
<1>4. TopicsAreSound'
  BY <1>1, <1>2, <1>3 DEF TopicsAreSound
<1>5. /\ topic'[t] = row /\ \A u \in Topics \ {t} : topic'[u] = topic[u]
      /\ t \notin Kept /\ Kept' = Kept \cup {t}
  BY <1>1, <1>2, <1>3 DEF Kept
<1>6. At(t)' = n /\ \A u \in Kept : At(u)' = At(u) /\ topic'[u] = topic[u]
  BY <1>2, <1>5, TopicRows DEF At
<1>7. STypeOK'
  <2>1. \A u \in Kept' : At(u)' \in Int /\ topic'[u].active \in BOOLEAN
    BY <1>2, <1>3, <1>5, <1>6 DEF STypeOK
  <2>2. \A s \in Learners : done'[s] \subseteq Kept' /\ paid'[s] \in [Topics -> Nat]
    BY <1>3, <1>5 DEF STypeOK
  <2> QED
    BY <1>3, <2>1, <2>2 DEF STypeOK
<1>8. ASSUME NEW s \in Learners, NEW u \in Kept, Led(s, u)
      PROVE  Led(s, u)'
  <2> SUFFICES ASSUME At(u) > 0, NEW p \in Previous(u)', p \notin squeezed'
               PROVE  p \in done[s]
    BY <1>6 DEF Led
  <2>1. p \in Kept' /\ topic'[p].active /\ At(p)' = At(u) - 1
    BY <1>6 DEF Previous, Active
  <2>2. p # t
    <3>1. At(u) \in Int
      BY TopicRows
    <3>2. p = t => At(u) > n
      BY <1>6, <2>1, <3>1
    <3> QED
      BY <1>1, <3>2
  <2>3. p \in Previous(u)
    BY <1>5, <1>6, <2>1, <2>2 DEF Previous, Active
  <2> QED
    BY <1>1, <1>8, <2>3 DEF Led
<1> QED
  BY <1>4, <1>5, <1>7, <1>8

\* Adding it, at the place that was read or at the one that was chosen.
LEMMA AddStep ==
  ASSUME TInv, SInv, XpInv, NEW e \in Editors, NEW t \in Topics, NEW n \in Int, NewTopic(t, n),
         status # "deleted",
         UNCHANGED <<now, limit, xp, status, assigned, done, paid, tidy, pending, before, after>>,
         task' = task \/ (task[e].at = "add" /\ task' = [task EXCEPT ![e] = NoTask])
  PROVE  TInv' /\ XpInv'
<1>1. /\ STypeOK' /\ TopicsAreSound' /\ Kept \subseteq Kept'
      /\ \A s \in Learners, u \in Kept : Led(s, u) => Led(s, u)'
  BY NewTopicIs
<1>2. /\ AwardsAreKept' /\ \A o \in Editors : task'[o] = task[o] \/ (o = e /\ task[e].at = "add" /\ task'[e] = NoTask)
  <2>1. CASE task' = task
    BY <2>1 DEF TInv, AwardsAreKept
  <2>2. CASE task[e].at = "add" /\ task' = [task EXCEPT ![e] = NoTask]
    BY <2>2, TaskOnly
  <2> QED
    BY <2>1, <2>2
<1>3. XpInv' /\ XpGrows /\ profile' = profile
  BY XpStays DEF xp
<1>4. ASSUME NEW o \in Editors PROVE TaskIsSound(o)'
  <2>1. TaskIsSound(o)
    BY DEF TInv
  <2>2. AwardsAreSound(before[o], after[o], XpTopic)'
    BY <1>3, <2>1, TaskAwardsStay
  <2>3. CASE o = e /\ task[e].at = "add" /\ task'[e] = NoTask
    <3>1. pending[e] = {} /\ \A s \in Learners : after[e][s] = Nil
      BY <2>3, IdleHolds
    <3>2. task'[e].at = "idle"
      BY <2>3 DEF NoTask
    <3>3. Coming(e)' = {}
      BY <3>1, <3>2 DEF Coming
    <3> QED
      BY <2>2, <2>3, <3>1, <3>2, <3>3 DEF TaskIsSound
  <2>4. CASE task'[o] = task[o]
    <3> SUFFICES ASSUME NEW u, u = task[o].topic PROVE TaskIsSound(o)'
      OBVIOUS
    <3>1. u = task'[o].topic /\ Coming(o)' = Coming(o) /\ Coming(o) \subseteq Learners
      BY <2>4 DEF Coming, SInv, Shapes
    <3>2. Coming(o) # {} => u \in Kept
      BY <2>1 DEF TaskIsSound
    <3>3. InOrder' => \A s \in Coming(o) : Led(s, u)'
      BY <1>1, <2>1, <3>1, <3>2 DEF TaskIsSound, InOrder
    <3> QED
      BY <1>1, <2>1, <2>2, <2>4, <3>1, <3>2, <3>3 DEF TaskIsSound
  <2> QED
    BY <1>2, <2>3, <2>4
<1>5. CompletedInOrder'
  BY <1>1 DEF TInv, STypeOK, CompletedInOrder
<1>6. OneTask'
  <2>1. \A o \in Editors : Underway(o)' => Underway(o)
    BY <1>2 DEF Underway, NoTask
  <2> QED
    BY <2>1 DEF TInv, OneTask
<1>7. SumsCoverTopics'
  BY DEF TInv, SumsCoverTopics, xp
<1> QED
  BY <1>1, <1>2, <1>3, <1>4, <1>5, <1>6, <1>7 DEF TInv

\* Both ways to add a topic are such a step.
LEMMA AddSteps ==
  ASSUME TInv, SInv, XpInv, NEW e \in Editors, NEW t \in Topics,
         AddTopic(e, t) \/ \E i \in Places : AddTopicAt(e, t, i)
  PROVE  TInv' /\ XpInv'
<1>1. ASSUME AddTopic(e, t) PROVE TInv' /\ XpInv'
  <2>1. task[e].index \in Int
    BY <1>1 DEF AddTopic, TInv, TaskIsSound
  <2> QED
    BY <1>1, <2>1, AddStep DEF AddTopic
<1>2. ASSUME NEW i \in Places, AddTopicAt(e, t, i) PROVE TInv' /\ XpInv'
  <2>1. i \in Int
    BY SchoolAssumption
  <2> QED
    BY <1>2, <2>1, AddStep DEF AddTopicAt, Edit, Unasked, open
<1> QED
  BY <1>1, <1>2

\* The deletion of the syllabus.
LEMMA DeleteSyllabusStep ==
  ASSUME TInv, SInv, XpInv, NEW e \in Editors, DeleteSyllabus(e)
  PROVE  TInv' /\ XpInv'
<1>1. /\ \A o \in Editors : pending[o] = {}
      /\ status' = "deleted" /\ assigned' = {} /\ topic' = [t \in Topics |-> Nil]
      /\ done' = [s \in Learners |-> {}]
      /\ UNCHANGED <<now, limit, xp, paid, tidy, squeezed, task, pending, before, after>>
  BY DEF DeleteSyllabus, open
<1>2. Kept' = {} /\ ~InOrder'
  BY <1>1 DEF Kept, InOrder
<1>3. XpInv' /\ XpGrows /\ profile' = profile /\ xpLog' = xpLog
  BY <1>1, XpStays DEF xp
<1>4. STypeOK' /\ TopicsAreSound' /\ AwardsAreKept' /\ OneTask' /\ CompletedInOrder'
  <2>1. topic' \in [Topics -> [index : Int, active : BOOLEAN] \cup {Nil}]
    BY <1>1
  <2>2. STypeOK'
    BY <1>1, <1>2 DEF TInv, STypeOK
  <2>3. AwardsAreKept' /\ OneTask' /\ CompletedInOrder'
    BY <1>1, <1>2 DEF TInv, AwardsAreKept, OneTask, Underway, CompletedInOrder
  <2> QED
    BY <1>2, <2>1, <2>2, <2>3 DEF TopicsAreSound
<1>5. ASSUME NEW o \in Editors PROVE TaskIsSound(o)'
  <2>1. TaskIsSound(o)
    BY DEF TInv
  <2>2. AwardsAreSound(before[o], after[o], XpTopic)'
    BY <1>1, <1>3, <2>1, TaskAwardsStay
  <2> QED
    BY <1>1, <1>2, <2>1, <2>2 DEF TaskIsSound
<1>6. SumsCoverTopics'
  <2>1. Cardinality({}) = 0 /\ XpTopic * 0 = 0
    BY FS_EmptySet, LessonsAre
  <2>2. \A s \in Learners : xpLog[s].sum \in Nat /\ done'[s] = {}
    BY <1>1 DEF XpInv, XpAgrees, GTypeOK, XpTransactions
  <2> QED
    BY <1>3, <2>1, <2>2 DEF SumsCoverTopics
<1> QED
  BY <1>3, <1>4, <1>5, <1>6 DEF TInv

\* The COMMIT makes the progress and the awards visible together.
LEMMA CommitTopicsStep ==
  ASSUME TInv, SInv, XpInv, NEW e \in Editors, CommitTopics(e)
  PROVE  TInv' /\ XpInv'
<1> DEFINE t == task[e].topic
           S == pending[e]
<1>1. /\ task[e].at = "next" /\ Leave(e) /\ SaveAwards(before[e], after[e], XpTopic)
      /\ done' = [s \in Learners |-> IF s \in S THEN done[s] \cup {t} ELSE done[s]]
      /\ paid' = [s \in Learners |-> IF s \in S THEN [paid[s] EXCEPT ![t] = @ + 1] ELSE paid[s]]
      /\ UNCHANGED <<now, limit, topic, status, assigned, tidy, squeezed, edits>>
  BY DEF CommitTopics
<1>2. TaskIsSound(e) /\ STypeOK
  BY DEF TInv
<1>3. S # {} => t \in Kept /\ status # "deleted"
  <2>1. status = "deleted" => S = {}
    BY DEF SInv, PaidIsDone
  <2> QED
    BY <1>2, <2>1 DEF TaskIsSound, Coming
<1>4. /\ S \subseteq Learners /\ \A s \in Learners : after[e][s] # Nil <=> s \in S
      /\ S \subseteq Coming(e) /\ AwardsAreSound(before[e], after[e], XpTopic)
  BY <1>2 DEF TaskIsSound, Coming, SInv, Shapes
<1>5. /\ XpInv' /\ XpGrows
      /\ \A s \in Learners : xpLog'[s].sum = xpLog[s].sum + IF s \in S THEN XpTopic ELSE 0
  <2>1. /\ XpInv' /\ XpGrows
        /\ \A s \in Learners : xpLog'[s].sum = xpLog[s].sum + IF after[e][s] = Nil THEN 0 ELSE XpTopic
    BY <1>1, <1>4, LessonsAre, SaveStep
  <2>2. \A s \in Learners : (IF after[e][s] = Nil THEN 0 ELSE XpTopic) = IF s \in S THEN XpTopic ELSE 0
    BY <1>4
  <2> QED
    BY <2>1, <2>2
<1>6. /\ Kept' = Kept /\ InOrder' = InOrder
      /\ \A u : At(u)' = At(u) /\ Previous(u)' = Previous(u)
  BY <1>1 DEF Kept, InOrder, At, Previous, Active
<1>7. \A s \in Learners : /\ done'[s] = IF s \in S THEN done[s] \cup {t} ELSE done[s]
                          /\ paid'[s] = IF s \in S THEN [paid[s] EXCEPT ![t] = @ + 1] ELSE paid[s]
  BY <1>1
<1>8. Kept \subseteq Topics /\ t \in Topics
  BY <1>1, TopicRows DEF SInv, Shapes
<1>9. /\ task'[e].at = "over" /\ pending'[e] = {} /\ AwardsAreKept'
      /\ \A s \in Learners : after'[e][s] = Nil
      /\ \A o \in Editors \ {e} : /\ task'[o] = task[o] /\ pending'[o] = pending[o]
                                  /\ before'[o] = before[o] /\ after'[o] = after[o]
  BY <1>1, LeaveEnds
<1>10. TaskIsSound(e)'
  BY <1>9, EndedIsSound
<1> HIDE DEF t, S
<1>11. STypeOK'
  <2>1. \A s \in Learners : done'[s] \subseteq Kept /\ paid'[s] \in [Topics -> Nat]
    <3> SUFFICES ASSUME NEW s \in Learners
                 PROVE  done'[s] \subseteq Kept /\ paid'[s] \in [Topics -> Nat]
      OBVIOUS
    <3>1. done[s] \subseteq Kept /\ paid[s] \in [Topics -> Nat]
      BY <1>2 DEF STypeOK
    <3>2. CASE s \in S
      <4>1. t \in Kept
        BY <1>3, <3>2
      <4>2. done'[s] = done[s] \cup {t} /\ paid'[s] = [paid[s] EXCEPT ![t] = @ + 1]
        BY <1>7, <3>2
      <4>3. paid[s][t] + 1 \in Nat
        BY <1>8, <3>1
      <4>4. paid'[s] \in [Topics -> Nat]
        BY <1>8, <3>1, <4>2, <4>3
      <4> QED
        BY <3>1, <4>1, <4>2, <4>4
    <3>3. CASE s \notin S
      BY <1>7, <3>1, <3>3
    <3> QED
      BY <3>2, <3>3
  <2>2. \A u \in Kept : At(u)' \in Int /\ topic'[u].active \in BOOLEAN
    BY <1>1, <1>2, <1>6 DEF STypeOK
  <2>3. status' \in {"active", "archived", "deleted"} /\ assigned' \subseteq Assignees
    BY <1>1, <1>2 DEF STypeOK
  <2> QED
    BY <1>6, <2>1, <2>2, <2>3 DEF STypeOK
<1>12. /\ TopicsAreSound'
       /\ \A s \in Learners : \A u : Led(s, u) => Led(s, u)'
  <2>1. \A s \in Learners : done[s] \subseteq done'[s]
    BY <1>7
  <2> QED
    BY <1>1, <1>6, <2>1 DEF TInv, TopicsAreSound, Led
<1>13. ASSUME NEW o \in Editors \ {e} PROVE TaskIsSound(o)'
  <2>1. TaskIsSound(o)
    BY DEF TInv
  <2>2. limit = 1 => ~Underway(o)
    BY <1>1 DEF TInv, OneTask, Underway
  <2>3. AwardsAreSound(before[o], after[o], XpTopic)'
    BY <1>5, <1>9, <2>1, <2>2, TaskAwardsStay
  <2>4. Coming(o)' = Coming(o)
    BY <1>9 DEF Coming
  <2> SUFFICES ASSUME NEW u, u = task[o].topic PROVE TaskIsSound(o)'
    OBVIOUS
  <2>5. Coming(o) \subseteq Learners
    BY DEF Coming, SInv, Shapes
  <2>6. InOrder' => \A s \in Coming(o)' : Led(s, u)'
    BY <1>6, <1>12, <2>1, <2>4, <2>5 DEF TaskIsSound
  <2>8. Coming(o)' # {} /\ status' # "deleted" => u \in Kept'
    BY <1>1, <1>6, <2>1, <2>4 DEF TaskIsSound
  <2>9. u = task'[o].topic /\ task'[o] = task[o]
    BY <1>9
  <2>10. \A s \in Learners : after'[o][s] # Nil <=> s \in pending'[o]
    BY <1>9, <2>1 DEF TaskIsSound
  <2> QED
    BY <2>1, <2>3, <2>6, <2>8, <2>9, <2>10 DEF TaskIsSound
<1>14. CompletedInOrder'
  <2> SUFFICES ASSUME tidy, NEW s \in Learners, NEW x \in done'[s] PROVE Led(s, x)'
    BY <1>1 DEF CompletedInOrder
  <2>1. CASE x \in done[s]
    BY <1>12, <2>1 DEF TInv, CompletedInOrder
  <2>2. CASE x \notin done[s]
    <3>1. s \in S /\ x = t
      BY <1>7, <2>2
    <3>2. InOrder /\ s \in Coming(e)
      BY <1>3, <1>4, <3>1 DEF InOrder
    <3>3. Led(s, t)
      BY <1>2, <3>2 DEF TaskIsSound, t
    <3> QED
      BY <1>12, <3>1, <3>3
  <2> QED
    BY <2>1, <2>2
<1>15. OneTask'
  <2>1. ~Underway(e)' /\ \A o \in Editors \ {e} : Underway(o)' <=> Underway(o)
    BY <1>9 DEF Underway
  <2> QED
    BY <1>1, <2>1 DEF TInv, OneTask
<1>16. SumsCoverTopics'
  <2> SUFFICES ASSUME NEW s \in Learners
               PROVE  XpTopic * Cardinality(done'[s]) <= xpLog'[s].sum
    BY DEF SumsCoverTopics
  <2>1. /\ XpTopic * Cardinality(done[s]) <= xpLog[s].sum
        /\ xpLog[s].sum \in Nat /\ XpTopic \in Nat
    BY LessonsAre DEF TInv, SumsCoverTopics, XpInv, XpAgrees, GTypeOK, XpTransactions
  <2>2. IsFiniteSet(done[s]) /\ Cardinality(done[s]) \in Nat
    <3>1. IsFiniteSet(Topics) /\ done[s] \in SUBSET Topics
      BY SchoolAssumption DEF SInv, Shapes
    <3> QED
      BY <3>1, FS_Subset, FS_CardinalityType
  <2>3. CASE s \notin S
    <3>1. done'[s] = done[s]
      BY <1>7, <2>3
    <3>2. xpLog'[s].sum = xpLog[s].sum + 0
      BY <1>5, <2>3
    <3>3. xpLog'[s].sum = xpLog[s].sum
      BY <2>1, <3>2
    <3> QED
      BY <2>1, <3>1, <3>3
  <2>4. CASE s \in S
    <3>1. Cardinality(done'[s]) \in {Cardinality(done[s]), Cardinality(done[s]) + 1}
      <4>1. done'[s] = done[s] \cup {t}
        BY <1>7, <2>4
      <4>2. Cardinality(done[s] \cup {t}) = IF t \in done[s] THEN Cardinality(done[s]) ELSE Cardinality(done[s]) + 1
        BY <2>2, FS_AddElement
      <4> QED
        BY <4>1, <4>2
    <3>2. xpLog'[s].sum = xpLog[s].sum + XpTopic
      BY <1>5, <2>4
    <3> SUFFICES ASSUME NEW c \in Nat, c = Cardinality(done[s]), NEW d, d = Cardinality(done'[s]),
                        NEW m \in Nat, m = xpLog[s].sum, NEW k \in Nat, k = XpTopic
                 PROVE  k * d <= m + k
      BY <2>1, <2>2, <3>2
    <3>3. k * c \in Nat /\ k * c <= m
      BY <2>1
    <3>4. k * (c + 1) = k * c + k
      OBVIOUS
    <3>5. d = c \/ d = c + 1
      BY <3>1
    <3> QED
      BY <3>3, <3>4, <3>5
  <2> QED
    BY <2>3, <2>4
<1> QED
  BY <1>5, <1>9, <1>10, <1>11, <1>12, <1>13, <1>14, <1>15, <1>16 DEF TInv

\* Every step of the syllabus keeps its invariants and that of the profiles.
LEMMA TopicsStep ==
  ASSUME TInv, SInv, XpInv, SNext
  PROVE  /\ TInv' /\ SInv' /\ XpInv' /\ XpGrows /\ UNCHANGED <<now, limit>>
         /\ profile' = profile \/ \E e \in Editors : Underway(e)
<1>1. SInv'
  BY SyllabusStep
<1>2. PICK e \in Editors :
        \/ ReadMaxIndex(e) \/ DeleteSyllabus(e)
        \/ \E t \in Topics : AddTopic(e, t) \/ DeleteTopic(e, t)
        \/ \E t \in Topics, i \in Places : AddTopicAt(e, t, i) \/ MoveTopic(e, t, i)
        \/ \E a, b \in Topics : ReorderTopics(e, <<a, b>>)
        \/ \E s \in {"active", "archived"} : UpdateSyllabus(e, s)
        \/ \E g \in Assignees : Assign(e, g) \/ Unassign(e, g)
        \/ \E t \in Topics, S \in Assignees : BulkComplete(e, t, S)
        \/ \E s \in Learners : CheckTopic(e, s)
        \/ CompleteTopic(e) \/ CommitTopics(e) \/ AbortTopics(e)
  BY DEF SNext
<1>3. TInv' /\ XpInv'
  BY <1>2, ReadStep, DeleteSyllabusStep, AddSteps, EditSteps, BulkStep, CheckStep, CompleteTopicStep,
     CommitTopicsStep, AbortTopicsStep
<1>4. UNCHANGED <<now, limit>> /\ (CommitTopics(e) \/ UNCHANGED xp)
  <2>1. ASSUME NEW t \in Topics, NEW i \in Places, AddTopicAt(e, t, i) \/ MoveTopic(e, t, i)
        PROVE  UNCHANGED <<now, limit, xp>>
    BY <2>1 DEF AddTopicAt, MoveTopic
  <2>2. ASSUME \/ ReadMaxIndex(e) \/ DeleteSyllabus(e)
               \/ \E t \in Topics : AddTopic(e, t) \/ DeleteTopic(e, t)
               \/ \E a, b \in Topics : ReorderTopics(e, <<a, b>>)
               \/ \E s \in {"active", "archived"} : UpdateSyllabus(e, s)
               \/ \E g \in Assignees : Assign(e, g) \/ Unassign(e, g)
        PROVE  UNCHANGED <<now, limit, xp>>
    BY <2>2 DEF ReadMaxIndex, DeleteSyllabus, AddTopic, DeleteTopic, ReorderTopics, UpdateSyllabus, Assign, Unassign
  <2>3. ASSUME \/ \E t \in Topics, S \in Assignees : BulkComplete(e, t, S)
               \/ \E s \in Learners : CheckTopic(e, s)
               \/ CompleteTopic(e) \/ AbortTopics(e)
        PROVE  UNCHANGED <<now, limit, xp>>
    <3>1. ASSUME NEW t, NEW S, BulkComplete(e, t, S) PROVE UNCHANGED <<now, limit, xp>>
      BY <3>1 DEF BulkComplete
    <3>2. ASSUME NEW s, CheckTopic(e, s) PROVE UNCHANGED <<now, limit, xp>>
      BY <3>2 DEF CheckTopic
    <3>3. ASSUME CompleteTopic(e) \/ AbortTopics(e) PROVE UNCHANGED <<now, limit, xp>>
      BY <3>3 DEF CompleteTopic, AbortTopics
    <3> QED
      BY <2>3, <3>1, <3>2, <3>3
  <2>4. CommitTopics(e) => UNCHANGED <<now, limit>>
    BY DEF CommitTopics
  <2> QED
    BY <1>2, <2>1, <2>2, <2>3, <2>4
<1>5. CASE CommitTopics(e)
  <2>1. XpGrows
    <3>1. SaveAwards(before[e], after[e], XpTopic) /\ AwardsAreSound(before[e], after[e], XpTopic)
      BY <1>5 DEF CommitTopics, TInv, TaskIsSound
    <3> QED
      BY <1>4, <3>1, LessonsAre, SaveStep
  <2>2. Underway(e)
    BY <1>5 DEF CommitTopics, Underway
  <2> QED
    BY <1>1, <1>3, <1>4, <2>1, <2>2
<1>6. CASE ~CommitTopics(e)
  <2>1. UNCHANGED xp
    BY <1>4, <1>6
  <2>2. XpGrows /\ profile' = profile
    BY <1>4, <2>1, XpStays DEF xp
  <2> QED
    BY <1>1, <1>3, <1>4, <2>2
<1> QED
  BY <1>5, <1>6

\* A syllabus is empty at first.
LEMMA TopicsStart ==
  ASSUME SInit, GInit
  PROVE  TInv /\ SInv
<1>1. SInv
  BY SyllabusStart
<1>2. Kept = {} /\ \A e \in Editors : ~Underway(e) /\ Coming(e) = {} /\ task[e].at = "idle"
  BY DEF SInit, Kept, Underway, Coming, NoTask
<1>3. STypeOK /\ TopicsAreSound /\ CompletedInOrder /\ OneTask
  BY <1>2 DEF SInit, STypeOK, TopicsAreSound, CompletedInOrder, OneTask
<1>4. Nobody = [s \in Learners |-> Nil]
  BY DEF Nobody
<1>5. AwardsAreKept /\ \A e \in Editors : \A s \in Learners : after[e][s] = Nil
  BY <1>4 DEF SInit, AwardsAreKept
<1>6. \A e \in Editors : TaskIsSound(e)
  BY <1>2, <1>5 DEF SInit, TaskIsSound, AwardsAreSound
<1>7. SumsCoverTopics
  <2>1. Cardinality({}) = 0 /\ XpTopic * 0 = 0
    BY FS_EmptySet, LessonsAre
  <2>2. \A s \in Learners : xpLog[s].sum = 0 /\ done[s] = {}
    BY DEF SInit, GInit
  <2> QED
    BY <2>1, <2>2 DEF SumsCoverTopics
<1> QED
  BY <1>1, <1>3, <1>5, <1>6, <1>7 DEF TInv

\* What the invariants say of the topics.
LEMMA TopicsAreInOrder ==
  ASSUME TInv, SInv, XpInv
  PROVE  TopicsAgree
<1>1. STypeOK /\ CompletedInOrder
  BY DEF TInv
<1>3. BoardIsCovered
  <2> SUFFICES ASSUME limit = 1, NEW s \in Learners
               PROVE  Score(s, "alltime") >= XpTopic * Cardinality(done[s])
    BY DEF BoardIsCovered, Board
  <2>1. Score(s, "alltime") = xpLog[s].sum
    BY DEF XpInv, XpAgrees, ProfileIsExact, DaysAgree, Score
  <2> QED
    BY <2>1 DEF TInv, SumsCoverTopics
<1> QED
  BY <1>1, <1>3 DEF TopicsAgree

-----------------------------------------------------------------------------
(* Attendance and topics together *)

\* What holds of a class: profiles, sheets and topics, and one request at a time.
ClassInv == XpInv /\ AInv /\ SInv /\ TInv /\ (limit = 1 => Serial)

\* One request at a time is one of either kind.
LEMMA OneKind ==
  ASSUME limit = 1 => Serial, limit = 1, NEW t \in Teachers, NEW e \in Editors
  PROVE  ~(Busy(t) /\ Underway(e))
BY DEF Serial, Underway

\* It holds throughout.
LEMMA ClassIsSound == ClassSpec => []ClassInv
<1>1. ClassInit => ClassInv
  <2> SUFFICES ASSUME ClassInit PROVE ClassInv
    OBVIOUS
  <2>1. AInv /\ XpInv /\ \A t \in Teachers : ~Busy(t)
    BY AttendanceStart DEF ClassInit
  <2>2. TInv /\ SInv
    BY TopicsStart DEF ClassInit
  <2> QED
    BY <2>1, <2>2 DEF ClassInv, Serial
<1>2. ClassInv /\ [ClassNext]_classroom => ClassInv'
  <2> SUFFICES ASSUME ClassInv, [ClassNext]_classroom PROVE ClassInv'
    OBVIOUS
  <2>1. XpInv /\ AInv /\ SInv /\ TInv /\ (limit = 1 => Serial) /\ now \in Nat
    BY DEF ClassInv, XpInv
  <2>2. CASE UNCHANGED classroom \/ (now' = now + 1 /\ UNCHANGED <<limit, xp, avars, svars>>)
    <3>1. UNCHANGED <<limit, xp, avars, svars>> /\ (now' = now + 1 \/ now' = now)
      BY <2>2 DEF classroom, clock
    <3>2. XpInv' /\ XpGrows /\ profile' = profile
      BY <2>1, <3>1, XpStays DEF xp
    <3>3. now' >= now
      BY <2>1, <3>1
    <3>4. AInv'
      BY <2>1, <3>1, <3>2, <3>3, AttendanceStays
    <3>5. TInv' /\ SInv'
      BY <2>1, <3>1, <3>2, TopicsStay
    <3>6. limit' = 1 => Serial'
      BY <2>1, <3>1 DEF avars, submission, svars, open, Serial, Busy
    <3> QED
      BY <3>2, <3>4, <3>5, <3>6 DEF ClassInv
  <2>3. CASE ANext /\ UNCHANGED svars /\ (limit = 1 => Serial')
    <3>1. /\ AInv' /\ XpInv' /\ XpGrows /\ UNCHANGED <<now, limit>>
          /\ profile' = profile \/ \E t \in Teachers : Busy(t)
      BY <2>1, <2>3, AttendanceStep
    <3>2. \A e \in Editors : limit = 1 /\ Underway(e) => profile' = profile
      BY <2>1, <3>1, OneKind
    <3>3. TInv' /\ SInv'
      BY <2>1, <2>3, <3>1, <3>2, TopicsStay
    <3> QED
      BY <2>3, <3>1, <3>3 DEF ClassInv
  <2>4. CASE SNext /\ UNCHANGED avars /\ (limit = 1 => Serial')
    <3>1. /\ TInv' /\ SInv' /\ XpInv' /\ XpGrows /\ UNCHANGED <<now, limit>>
          /\ profile' = profile \/ \E e \in Editors : Underway(e)
      BY <2>1, <2>4, TopicsStep
    <3>2. \A t \in Teachers : limit = 1 /\ Busy(t) => profile' = profile
      BY <2>1, <3>1, OneKind
    <3>3. now' >= now
      BY <2>1, <3>1
    <3>4. AInv'
      BY <2>1, <2>4, <3>1, <3>2, <3>3, AttendanceStays
    <3> QED
      BY <2>4, <3>1, <3>4 DEF ClassInv
  <2> QED
    BY <2>2, <2>3, <2>4 DEF ClassNext
<1> QED
  BY <1>1, <1>2, PTL DEF ClassSpec

\* Whatever lessons and topics award at once, a profile never shows more than was
\* earned; one request at a time, it shows exactly that, its level and its streak.
THEOREM XpAgreesCorrect == ClassSpec => []XpAgrees
<1>1. ClassInv => XpAgrees
  BY DEF ClassInv, XpInv
<1> QED
  BY <1>1, ClassIsSound, PTL

\* However sheets overlap, repeat and fail, an absence in the register is told.
THEOREM AbsenceIsToldCorrect == ClassSpec => []AbsenceIsTold
<1>1. ClassInv => AbsenceIsTold
  BY DEF ClassInv, AInv
<1> QED
  BY <1>1, ClassIsSound, PTL

\* The figures of the register do not contradict each other, and nobody is called late
\* who was in time.  Tenths of a percent tell lessons and students apart up to two
\* thousand.
THEOREM RegisterAgreesCorrect ==
  ASSUME Cardinality(HeldLessons) < 2000, Cardinality(Learners) <= 2000
  PROVE  ClassSpec => []RegisterAgrees
<1>1. ClassInv => RegisterAgrees
  BY RegisterIsSound DEF ClassInv
<1> QED
  BY <1>1, ClassIsSound, PTL

\* Students are led from topic to topic in their order, whatever is added at whichever
\* place and deleted, until a topic is moved, and the board shows no topics without
\* their XP.
THEOREM TopicsAgreeCorrect == ClassSpec => []TopicsAgree
<1>1. ClassInv => TopicsAgree
  BY TopicsAreInOrder DEF ClassInv
<1> QED
  BY <1>1, ClassIsSound, PTL

\* What the runs check of attendance and topics is such a class.
THEOREM SchoolIsAClass == SchoolSpec => ClassSpec
<1>1. SchoolInit => ClassInit
  BY DEF SchoolInit, ClassInit
<1>2. [SchoolNext]_<<part, vars, classroom, assessment, kpi>> => [ClassNext]_classroom
  <2> SUFFICES ASSUME [SchoolNext]_<<part, vars, classroom, assessment, kpi>> PROVE [ClassNext]_classroom
    OBVIOUS
  <2>1. ASSUME Tick PROVE ClassNext
    BY <2>1 DEF Tick, ClassNext
  <2> QED
    BY <2>1 DEF SchoolNext, ClassNext, classroom
<1> QED
  BY <1>1, <1>2, PTL DEF SchoolSpec, ClassSpec

-----------------------------------------------------------------------------
(* Grades: a request that writes nothing *)

\* Counting and comparing mean the same in every module.
LEMMA CountIsCount == ASSUME NEW X PROVE G!Cardinality(X) = Cardinality(X) /\ K!Cardinality(X) = Cardinality(X)
BY Zenon DEF G!Cardinality, K!Cardinality, Cardinality

\* So do the greatest and the least.
LEMMA MaxIsMax == ASSUME NEW X PROVE G!Max(X) = Max(X) /\ K!Max(X) = Max(X) /\ G!Min(X) = Min(X)
BY Zenon DEF G!Max, K!Max, G!Min, Max, Min

\* One request may start when nobody else has.
LEMMA GraderAlone ==
  ASSUME NEW r \in Workers, overlap = 1, G!Cardinality(G!OthersOf(r)) < overlap
  PROVE  \A o \in Workers \ {r} : ~G!Open(o)
<1>1. G!OthersOf(r) \in SUBSET Workers /\ IsFiniteSet(Workers)
  BY SchoolAssumption DEF G!OthersOf
<1>2. Cardinality(G!OthersOf(r)) < 1
  BY CountIsCount
<1>3. Cardinality(G!OthersOf(r)) \in Nat /\ (G!OthersOf(r) # {} <=> Cardinality(G!OthersOf(r)) > 0)
  BY <1>1, CountOf
<1>4. G!OthersOf(r) = {}
  BY <1>2, <1>3
<1> QED
  BY <1>4 DEF G!OthersOf

\* A step of one request that writes no grade.
LEMMA GraderMoves ==
  ASSUME G!GradesInv, NEW r \in Workers,
         UNCHANGED <<hour, overlap, deadline, belongs, inactive, grades, changes>>,
         \A o \in Workers \ {r} : batch'[o] = batch[o] /\ found'[o] = found[o],
         G!GradesAreKept', G!Open(r)' => G!BatchIsSound(r)',
         \A p \in Pupils, d \in DeadlineDays : found'[r][p][d] # None => G!EntryIsSound(r, p, d)',
         overlap = 1 /\ G!Open(r)' => G!Open(r) \/ \A o \in Workers \ {r} : ~G!Open(o)
  PROVE  G!GradesInv'
<1>1. \A p, g : G!RowsOf(p, g)' = G!RowsOf(p, g)
  BY DEF G!RowsOf
<1>2. G!TypeOK' /\ G!OneDay' /\ G!OneRow' /\ G!LateFitsTime'
  BY <1>1 DEF G!GradesInv, G!TypeOK, G!OneDay, G!OneRow, G!LateFitsTime
<1>3. ASSUME NEW o \in Workers \ {r}, G!Open(o)'
      PROVE  G!BatchIsSound(o)' /\ G!Open(o)
  <2>1. G!BatchIsSound(o) /\ G!Open(o)
    BY <1>3 DEF G!GradesInv, G!Open
  <2>2. ASSUME NEW p, NEW d, NEW row, G!ReadIsSound(o, p, d, row)
        PROVE  G!ReadIsSound(o, p, d, row)'
    BY <1>1, <2>2 DEF G!ReadIsSound
  <2> SUFFICES ASSUME NEW w, w = batch[o].who, NEW x, x = batch[o].on, NEW y, y = batch[o].row
               PROVE  G!BatchIsSound(o)'
    BY <2>1
  <2>3. batch[o].at = "found" => G!ReadIsSound(o, w, x, y)'
    BY <2>1, <2>2 DEF G!BatchIsSound
  <2> QED
    BY <2>1, <2>3 DEF G!BatchIsSound
<1>4. ASSUME NEW o \in Workers \ {r}, NEW p \in Pupils, NEW d \in DeadlineDays, found'[o][p][d] # None
      PROVE  G!EntryIsSound(o, p, d)'
  <2>1. G!EntryIsSound(o, p, d)
    BY <1>4 DEF G!GradesInv
  <2>2. found'[r][p][d] = None
    BY <1>4 DEF G!EntryIsSound
  <2>3. \A x \in Workers \ {o} : found'[x][p][d] = None
    BY <2>1, <2>2 DEF G!EntryIsSound
  <2>4. ASSUME NEW row, G!ReadIsSound(o, p, d, row)
        PROVE  G!ReadIsSound(o, p, d, row)'
    BY <1>1, <2>4 DEF G!ReadIsSound
  <2> SUFFICES ASSUME NEW y, y = found[o][p][d].old PROVE G!EntryIsSound(o, p, d)'
    OBVIOUS
  <2>5. G!ReadIsSound(o, p, d, y)'
    BY <2>1, <2>4 DEF G!EntryIsSound
  <2> QED
    BY <2>1, <2>3, <2>5 DEF G!EntryIsSound, G!Open
<1>5. \A o \in Workers : G!Open(o)' => G!BatchIsSound(o)'
  BY <1>3
<1>6. \A o \in Workers, p \in Pupils, d \in DeadlineDays : found'[o][p][d] # None => G!EntryIsSound(o, p, d)'
  BY <1>4
<1>7. overlap' = 1 => \A x, o \in Workers : G!Open(x)' /\ G!Open(o)' => x = o
  BY <1>3 DEF G!GradesInv
<1> QED
  BY <1>2, <1>5, <1>6, <1>7 DEF G!GradesInv

\* The shapes of the requests after a step of one of them that flushes nothing.
LEMMA KeptGrades ==
  ASSUME G!GradesInv, NEW r \in Workers, NEW b, batch' = [batch EXCEPT ![r] = b], found' = found,
         b = [at |-> b.at, group |-> b.group, todo |-> b.todo, score |-> b.score, day |-> b.day,
              late |-> b.late, time |-> b.time, who |-> b.who, on |-> b.on, row |-> b.row]
  PROVE  G!GradesAreKept'
<1>1. batch = [o \in Workers |-> batch[o]]
  BY DEF G!GradesInv, G!GradesAreKept
<1>2. batch' = [o \in Workers |-> batch'[o]]
  BY <1>1
<1>3. \A o \in Workers : batch'[o] = IF o = r THEN b ELSE batch[o]
  BY <1>1
<1>4. ASSUME NEW o \in Workers, NEW x, x = batch'[o]
      PROVE  x = [at |-> x.at, group |-> x.group, todo |-> x.todo, score |-> x.score, day |-> x.day,
                  late |-> x.late, time |-> x.time, who |-> x.who, on |-> x.on, row |-> x.row]
  <2>1. CASE o = r
    BY <1>3, <1>4, <2>1
  <2>2. CASE o # r
    BY <1>3, <1>4, <2>2 DEF G!GradesInv, G!GradesAreKept
  <2> QED
    BY <2>1, <2>2
<1>5. found' = [o \in Workers |-> [p \in Pupils |-> [d \in DeadlineDays |-> found'[o][p][d]]]]
  BY DEF G!GradesInv, G!GradesAreKept
<1> QED
  BY <1>2, <1>4, <1>5 DEF G!GradesAreKept

\* A submission, with the deadline it reads.
LEMMA BulkSubmitStep ==
  ASSUME G!GradesInv, NEW r \in Workers, NEW g \in Groups, NEW S \in SUBSET Pupils, NEW x \in [S -> Grades],
         G!BulkSubmit(r, g, x)
  PROVE  G!GradesInv'
<1> DEFINE b == [at |-> "open", group |-> g, todo |-> DOMAIN x, score |-> x,
                 day |-> deadline[g], late |-> G!Overdue(deadline[g]), time |-> hour,
                 who |-> None, on |-> 0, row |-> None]
<1>1. /\ batch[r].at = "idle" /\ G!Cardinality(G!OthersOf(r)) < overlap
      /\ batch' = [batch EXCEPT ![r] = b]
      /\ UNCHANGED <<hour, overlap, deadline, belongs, inactive, grades, found, changes>>
  BY DEF G!BulkSubmit
<1>2. /\ b.at = "open" /\ b.group = g /\ b.todo = S /\ b.score = x /\ b.day = deadline[g]
      /\ b.late = (hour - Ahead > deadline[g]) /\ b.time = hour
      /\ b = [at |-> b.at, group |-> b.group, todo |-> b.todo, score |-> b.score, day |-> b.day,
              late |-> b.late, time |-> b.time, who |-> b.who, on |-> b.on, row |-> b.row]
  BY DEF G!Overdue, G!CalcDeadline
<1> HIDE DEF b
<1>3. batch = [o \in Workers |-> batch[o]]
  BY DEF G!GradesInv, G!GradesAreKept
<1>4. batch'[r] = b /\ \A o \in Workers \ {r} : batch'[o] = batch[o] /\ found'[o] = found[o]
  BY <1>1, <1>3
<1>5. G!GradesAreKept'
  BY <1>1, <1>2, <1>4, KeptGrades
<1>6. ~G!Open(r) /\ G!Open(r)'
  BY <1>1, <1>2, <1>4 DEF G!Open
<1>7. G!BatchIsSound(r)'
  <2>1. deadline[g] \in DeadlineDays /\ hour \in Nat /\ deadline[g] \in Int /\ Ahead \in Int
    BY SchoolAssumption DEF G!GradesInv, G!TypeOK
  <2>2. DOMAIN x = S /\ \A p \in S : x[p] \in Grades
    OBVIOUS
  <2>3. hour' \in 0..hour' /\ (hour - Ahead > deadline[g]) \in BOOLEAN
    BY <1>1, <2>1
  <2>4. b.late \in BOOLEAN
    BY <1>2, <2>3
  <2> QED
    BY <1>1, <1>2, <1>4, <2>1, <2>2, <2>3, <2>4 DEF G!BatchIsSound
<1>8. ASSUME NEW p \in Pupils, NEW d \in DeadlineDays, found'[r][p][d] # None
      PROVE  FALSE
  <2>1. found[r][p][d] # None
    BY <1>1, <1>8
  <2>2. G!EntryIsSound(r, p, d)
    BY <2>1 DEF G!GradesInv
  <2> QED
    BY <1>6, <2>2 DEF G!EntryIsSound
<1>9. overlap = 1 => \A o \in Workers \ {r} : ~G!Open(o)
  BY <1>1, GraderAlone
<1> QED
  BY <1>1, <1>4, <1>5, <1>7, <1>8, <1>9, GraderMoves

\* What a request notes of the row it has found.
LEMMA FoundFields ==
  ASSUME NEW x, NEW p, NEW d, NEW row, NEW y, y = [x EXCEPT !.at = "found", !.who = p, !.on = d, !.row = row],
         x = [at |-> x.at, group |-> x.group, todo |-> x.todo, score |-> x.score, day |-> x.day,
              late |-> x.late, time |-> x.time, who |-> x.who, on |-> x.on, row |-> x.row]
  PROVE  /\ y.at = "found" /\ y.who = p /\ y.on = d /\ y.row = row /\ y.group = x.group
         /\ y.todo = x.todo /\ y.score = x.score /\ y.day = x.day /\ y.late = x.late /\ y.time = x.time
         /\ y = [at |-> y.at, group |-> y.group, todo |-> y.todo, score |-> y.score, day |-> y.day,
                 late |-> y.late, time |-> y.time, who |-> y.who, on |-> y.on, row |-> y.row]
<1>1. y = [at |-> "found", group |-> x.group, todo |-> x.todo, score |-> x.score, day |-> x.day,
           late |-> x.late, time |-> x.time, who |-> p, on |-> d, row |-> row]
  OBVIOUS
<1> QED
  BY <1>1

\* The row of the next student.
LEMMA FindEntryStep ==
  ASSUME G!GradesInv, NEW r \in Workers, NEW p \in Pupils, G!FindEntry(r, p)
  PROVE  G!GradesInv'
<1> DEFINE b   == batch[r]
           has == G!RowFor(p, b.group, b.day)
           slot == IF has = {} THEN b.day ELSE CHOOSE d \in has : TRUE
           row == IF has = {} THEN None ELSE grades[p][slot]
           c   == [batch[r] EXCEPT !.at = "found", !.who = p, !.on = slot, !.row = row]
<1>1. /\ b.at = "open" /\ p \in b.todo /\ batch' = [batch EXCEPT ![r] = c]
      /\ UNCHANGED <<hour, overlap, deadline, belongs, inactive, grades, found, changes>>
  BY DEF G!FindEntry
<1>2. /\ batch = [o \in Workers |-> batch[o]] /\ b = batch[r]
      /\ b = [at |-> b.at, group |-> b.group, todo |-> b.todo, score |-> b.score, day |-> b.day,
              late |-> b.late, time |-> b.time, who |-> b.who, on |-> b.on, row |-> b.row]
      /\ G!Open(r)
  BY <1>1 DEF G!GradesInv, G!GradesAreKept, G!Open
<1>3. G!BatchIsSound(r)
  BY <1>2 DEF G!GradesInv
<1>4. has = G!RowsOf(p, b.group)
  BY DEF G!RowFor
<1>5. /\ slot \in DeadlineDays /\ G!ReadIsSound(r, p, slot, row)
  <2>1. CASE has = {}
    BY <1>3, <1>4, <2>1 DEF G!ReadIsSound, G!BatchIsSound
  <2>2. CASE has # {}
    <3>1. slot \in has
      BY <2>2
    <3>2. slot \in DeadlineDays /\ grades[p][slot] # None /\ grades[p][slot].group = b.group
      BY <1>4, <3>1 DEF G!RowsOf
    <3>3. grades[p][slot] \in G!GradeRow
      BY <3>2 DEF G!GradesInv
    <3> QED
      BY <1>4, <2>2, <3>1, <3>2, <3>3 DEF G!ReadIsSound
  <2> QED
    BY <2>1, <2>2
<1> HIDE DEF has, slot, row
<1>6. /\ c.at = "found" /\ c.who = p /\ c.on = slot /\ c.row = row /\ c.group = b.group /\ c.todo = b.todo
      /\ c.score = b.score /\ c.day = b.day /\ c.late = b.late /\ c.time = b.time
      /\ c = [at |-> c.at, group |-> c.group, todo |-> c.todo, score |-> c.score, day |-> c.day,
              late |-> c.late, time |-> c.time, who |-> c.who, on |-> c.on, row |-> c.row]
  <2> HIDE DEF slot, row
  <2>1. c = [b EXCEPT !.at = "found", !.who = p, !.on = slot, !.row = row]
    OBVIOUS
  <2> HIDE DEF c, b
  <2> QED
    BY <1>2, <2>1, FoundFields
<1> HIDE DEF c
<1>7. batch'[r] = c /\ \A o \in Workers \ {r} : batch'[o] = batch[o] /\ found'[o] = found[o]
  BY <1>1, <1>2
<1>8. G!GradesAreKept'
  BY <1>1, <1>6, KeptGrades
<1>9. \A q, g : G!RowsOf(q, g)' = G!RowsOf(q, g)
  BY <1>1 DEF G!RowsOf
<1>10. ASSUME NEW q, NEW d, NEW y, G!ReadIsSound(r, q, d, y)
       PROVE  G!ReadIsSound(r, q, d, y)'
  BY <1>1, <1>6, <1>7, <1>9, <1>10 DEF G!ReadIsSound
<1>11. G!BatchIsSound(r)'
  <2> SUFFICES ASSUME NEW d, d = slot, NEW y, y = row PROVE G!BatchIsSound(r)'
    OBVIOUS
  <2>1. G!ReadIsSound(r, p, d, y)'
    BY <1>5, <1>10
  <2> QED
    BY <1>1, <1>3, <1>5, <1>6, <1>7, <2>1 DEF G!BatchIsSound
<1>12. ASSUME NEW q \in Pupils, NEW d \in DeadlineDays, found'[r][q][d] # None
       PROVE  G!EntryIsSound(r, q, d)'
  <2>1. G!EntryIsSound(r, q, d)
    BY <1>1, <1>12 DEF G!GradesInv
  <2> SUFFICES ASSUME NEW y, y = found[r][q][d].old PROVE G!EntryIsSound(r, q, d)'
    OBVIOUS
  <2>2. G!ReadIsSound(r, q, d, y)'
    BY <1>10, <2>1 DEF G!EntryIsSound
  <2>3. G!Open(r)'
    BY <1>6, <1>7 DEF G!Open
  <2> QED
    BY <1>1, <1>6, <1>7, <2>1, <2>2, <2>3 DEF G!EntryIsSound
<1> QED
  BY <1>1, <1>2, <1>7, <1>8, <1>11, <1>12, GraderMoves

-----------------------------------------------------------------------------
(* Grades: entries, and requests that end *)

\* What a request notes of an entry it has flushed.
LEMMA FlushedFields ==
  ASSUME NEW x, NEW S, NEW y, y = [x EXCEPT !.at = "open", !.todo = S],
         x = [at |-> x.at, group |-> x.group, todo |-> x.todo, score |-> x.score, day |-> x.day,
              late |-> x.late, time |-> x.time, who |-> x.who, on |-> x.on, row |-> x.row]
  PROVE  /\ y.at = "open" /\ y.who = x.who /\ y.on = x.on /\ y.row = x.row /\ y.group = x.group
         /\ y.todo = S /\ y.score = x.score /\ y.day = x.day /\ y.late = x.late /\ y.time = x.time
         /\ y = [at |-> y.at, group |-> y.group, todo |-> y.todo, score |-> y.score, day |-> y.day,
                 late |-> y.late, time |-> y.time, who |-> y.who, on |-> y.on, row |-> y.row]
<1>1. y = [at |-> "open", group |-> x.group, todo |-> S, score |-> x.score, day |-> x.day,
           late |-> x.late, time |-> x.time, who |-> x.who, on |-> x.on, row |-> x.row]
  OBVIOUS
<1> QED
  BY <1>1

\* An entry is flushed where neither this request nor another one has one.
LEMMA SaveEntryStep ==
  ASSUME G!GradesInv, NEW r \in Workers, G!SaveEntry(r)
  PROVE  G!GradesInv'
<1> DEFINE b   == batch[r]
           row == [group |-> b.group, score |-> b.score[b.who], late |-> b.late, time |-> b.time]
           f   == [old |-> b.row, new |-> row]
           c   == [b EXCEPT !.at = "open", !.todo = b.todo \ {b.who}]
<1>1. /\ b.at = "found" /\ (b.row = None => grades[b.who][b.on] = None)
      /\ \A o \in G!OthersOf(r) : found[o][b.who][b.on] = None
      /\ found' = [found EXCEPT ![r][b.who][b.on] = f]
      /\ batch' = [batch EXCEPT ![r] = c]
      /\ UNCHANGED <<hour, overlap, deadline, belongs, inactive, grades, changes>>
  BY DEF G!SaveEntry
<1>2. /\ batch = [o \in Workers |-> batch[o]]
      /\ b = [at |-> b.at, group |-> b.group, todo |-> b.todo, score |-> b.score, day |-> b.day,
              late |-> b.late, time |-> b.time, who |-> b.who, on |-> b.on, row |-> b.row]
      /\ found = [o \in Workers |-> [p \in Pupils |-> [d \in DeadlineDays |-> found[o][p][d]]]]
      /\ G!Open(r)
  BY <1>1 DEF G!GradesInv, G!GradesAreKept, G!Open
<1>3. G!BatchIsSound(r)
  BY <1>2 DEF G!GradesInv
<1>4. b.who \in b.todo /\ b.who \in Pupils /\ b.on \in DeadlineDays /\ G!ReadIsSound(r, b.who, b.on, b.row)
  BY <1>1, <1>3 DEF G!BatchIsSound
<1>5. /\ c.at = "open" /\ c.who = b.who /\ c.on = b.on /\ c.row = b.row /\ c.group = b.group
      /\ c.todo = b.todo \ {b.who} /\ c.score = b.score /\ c.day = b.day /\ c.late = b.late /\ c.time = b.time
      /\ c = [at |-> c.at, group |-> c.group, todo |-> c.todo, score |-> c.score, day |-> c.day,
              late |-> c.late, time |-> c.time, who |-> c.who, on |-> c.on, row |-> c.row]
  <2> HIDE DEF b
  <2>1. c = [b EXCEPT !.at = "open", !.todo = b.todo \ {b.who}]
    OBVIOUS
  <2> HIDE DEF c
  <2> QED
    BY <1>2, <2>1, FlushedFields
<1> HIDE DEF c
<1>6. batch'[r] = c /\ \A o \in Workers \ {r} : batch'[o] = batch[o] /\ found'[o] = found[o]
  BY <1>1, <1>2
<1>7. \A p \in Pupils, d \in DeadlineDays :
        found'[r][p][d] = IF p = b.who /\ d = b.on THEN f ELSE found[r][p][d]
  BY <1>1, <1>2, <1>4
<1>8. G!GradesAreKept'
  <2>1. batch' = [o \in Workers |-> batch'[o]]
    BY <1>1, <1>2
  <2>2. ASSUME NEW o \in Workers, NEW x, x = batch'[o]
        PROVE  x = [at |-> x.at, group |-> x.group, todo |-> x.todo, score |-> x.score, day |-> x.day,
                    late |-> x.late, time |-> x.time, who |-> x.who, on |-> x.on, row |-> x.row]
    <3>1. CASE o = r
      BY <1>5, <1>6, <2>2, <3>1
    <3>2. CASE o # r
      BY <1>6, <2>2, <3>2 DEF G!GradesInv, G!GradesAreKept
    <3> QED
      BY <3>1, <3>2
  <2>3. found' = [o \in Workers |-> [p \in Pupils |-> [d \in DeadlineDays |-> found'[o][p][d]]]]
    <3> SUFFICES ASSUME NEW x \in Pupils, x = b.who, NEW e \in DeadlineDays, e = b.on,
                        found' = [found EXCEPT ![r][x][e] = f]
                 PROVE  found' = [o \in Workers |-> [p \in Pupils |-> [d \in DeadlineDays |-> found'[o][p][d]]]]
      BY <1>1, <1>4
    <3> HIDE DEF f, b, row
    <3>1. found' = [o \in Workers |-> IF o = r THEN [found[r] EXCEPT ![x][e] = f] ELSE found[o]]
      BY <1>2
    <3>2. ASSUME NEW o \in Workers
          PROVE  found'[o] = [p \in Pupils |-> [d \in DeadlineDays |-> found'[o][p][d]]]
      <4>1. found[o] = [p \in Pupils |-> [d \in DeadlineDays |-> found[o][p][d]]]
        BY <1>2
      <4>2. [found[o] EXCEPT ![x][e] = f]
            = [p \in Pupils |-> [d \in DeadlineDays |-> [found[o] EXCEPT ![x][e] = f][p][d]]]
        BY <4>1
      <4>3. CASE o = r
        <5>1. found'[o] = [found[o] EXCEPT ![x][e] = f]
          BY <3>1, <4>3
        <5> QED
          BY <4>2, <5>1
      <4>4. CASE o # r
        <5>1. found'[o] = found[o]
          BY <3>1, <4>4
        <5> QED
          BY <4>1, <5>1
      <4> QED
        BY <4>3, <4>4
    <3> QED
      BY <3>1, <3>2
  <2> QED
    BY <2>1, <2>2, <2>3 DEF G!GradesAreKept
<1>9. \A q, g : G!RowsOf(q, g)' = G!RowsOf(q, g)
  BY <1>1 DEF G!RowsOf
<1>10. ASSUME NEW q, NEW d, NEW y, G!ReadIsSound(r, q, d, y)
       PROVE  G!ReadIsSound(r, q, d, y)'
  BY <1>1, <1>5, <1>6, <1>9, <1>10 DEF G!ReadIsSound
<1>11. G!BatchIsSound(r)'
  BY <1>1, <1>3, <1>5, <1>6 DEF G!BatchIsSound
<1>12. G!Open(r)' /\ \A o \in Workers \ {r}, p \in Pupils, d \in DeadlineDays :
         found[o][p][d] # None => G!Open(o)
  <2>1. G!Open(r)'
    BY <1>5, <1>6 DEF G!Open
  <2>2. ASSUME NEW o \in Workers, NEW p \in Pupils, NEW d \in DeadlineDays, found[o][p][d] # None
        PROVE  G!Open(o)
    <3>1. G!EntryIsSound(o, p, d)
      BY <2>2 DEF G!GradesInv
    <3> QED
      BY <3>1 DEF G!EntryIsSound
  <2> QED
    BY <2>1, <2>2
<1>13. \A o \in Workers \ {r} : found'[o][b.who][b.on] = None
  BY <1>1, <1>4, <1>6, <1>12 DEF G!OthersOf
<1>14. ASSUME NEW d \in DeadlineDays, found[r][b.who][d] # None
       PROVE  FALSE
  <2>1. G!EntryIsSound(r, b.who, d)
    BY <1>4, <1>14 DEF G!GradesInv
  <2> QED
    BY <1>4, <2>1 DEF G!EntryIsSound
<1>15. ASSUME NEW q \in Pupils, NEW d \in DeadlineDays, found'[r][q][d] # None
       PROVE  G!EntryIsSound(r, q, d)'
  <2>1. CASE q = b.who
    <3>1. d = b.on /\ found'[r][q][d] = f
      BY <1>7, <1>14, <1>15, <2>1
    <3>2. \A e \in DeadlineDays : found'[r][q][e] # None => e = d
      BY <1>7, <1>14, <2>1, <3>1
    <3> SUFFICES ASSUME NEW y, y = b.row, NEW z, z = row PROVE G!EntryIsSound(r, q, d)'
      OBVIOUS
    <3>3. G!ReadIsSound(r, q, d, y)' /\ (y = None => grades'[q][d] = None)
      BY <1>1, <1>4, <1>10, <2>1, <3>1
    <3>4. found'[r][q][d] = [old |-> y, new |-> z] /\ q \in DOMAIN c.score \ c.todo
          /\ z = [group |-> c.group, score |-> c.score[q], late |-> c.late, time |-> c.time]
      BY <1>3, <1>4, <1>5, <2>1, <3>1 DEF G!BatchIsSound
    <3>5. found'[r][q][d].old = y
      BY <3>4
    <3>6. \A o \in Workers \ {r} : found'[o][q][d] = None
      BY <1>13, <2>1, <3>1
    <3> QED
      BY <1>6, <1>12, <3>2, <3>3, <3>4, <3>5, <3>6 DEF G!EntryIsSound
  <2>2. CASE q # b.who
    <3>1. \A e \in DeadlineDays : found'[r][q][e] = found[r][q][e]
      BY <1>7, <2>2
    <3>2. G!EntryIsSound(r, q, d)
      BY <1>15, <3>1 DEF G!GradesInv
    <3> SUFFICES ASSUME NEW y, y = found[r][q][d].old PROVE G!EntryIsSound(r, q, d)'
      OBVIOUS
    <3>3. G!ReadIsSound(r, q, d, y)' /\ (y = None => grades'[q][d] = None)
      BY <1>1, <1>10, <3>2 DEF G!EntryIsSound
    <3>4. found'[r][q][d] = [old |-> y, new |-> [group |-> c.group, score |-> c.score[q], late |-> c.late, time |-> c.time]]
          /\ q \in DOMAIN c.score \ c.todo
      BY <1>5, <3>1, <3>2 DEF G!EntryIsSound
    <3>5. \A o \in Workers \ {r} : found'[o][q][d] = None
      BY <1>6, <3>2 DEF G!EntryIsSound
    <3>6. \A e \in DeadlineDays : found'[r][q][e] # None => e = d
      BY <3>1, <3>2 DEF G!EntryIsSound
    <3> QED
      BY <1>6, <1>12, <3>1, <3>3, <3>4, <3>5, <3>6 DEF G!EntryIsSound
  <2> QED
    BY <2>1, <2>2
<1> QED
  BY <1>1, <1>2, <1>6, <1>8, <1>11, <1>15, GraderMoves

\* A request ends: the others keep what they have found and flushed, when the rows
\* stay or are written where they have flushed nothing.
LEMMA GraderCloses ==
  ASSUME G!GradesInv, NEW r \in Workers, G!Close(r),
         \A o \in Workers \ {r}, p \in Pupils, d \in DeadlineDays : \A row :
            G!Open(o) /\ G!ReadIsSound(o, p, d, row) => G!ReadIsSound(o, p, d, row)',
         \A o \in Workers \ {r}, p \in Pupils, d \in DeadlineDays :
            found[o][p][d] # None /\ grades[p][d] = None => grades'[p][d] = None
  PROVE  /\ G!GradesAreKept'
         /\ \A o \in Workers : G!Open(o)' => G!BatchIsSound(o)'
         /\ \A o \in Workers, p \in Pupils, d \in DeadlineDays :
              found'[o][p][d] # None => G!EntryIsSound(o, p, d)'
         /\ overlap' = 1 => \A x, o \in Workers : G!Open(x)' /\ G!Open(o)' => x = o
<1> DEFINE c == [G!NoBatch EXCEPT !.at = "over"]
<1>1. /\ batch' = [batch EXCEPT ![r] = c] /\ found' = [found EXCEPT ![r] = G!NoRow]
      /\ UNCHANGED <<hour, overlap, deadline, belongs, inactive, changes>>
  BY DEF G!Close
<1>2. /\ batch = [o \in Workers |-> batch[o]]
      /\ found = [o \in Workers |-> [p \in Pupils |-> [d \in DeadlineDays |-> found[o][p][d]]]]
  BY DEF G!GradesInv, G!GradesAreKept
<1>3. /\ c.at = "over"
      /\ c = [at |-> c.at, group |-> c.group, todo |-> c.todo, score |-> c.score, day |-> c.day,
              late |-> c.late, time |-> c.time, who |-> c.who, on |-> c.on, row |-> c.row]
  <2> SUFFICES ASSUME NEW x, x = G!NoBatch, NEW y, y = [x EXCEPT !.at = "over"]
               PROVE  /\ y.at = "over"
                      /\ y = [at |-> y.at, group |-> y.group, todo |-> y.todo, score |-> y.score, day |-> y.day,
                              late |-> y.late, time |-> y.time, who |-> y.who, on |-> y.on, row |-> y.row]
    OBVIOUS
  <2>1. x = [at |-> x.at, group |-> x.group, todo |-> x.todo, score |-> x.score, day |-> x.day,
             late |-> x.late, time |-> x.time, who |-> x.who, on |-> x.on, row |-> x.row]
    BY DEF G!NoBatch
  <2>2. y = [at |-> "over", group |-> x.group, todo |-> x.todo, score |-> x.score, day |-> x.day,
             late |-> x.late, time |-> x.time, who |-> x.who, on |-> x.on, row |-> x.row]
    BY <2>1
  <2> QED
    BY <2>2
<1> HIDE DEF c
<1>4. batch'[r] = c /\ \A o \in Workers \ {r} : batch'[o] = batch[o] /\ found'[o] = found[o]
  BY <1>1, <1>2
<1>5. \A p \in Pupils, d \in DeadlineDays : found'[r][p][d] = None
  BY <1>1, <1>2 DEF G!NoRow
<1>6. G!GradesAreKept'
  <2>1. batch' = [o \in Workers |-> batch'[o]]
    BY <1>1, <1>2
  <2>2. ASSUME NEW o \in Workers, NEW x, x = batch'[o]
        PROVE  x = [at |-> x.at, group |-> x.group, todo |-> x.todo, score |-> x.score, day |-> x.day,
                    late |-> x.late, time |-> x.time, who |-> x.who, on |-> x.on, row |-> x.row]
    <3>1. CASE o = r
      BY <1>3, <1>4, <2>2, <3>1
    <3>2. CASE o # r
      BY <1>4, <2>2, <3>2 DEF G!GradesInv, G!GradesAreKept
    <3> QED
      BY <3>1, <3>2
  <2>3. found' = [o \in Workers |-> [p \in Pupils |-> [d \in DeadlineDays |-> found'[o][p][d]]]]
    <3>1. found' = [o \in Workers |-> IF o = r THEN G!NoRow ELSE found[o]]
      BY <1>1, <1>2
    <3>2. G!NoRow = [p \in Pupils |-> [d \in DeadlineDays |-> G!NoRow[p][d]]]
      BY DEF G!NoRow
    <3>3. \A o \in Workers : found[o] = [p \in Pupils |-> [d \in DeadlineDays |-> found[o][p][d]]]
      BY <1>2
    <3>4. ASSUME NEW o \in Workers
          PROVE  found'[o] = [p \in Pupils |-> [d \in DeadlineDays |-> found'[o][p][d]]]
      <4>1. CASE o = r
        <5>1. found'[o] = G!NoRow
          BY <3>1, <4>1
        <5> QED
          BY <3>2, <5>1
      <4>2. CASE o # r
        <5>1. found'[o] = found[o]
          BY <3>1, <4>2
        <5> QED
          BY <3>3, <5>1
      <4> QED
        BY <4>1, <4>2
    <3> QED
      BY <3>1, <3>4
  <2> QED
    BY <2>1, <2>2, <2>3 DEF G!GradesAreKept
<1>7. ~G!Open(r)' /\ \A o \in Workers \ {r} : G!Open(o)' = G!Open(o)
  BY <1>3, <1>4 DEF G!Open
<1>8. ASSUME NEW o \in Workers, G!Open(o)'
      PROVE  G!BatchIsSound(o)'
  <2>1. o # r /\ G!Open(o) /\ G!BatchIsSound(o)
    BY <1>7, <1>8 DEF G!GradesInv
  <2> SUFFICES ASSUME NEW w, w = batch[o].who, NEW x, x = batch[o].on, NEW y, y = batch[o].row
               PROVE  G!BatchIsSound(o)'
    OBVIOUS
  <2>2. batch[o].at = "found" => w \in Pupils /\ x \in DeadlineDays /\ G!ReadIsSound(o, w, x, y)'
    BY <2>1 DEF G!BatchIsSound
  <2> QED
    BY <1>1, <1>4, <2>1, <2>2 DEF G!BatchIsSound
<1>9. ASSUME NEW o \in Workers, NEW p \in Pupils, NEW d \in DeadlineDays, found'[o][p][d] # None
      PROVE  G!EntryIsSound(o, p, d)'
  <2>1. o # r /\ found[o][p][d] # None
    BY <1>4, <1>5, <1>9
  <2>2. G!EntryIsSound(o, p, d)
    BY <2>1 DEF G!GradesInv
  <2>3. \A x \in Workers \ {o} : found'[x][p][d] = None
    BY <1>4, <1>5, <2>2 DEF G!EntryIsSound
  <2> SUFFICES ASSUME NEW y, y = found[o][p][d].old PROVE G!EntryIsSound(o, p, d)'
    OBVIOUS
  <2>4. G!ReadIsSound(o, p, d, y)' /\ (y = None => grades'[p][d] = None)
    BY <2>1, <2>2 DEF G!EntryIsSound
  <2> QED
    BY <1>4, <1>7, <2>1, <2>2, <2>3, <2>4 DEF G!EntryIsSound
<1>10. overlap' = 1 => \A x, o \in Workers : G!Open(x)' /\ G!Open(o)' => x = o
  BY <1>1, <1>7 DEF G!GradesInv
<1> QED
  BY <1>6, <1>8, <1>9, <1>10

\* A rollback.
LEMMA AbortGradesStep ==
  ASSUME G!GradesInv, NEW r \in Workers, G!AbortGrades(r)
  PROVE  G!GradesInv'
<1>1. G!Close(r) /\ UNCHANGED <<hour, overlap, deadline, belongs, inactive, grades, changes>>
  BY DEF G!AbortGrades, G!Close
<1>2. \A q, g : G!RowsOf(q, g)' = G!RowsOf(q, g)
  BY <1>1 DEF G!RowsOf
<1>3. G!TypeOK' /\ G!OneDay' /\ G!OneRow' /\ G!LateFitsTime'
  BY <1>1, <1>2 DEF G!GradesInv, G!TypeOK, G!OneDay, G!OneRow, G!LateFitsTime
<1>4. ASSUME NEW o \in Workers \ {r}, NEW q \in Pupils, NEW d \in DeadlineDays, NEW row,
             G!Open(o), G!ReadIsSound(o, q, d, row)
      PROVE  G!ReadIsSound(o, q, d, row)'
  <2>1. batch'[o] = batch[o]
    BY <1>1 DEF G!Close, G!GradesInv, G!GradesAreKept
  <2> QED
    BY <1>1, <1>2, <1>4, <2>1 DEF G!ReadIsSound
<1>5. /\ G!GradesAreKept'
      /\ \A o \in Workers : G!Open(o)' => G!BatchIsSound(o)'
      /\ \A o \in Workers, p \in Pupils, d \in DeadlineDays :
           found'[o][p][d] # None => G!EntryIsSound(o, p, d)'
      /\ overlap' = 1 => \A x, o \in Workers : G!Open(x)' /\ G!Open(o)' => x = o
  BY <1>1, <1>4, GraderCloses
<1> QED
  BY <1>1, <1>3, <1>5 DEF G!GradesInv

-----------------------------------------------------------------------------
(* Grades: what a commit writes *)

\* What the columns of a row are that an UPDATE writes.
LEMMA MergedIs ==
  ASSUME NEW row \in G!GradeRow, NEW old \in G!GradeRow, NEW new \in G!GradeRow, row.group = new.group,
         NEW f, f = [old |-> old, new |-> new], old # None, NEW m, m = G!Merged(row, f)
  PROVE  m \in G!GradeRow /\ m.group = new.group /\ (row = old => m = new)
         /\ m.time \in {row.time, new.time}
<1>1. m = [c \in DOMAIN new |-> IF new[c] = old[c] THEN row[c] ELSE new[c]]
  BY DEF G!Merged
<1>2. DOMAIN new = {"group", "score", "late", "time"}
      /\ row.group \in Groups /\ row.score \in Grades /\ row.late \in BOOLEAN /\ row.time \in Nat
      /\ new.group \in Groups /\ new.score \in Grades /\ new.late \in BOOLEAN /\ new.time \in Nat
  BY DEF G!GradeRow
<1>3. /\ m["group"] = IF new["group"] = old["group"] THEN row["group"] ELSE new["group"]
      /\ m["score"] = IF new["score"] = old["score"] THEN row["score"] ELSE new["score"]
      /\ m["late"] = IF new["late"] = old["late"] THEN row["late"] ELSE new["late"]
      /\ m["time"] = IF new["time"] = old["time"] THEN row["time"] ELSE new["time"]
  BY <1>1, <1>2
<1>4. m.group \in Groups /\ m.score \in Grades /\ m.late \in BOOLEAN /\ m.time \in Nat
      /\ m.group = new.group /\ m.time \in {row.time, new.time}
  BY <1>2, <1>3
<1>5. m = [group |-> m.group, score |-> m.score, late |-> m.late, time |-> m.time]
  BY <1>1, <1>2
<1>6. m \in G!GradeRow
  BY <1>4, <1>5 DEF G!GradeRow
<1>7. ASSUME row = old PROVE m = new
  <2>1. \A c \in DOMAIN new : m[c] = new[c]
    BY <1>1, <1>7
  <2>2. new = [c \in DOMAIN new |-> new[c]]
    BY DEF G!GradeRow
  <2>3. m = [c \in DOMAIN new |-> new[c]]
    BY <1>1, <1>7
  <2> QED
    BY <2>2, <2>3
<1> QED
  BY <1>4, <1>6, <1>7

\* The row that a commit writes is one of the request's group, that day's row of it if
\* there was one; with one request at a time it is what was submitted.
LEMMA WrittenGrade ==
  ASSUME G!GradesInv, NEW r \in Workers, NEW p \in Pupils, NEW d \in DeadlineDays, found[r][p][d] # None,
         NEW b, b = batch[r], NEW m, m = G!Merged(grades[p][d], found[r][p][d])
  PROVE  /\ m \in G!GradeRow /\ m.group = b.group /\ m.time <= hour
         /\ grades[p][d] # None => d \in G!RowsOf(p, b.group)
         /\ overlap = 1 => m.late = b.late /\ m.time = b.time /\ G!RowsOf(p, b.group) \subseteq {d}
         /\ d \notin G!RowsOf(p, b.group) => d = b.day
<1> DEFINE f   == found[r][p][d]
           new == [group |-> b.group, score |-> b.score[p], late |-> b.late, time |-> b.time]
<1>1. G!EntryIsSound(r, p, d) /\ G!Open(r)
  BY DEF G!GradesInv, G!EntryIsSound
<1>2. G!BatchIsSound(r)
  BY <1>1 DEF G!GradesInv
<1>3. f = [old |-> f.old, new |-> new] /\ G!ReadIsSound(r, p, d, f.old) /\ (f.old = None => grades[p][d] = None)
      /\ p \in DOMAIN b.score
  BY <1>1 DEF G!EntryIsSound
<1>4. b.group \in Groups /\ b.late \in BOOLEAN /\ b.time \in 0..hour /\ hour \in Nat /\ b.score[p] \in Grades
  BY <1>2, <1>3 DEF G!BatchIsSound, G!GradesInv
<1>5. new \in G!GradeRow /\ new.group = b.group /\ new.late = b.late /\ new.time = b.time
  BY <1>4 DEF G!GradeRow
<1> HIDE DEF new
<1> SUFFICES ASSUME NEW old, old = f.old
             PROVE  /\ m \in G!GradeRow /\ m.group = b.group /\ m.time <= hour
                    /\ grades[p][d] # None => d \in G!RowsOf(p, b.group)
                    /\ overlap = 1 => m.late = b.late /\ m.time = b.time /\ G!RowsOf(p, b.group) \subseteq {d}
                    /\ d \notin G!RowsOf(p, b.group) => d = b.day
  OBVIOUS
<1>6. CASE old = None
  <2>1. m = new
    BY <1>3, <1>6 DEF G!Merged
  <2>2. grades[p][d] = None /\ d = b.day /\ (overlap = 1 => G!RowsOf(p, b.group) = {})
    BY <1>3, <1>6 DEF G!ReadIsSound
  <2> QED
    BY <1>4, <1>5, <2>1, <2>2
<1>7. CASE old # None
  <2>1. old \in G!GradeRow /\ d \in G!RowsOf(p, b.group) /\ (overlap = 1 => old = grades[p][d])
    BY <1>3, <1>7 DEF G!ReadIsSound
  <2>2. grades[p][d] \in G!GradeRow /\ grades[p][d].group = b.group /\ grades[p][d].time <= hour
    BY <2>1 DEF G!RowsOf, G!GradesInv, G!TypeOK
  <2>3. f = [old |-> old, new |-> new]
    BY <1>3
  <2>4. m \in G!GradeRow /\ m.group = new.group /\ (grades[p][d] = old => m = new)
        /\ m.time \in {grades[p][d].time, new.time}
    <3> HIDE DEF f
    <3>1. m = G!Merged(grades[p][d], f)
      BY DEF f
    <3> QED
      BY <1>5, <1>7, <2>1, <2>2, <2>3, <3>1, MergedIs
  <2>5. overlap = 1 => G!RowsOf(p, b.group) \subseteq {d}
    BY <1>4, <2>1 DEF G!GradesInv, G!OneRow
  <2>6. m.time <= hour
    BY <1>4, <1>5, <2>2, <2>4
  <2> QED
    BY <1>5, <2>1, <2>4, <2>5, <2>6
<1> QED
  BY <1>6, <1>7

\* The commit of a submission.
LEMMA CommitGradesStep ==
  ASSUME G!GradesInv, NEW r \in Workers, G!CommitGrades(r)
  PROVE  G!GradesInv'
<1> SUFFICES ASSUME NEW b, b = batch[r] PROVE G!GradesInv'
  OBVIOUS
<1>1. /\ G!Open(r) /\ G!Close(r) /\ UNCHANGED <<hour, overlap, deadline, belongs, inactive, changes>>
      /\ grades' = [p \in Pupils |-> [d \in DeadlineDays |->
           IF found[r][p][d] = None THEN grades[p][d] ELSE G!Merged(grades[p][d], found[r][p][d])]]
  BY DEF G!CommitGrades, G!Close, G!Open
<1>2. G!BatchIsSound(r) /\ b.group \in Groups /\ hour \in Nat
  BY <1>1 DEF G!GradesInv, G!BatchIsSound
<1>3. ASSUME NEW p \in Pupils, NEW d \in DeadlineDays
      PROVE  found[r][p][d] = None => grades'[p][d] = grades[p][d]
  BY <1>1, <1>3
<1>4. ASSUME NEW p \in Pupils, NEW d \in DeadlineDays, found[r][p][d] # None, NEW m, m = grades'[p][d]
      PROVE  /\ m \in G!GradeRow /\ m.group = b.group /\ m.time <= hour
             /\ grades[p][d] # None => d \in G!RowsOf(p, b.group)
             /\ overlap = 1 => m.late = b.late /\ m.time = b.time /\ G!RowsOf(p, b.group) \subseteq {d}
             /\ d \notin G!RowsOf(p, b.group) => d = b.day
  <2>1. m = G!Merged(grades[p][d], found[r][p][d])
    BY <1>1, <1>4
  <2> QED
    BY <1>4, <2>1, WrittenGrade
<1>5. None \notin G!GradeRow
  BY SchoolAssumption
<1>6. \A p \in Pupils, d \in DeadlineDays : \A g \in Groups :
        /\ d \in G!RowsOf(p, g)' =>
             d \in G!RowsOf(p, g) \/ (g = b.group /\ found[r][p][d] # None)
        /\ d \in G!RowsOf(p, g) => d \in G!RowsOf(p, g)'
        /\ g = b.group /\ found[r][p][d] # None => d \in G!RowsOf(p, g)'
        /\ g # b.group => found[r][p][d] = None \/ d \notin G!RowsOf(p, g)
  BY <1>3, <1>4, <1>5 DEF G!RowsOf
<1>7. grades' \in [Pupils -> [DeadlineDays -> G!GradeRow \cup {None}]]
  <2>1. \A p \in Pupils, d \in DeadlineDays : grades'[p][d] \in G!GradeRow \cup {None}
    BY <1>3, <1>4 DEF G!GradesInv
  <2>2. grades' = [p \in Pupils |-> [d \in DeadlineDays |-> grades'[p][d]]]
    BY <1>1
  <2> QED
    BY <2>1, <2>2
<1>8. G!TypeOK'
  <2>1. ASSUME NEW p \in Pupils, NEW d \in DeadlineDays, grades'[p][d] # None, NEW m, m = grades'[p][d]
        PROVE  m.group \in Groups /\ m.score \in Grades /\ m.time <= hour
    <3>1. m \in G!GradeRow
      BY <1>7, <2>1
    <3>2. m.time <= hour
      BY <1>3, <1>4, <2>1 DEF G!GradesInv, G!TypeOK
    <3> QED
      BY <3>1, <3>2 DEF G!GradeRow
  <2> QED
    BY <1>1, <2>1 DEF G!GradesInv, G!TypeOK
<1>9. G!OneDay'
  <2> SUFFICES ASSUME changes = 0, NEW p \in Pupils, NEW d \in DeadlineDays, grades'[p][d] # None,
                      NEW m, m = grades'[p][d]
               PROVE  d = deadline[m.group]
    BY <1>1 DEF G!OneDay
  <2>1. CASE found[r][p][d] = None
    BY <1>3, <2>1 DEF G!GradesInv, G!OneDay
  <2>2. CASE found[r][p][d] # None
    <3>1. CASE d \notin G!RowsOf(p, b.group)
      BY <1>2, <1>4, <2>2, <3>1 DEF G!BatchIsSound
    <3>2. CASE d \in G!RowsOf(p, b.group)
      BY <1>4, <2>2, <3>2 DEF G!RowsOf, G!GradesInv, G!OneDay
    <3> QED
      BY <3>1, <3>2
  <2> QED
    BY <2>1, <2>2
<1>10. G!OneRow'
  <2> SUFFICES ASSUME overlap = 1, NEW p \in Pupils, NEW g \in Groups,
                      NEW d \in G!RowsOf(p, g)', NEW e \in G!RowsOf(p, g)'
               PROVE  d = e
    BY <1>1 DEF G!OneRow
  <2>1. d \in DeadlineDays /\ e \in DeadlineDays
    BY DEF G!RowsOf
  <2>2. CASE d \in G!RowsOf(p, g) /\ e \in G!RowsOf(p, g)
    BY <2>2 DEF G!GradesInv, G!OneRow
  <2>3. CASE d \notin G!RowsOf(p, g) \/ e \notin G!RowsOf(p, g)
    <3>1. g = b.group
      BY <1>6, <2>1, <2>3
    <3>2. found[r][p][d] # None => G!RowsOf(p, g) \subseteq {d}
      BY <1>4, <2>1, <3>1
    <3>3. found[r][p][e] # None => G!RowsOf(p, g) \subseteq {e}
      BY <1>4, <2>1, <3>1
    <3>4. found[r][p][d] # None /\ found[r][p][e] # None => d = e
      <4>1. found[r][p][d] # None => G!EntryIsSound(r, p, d)
        BY <2>1 DEF G!GradesInv
      <4> QED
        BY <2>1, <4>1 DEF G!EntryIsSound
    <3>5. /\ d \in G!RowsOf(p, g) \/ found[r][p][d] # None
          /\ e \in G!RowsOf(p, g) \/ found[r][p][e] # None
      BY <1>6, <2>1
    <3> QED
      BY <2>3, <3>2, <3>3, <3>4, <3>5
  <2> QED
    BY <2>2, <2>3
<1>11. G!LateFitsTime'
  <2> SUFFICES ASSUME overlap = 1, changes = 0, NEW p \in Pupils, NEW g \in Groups, NEW d \in G!RowsOf(p, g)',
                      NEW m, m = grades'[p][d]
               PROVE  m.late = (m.time - Ahead > deadline[g])
    BY <1>1 DEF G!LateFitsTime
  <2>1. d \in DeadlineDays /\ m.group = g
    BY DEF G!RowsOf
  <2>2. CASE found[r][p][d] = None
    <3>1. d \in G!RowsOf(p, g) /\ m = grades[p][d]
      BY <1>3, <1>6, <2>1, <2>2
    <3> QED
      BY <3>1 DEF G!GradesInv, G!LateFitsTime
  <2>3. CASE found[r][p][d] # None
    <3>1. m.late = b.late /\ m.time = b.time /\ g = b.group
      BY <1>4, <2>1, <2>3
    <3>2. b.day = deadline[b.group] /\ b.late = (b.time - Ahead > b.day)
      BY <1>2 DEF G!BatchIsSound
    <3> QED
      BY <3>1, <3>2
  <2> QED
    BY <2>2, <2>3
<1>12. ASSUME NEW o \in Workers \ {r}, NEW p \in Pupils, NEW d \in DeadlineDays, NEW row,
              G!Open(o), G!ReadIsSound(o, p, d, row)
       PROVE  G!ReadIsSound(o, p, d, row)'
  <2>1. batch'[o] = batch[o] /\ overlap # 1
    BY <1>1, <1>12 DEF G!Close, G!GradesInv, G!GradesAreKept
  <2> SUFFICES ASSUME NEW g, g = batch[o].group PROVE G!ReadIsSound(o, p, d, row)'
    OBVIOUS
  <2>2. CASE row = None
    BY <1>1, <1>12, <2>1, <2>2 DEF G!ReadIsSound
  <2>3. CASE row # None
    <3>1. d \in G!RowsOf(p, g) /\ row \in G!GradeRow /\ row.group = g
      BY <1>12, <2>3 DEF G!ReadIsSound
    <3>2. d \in G!RowsOf(p, g)'
      BY <1>6, <1>12, <3>1 DEF G!GradeRow
    <3> QED
      BY <1>1, <2>1, <2>3, <3>1, <3>2 DEF G!ReadIsSound
  <2> QED
    BY <2>2, <2>3
<1>13. ASSUME NEW o \in Workers \ {r}, NEW p \in Pupils, NEW d \in DeadlineDays,
              found[o][p][d] # None, grades[p][d] = None
       PROVE  grades'[p][d] = None
  <2>1. G!EntryIsSound(o, p, d)
    BY <1>13 DEF G!GradesInv
  <2>2. found[r][p][d] = None
    BY <2>1 DEF G!EntryIsSound
  <2> QED
    BY <1>3, <1>13, <2>2
<1>14. /\ G!GradesAreKept'
       /\ \A o \in Workers : G!Open(o)' => G!BatchIsSound(o)'
       /\ \A o \in Workers, p \in Pupils, d \in DeadlineDays :
            found'[o][p][d] # None => G!EntryIsSound(o, p, d)'
       /\ overlap' = 1 => \A x, o \in Workers : G!Open(x)' /\ G!Open(o)' => x = o
  BY <1>1, <1>12, <1>13, GraderCloses
<1> QED
  BY <1>1, <1>7, <1>8, <1>9, <1>10, <1>11, <1>14 DEF G!GradesInv

-----------------------------------------------------------------------------
(* Grades: what they promise *)

\* Time passes, deadlines move, students leave or are no longer active: the rows stay.
LEMMA GradesStay ==
  ASSUME G!GradesInv, UNCHANGED <<overlap, grades, batch, found>>,
         hour' \in Nat, hour' >= hour, changes' \in Nat,
         changes' = 0 => changes = 0 /\ UNCHANGED <<deadline, belongs, inactive>>,
         deadline' \in [Groups -> DeadlineDays], belongs' \in [Groups -> SUBSET Pupils],
         inactive' \in SUBSET Pupils
  PROVE  G!GradesInv'
<1>1. \A q, g : G!RowsOf(q, g)' = G!RowsOf(q, g)
  BY DEF G!RowsOf
<1>2. G!OneRow'
  BY <1>1 DEF G!GradesInv, G!OneRow
<1>3. G!OneDay'
  BY DEF G!GradesInv, G!OneDay
<1>4. G!LateFitsTime'
  BY <1>1 DEF G!GradesInv, G!LateFitsTime
<1>5. G!TypeOK'
  <2>1. ASSUME NEW p \in Pupils, NEW d \in DeadlineDays, grades[p][d] # None
        PROVE  grades[p][d].group \in Groups /\ grades[p][d].score \in Grades /\ grades[p][d].time <= hour'
    <3>1. grades[p][d] \in G!GradeRow /\ grades[p][d].time <= hour
      BY <2>1 DEF G!GradesInv, G!TypeOK
    <3>2. grades[p][d].time \in Nat /\ hour \in Nat
      BY <3>1 DEF G!GradeRow, G!GradesInv
    <3> QED
      BY <2>1, <3>1, <3>2 DEF G!GradeRow
  <2> QED
    BY <2>1 DEF G!TypeOK
<1>6. G!GradesAreKept'
  BY DEF G!GradesInv, G!GradesAreKept
<1>7. \A o \in Workers : G!Open(o)' = G!Open(o)
  BY DEF G!Open
<1>8. ASSUME NEW o \in Workers, NEW p, NEW d, NEW row, G!ReadIsSound(o, p, d, row)
      PROVE  G!ReadIsSound(o, p, d, row)'
  BY <1>1, <1>8 DEF G!ReadIsSound
<1>9. ASSUME NEW o \in Workers, G!Open(o)'
      PROVE  G!BatchIsSound(o)'
  <2>1. G!BatchIsSound(o) /\ hour \in Nat
    BY <1>7, <1>9 DEF G!GradesInv
  <2> SUFFICES ASSUME NEW w, w = batch[o].who, NEW x, x = batch[o].on, NEW y, y = batch[o].row
               PROVE  G!BatchIsSound(o)'
    OBVIOUS
  <2>2. batch[o].at = "found" => w \in batch[o].todo /\ x \in DeadlineDays /\ G!ReadIsSound(o, w, x, y)'
    BY <1>8, <2>1 DEF G!BatchIsSound
  <2>3. batch[o].time \in 0..hour'
    BY <2>1 DEF G!BatchIsSound
  <2> QED
    BY <2>1, <2>2, <2>3 DEF G!BatchIsSound
<1>10. ASSUME NEW o \in Workers, NEW p \in Pupils, NEW d \in DeadlineDays, found'[o][p][d] # None
       PROVE  G!EntryIsSound(o, p, d)'
  <2>1. G!EntryIsSound(o, p, d)
    BY <1>10 DEF G!GradesInv
  <2> SUFFICES ASSUME NEW y, y = found[o][p][d].old PROVE G!EntryIsSound(o, p, d)'
    OBVIOUS
  <2>2. G!ReadIsSound(o, p, d, y)' /\ (y = None => grades'[p][d] = None)
    BY <1>8, <2>1 DEF G!EntryIsSound
  <2> QED
    BY <1>7, <2>1, <2>2 DEF G!EntryIsSound
<1>11. overlap' = 1 => \A x, o \in Workers : G!Open(x)' /\ G!Open(o)' => x = o
  BY <1>7 DEF G!GradesInv
<1>12. grades' \in [Pupils -> [DeadlineDays -> G!GradeRow \cup {None}]]
  BY DEF G!GradesInv
<1> QED
  BY <1>2, <1>3, <1>4, <1>5, <1>6, <1>9, <1>10, <1>11, <1>12 DEF G!GradesInv

\* It holds at the start.
LEMMA GradesStart == ASSUME G!Init PROVE G!GradesInv
<1>1. /\ hour = 0 /\ changes = 0 /\ deadline = Defaults
      /\ belongs \in [Groups -> SUBSET Pupils] /\ inactive \in SUBSET Pupils
      /\ grades = G!NoRow /\ batch = [r \in Workers |-> G!NoBatch] /\ found = [r \in Workers |-> G!NoRow]
  BY DEF G!Init
<1>2. \A p \in Pupils, d \in DeadlineDays : grades[p][d] = None
  BY <1>1 DEF G!NoRow
<1>3. \A r \in Workers, p \in Pupils, d \in DeadlineDays : found[r][p][d] = None
  BY <1>1 DEF G!NoRow
<1>4. \A p \in Pupils, g \in Groups : G!RowsOf(p, g) = {}
  BY <1>2 DEF G!RowsOf
<1>5. grades \in [Pupils -> [DeadlineDays -> G!GradeRow \cup {None}]]
  BY <1>1 DEF G!NoRow
<1>6. \A r \in Workers : ~G!Open(r)
  BY <1>1 DEF G!Open, G!NoBatch
<1>7. G!GradesAreKept
  <2>1. ASSUME NEW x, x = G!NoBatch
        PROVE  x = [at |-> x.at, group |-> x.group, todo |-> x.todo, score |-> x.score, day |-> x.day,
                    late |-> x.late, time |-> x.time, who |-> x.who, on |-> x.on, row |-> x.row]
    BY <2>1 DEF G!NoBatch
  <2>2. found = [r \in Workers |-> [p \in Pupils |-> [d \in DeadlineDays |-> found[r][p][d]]]]
    BY <1>1 DEF G!NoRow
  <2>3. \A r \in Workers : batch[r] = G!NoBatch
    BY <1>1
  <2> QED
    BY <1>1, <2>1, <2>2, <2>3 DEF G!GradesAreKept
<1>8. G!TypeOK
  BY <1>1, <1>2, SchoolAssumption DEF G!TypeOK
<1>9. G!OneDay /\ G!OneRow /\ G!LateFitsTime
  BY <1>2, <1>4 DEF G!OneDay, G!OneRow, G!LateFitsTime
<1> QED
  BY <1>1, <1>3, <1>5, <1>6, <1>7, <1>8, <1>9 DEF G!GradesInv

\* Every step of the grades keeps it.
LEMMA GradesStep == ASSUME G!GradesInv, G!Next \/ G!Tick PROVE G!GradesInv'
<1>1. CASE G!Tick
  <2>1. hour' = hour + 1 /\ UNCHANGED <<overlap, deadline, belongs, inactive, grades, batch, found, changes>>
    BY <1>1 DEF G!Tick
  <2>2. /\ hour \in Nat /\ changes \in Nat /\ deadline \in [Groups -> DeadlineDays]
        /\ belongs \in [Groups -> SUBSET Pupils] /\ inactive \in SUBSET Pupils
    BY DEF G!GradesInv, G!TypeOK
  <2>3. hour' \in Nat /\ hour' >= hour
    BY <2>1, <2>2
  <2> QED
    BY <2>1, <2>2, <2>3, GradesStay
<1>2. ASSUME NEW g \in Groups, NEW d \in DeadlineDays, G!SetGroupDeadline(g, d)
      PROVE  G!GradesInv'
  <2>1. /\ deadline' = [deadline EXCEPT ![g] = Max({1, Min({d, 28})})] /\ changes' = changes + 1
        /\ UNCHANGED <<hour, overlap, belongs, inactive, grades, batch, found>>
    BY <1>2, MaxIsMax DEF G!SetGroupDeadline
  <2>2. /\ hour \in Nat /\ changes \in Nat /\ deadline \in [Groups -> DeadlineDays]
        /\ belongs \in [Groups -> SUBSET Pupils] /\ inactive \in SUBSET Pupils
    BY DEF G!GradesInv, G!TypeOK
  <2>3. Max({1, Min({d, 28})}) \in DeadlineDays
    BY SchoolAssumption
  <2>4. deadline' \in [Groups -> DeadlineDays] /\ changes' \in Nat /\ changes' # 0 /\ hour' >= hour
    BY <2>1, <2>2, <2>3
  <2> QED
    BY <2>1, <2>2, <2>4, GradesStay
<1>3. ASSUME NEW g \in Groups, NEW p \in Pupils, G!LeaveGroup(g, p)
      PROVE  G!GradesInv'
  <2>1. /\ belongs' = [belongs EXCEPT ![g] = belongs[g] \ {p}] /\ changes' = changes + 1
        /\ UNCHANGED <<hour, overlap, deadline, inactive, grades, batch, found>>
    BY <1>3 DEF G!LeaveGroup
  <2>2. /\ hour \in Nat /\ changes \in Nat /\ deadline \in [Groups -> DeadlineDays]
        /\ belongs \in [Groups -> SUBSET Pupils] /\ inactive \in SUBSET Pupils
    BY DEF G!GradesInv, G!TypeOK
  <2>3. belongs' \in [Groups -> SUBSET Pupils] /\ changes' \in Nat /\ changes' # 0 /\ hour' >= hour
    BY <2>1, <2>2
  <2> QED
    BY <2>1, <2>2, <2>3, GradesStay
<1>4. ASSUME NEW r \in Workers, G!AbortGrades(r) \/ G!CommitGrades(r) \/ G!SaveEntry(r)
      PROVE  G!GradesInv'
  BY <1>4, AbortGradesStep, CommitGradesStep, SaveEntryStep
<1>5. ASSUME NEW p \in Pupils, G!SetActive(p)
      PROVE  G!GradesInv'
  <2>1. /\ inactive' \in {inactive \ {p}, inactive \cup {p}} /\ changes' = changes + 1
        /\ UNCHANGED <<hour, overlap, deadline, belongs, grades, batch, found>>
    BY <1>5 DEF G!SetActive
  <2>2. /\ hour \in Nat /\ changes \in Nat /\ deadline \in [Groups -> DeadlineDays]
        /\ belongs \in [Groups -> SUBSET Pupils] /\ inactive \in SUBSET Pupils
    BY DEF G!GradesInv, G!TypeOK
  <2>3. inactive' \in SUBSET Pupils /\ changes' \in Nat /\ changes' # 0 /\ hour' >= hour
    BY <2>1, <2>2
  <2> QED
    BY <2>1, <2>2, <2>3, GradesStay
<1> QED
  BY <1>1, <1>2, <1>3, <1>4, <1>5, BulkSubmitStep, FindEntryStep DEF G!Next

\* A set in two parts.
LEMMA PartsOf ==
  ASSUME NEW S, IsFiniteSet(S), NEW T
  PROVE  /\ Cardinality(S) = Cardinality(S \ T) + Cardinality(S \cap T)
         /\ Cardinality(S \ T) \in Nat /\ Cardinality(S \cap T) \in Nat /\ IsFiniteSet(S \ T)
<1>1. Cardinality(S \ T) = Cardinality(S) - Cardinality(S \cap T)
  BY FS_Difference, Zenon
<1>2. IsFiniteSet(S \ T) /\ IsFiniteSet(S \cap T)
  BY FS_Subset
<1>3. Cardinality(S) \in Nat /\ Cardinality(S \ T) \in Nat /\ Cardinality(S \cap T) \in Nat
  BY <1>2, FS_CardinalityType
<1> QED
  BY <1>1, <1>2, <1>3

\* With one row of each student and group, rows are as many as graded students.
LEMMA MissingArePending ==
  ASSUME G!GradesInv, overlap = 1 \/ changes = 0, NEW g \in Groups
  PROVE  G!Status(g).missing + G!Cardinality(G!Graded(g) \ belongs[g])
           = G!Cardinality(G!Pending(g)) + G!Cardinality((belongs[g] \cap inactive) \ G!Graded(g))
<1> DEFINE B    == belongs[g]
           H    == G!Graded(g)
           kept == {x \in Pupils \X DeadlineDays : x[2] \in G!RowsOf(x[1], g)}
           dayOf(p) == CHOOSE d \in DeadlineDays : d \in G!RowsOf(p, g)
           f    == [p \in H |-> <<p, dayOf(p)>>]
<1>1. B \subseteq Pupils /\ IsFiniteSet(Pupils)
  BY SchoolAssumption DEF G!GradesInv, G!TypeOK
<1>2. \A p \in Pupils : \A d, e \in G!RowsOf(p, g) : d = e
  BY DEF G!GradesInv, G!OneRow, G!OneDay, G!RowsOf
<1>3. f \in Surjection(H, kept) /\ f \in Injection(H, kept)
  <2>1. \A p \in H : p \in Pupils /\ dayOf(p) \in DeadlineDays /\ dayOf(p) \in G!RowsOf(p, g)
    BY DEF G!Graded, G!RowsOf
  <2>2. ASSUME NEW x \in kept PROVE x[1] \in H /\ x = f[x[1]]
    <3>1. x[1] \in Pupils /\ x[2] \in G!RowsOf(x[1], g) /\ x = <<x[1], x[2]>>
      OBVIOUS
    <3>2. x[1] \in H
      BY <3>1 DEF G!Graded
    <3>3. x[2] = dayOf(x[1])
      BY <1>2, <2>1, <3>1, <3>2
    <3> QED
      BY <3>1, <3>2, <3>3
  <2> HIDE DEF dayOf
  <2>3. f \in [H -> kept]
    BY <2>1
  <2>4. \A p, q \in H : f[p] = f[q] => p = q
    OBVIOUS
  <2> HIDE DEF f, H, kept
  <2> QED
    BY <2>2, <2>3, <2>4 DEF Surjection, Injection, IsInjective
<1>4. IsFiniteSet(H) /\ IsFiniteSet(B)
  BY <1>1, FS_Subset DEF G!Graded
<1>5. Cardinality(kept) = Cardinality(H)
  <2> HIDE DEF f, H, kept
  <2> QED
    BY <1>3, <1>4, FS_Surjection
<1>6. G!Pending(g) = (B \ H) \ inactive /\ (B \cap inactive) \ H = (B \ H) \cap inactive
      /\ H \cap B = B \cap H
  BY DEF G!Pending
<1>7. G!Status(g).missing = Cardinality(B) - Cardinality(H)
  BY <1>5, CountIsCount DEF G!Status
<1> HIDE DEF H, B, kept
<1>8. /\ Cardinality(B) = Cardinality(B \ H) + Cardinality(B \cap H)
      /\ Cardinality(B \ H) \in Nat /\ Cardinality(B \cap H) \in Nat /\ IsFiniteSet(B \ H)
  BY <1>4, PartsOf
<1>9. /\ Cardinality(H) = Cardinality(H \ B) + Cardinality(B \cap H)
      /\ Cardinality(H \ B) \in Nat
  <2>1. /\ Cardinality(H) = Cardinality(H \ B) + Cardinality(H \cap B)
        /\ Cardinality(H \ B) \in Nat
    BY <1>4, PartsOf
  <2> QED
    BY <1>6, <2>1
<1>10. /\ Cardinality(B \ H) = Cardinality((B \ H) \ inactive) + Cardinality((B \ H) \cap inactive)
       /\ Cardinality((B \ H) \ inactive) \in Nat /\ Cardinality((B \ H) \cap inactive) \in Nat
  BY <1>8, PartsOf
<1>11. G!Status(g).missing + Cardinality(H \ B)
         = Cardinality(G!Pending(g)) + Cardinality((B \cap inactive) \ H)
  <2>1. /\ Cardinality(G!Pending(g)) = Cardinality((B \ H) \ inactive)
        /\ Cardinality((B \cap inactive) \ H) = Cardinality((B \ H) \cap inactive)
    BY <1>6
  <2> QED
    BY <1>7, <1>8, <1>9, <1>10, <2>1
<1> QED
  BY <1>11, CountIsCount DEF B, H

\* What it says of the grades.
LEMMA GradesAreSound == ASSUME G!GradesInv PROVE G!GradesAgree
<1>1. ASSUME NEW p \in Pupils, NEW g \in Groups, overlap = 1 \/ changes = 0
      PROVE  G!Cardinality(G!RowsOf(p, g)) <= 1
  <2>1. \A d, e \in G!RowsOf(p, g) : d = e
    BY <1>1 DEF G!GradesInv, G!OneRow, G!OneDay, G!RowsOf
  <2>2. CASE G!RowsOf(p, g) = {}
    BY <2>2, CountIsCount, FS_EmptySet
  <2>3. CASE G!RowsOf(p, g) # {}
    <3>1. PICK d \in G!RowsOf(p, g) : TRUE
      BY <2>3
    <3>2. G!RowsOf(p, g) = {d}
      BY <2>1, <3>1
    <3>3. Cardinality({d}) = 1
      BY FS_Singleton
    <3> QED
      BY <3>2, <3>3, CountIsCount
  <2> QED
    BY <2>2, <2>3
<1>2. G!OneGradePerGroup
  BY <1>1 DEF G!OneGradePerGroup
<1>3. G!MissingIsExplained
  BY MissingArePending DEF G!MissingIsExplained
<1> QED
  BY <1>2, <1>3 DEF G!GradesAgree, G!GradesInv

\* A commit overwrites no row of another group.
LEMMA GradesAreNotLost ==
  ASSUME G!GradesInv, G!Next \/ G!Tick, NEW p \in Pupils, NEW d \in DeadlineDays, grades[p][d] # None
  PROVE  grades'[p][d] # None /\ grades'[p][d].group = grades[p][d].group
<1>1. CASE UNCHANGED grades
  BY <1>1
<1>2. ASSUME NEW r \in Workers, G!CommitGrades(r)
      PROVE  grades'[p][d] # None /\ grades'[p][d].group = grades[p][d].group
  <2>1. grades'[p][d] = IF found[r][p][d] = None THEN grades[p][d]
                        ELSE G!Merged(grades[p][d], found[r][p][d])
    BY <1>2 DEF G!CommitGrades
  <2>2. CASE found[r][p][d] = None
    BY <2>1, <2>2
  <2>3. CASE found[r][p][d] # None
    <3> SUFFICES ASSUME NEW m, m = G!Merged(grades[p][d], found[r][p][d]), NEW b, b = batch[r]
                 PROVE  m # None /\ m.group = grades[p][d].group
      BY <2>1, <2>3
    <3>1. m \in G!GradeRow /\ m.group = b.group /\ d \in G!RowsOf(p, b.group)
      BY <2>3, WrittenGrade
    <3> QED
      BY <3>1, SchoolAssumption DEF G!RowsOf
  <2> QED
    BY <2>2, <2>3
<1> QED
  BY <1>1, <1>2 DEF G!Next, G!Tick, G!SetGroupDeadline, G!LeaveGroup, G!SetActive, G!BulkSubmit, G!FindEntry,
     G!SaveEntry, G!AbortGrades

\* The grades, whatever part runs.
LEMMA GradesThroughout == SchoolSpec => []G!GradesInv
<1>1. SchoolInit => G!GradesInv
  BY GradesStart DEF SchoolInit
<1>2. G!GradesInv /\ [SchoolNext]_<<part, vars, classroom, assessment, kpi>> => G!GradesInv'
  <2> SUFFICES ASSUME G!GradesInv, [SchoolNext]_<<part, vars, classroom, assessment, kpi>>
               PROVE  G!GradesInv'
    OBVIOUS
  <2>1. CASE UNCHANGED assessment
    <3>1. UNCHANGED <<hour, overlap, deadline, belongs, inactive, grades, batch, found, changes>>
      BY <2>1 DEF assessment
    <3>2. /\ hour \in Nat /\ changes \in Nat /\ deadline \in [Groups -> DeadlineDays]
          /\ belongs \in [Groups -> SUBSET Pupils] /\ inactive \in SUBSET Pupils
      BY DEF G!GradesInv, G!TypeOK
    <3>3. hour' >= hour
      BY <3>1, <3>2
    <3> QED
      BY <3>1, <3>2, <3>3, GradesStay
  <2>2. CASE G!Next \/ G!Tick
    BY <2>2, GradesStep
  <2> QED
    BY <2>1, <2>2 DEF SchoolNext, Tick
<1> QED
  BY <1>1, <1>2, PTL DEF SchoolSpec

\* However many teachers enter grades at once: a student has one grade of a group, what
\* is missing and what is pending differ by graded students who are no members and by
\* members who are inactive, and a grade is late when it was submitted late, under the
\* conditions that GradesAgree states.
THEOREM GradesAgreeCorrect == SchoolSpec => []GradesAgree
<1>1. G!GradesInv => GradesAgree
  BY GradesAreSound DEF GradesAgree
<1> QED
  BY <1>1, GradesThroughout, PTL

-----------------------------------------------------------------------------
(* KPI: sums, rules and rewards *)

\* Sums mean the same in every module.
LEMMA SumIsSum == ASSUME NEW f, NEW S PROVE K!SumFunctionOnSet(f, S) = SumFunctionOnSet(f, S)
BY DEF K!SumFunctionOnSet, K!FoldFunctionOnSet, K!MapThenFoldSet,
       SumFunctionOnSet, FoldFunctionOnSet, MapThenFoldSet

\* A sum of natural numbers is one.
LEMMA SumNat ==
  ASSUME NEW f, NEW S, IsFiniteSet(S), \A x \in S : f[x] \in Nat
  PROVE  SumFunctionOnSet(f, S) \in Nat
<1> DEFINE P == {T \in SUBSET S : SumFunctionOnSet(f, T) \in Nat}
<1>1. {} \in P
  BY SumEmpty
<1>2. ASSUME NEW T \in SUBSET S, NEW x \in S \ T, T \in P
      PROVE  T \cup {x} \in P
  <2>1. IsFiniteSet(T) /\ x \notin T /\ \A y \in T \cup {x} : f[y] \in Int
    BY <1>2, FS_Subset
  <2>2. SumFunctionOnSet(f, T \cup {x}) = f[x] + SumFunctionOnSet(f, T)
    BY <2>1, SumAdd
  <2>3. SumFunctionOnSet(f, T) \in Nat /\ f[x] \in Nat
    BY <1>2
  <2> QED
    BY <2>2, <2>3
<1> HIDE DEF P
<1>3. S \in P
  BY <1>1, <1>2, FiniteInduction
<1> QED
  BY <1>3 DEF P

\* What bonuses and penalties are: numbers that depend on the rewards only.
LEMMA RewardsAdd ==
  ASSUME NEW S \in SUBSET Metrics, NEW x, \A m \in S : x[m].reward \in Int
  PROVE  /\ K!Bonus(x, S) \in Nat /\ K!Penalty(x, S) \in Nat
         /\ \A y : (\A m \in S : y[m].reward = x[m].reward) =>
              K!Bonus(y, S) = K!Bonus(x, S) /\ K!Penalty(y, S) = K!Penalty(x, S)
<1> DEFINE f == [m \in S |-> Max({0, x[m].reward})]
           h == [m \in S |-> Max({0, -x[m].reward})]
<1>1. IsFiniteSet(S)
  BY SchoolAssumption, FS_Subset
<1>2. \A i \in Int : Max({0, i}) \in Nat
  BY DEF Max
<1>3. \A m \in S : f[m] \in Nat /\ h[m] \in Nat
  BY <1>2
<1>4. K!Bonus(x, S) = SumFunctionOnSet(f, S) /\ K!Penalty(x, S) = SumFunctionOnSet(h, S)
  BY SumIsSum, MaxIsMax DEF K!Bonus, K!Penalty
<1>5. K!Bonus(x, S) \in Nat /\ K!Penalty(x, S) \in Nat
  <2> HIDE DEF f, h
  <2> QED
    BY <1>1, <1>3, <1>4, SumNat
<1>6. ASSUME NEW y, \A m \in S : y[m].reward = x[m].reward
      PROVE  K!Bonus(y, S) = K!Bonus(x, S) /\ K!Penalty(y, S) = K!Penalty(x, S)
  <2>1. [m \in S |-> Max({0, y[m].reward})] = f /\ [m \in S |-> Max({0, -y[m].reward})] = h
    BY <1>6
  <2>2. K!Bonus(y, S) = SumFunctionOnSet([m \in S |-> Max({0, y[m].reward})], S)
        /\ K!Penalty(y, S) = SumFunctionOnSet([m \in S |-> Max({0, -y[m].reward})], S)
    BY SumIsSum, MaxIsMax DEF K!Bonus, K!Penalty
  <2> QED
    BY <1>4, <2>1, <2>2
<1> QED
  BY <1>5, <1>6

\* Rounding is off by half a hundredth, keeps whole hundredths and no sign is lost.
LEMMA RoundedIsNear ==
  ASSUME NEW x \in Int
  PROVE  /\ K!Rounded(x) \in Int /\ (x >= 0 => K!Rounded(x) \in Nat) /\ K!Near(K!Rounded(x), x, 1)
         /\ K!Rounded(K!Unit * x) = K!Unit * x
<1>1. CASE x >= 0
  <2>1. K!Rounded(x) = 10000 * ((x + 5000) \div 10000)
    BY <1>1 DEF K!Rounded, K!Unit
  <2>2. K!Rounded(10000 * x) = 10000 * ((10000 * x + 5000) \div 10000)
    BY <1>1 DEF K!Rounded, K!Unit
  <2>3. (10000 * x + 5000) \div 10000 = x
    BY <1>1
  <2> QED
    BY <1>1, <2>1, <2>2, <2>3 DEF K!Near, K!Unit
<1>2. CASE x < 0
  <2>1. K!Rounded(x) = -(10000 * ((5000 - x) \div 10000))
    BY <1>2 DEF K!Rounded, K!Unit
  <2>2. K!Rounded(10000 * x) = -(10000 * ((5000 - 10000 * x) \div 10000))
    BY <1>2 DEF K!Rounded, K!Unit
  <2>3. (5000 - 10000 * x) \div 10000 = -x
    BY <1>2
  <2> QED
    BY <1>2, <2>1, <2>2, <2>3 DEF K!Near, K!Unit
<1> QED
  BY <1>1, <1>2

\* Sums whose summands are off by half a hundredth are off by that for each of them.
LEMMA SumNear ==
  ASSUME NEW f, NEW h, NEW S, IsFiniteSet(S),
         \A x \in S : f[x] \in Int /\ h[x] \in Int /\ K!Near(f[x], h[x], 1)
  PROVE  K!Near(SumFunctionOnSet(f, S), SumFunctionOnSet(h, S), Cardinality(S))
<1> DEFINE P == {T \in SUBSET S : K!Near(SumFunctionOnSet(f, T), SumFunctionOnSet(h, T), Cardinality(T))}
<1>1. {} \in P
  BY SumEmpty, FS_EmptySet DEF K!Near, K!Unit
<1>2. ASSUME NEW T \in SUBSET S, NEW x \in S \ T, T \in P
      PROVE  T \cup {x} \in P
  <2>1. IsFiniteSet(T) /\ x \notin T /\ (\A y \in T \cup {x} : f[y] \in Int /\ h[y] \in Int)
    BY <1>2, FS_Subset
  <2>2. /\ SumFunctionOnSet(f, T \cup {x}) = f[x] + SumFunctionOnSet(f, T)
        /\ SumFunctionOnSet(h, T \cup {x}) = h[x] + SumFunctionOnSet(h, T)
    BY <2>1, SumAdd
  <2>3. SumFunctionOnSet(f, T) \in Int /\ SumFunctionOnSet(h, T) \in Int
    BY <2>1, SumType
  <2>4. Cardinality(T \cup {x}) = Cardinality(T) + 1 /\ Cardinality(T) \in Nat
    BY <2>1, FS_AddElement, FS_CardinalityType
  <2>5. K!Near(SumFunctionOnSet(f, T), SumFunctionOnSet(h, T), Cardinality(T))
    BY <1>2
  <2>6. f[x] \in Int /\ h[x] \in Int /\ K!Near(f[x], h[x], 1)
    BY <1>2
  <2> SUFFICES ASSUME NEW a \in Int, NEW b \in Int, NEW p \in Int, NEW q \in Int, NEW n \in Nat,
                      K!Near(a, b, n), K!Near(p, q, 1)
               PROVE  K!Near(p + a, q + b, n + 1)
    BY <2>2, <2>3, <2>4, <2>5, <2>6
  <2> QED
    BY DEF K!Near, K!Unit
<1> HIDE DEF P
<1>3. S \in P
  BY <1>1, <1>2, FiniteInduction
<1> QED
  BY <1>3 DEF P

\* So bonuses and penalties of rounded rewards are off by half a hundredth for each.
LEMMA RewardsNear ==
  ASSUME NEW S \in SUBSET Metrics, NEW x, NEW y,
         \A m \in S : x[m].reward \in Int /\ y[m].reward \in Int /\ K!Near(y[m].reward, x[m].reward, 1)
  PROVE  /\ K!Near(K!Bonus(y, S), K!Bonus(x, S), Cardinality(S))
         /\ K!Near(K!Penalty(y, S), K!Penalty(x, S), Cardinality(S))
<1> DEFINE b(z) == [m \in S |-> Max({0, z[m].reward})]
           p(z) == [m \in S |-> Max({0, -z[m].reward})]
<1>1. IsFiniteSet(S)
  BY SchoolAssumption, FS_Subset
<1>2. \A i \in Int : Max({0, i}) = IF i >= 0 THEN i ELSE 0
  BY DEF Max
<1>3. ASSUME NEW m \in S
      PROVE  /\ b(y)[m] \in Int /\ b(x)[m] \in Int /\ K!Near(b(y)[m], b(x)[m], 1)
             /\ p(y)[m] \in Int /\ p(x)[m] \in Int /\ K!Near(p(y)[m], p(x)[m], 1)
  <2> SUFFICES ASSUME NEW i \in Int, NEW j \in Int, K!Near(j, i, 1)
               PROVE  /\ Max({0, j}) \in Int /\ Max({0, i}) \in Int /\ K!Near(Max({0, j}), Max({0, i}), 1)
                      /\ Max({0, -j}) \in Int /\ Max({0, -i}) \in Int /\ K!Near(Max({0, -j}), Max({0, -i}), 1)
    BY <1>3
  <2>1. /\ Max({0, i}) = IF i >= 0 THEN i ELSE 0
        /\ Max({0, j}) = IF j >= 0 THEN j ELSE 0
        /\ Max({0, -i}) = IF -i >= 0 THEN -i ELSE 0
        /\ Max({0, -j}) = IF -j >= 0 THEN -j ELSE 0
    BY <1>2
  <2> QED
    BY <2>1 DEF K!Near, K!Unit
<1>4. \A z : K!Bonus(z, S) = SumFunctionOnSet(b(z), S) /\ K!Penalty(z, S) = SumFunctionOnSet(p(z), S)
  BY SumIsSum, MaxIsMax DEF K!Bonus, K!Penalty
<1> HIDE DEF b, p
<1>5. /\ K!Near(SumFunctionOnSet(b(y), S), SumFunctionOnSet(b(x), S), Cardinality(S))
      /\ K!Near(SumFunctionOnSet(p(y), S), SumFunctionOnSet(p(x), S), Cardinality(S))
  BY <1>1, <1>3, SumNear
<1> QED
  BY <1>4, <1>5

\* Of finitely many rules one comes first.
LEMMA FirstRule ==
  ASSUME NEW fit \in SUBSET RuleBook, fit # {}
  PROVE  \E r \in fit : \A o \in fit : r.lo = None \/ (o.lo # None /\ r.lo >= o.lo)
<1>1. CASE \E r \in fit : r.lo = None
  BY <1>1
<1>2. CASE \A r \in fit : r.lo # None
  <2> DEFINE P == {T \in SUBSET fit : T = {} \/ \E r \in T : \A o \in T : r.lo >= o.lo}
  <2>1. IsFiniteSet(fit) /\ \A r \in fit : r.lo \in Int
    BY <1>2, SchoolAssumption, FS_Subset
  <2>2. {} \in P
    OBVIOUS
  <2>3. ASSUME NEW T \in SUBSET fit, NEW x \in fit \ T, T \in P
        PROVE  T \cup {x} \in P
    <3>1. CASE T = {}
      <4>1. T \cup {x} = {x} /\ x.lo >= x.lo
        BY <2>1, <3>1
      <4> QED
        BY <4>1
    <3>2. CASE T # {}
      <4>1. PICK r \in T : \A o \in T : r.lo >= o.lo
        BY <2>3, <3>2
      <4>2. r.lo \in Int /\ x.lo \in Int /\ \A o \in T : o.lo \in Int
        BY <2>1
      <4>3. CASE r.lo >= x.lo
        BY <4>1, <4>3
      <4>4. CASE x.lo > r.lo
        <5>1. \A o \in T \cup {x} : x.lo >= o.lo
          BY <4>1, <4>2, <4>4
        <5> QED
          BY <5>1
      <4> QED
        BY <4>2, <4>3, <4>4
    <3> QED
      BY <3>1, <3>2
  <2> HIDE DEF P
  <2>4. fit \in P
    BY <2>1, <2>2, <2>3, FiniteInduction
  <2>5. \E r \in fit : \A o \in fit : r.lo >= o.lo
    BY <2>4 DEF P
  <2> QED
    BY <1>2, <2>5
<1> QED
  BY <1>1, <1>2

\* The rule that is found fits, and none fits better; none is found only when none fits.
LEMMA RuleFound ==
  ASSUME rules \subseteq RuleBook, NEW m, NEW v, NEW r, r = K!FindMatchingRule(m, v)
  PROVE  /\ r # None => r \in rules /\ v # None /\ K!Matches(r, v)
         /\ r = None /\ v # None => \A o \in rules : o.metric = m => ~K!Matches(o, v)
         /\ r # None => \A o \in rules : o.metric = m /\ K!Matches(o, v) =>
              r.lo = None \/ (o.lo # None /\ r.lo >= o.lo)
<1> DEFINE fit == {x \in rules : v # None /\ x.metric = m /\ K!Matches(x, v)}
<1>1. r = IF fit = {} THEN None
          ELSE CHOOSE x \in fit : \A o \in fit : x.lo = None \/ (o.lo # None /\ x.lo >= o.lo)
  BY DEF K!FindMatchingRule
<1>2. fit \in SUBSET RuleBook
  OBVIOUS
<1>3. CASE fit = {}
  BY <1>1, <1>3
<1>4. CASE fit # {}
  <2> HIDE DEF fit
  <2>1. \E x \in fit : \A o \in fit : x.lo = None \/ (o.lo # None /\ x.lo >= o.lo)
    BY <1>2, <1>4, FirstRule
  <2>2. r \in fit /\ \A o \in fit : r.lo = None \/ (o.lo # None /\ r.lo >= o.lo)
    BY <1>1, <1>4, <2>1
  <2>3. r # None
    BY <1>2, <2>2, SchoolAssumption
  <2> QED
    BY <2>2, <2>3 DEF fit
<1> QED
  BY <1>3, <1>4

\* A metric is computed as a number, if at all, and a reward is a number.
LEMMA MetricType ==
  ASSUME K!InputsAreSound, NEW m \in Metrics
  PROVE  K!ComputeMetric(m) \in Int \cup {None}
<1>1. work[m].part \in Nat /\ work[m].total \in Nat
  BY SchoolAssumption DEF K!InputsAreSound
<1>2. CASE m \in Percentages
  <2> SUFFICES ASSUME NEW x \in Nat, NEW y \in Nat, x = work[m].part, y = work[m].total
               PROVE  K!ComputeMetric(m) \in Int \cup {None}
    BY <1>1
  <2>1. y # 0 => (20000 * x + y) \div (2 * y) \in Int
    OBVIOUS
  <2>2. K!ComputeMetric(m) = IF y = 0 THEN 0 ELSE (20000 * x + y) \div (2 * y)
    BY <1>2, SchoolAssumption DEF K!ComputeMetric
  <2> QED
    BY <2>1, <2>2
<1>3. CASE m \notin Percentages /\ m \in Counts
  BY <1>1, <1>3 DEF K!ComputeMetric
<1>4. CASE m \notin Percentages /\ m \notin Counts
  BY <1>4 DEF K!ComputeMetric
<1> QED
  BY <1>2, <1>3, <1>4

\* So is the reward of a rule.
LEMMA RewardType ==
  ASSUME NEW r \in RuleBook, NEW pay \in Int
  PROVE  K!ComputeReward(r, pay) \in Int
<1>1. r.value \in Int /\ r.type \in {"bonus_pct", "bonus_sum", "penalty_pct", "penalty_sum", "none"}
  BY SchoolAssumption DEF K!RewardTypes
<1> SUFFICES ASSUME NEW v \in Int, v = r.value PROVE K!ComputeReward(r, pay) \in Int
  BY <1>1
<1>2. pay * v \in Int /\ -(pay * v) \in Int /\ 10000 * v \in Int /\ -(10000 * v) \in Int
  OBVIOUS
<1> QED
  BY <1>1, <1>2 DEF K!ComputeReward, K!Unit

\* The rule of a result in the books or under way is the best, whatever was computed.
LEMMA TiersAreReached == ASSUME K!KpiInv PROVE K!TierReached
<1> SUFFICES ASSUME NEW m \in Metrics, NEW v, v = K!ComputeMetric(m), NEW r, r = K!FindMatchingRule(m, v)
             PROVE  /\ parallel = 1 /\ result[m] # None /\ result[m].rule # None
                         => K!Matches(result[m].rule, result[m].value)
                    /\ r = None /\ v # None => \A o \in rules : o.metric = m => ~K!Matches(o, v)
                    /\ r # None => \A o \in rules : o.metric = m /\ K!Matches(o, v) =>
                         r.lo = None \/ o.lo <= r.lo
  BY DEF K!TierReached
<1>1. parallel = 1 /\ result[m] # None /\ result[m].rule # None
         => K!Matches(result[m].rule, result[m].value)
  BY DEF K!KpiInv, K!RowsAreSound, K!There
<1>2. rules \subseteq RuleBook
  BY DEF K!KpiInv, K!InputsAreSound
<1>3. /\ r # None => r \in rules
      /\ r = None /\ v # None => \A o \in rules : o.metric = m => ~K!Matches(o, v)
      /\ r # None => \A o \in rules : o.metric = m /\ K!Matches(o, v) =>
              r.lo = None \/ (o.lo # None /\ r.lo >= o.lo)
  BY <1>2, RuleFound
<1>4. \A o \in rules : o.lo \in Int \cup {None}
  BY <1>2, SchoolAssumption
<1>5. ASSUME r # None, NEW o \in rules, o.metric = m, K!Matches(o, v)
      PROVE  r.lo = None \/ o.lo <= r.lo
  <2>1. r.lo \in Int \cup {None} /\ o.lo \in Int \cup {None} /\ (r.lo = None \/ (o.lo # None /\ r.lo >= o.lo))
    BY <1>3, <1>4, <1>5
  <2> QED
    BY <2>1
<1> QED
  BY <1>1, <1>3, <1>5

\* What it says of the payslip.
LEMMA PayslipIsSound == ASSUME K!KpiInv PROVE K!PayslipIsWhole
<1>1. K!TypeOK
  <2>1. \A m \in Metrics : result[m] # None => result[m] \in K!ResultRow
    BY DEF K!KpiInv, K!RowsAreSound
  <2>2. slip # None => slip \in K!SlipRow
    BY DEF K!KpiInv, K!RowsAreSound
  <2> QED
    BY <2>1, <2>2 DEF K!TypeOK, K!KpiInv, K!InputsAreSound, K!ResultRow, K!SlipRow
<1> QED
  BY <1>1, TiersAreReached DEF K!PayslipIsWhole, K!KpiInv

-----------------------------------------------------------------------------
(* KPI: inputs, rules that are deleted, approvals *)

\* A result that was changed has kept its figures, and its rule unless that was deleted.
SameFigures == \A m \in K!There :
  /\ result'[m].value = result[m].value /\ result'[m].reward = result[m].reward
  /\ result'[m].rule \in {result[m].rule, None}

\* A calculation goes on when rows of results and payslip stay, and with one at a time
\* their figures do.
LEMMA CalcStays ==
  ASSUME NEW c \in Workers, K!CalcIsSound(c), calc'[c] = calc[c], parallel' = parallel,
         changed' = 0 => changed = 0 /\ salary' = salary, K!There \subseteq K!There', slip # None => slip' # None,
         parallel = 1 /\ K!Underway(c) => SameFigures /\ (slip # None => slip'.bonus = slip.bonus /\ slip'.penalty = slip.penalty /\ slip'.net = slip.net)
  PROVE  K!CalcIsSound(c)'
<1> SUFFICES ASSUME K!Underway(c), NEW k, k = calc[c] PROVE K!CalcIsSound(c)'
  BY DEF K!CalcIsSound, K!Underway
<1>1. K!Of(c)' = K!Of(c)
  BY DEF K!Of
<1>2. ASSUME NEW m \in K!Of(c)
      PROVE  K!NewIsSound(c, m)'
  <2> SUFFICES ASSUME NEW old, old = k.old[m], NEW new, new = k.new[m] PROVE K!NewIsSound(c, m)'
    OBVIOUS
  <2>1. K!NewIsSound(c, m)
    BY <1>2 DEF K!CalcIsSound
  <2>2. /\ new \in K!ResultRow /\ (new.rule # None => K!Matches(new.rule, new.value))
        /\ old # None =>
             /\ old \in K!ResultRow /\ m \in K!There /\ new.status = old.status
             /\ parallel = 1 => /\ result[m].value = old.value /\ result[m].reward = old.reward
                                /\ result[m].rule \in {old.rule, None}
    BY <2>1 DEF K!NewIsSound
  <2>3. old # None /\ parallel = 1 =>
          /\ result'[m].value = old.value /\ result'[m].reward = old.reward
          /\ result'[m].rule \in {old.rule, None}
    BY <2>2 DEF SameFigures
  <2>4. old # None => m \in K!There'
    BY <2>2
  <2> QED
    BY <2>2, <2>3, <2>4 DEF K!NewIsSound
<1>3. ASSUME K!SlipIsSound(c)
      PROVE  K!SlipIsSound(c)'
  <2> SUFFICES ASSUME NEW old, old = k.slip.old, NEW new, new = k.slip.new PROVE K!SlipIsSound(c)'
    OBVIOUS
  <2>1. /\ new \in K!SlipRow /\ new.net = K!Unit * k.pay + new.bonus - new.penalty
        /\ changed = 0 => new.base = K!Unit * salary
        /\ new.bonus = K!Bonus(k.new, K!Of(c)) /\ new.penalty = K!Penalty(k.new, K!Of(c))
        /\ old = None => new.status = "draft"
        /\ old # None =>
             /\ old \in K!SlipRow /\ slip # None /\ new.status = old.status
             /\ parallel = 1 => slip.bonus = old.bonus /\ slip.penalty = old.penalty /\ slip.net = old.net
    BY <1>3 DEF K!SlipIsSound
  <2>2. new.bonus = K!Bonus(k.new, K!Of(c)') /\ new.penalty = K!Penalty(k.new, K!Of(c)')
    BY <1>1, <2>1
  <2>3. old # None => slip' # None /\ (parallel = 1 =>
           slip'.bonus = old.bonus /\ slip'.penalty = old.penalty /\ slip'.net = old.net)
    BY <2>1
  <2> QED
    BY <2>1, <2>2, <2>3 DEF K!SlipIsSound
<1>4. /\ k.todo \subseteq Metrics /\ k.pay \in Int
      /\ k.old = [m \in Metrics |-> k.old[m]] /\ k.new = [m \in Metrics |-> k.new[m]]
      /\ changed = 0 => k.pay = salary /\ Metrics \subseteq k.todo \cup K!Of(c)
      /\ k.at = "save" => k.todo = {} /\ K!SlipIsSound(c)
  BY DEF K!CalcIsSound
<1> QED
  BY <1>1, <1>2, <1>3, <1>4 DEF K!CalcIsSound

\* The inputs change: what was calculated stays.
LEMMA InputsChange ==
  ASSUME K!KpiInv, UNCHANGED <<result, slip, calc, approval, basis, parallel>>,
         K!InputsAreSound', changed' = 0 => changed = 0 /\ salary' = salary
  PROVE  K!KpiInv'
<1>1. K!There' = K!There /\ SameFigures
  BY DEF K!There, SameFigures
<1>2. \A c \in Workers : K!CalcIsSound(c)'
  BY <1>1, CalcStays DEF K!KpiInv
<1>3. K!RowsAreSound'
  BY <1>1 DEF K!KpiInv, K!RowsAreSound
<1>4. K!CalcsAreKept'
  BY DEF K!KpiInv, K!CalcsAreKept
<1>5. \A a \in Admins : K!ApprovalIsSound(a)'
  BY <1>1 DEF K!KpiInv, K!ApprovalIsSound
<1>6. parallel' = 1 => \A c, o \in Workers : K!Underway(c)' /\ K!Underway(o)' => c = o
  BY DEF K!KpiInv, K!Underway
<1>7. K!SlipIsTheSum' /\ K!ApprovedTogether'
  <2>1. K!Bonus(result, basis.metrics)' = K!Bonus(result, basis.metrics)
        /\ K!Penalty(result, basis.metrics)' = K!Penalty(result, basis.metrics)
    BY DEF K!Bonus, K!Penalty
  <2> QED
    BY <2>1 DEF K!KpiInv, K!SlipIsTheSum, K!ApprovedTogether
<1> QED
  BY <1>2, <1>3, <1>4, <1>5, <1>6, <1>7 DEF K!KpiInv

\* Rows of results are replaced by rows of the same figures: a rule is deleted or an
\* approval given.
LEMMA SlipChange ==
  ASSUME K!KpiInv, UNCHANGED <<calc, basis, parallel, salary>>, K!InputsAreSound', changed' = 0 => changed = 0,
         result' \in [Metrics -> K!ResultRow \cup {None}], K!There' = K!There, SameFigures,
         slip' \in K!SlipRow \cup {None}, (slip = None) = (slip' = None),
         slip # None => /\ slip'.bonus = slip.bonus /\ slip'.penalty = slip.penalty /\ slip'.net = slip.net
                        /\ slip'.base = slip.base,
         K!CalcsAreKept', \A a \in Admins : K!ApprovalIsSound(a)', K!ApprovedTogether'
  PROVE  K!KpiInv'
<1>1. \A c \in Workers : K!CalcIsSound(c)'
  BY CalcStays DEF K!KpiInv
<1>2. parallel' = 1 => \A c, o \in Workers : K!Underway(c)' /\ K!Underway(o)' => c = o
  BY DEF K!KpiInv, K!Underway
<1>3. K!RowsAreSound'
  <2>1. ASSUME parallel = 1, NEW m \in K!There, result'[m].rule # None
        PROVE  K!Matches(result'[m].rule, result'[m].value)
    <3>1. result'[m].rule = result[m].rule /\ result'[m].value = result[m].value
      BY <2>1 DEF SameFigures
    <3> QED
      BY <2>1, <3>1 DEF K!KpiInv, K!RowsAreSound
  <2> QED
    BY <2>1 DEF K!KpiInv, K!RowsAreSound
<1>4. K!SlipIsTheSum'
  <2> SUFFICES ASSUME slip' # None
               PROVE  /\ parallel = 1 =>
                           LET each == K!Cardinality(basis.metrics) + 1
                           IN  /\ K!Near(slip'.bonus, K!Bonus(result', basis.metrics), each)
                               /\ K!Near(slip'.penalty, K!Penalty(result', basis.metrics), each)
                               /\ K!Near(slip'.net, K!Unit * basis.pay + slip'.bonus - slip'.penalty, 3)
                      /\ changed = 0 => slip'.base = K!Unit * salary
    BY DEF K!SlipIsTheSum
  <2>1. slip # None /\ basis.metrics \subseteq K!There
    BY DEF K!KpiInv, K!RowsAreSound
  <2>2. basis.metrics \in SUBSET Metrics /\ \A m \in basis.metrics : result[m].reward \in Int
    <3>1. \A m \in K!There : result[m] \in K!ResultRow /\ m \in Metrics
      BY DEF K!KpiInv, K!RowsAreSound, K!There
    <3> QED
      BY <2>1, <3>1 DEF K!ResultRow
  <2>3. \A m \in basis.metrics : result'[m].reward = result[m].reward
    BY <2>1 DEF SameFigures
  <2> HIDE DEF SameFigures
  <2>4. K!Bonus(result', basis.metrics) = K!Bonus(result, basis.metrics)
        /\ K!Penalty(result', basis.metrics) = K!Penalty(result, basis.metrics)
    BY <2>2, <2>3, RewardsAdd
  <2> QED
    BY <2>1, <2>4 DEF K!KpiInv, K!SlipIsTheSum
<1> QED
  BY <1>1, <1>2, <1>3, <1>4 DEF K!KpiInv

\* A deleted rule is taken from its results.
LEMMA DeleteRuleStep ==
  ASSUME K!KpiInv, NEW r \in RuleBook, K!DeleteRule(r)
  PROVE  K!KpiInv'
<1>1. /\ changed' = changed + 1 /\ rules' = rules \ {r}
      /\ result' = [m \in Metrics |->
           IF result[m] # None /\ result[m].rule = r THEN [result[m] EXCEPT !.rule = None] ELSE result[m]]
      /\ UNCHANGED <<metrics, salary, work, slip, calc, approval, basis, parallel>>
  BY DEF K!DeleteRule, K!Change, K!OnlyInputs
<1>2. changed \in Nat /\ changed' \in Nat /\ changed' # 0
  BY <1>1 DEF K!KpiInv, K!InputsAreSound
<1>3. K!InputsAreSound'
  BY <1>1, <1>2 DEF K!KpiInv, K!InputsAreSound
<1>4. ASSUME NEW m \in Metrics
      PROVE  /\ result[m] = None => result'[m] = None
             /\ result[m] # None => result'[m] # None /\ result'[m] \in K!ResultRow
                  /\ result'[m].value = result[m].value /\ result'[m].reward = result[m].reward
                  /\ result'[m].rule \in {result[m].rule, None}
  <2> SUFFICES ASSUME NEW x, x = result[m], NEW y, y = result'[m], x # None
               PROVE  /\ y # None /\ y \in K!ResultRow /\ y.value = x.value /\ y.reward = x.reward
                      /\ y.rule \in {x.rule, None}
    BY <1>1
  <2>1. x \in K!ResultRow
    BY DEF K!KpiInv, K!RowsAreSound
  <2>2. y = x \/ y = [x EXCEPT !.rule = None]
    BY <1>1
  <2>3. [x EXCEPT !.rule = None] \in K!ResultRow
    BY <2>1 DEF K!ResultRow
  <2>4. y \in K!ResultRow /\ y # None
    BY <2>1, <2>2, <2>3, SchoolAssumption
  <2> QED
    BY <2>1, <2>2, <2>4 DEF K!ResultRow
<1>5. K!There' = K!There /\ SameFigures
  BY <1>4 DEF K!There, SameFigures
<1>6. result' \in [Metrics -> K!ResultRow \cup {None}]
  BY <1>1, <1>4
<1>7. K!CalcsAreKept' /\ \A a \in Admins : K!ApprovalIsSound(a)'
  BY <1>1, <1>2, <1>5 DEF K!KpiInv, K!CalcsAreKept, K!ApprovalIsSound
<1>8. K!ApprovedTogether'
  BY <1>2 DEF K!ApprovedTogether
<1>9. slip \in K!SlipRow \cup {None}
  BY DEF K!KpiInv, K!RowsAreSound
<1> QED
  BY <1>1, <1>2, <1>3, <1>5, <1>6, <1>7, <1>8, <1>9, SlipChange

\* An approval is started ...
LEMMA LoadSlipStep ==
  ASSUME K!KpiInv, NEW a \in Admins, K!LoadSlip(a)
  PROVE  K!KpiInv'
<1>1. /\ slip # None /\ approval' = [approval EXCEPT ![a] = K!There]
      /\ UNCHANGED <<metrics, rules, salary, work, changed, parallel, result, slip, calc, basis>>
  BY DEF K!LoadSlip, K!inputs, K!There
<1>2. K!InputsAreSound' /\ K!There' = K!There /\ SameFigures
  BY <1>1 DEF K!KpiInv, K!InputsAreSound, K!There, SameFigures
<1>3. K!CalcsAreKept' /\ approval' = [b \in Admins |-> IF b = a THEN K!There ELSE approval[b]]
  BY <1>1 DEF K!KpiInv, K!CalcsAreKept
<1>4. ASSUME NEW b \in Admins PROVE K!ApprovalIsSound(b)'
  <2>1. CASE b = a
    BY <1>1, <1>2, <1>3, <2>1 DEF K!KpiInv, K!RowsAreSound, K!ApprovalIsSound
  <2>2. CASE b # a
    BY <1>1, <1>2, <1>3, <2>2 DEF K!KpiInv, K!ApprovalIsSound
  <2> QED
    BY <2>1, <2>2
<1>5. K!ApprovedTogether'
  BY <1>1 DEF K!KpiInv, K!ApprovedTogether
<1>6. slip \in K!SlipRow \cup {None} /\ result \in [Metrics -> K!ResultRow \cup {None}]
  BY DEF K!KpiInv, K!RowsAreSound
<1> QED
  BY <1>1, <1>2, <1>3, <1>4, <1>5, <1>6, SlipChange

\* ... and given.
LEMMA ApprovePayslipStep ==
  ASSUME K!KpiInv, NEW a \in Admins, K!ApprovePayslip(a)
  PROVE  K!KpiInv'
<1>1. /\ approval[a] # None /\ slip' = [slip EXCEPT !.status = "approved"]
      /\ result' = [m \in Metrics |-> IF m \in approval[a] THEN [result[m] EXCEPT !.status = "approved"]
                                      ELSE result[m]]
      /\ approval' = [approval EXCEPT ![a] = None]
      /\ UNCHANGED <<metrics, rules, salary, work, changed, parallel, calc, basis>>
  BY DEF K!ApprovePayslip, K!inputs
<1>2. K!ApprovalIsSound(a) /\ slip # None /\ approval[a] \subseteq K!There /\ (changed = 0 => approval[a] = Metrics)
  BY <1>1 DEF K!KpiInv, K!ApprovalIsSound
<1>3. ASSUME NEW m \in Metrics
      PROVE  /\ result[m] = None => result'[m] = None
             /\ result[m] # None => result'[m] # None /\ result'[m] \in K!ResultRow
                  /\ result'[m].value = result[m].value /\ result'[m].reward = result[m].reward
                  /\ result'[m].rule \in {result[m].rule, None}
                  /\ (m \in approval[a] => result'[m].status = "approved")
  <2> SUFFICES ASSUME NEW x, x = result[m], NEW y, y = result'[m], x # None
               PROVE  /\ y # None /\ y \in K!ResultRow /\ y.value = x.value /\ y.reward = x.reward
                      /\ y.rule \in {x.rule, None} /\ (m \in approval[a] => y.status = "approved")
    BY <1>1, <1>2 DEF K!There
  <2>1. x \in K!ResultRow
    BY DEF K!KpiInv, K!RowsAreSound
  <2>2. y = IF m \in approval[a] THEN [x EXCEPT !.status = "approved"] ELSE x
    BY <1>1
  <2>3. [x EXCEPT !.status = "approved"] \in K!ResultRow
    BY <2>1 DEF K!ResultRow
  <2>4. y \in K!ResultRow /\ y # None
    BY <2>1, <2>2, <2>3, SchoolAssumption
  <2> QED
    BY <2>1, <2>2, <2>4 DEF K!ResultRow
<1>4. K!There' = K!There /\ SameFigures
  BY <1>3 DEF K!There, SameFigures
<1>5. result' \in [Metrics -> K!ResultRow \cup {None}]
  <2>1. \A m \in Metrics : result'[m] \in K!ResultRow \cup {None}
    BY <1>3
  <2> QED
    BY <1>1, <2>1
<1>6. /\ slip' \in K!SlipRow \cup {None} /\ slip' # None
      /\ slip'.bonus = slip.bonus /\ slip'.penalty = slip.penalty /\ slip'.net = slip.net
      /\ slip'.base = slip.base
  <2> SUFFICES ASSUME NEW x, x = slip, NEW y, y = slip'
               PROVE  /\ y \in K!SlipRow /\ y # None
                      /\ y.bonus = x.bonus /\ y.penalty = x.penalty /\ y.net = x.net /\ y.base = x.base
    OBVIOUS
  <2>1. x \in K!SlipRow /\ y = [x EXCEPT !.status = "approved"]
    BY <1>1, <1>2 DEF K!KpiInv, K!RowsAreSound
  <2>2. y \in K!SlipRow
    BY <2>1 DEF K!SlipRow
  <2> QED
    BY <2>1, <2>2, SchoolAssumption DEF K!SlipRow
<1>7. K!InputsAreSound'
  BY <1>1 DEF K!KpiInv, K!InputsAreSound
<1>8. K!CalcsAreKept' /\ approval' = [b \in Admins |-> IF b = a THEN None ELSE approval[b]]
  BY <1>1 DEF K!KpiInv, K!CalcsAreKept
<1>9. \A b \in Admins : K!ApprovalIsSound(b)'
  BY <1>1, <1>4, <1>6, <1>8 DEF K!KpiInv, K!ApprovalIsSound
<1>10. K!ApprovedTogether'
  BY <1>1, <1>2, <1>3 DEF K!ApprovedTogether
<1> QED
  BY <1>1, <1>2, <1>4, <1>5, <1>6, <1>7, <1>8, <1>9, <1>10, SlipChange

-----------------------------------------------------------------------------
(* KPI: a calculation under way *)

\* A step of one calculation that writes no row.
LEMMA CalcMoves ==
  ASSUME K!KpiInv, NEW c \in Workers, NEW k, calc' = [calc EXCEPT ![c] = k],
         k = [at |-> k.at, todo |-> k.todo, pay |-> k.pay, old |-> k.old, new |-> k.new, slip |-> k.slip],
         UNCHANGED <<metrics, rules, salary, work, changed, parallel, result, slip, approval, basis>>,
         K!CalcIsSound(c)',
         parallel = 1 /\ K!Underway(c)' => K!Underway(c) \/ \A o \in Workers \ {c} : ~K!Underway(o)
  PROVE  K!KpiInv'
<1>1. calc = [o \in Workers |-> calc[o]]
  BY DEF K!KpiInv, K!CalcsAreKept
<1>2. calc'[c] = k /\ \A o \in Workers \ {c} : calc'[o] = calc[o]
  BY <1>1
<1>3. K!There' = K!There /\ SameFigures
  BY DEF K!There, SameFigures
<1>4. \A o \in Workers \ {c} : K!CalcIsSound(o)'
  BY <1>2, <1>3, CalcStays DEF K!KpiInv
<1>5. K!CalcsAreKept'
  <2>1. calc' = [o \in Workers |-> calc'[o]]
    BY <1>1
  <2>2. ASSUME NEW o \in Workers, NEW x, x = calc'[o]
        PROVE  x = [at |-> x.at, todo |-> x.todo, pay |-> x.pay, old |-> x.old, new |-> x.new, slip |-> x.slip]
    <3>1. CASE o = c
      BY <1>2, <2>2, <3>1
    <3>2. CASE o # c
      BY <1>2, <2>2, <3>2 DEF K!KpiInv, K!CalcsAreKept
    <3> QED
      BY <3>1, <3>2
  <2>3. approval' = [a \in Admins |-> approval'[a]]
    BY DEF K!KpiInv, K!CalcsAreKept
  <2> QED
    BY <2>1, <2>2, <2>3 DEF K!CalcsAreKept
<1>6. K!InputsAreSound' /\ K!RowsAreSound'
  BY <1>3 DEF K!KpiInv, K!InputsAreSound, K!RowsAreSound
<1>7. \A a \in Admins : K!ApprovalIsSound(a)'
  BY <1>3 DEF K!KpiInv, K!ApprovalIsSound
<1>8. K!SlipIsTheSum' /\ K!ApprovedTogether'
  <2>1. K!Bonus(result, basis.metrics)' = K!Bonus(result, basis.metrics)
        /\ K!Penalty(result, basis.metrics)' = K!Penalty(result, basis.metrics)
    BY DEF K!Bonus, K!Penalty
  <2> QED
    BY <2>1 DEF K!KpiInv, K!SlipIsTheSum, K!ApprovedTogether
<1>9. \A o \in Workers \ {c} : K!Underway(o)' = K!Underway(o)
  BY <1>2 DEF K!Underway
<1>10. parallel' = 1 => \A x, o \in Workers : K!Underway(x)' /\ K!Underway(o)' => x = o
  BY <1>9 DEF K!KpiInv
<1>11. \A o \in Workers : K!CalcIsSound(o)'
  BY <1>4
<1> QED
  BY <1>5, <1>6, <1>7, <1>8, <1>10, <1>11 DEF K!KpiInv

\* One calculation may start when no other is under way.
LEMMA CalculatorAlone ==
  ASSUME NEW c \in Workers, parallel = 1,
         K!Cardinality({o \in Workers : calc[o].at \in {"open", "save"}}) < parallel
  PROVE  \A o \in Workers : ~K!Underway(o)
<1> DEFINE U == {o \in Workers : calc[o].at \in {"open", "save"}}
<1>1. U \in SUBSET Workers /\ IsFiniteSet(Workers)
  BY SchoolAssumption
<1>2. Cardinality(U) < 1
  BY CountIsCount
<1>3. Cardinality(U) \in Nat /\ (U # {} <=> Cardinality(U) > 0)
  <2> HIDE DEF U
  <2> QED
    BY <1>1, CountOf
<1>4. U = {}
  BY <1>2, <1>3
<1> QED
  BY <1>4 DEF K!Underway

\* The teacher and the metrics are read.
LEMMA CalculateStep ==
  ASSUME K!KpiInv, NEW c \in Workers, K!Calculate(c)
  PROVE  K!KpiInv'
<1> DEFINE k == [at |-> "open", todo |-> metrics, pay |-> salary, old |-> K!Empty, new |-> K!Empty, slip |-> None]
<1>1. /\ calc[c].at = "idle" /\ calc' = [calc EXCEPT ![c] = k]
      /\ K!Cardinality({o \in Workers : calc[o].at \in {"open", "save"}}) < parallel
      /\ UNCHANGED <<metrics, rules, salary, work, changed, parallel, result, slip, approval, basis>>
  BY DEF K!Calculate, K!inputs
<1>2. /\ k.at = "open" /\ k.todo = metrics /\ k.pay = salary /\ k.old = K!Empty /\ k.new = K!Empty
      /\ k = [at |-> k.at, todo |-> k.todo, pay |-> k.pay, old |-> k.old, new |-> k.new, slip |-> k.slip]
  OBVIOUS
<1> HIDE DEF k
<1>3. calc'[c] = k
  BY <1>1 DEF K!KpiInv, K!CalcsAreKept
<1>4. K!Of(c)' = {}
  BY <1>2, <1>3 DEF K!Of, K!Empty
<1>5. K!CalcIsSound(c)'
  <2>1. metrics \subseteq Metrics /\ salary \in Int /\ (changed = 0 => metrics = Metrics)
    BY SchoolAssumption DEF K!KpiInv, K!InputsAreSound
  <2>2. K!Empty = [m \in Metrics |-> K!Empty[m]]
    BY DEF K!Empty
  <2> QED
    BY <1>1, <1>2, <1>3, <1>4, <2>1, <2>2 DEF K!CalcIsSound
<1>6. parallel = 1 => \A o \in Workers \ {c} : ~K!Underway(o)
  BY <1>1, CalculatorAlone
<1> QED
  BY <1>1, <1>2, <1>5, <1>6, CalcMoves

\* What a calculation notes of a metric ...
LEMMA MetricFields ==
  ASSUME NEW k, k = [at |-> k.at, todo |-> k.todo, pay |-> k.pay, old |-> k.old, new |-> k.new, slip |-> k.slip],
         NEW S, NEW x, NEW y, NEW z, z = [k EXCEPT !.todo = S, !.old = x, !.new = y]
  PROVE  z = [at |-> k.at, todo |-> S, pay |-> k.pay, old |-> x, new |-> y, slip |-> k.slip]
OBVIOUS

\* ... and of the payslip.
LEMMA SlipFields ==
  ASSUME NEW k, k = [at |-> k.at, todo |-> k.todo, pay |-> k.pay, old |-> k.old, new |-> k.new, slip |-> k.slip],
         NEW s, NEW z, z = [k EXCEPT !.at = "save", !.slip = s]
  PROVE  z = [at |-> "save", todo |-> k.todo, pay |-> k.pay, old |-> k.old, new |-> k.new, slip |-> s]
OBVIOUS

\* One metric is calculated.
LEMMA CalculateMetricStep ==
  ASSUME K!KpiInv, NEW c \in Workers, NEW m \in Metrics, K!CalculateMetric(c, m)
  PROVE  K!KpiInv'
<1> DEFINE v   == K!ComputeMetric(m)
           r   == K!FindMatchingRule(m, v)
           new == [value |-> v, rule |-> r,
                   reward |-> IF r = None THEN 0 ELSE K!ComputeReward(r, calc[c].pay),
                   status |-> IF result[m] = None THEN "pending" ELSE result[m].status]
           b   == calc[c]
           k   == [at |-> b.at, todo |-> b.todo \ {m}, pay |-> b.pay, old |-> [b.old EXCEPT ![m] = result[m]],
                   new |-> [b.new EXCEPT ![m] = new], slip |-> b.slip]
<1>1. /\ b.at = "open" /\ m \in b.todo
      /\ calc' = [calc EXCEPT ![c].todo = b.todo \ {m}, ![c].old[m] = result[m], ![c].new[m] = new]
      /\ UNCHANGED <<metrics, rules, salary, work, changed, parallel, result, slip, approval, basis>>
  BY DEF K!CalculateMetric, K!inputs
<1>2. /\ K!Underway(c) /\ K!CalcIsSound(c) /\ calc = [o \in Workers |-> calc[o]]
      /\ b = [at |-> b.at, todo |-> b.todo, pay |-> b.pay, old |-> b.old, new |-> b.new, slip |-> b.slip]
  BY <1>1 DEF K!KpiInv, K!CalcsAreKept, K!Underway
<1>3. new \in K!ResultRow /\ (new.rule # None => K!Matches(new.rule, new.value))
      /\ (result[m] # None => new.status = result[m].status)
  <2>1. v \in Int \cup {None}
    BY MetricType DEF K!KpiInv
  <2>2. rules \subseteq RuleBook /\ b.pay \in Int
    BY <1>2 DEF K!KpiInv, K!InputsAreSound, K!CalcIsSound
  <2>3. r # None => r \in RuleBook /\ K!Matches(r, v)
    BY <2>2, RuleFound
  <2>4. r # None => K!ComputeReward(r, calc[c].pay) \in Int
    BY <2>2, <2>3, RewardType
  <2>5. result[m] # None => result[m].status \in {"pending", "approved"}
    BY DEF K!KpiInv, K!RowsAreSound, K!ResultRow
  <2> HIDE DEF v, r
  <2> QED
    BY <2>1, <2>3, <2>4, <2>5 DEF K!ResultRow
<1> HIDE DEF v, r, new
<1>4. calc' = [calc EXCEPT ![c] = k]
  <2> SUFFICES ASSUME NEW S, S = b.todo \ {m}, NEW x, x = result[m], NEW y, y = new
               PROVE  calc' = [calc EXCEPT ![c] = k]
    OBVIOUS
  <2>1. k = [at |-> b.at, todo |-> S, pay |-> b.pay, old |-> [b.old EXCEPT ![m] = x],
             new |-> [b.new EXCEPT ![m] = y], slip |-> b.slip]
    OBVIOUS
  <2>2. ASSUME NEW z, z = [b EXCEPT !.todo = S, !.old[m] = x, !.new[m] = y] PROVE z = k
    <3>1. z = [b EXCEPT !.todo = S, !.old = [b.old EXCEPT ![m] = x], !.new = [b.new EXCEPT ![m] = y]]
      BY <2>2
    <3> SUFFICES ASSUME NEW u, u = [b.old EXCEPT ![m] = x], NEW w, w = [b.new EXCEPT ![m] = y] PROVE z = k
      OBVIOUS
    <3> HIDE DEF b, k
    <3>2. k = [at |-> b.at, todo |-> S, pay |-> b.pay, old |-> u, new |-> w, slip |-> b.slip]
      BY <2>1
    <3>3. z = [b EXCEPT !.todo = S, !.old = u, !.new = w]
      BY <3>1
    <3>4. z = [at |-> b.at, todo |-> S, pay |-> b.pay, old |-> u, new |-> w, slip |-> b.slip]
      BY <1>2, <3>3, MetricFields
    <3> QED
      BY <3>2, <3>4
  <2> QED
    BY <1>1, <1>2, <2>2
<1>5. /\ k.at = "open" /\ k.todo = b.todo \ {m} /\ k.pay = b.pay
      /\ k.old = [b.old EXCEPT ![m] = result[m]] /\ k.new = [b.new EXCEPT ![m] = new]
      /\ k = [at |-> k.at, todo |-> k.todo, pay |-> k.pay, old |-> k.old, new |-> k.new, slip |-> k.slip]
  BY <1>1
<1> HIDE DEF k
<1>6. calc'[c] = k
  BY <1>2, <1>4
<1>7. b.old = [x \in Metrics |-> b.old[x]] /\ b.new = [x \in Metrics |-> b.new[x]]
      /\ b.todo \subseteq Metrics /\ b.pay \in Int
  BY <1>2 DEF K!CalcIsSound
<1>8. /\ k.old = [x \in Metrics |-> k.old[x]] /\ k.new = [x \in Metrics |-> k.new[x]]
      /\ k.old[m] = result[m] /\ k.new[m] = new
      /\ \A x \in Metrics \ {m} : k.old[x] = b.old[x] /\ k.new[x] = b.new[x]
  BY <1>5, <1>7
<1>9. K!Of(c)' = K!Of(c) \cup {m}
  <2>1. new # None
    BY <1>3, SchoolAssumption
  <2> QED
    BY <1>6, <1>8, <2>1 DEF K!Of
<1>10. ASSUME NEW x \in K!Of(c)'
       PROVE  K!NewIsSound(c, x)'
  <2>1. CASE x = m
    <3> SUFFICES ASSUME NEW old, old = result[m], NEW row, row = new PROVE K!NewIsSound(c, x)'
      OBVIOUS
    <3>1. old # None => old \in K!ResultRow /\ m \in K!There'
      BY <1>1 DEF K!KpiInv, K!RowsAreSound, K!There
    <3>2. calc'[c].old[x] = old /\ calc'[c].new[x] = row /\ result'[x] = old
      BY <1>1, <1>6, <1>8, <2>1
    <3> QED
      BY <1>3, <2>1, <3>1, <3>2 DEF K!NewIsSound
  <2>2. CASE x # m
    <3> SUFFICES ASSUME NEW old, old = b.old[x], NEW row, row = b.new[x] PROVE K!NewIsSound(c, x)'
      OBVIOUS
    <3>1. x \in K!Of(c) /\ x \in Metrics
      BY <1>9, <2>2 DEF K!Of
    <3>2. K!NewIsSound(c, x)
      BY <1>2, <3>1 DEF K!CalcIsSound
    <3>3. calc'[c].old[x] = old /\ calc'[c].new[x] = row
      BY <1>6, <1>8, <2>2, <3>1
    <3>4. K!There' = K!There
      BY <1>1 DEF K!There
    <3> QED
      BY <1>1, <3>2, <3>3, <3>4 DEF K!NewIsSound
  <2> QED
    BY <2>1, <2>2
<1>11. K!CalcIsSound(c)'
  <2>1. changed = 0 => k.pay = salary /\ Metrics \subseteq k.todo \cup K!Of(c)'
    BY <1>2, <1>5, <1>9 DEF K!CalcIsSound
  <2>2. k.at = "open" /\ k.todo \subseteq Metrics /\ k.pay \in Int
    BY <1>1, <1>5, <1>7
  <2>3. k.old = [x \in Metrics |-> k.old[x]] /\ k.new = [x \in Metrics |-> k.new[x]]
    BY <1>8
  <2> HIDE DEF b
  <2> QED
    BY <1>1, <1>6, <1>10, <2>1, <2>2, <2>3 DEF K!CalcIsSound
<1> QED
  BY <1>1, <1>2, <1>4, <1>5, <1>11, CalcMoves

\* The payslip is read and summed up.
LEMMA FindSlipStep ==
  ASSUME K!KpiInv, NEW c \in Workers, K!FindSlip(c)
  PROVE  K!KpiInv'
<1> DEFINE k == calc[c]
           b == K!Bonus(k.new, K!Of(c))
           p == K!Penalty(k.new, K!Of(c))
           n == K!Unit * k.pay + b - p
           new == IF slip = None THEN [base |-> K!Unit * k.pay, bonus |-> b, penalty |-> p, net |-> n, status |-> "draft"]
                  ELSE [slip EXCEPT !.bonus = b, !.penalty = p, !.net = n]
           s   == [old |-> slip, new |-> new]
           x   == [at |-> "save", todo |-> k.todo, pay |-> k.pay, old |-> k.old, new |-> k.new, slip |-> s]
<1>1. /\ k.at = "open" /\ k.todo = {}
      /\ calc' = [calc EXCEPT ![c].at = "save", ![c].slip = s]
      /\ UNCHANGED <<metrics, rules, salary, work, changed, parallel, result, slip, approval, basis>>
  BY DEF K!FindSlip, K!inputs
<1>2. /\ K!Underway(c) /\ K!CalcIsSound(c) /\ calc = [o \in Workers |-> calc[o]]
      /\ k = [at |-> k.at, todo |-> k.todo, pay |-> k.pay, old |-> k.old, new |-> k.new, slip |-> k.slip]
  BY <1>1 DEF K!KpiInv, K!CalcsAreKept, K!Underway
<1>3. b \in Nat /\ p \in Nat /\ k.pay \in Int
  <2>1. \A m \in K!Of(c) : k.new[m].reward \in Int
    BY <1>2 DEF K!CalcIsSound, K!NewIsSound, K!ResultRow
  <2>2. K!Of(c) \in SUBSET Metrics
    BY DEF K!Of
  <2> QED
    BY <1>2, <2>1, <2>2, RewardsAdd DEF K!CalcIsSound
<1> HIDE DEF b, p
<1>4. /\ new \in K!SlipRow /\ new.net = K!Unit * k.pay + new.bonus - new.penalty
      /\ new.bonus = b /\ new.penalty = p
      /\ changed = 0 => new.base = K!Unit * salary
      /\ slip = None => new.status = "draft"
      /\ slip # None => slip \in K!SlipRow /\ new.status = slip.status
  <2> SUFFICES ASSUME NEW y, y = slip, NEW w \in Int, w = k.pay
               PROVE  /\ new \in K!SlipRow /\ new.net = K!Unit * w + new.bonus - new.penalty
                      /\ new.bonus = b /\ new.penalty = p
                      /\ changed = 0 => new.base = K!Unit * salary
                      /\ y = None => new.status = "draft"
                      /\ y # None => y \in K!SlipRow /\ new.status = y.status
    BY <1>3
  <2>1. n \in Int /\ n = K!Unit * w + b - p /\ K!Unit * w \in Int
    BY <1>3 DEF K!Unit
  <2>2. CASE y = None
    <3>1. new = [base |-> K!Unit * w, bonus |-> b, penalty |-> p, net |-> n, status |-> "draft"]
      BY <2>2
    <3>2. changed = 0 => w = salary
      BY <1>2 DEF K!CalcIsSound
    <3> HIDE DEF new, n
    <3> QED
      BY <1>3, <2>1, <2>2, <3>1, <3>2 DEF K!SlipRow
  <2>3. CASE y # None
    <3>1. y \in K!SlipRow
      BY <2>3 DEF K!KpiInv, K!RowsAreSound
    <3>2. new = [base |-> y.base, bonus |-> b, penalty |-> p, net |-> n, status |-> y.status]
      BY <2>3, <3>1 DEF K!SlipRow
    <3>3. y.base \in Int /\ y.status \in {"draft", "approved"}
      BY <3>1 DEF K!SlipRow
    <3>4. changed = 0 => y.base = K!Unit * salary
      BY <2>3 DEF K!KpiInv, K!SlipIsTheSum
    <3> HIDE DEF new, n
    <3> QED
      BY <1>3, <2>1, <2>3, <3>1, <3>2, <3>3, <3>4 DEF K!SlipRow
  <2> QED
    BY <2>2, <2>3
<1>5. s.old = slip /\ s.new = new
  OBVIOUS
<1> HIDE DEF new, n, s
<1>6. calc' = [calc EXCEPT ![c] = x]
  <2>1. calc' = [calc EXCEPT ![c] = [k EXCEPT !.at = "save", !.slip = s]]
    BY <1>1, <1>2
  <2>2. [k EXCEPT !.at = "save", !.slip = s] = x
    <3> HIDE DEF k
    <3> QED
      BY <1>2, SlipFields
  <2> QED
    BY <2>1, <2>2
<1>7. /\ x.at = "save" /\ x.todo = k.todo /\ x.pay = k.pay /\ x.old = k.old /\ x.new = k.new /\ x.slip = s
      /\ x = [at |-> x.at, todo |-> x.todo, pay |-> x.pay, old |-> x.old, new |-> x.new, slip |-> x.slip]
  OBVIOUS
<1> HIDE DEF x
<1>8. calc'[c] = x
  BY <1>2, <1>6
<1>9. K!Of(c)' = K!Of(c) /\ K!There' = K!There
  BY <1>1, <1>7, <1>8 DEF K!Of, K!There
<1>10. ASSUME NEW m \in K!Of(c)
       PROVE  K!NewIsSound(c, m)'
  <2> SUFFICES ASSUME NEW old, old = k.old[m], NEW row, row = k.new[m] PROVE K!NewIsSound(c, m)'
    OBVIOUS
  <2>1. K!NewIsSound(c, m)
    BY <1>2, <1>10 DEF K!CalcIsSound
  <2>2. calc'[c].old[m] = old /\ calc'[c].new[m] = row
    BY <1>7, <1>8
  <2> QED
    BY <1>1, <1>9, <2>1, <2>2 DEF K!NewIsSound
<1>11. K!SlipIsSound(c)'
  <2> SUFFICES ASSUME NEW old, old = slip, NEW row, row = new PROVE K!SlipIsSound(c)'
    OBVIOUS
  <2>1. calc'[c].slip.old = old /\ calc'[c].slip.new = row /\ slip' = old /\ calc'[c].pay = k.pay
        /\ calc'[c].new = k.new /\ changed' = changed /\ salary' = salary
    BY <1>1, <1>5, <1>7, <1>8
  <2>2. b = K!Bonus(k.new, K!Of(c)') /\ p = K!Penalty(k.new, K!Of(c)')
    BY <1>9 DEF b, p
  <2> QED
    BY <1>4, <2>1, <2>2 DEF K!SlipIsSound
<1>12. K!CalcIsSound(c)'
  BY <1>1, <1>2, <1>7, <1>8, <1>9, <1>10, <1>11 DEF K!CalcIsSound
<1> QED
  BY <1>1, <1>2, <1>6, <1>7, <1>12, CalcMoves

\* A calculation fails.
LEMMA AbortCalculationStep ==
  ASSUME K!KpiInv, NEW c \in Workers, K!AbortCalculation(c)
  PROVE  K!KpiInv'
<1> DEFINE k == [K!NoCalc EXCEPT !.at = "over"]
<1>1. /\ calc' = [calc EXCEPT ![c] = k]
      /\ UNCHANGED <<metrics, rules, salary, work, changed, parallel, result, slip, approval, basis>>
  BY DEF K!AbortCalculation, K!inputs
<1>2. k.at = "over" /\ k = [at |-> k.at, todo |-> k.todo, pay |-> k.pay, old |-> k.old, new |-> k.new, slip |-> k.slip]
  BY DEF K!NoCalc
<1> HIDE DEF k
<1>3. calc'[c] = k
  BY <1>1 DEF K!KpiInv, K!CalcsAreKept
<1>4. ~K!Underway(c)'
  BY <1>2, <1>3 DEF K!Underway
<1>5. K!CalcIsSound(c)'
  BY <1>4 DEF K!CalcIsSound, K!Underway
<1> QED
  BY <1>1, <1>2, <1>4, <1>5, CalcMoves

-----------------------------------------------------------------------------
(* KPI: what a commit writes *)

\* What a column keeps of a result, and of a payslip.
LEMMA ResultStored ==
  ASSUME NEW new \in K!ResultRow, NEW y, y = K!Stored(new)
  PROVE  /\ y = [value |-> new.value, rule |-> new.rule, reward |-> K!Rounded(new.reward),
                 status |-> new.status]
         /\ y["value"] = new.value /\ y["rule"] = new.rule /\ y["status"] = new.status
         /\ y["reward"] = K!Rounded(new.reward)
<1>1. DOMAIN new = {"value", "rule", "reward", "status"}
  BY DEF K!ResultRow
<1>2. y = [x \in {"value", "rule", "reward", "status"} |->
             IF x \in {"reward", "base", "bonus", "penalty", "net"} THEN K!Rounded(new[x]) ELSE new[x]]
  BY <1>1 DEF K!Stored
<1> QED
  BY <1>2

LEMMA SlipStored ==
  ASSUME NEW new \in K!SlipRow, NEW y, y = K!Stored(new)
  PROVE  /\ y = [base |-> K!Rounded(new.base), bonus |-> K!Rounded(new.bonus),
                 penalty |-> K!Rounded(new.penalty), net |-> K!Rounded(new.net), status |-> new.status]
         /\ y["base"] = K!Rounded(new.base) /\ y["bonus"] = K!Rounded(new.bonus)
         /\ y["penalty"] = K!Rounded(new.penalty) /\ y["net"] = K!Rounded(new.net)
         /\ y["status"] = new.status
<1>1. DOMAIN new = {"base", "bonus", "penalty", "net", "status"}
  BY DEF K!SlipRow
<1>2. y = [x \in {"base", "bonus", "penalty", "net", "status"} |->
             IF x \in {"reward", "base", "bonus", "penalty", "net"} THEN K!Rounded(new[x]) ELSE new[x]]
  BY <1>1 DEF K!Stored
<1> QED
  BY <1>2

\* What the columns of a result are after an UPDATE.
LEMMA ResultUpdated ==
  ASSUME NEW old \in K!ResultRow, NEW new \in K!ResultRow, NEW row \in K!ResultRow,
         NEW m, m = K!Update(row, old, new)
  PROVE  /\ m \in K!ResultRow
         /\ new.status = old.status => m.status = row.status
         /\ row.value = old.value => m.value = new.value
         /\ row.reward = old.reward => K!Near(m.reward, new.reward, 1)
         /\ row.rule \in {old.rule, None} => m.rule \in {new.rule, None}
<1> DEFINE kept == K!Stored(new)
<1>1. m = [x \in DOMAIN new |-> IF new[x] = old[x] THEN row[x] ELSE kept[x]]
  BY SchoolAssumption DEF K!Update
<1>7. kept["value"] = new.value /\ kept["rule"] = new.rule /\ kept["status"] = new.status
      /\ kept["reward"] = K!Rounded(new.reward)
  BY ResultStored
<1> HIDE DEF kept
<1>2. /\ DOMAIN new = {"value", "rule", "reward", "status"}
      /\ row.value \in Int \cup {None} /\ row.rule \in RuleBook \cup {None} /\ row.reward \in Int
      /\ row.status \in {"pending", "approved"}
      /\ new.value \in Int \cup {None} /\ new.rule \in RuleBook \cup {None} /\ new.reward \in Int
      /\ new.status \in {"pending", "approved"}
  BY DEF K!ResultRow
<1>3. /\ m["value"] = IF new["value"] = old["value"] THEN row["value"] ELSE new["value"]
      /\ m["rule"] = IF new["rule"] = old["rule"] THEN row["rule"] ELSE new["rule"]
      /\ m["reward"] = IF new["reward"] = old["reward"] THEN row["reward"] ELSE K!Rounded(new.reward)
      /\ m["status"] = IF new["status"] = old["status"] THEN row["status"] ELSE new["status"]
  BY <1>1, <1>2, <1>7
<1>8. K!Rounded(new.reward) \in Int /\ K!Near(K!Rounded(new.reward), new.reward, 1)
      /\ K!Near(new.reward, new.reward, 1)
  <2>1. \A i \in Int : K!Near(i, i, 1)
    BY DEF K!Near, K!Unit
  <2> QED
    BY <1>2, <2>1, RoundedIsNear
<1>4. /\ m.value \in Int \cup {None} /\ m.rule \in RuleBook \cup {None} /\ m.reward \in Int
      /\ m.status \in {"pending", "approved"}
      /\ new.status = old.status => m.status = row.status
      /\ row.value = old.value => m.value = new.value
      /\ row.reward = old.reward => K!Near(m.reward, new.reward, 1)
      /\ row.rule \in {old.rule, None} => m.rule \in {new.rule, None}
  BY <1>2, <1>3, <1>8
<1>5. m = [value |-> m.value, rule |-> m.rule, reward |-> m.reward, status |-> m.status]
  BY <1>1, <1>2
<1>6. m \in K!ResultRow
  BY <1>4, <1>5 DEF K!ResultRow
<1> QED
  BY <1>4, <1>6

\* And those of the payslip.
LEMMA SlipUpdated ==
  ASSUME NEW old \in K!SlipRow, NEW new \in K!SlipRow, NEW row \in K!SlipRow,
         NEW m, m = K!Update(row, old, new)
  PROVE  /\ m \in K!SlipRow
         /\ new.status = old.status => m.status = row.status
         /\ row.bonus = old.bonus => K!Near(m.bonus, new.bonus, 1)
         /\ row.penalty = old.penalty => K!Near(m.penalty, new.penalty, 1)
         /\ row.net = old.net => K!Near(m.net, new.net, 1)
         /\ m.base \in {row.base, K!Rounded(new.base)}
<1> DEFINE kept == K!Stored(new)
<1>1. m = [x \in DOMAIN new |-> IF new[x] = old[x] THEN row[x] ELSE kept[x]]
  BY SchoolAssumption DEF K!Update
<1>7. /\ kept["base"] = K!Rounded(new.base) /\ kept["bonus"] = K!Rounded(new.bonus)
      /\ kept["penalty"] = K!Rounded(new.penalty) /\ kept["net"] = K!Rounded(new.net)
      /\ kept["status"] = new.status
  BY SlipStored
<1> HIDE DEF kept
<1>2. /\ DOMAIN new = {"base", "bonus", "penalty", "net", "status"}
      /\ row.base \in Int /\ row.bonus \in Nat /\ row.penalty \in Nat /\ row.net \in Int
      /\ row.status \in {"draft", "approved"}
      /\ new.base \in Int /\ new.bonus \in Nat /\ new.penalty \in Nat /\ new.net \in Int
      /\ new.status \in {"draft", "approved"}
  BY DEF K!SlipRow
<1>3. /\ m["base"] = IF new["base"] = old["base"] THEN row["base"] ELSE K!Rounded(new.base)
      /\ m["bonus"] = IF new["bonus"] = old["bonus"] THEN row["bonus"] ELSE K!Rounded(new.bonus)
      /\ m["penalty"] = IF new["penalty"] = old["penalty"] THEN row["penalty"] ELSE K!Rounded(new.penalty)
      /\ m["net"] = IF new["net"] = old["net"] THEN row["net"] ELSE K!Rounded(new.net)
      /\ m["status"] = IF new["status"] = old["status"] THEN row["status"] ELSE new["status"]
  BY <1>1, <1>2, <1>7
<1>8. /\ K!Rounded(new.base) \in Int /\ K!Rounded(new.net) \in Int /\ K!Near(K!Rounded(new.net), new.net, 1)
      /\ K!Rounded(new.bonus) \in Nat /\ K!Near(K!Rounded(new.bonus), new.bonus, 1)
      /\ K!Rounded(new.penalty) \in Nat /\ K!Near(K!Rounded(new.penalty), new.penalty, 1)
  BY <1>2, RoundedIsNear
<1>9. \A i \in Int : K!Near(i, i, 1)
  BY DEF K!Near, K!Unit
<1>4. /\ m.base \in Int /\ m.bonus \in Nat /\ m.penalty \in Nat /\ m.net \in Int
      /\ m.status \in {"draft", "approved"}
      /\ new.status = old.status => m.status = row.status
      /\ row.bonus = old.bonus => K!Near(m.bonus, new.bonus, 1)
      /\ row.penalty = old.penalty => K!Near(m.penalty, new.penalty, 1)
      /\ row.net = old.net => K!Near(m.net, new.net, 1)
      /\ m.base \in {row.base, K!Rounded(new.base)}
  BY <1>2, <1>3, <1>8, <1>9
<1>5. m = [base |-> m.base, bonus |-> m.bonus, penalty |-> m.penalty, net |-> m.net, status |-> m.status]
  BY <1>1, <1>2
<1>6. m \in K!SlipRow
  BY <1>4, <1>5 DEF K!SlipRow
<1> QED
  BY <1>4, <1>6

\* What a COMMIT makes of a result.
LEMMA ResultSaved ==
  ASSUME K!KpiInv, NEW c \in Workers, K!SaveCalculation(c), NEW m \in K!Of(c), NEW x, x = result'[m],
         NEW new, new = calc[c].new[m]
  PROVE  /\ x \in K!ResultRow
         /\ m \in K!There => x.status = result[m].status
         /\ parallel = 1 => /\ x.value = new.value /\ K!Near(x.reward, new.reward, 1)
                            /\ x.rule \in {new.rule, None}
<1> DEFINE old == calc[c].old[m]
<1>1. K!CalcIsSound(c) /\ K!Underway(c) /\ m \in Metrics
  BY DEF K!KpiInv, K!SaveCalculation, K!Underway, K!Of
<1>2. x = K!Update(result[m], old, new) /\ (old = None => result[m] = None)
  BY <1>1 DEF K!SaveCalculation
<1>3. /\ new \in K!ResultRow
      /\ old # None =>
           /\ old \in K!ResultRow /\ m \in K!There /\ new.status = old.status
           /\ parallel = 1 => /\ result[m].value = old.value /\ result[m].reward = old.reward
                              /\ result[m].rule \in {old.rule, None}
  BY <1>1 DEF K!CalcIsSound, K!NewIsSound
<1> HIDE DEF old
<1>4. CASE old = None
  <2>1. x = [value |-> new.value, rule |-> new.rule, reward |-> K!Rounded(new.reward), status |-> new.status]
    BY <1>2, <1>3, <1>4, ResultStored DEF K!Update
  <2>2. K!Rounded(new.reward) \in Int /\ K!Near(K!Rounded(new.reward), new.reward, 1)
    BY <1>3, RoundedIsNear DEF K!ResultRow
  <2> QED
    BY <1>2, <1>3, <1>4, <2>1, <2>2 DEF K!There, K!ResultRow
<1>5. CASE old # None
  <2>1. result[m] \in K!ResultRow
    BY <1>3, <1>5 DEF K!KpiInv, K!RowsAreSound, K!There
  <2>2. /\ x \in K!ResultRow
        /\ new.status = old.status => x.status = result[m].status
        /\ result[m].value = old.value => x.value = new.value
        /\ result[m].reward = old.reward => K!Near(x.reward, new.reward, 1)
        /\ result[m].rule \in {old.rule, None} => x.rule \in {new.rule, None}
    BY <1>2, <1>3, <1>5, <2>1, ResultUpdated
  <2> QED
    BY <1>3, <1>5, <2>2
<1> QED
  BY <1>4, <1>5

\* And of the payslip.
LEMMA SlipSaved ==
  ASSUME K!KpiInv, NEW c \in Workers, K!SaveCalculation(c), NEW x, x = slip', NEW new, new = calc[c].slip.new
  PROVE  /\ x \in K!SlipRow
         /\ slip # None => x.status = slip.status
         /\ slip = None => x.status = "draft"
         /\ parallel = 1 => /\ K!Near(x.bonus, new.bonus, 1) /\ K!Near(x.penalty, new.penalty, 1)
                            /\ K!Near(x.net, new.net, 1)
         /\ changed = 0 => x.base = K!Unit * salary
<1> DEFINE old == calc[c].slip.old
<1>1. K!SlipIsSound(c)
  BY DEF K!KpiInv, K!SaveCalculation, K!Underway, K!CalcIsSound
<1>2. x = K!Update(slip, old, new) /\ (old = None => slip = None)
  BY DEF K!SaveCalculation
<1>3. /\ new \in K!SlipRow
      /\ old = None => new.status = "draft"
      /\ old # None =>
           /\ old \in K!SlipRow /\ slip # None /\ new.status = old.status
           /\ parallel = 1 => slip.bonus = old.bonus /\ slip.penalty = old.penalty /\ slip.net = old.net
  BY <1>1 DEF K!SlipIsSound
<1> HIDE DEF old
<1>6. /\ changed = 0 => new.base = K!Unit * salary
      /\ changed = 0 /\ slip # None => slip.base = K!Unit * salary
      /\ K!Rounded(K!Unit * salary) = K!Unit * salary
  BY <1>1, RoundedIsNear, SchoolAssumption DEF K!SlipIsSound, K!KpiInv, K!SlipIsTheSum, K!InputsAreSound
<1>4. CASE old = None
  <2>1. x = [base |-> K!Rounded(new.base), bonus |-> K!Rounded(new.bonus),
             penalty |-> K!Rounded(new.penalty), net |-> K!Rounded(new.net), status |-> new.status]
    BY <1>2, <1>3, <1>4, SlipStored DEF K!Update
  <2>2. /\ K!Rounded(new.base) \in Int /\ K!Rounded(new.net) \in Int /\ K!Near(K!Rounded(new.net), new.net, 1)
        /\ K!Rounded(new.bonus) \in Nat /\ K!Near(K!Rounded(new.bonus), new.bonus, 1)
        /\ K!Rounded(new.penalty) \in Nat /\ K!Near(K!Rounded(new.penalty), new.penalty, 1)
    BY <1>3, RoundedIsNear DEF K!SlipRow
  <2> QED
    BY <1>2, <1>3, <1>4, <1>6, <2>1, <2>2 DEF K!SlipRow
<1>5. CASE old # None
  <2>1. slip \in K!SlipRow
    BY <1>3, <1>5 DEF K!KpiInv, K!RowsAreSound
  <2>2. /\ x \in K!SlipRow
        /\ new.status = old.status => x.status = slip.status
        /\ slip.bonus = old.bonus => K!Near(x.bonus, new.bonus, 1)
        /\ slip.penalty = old.penalty => K!Near(x.penalty, new.penalty, 1)
        /\ slip.net = old.net => K!Near(x.net, new.net, 1)
        /\ x.base \in {slip.base, K!Rounded(new.base)}
    BY <1>2, <1>3, <1>5, <2>1, SlipUpdated
  <2> QED
    BY <1>3, <1>5, <1>6, <2>2
<1> QED
  BY <1>4, <1>5

\* The COMMIT of a calculation.
LEMMA SaveCalculationStep ==
  ASSUME K!KpiInv, NEW c \in Workers, K!SaveCalculation(c)
  PROVE  K!KpiInv'
<1> DEFINE k == [K!NoCalc EXCEPT !.at = "over"]
           S == K!Of(c)
<1>1. /\ calc[c].at = "save" /\ calc' = [calc EXCEPT ![c] = k]
      /\ basis' = [metrics |-> S, pay |-> calc[c].pay]
      /\ UNCHANGED <<metrics, rules, salary, work, changed, parallel, approval>>
      /\ \A m \in Metrics \ S : result'[m] = result[m]
      /\ result' = [m \in Metrics |-> result'[m]]
      /\ \A m \in S : calc[c].old[m] = None => result[m] = None
  BY DEF K!SaveCalculation, K!inputs
<1>2. K!CalcIsSound(c) /\ K!Underway(c) /\ K!SlipIsSound(c) /\ S \in SUBSET Metrics /\ calc[c].pay \in Int
  BY <1>1 DEF K!KpiInv, K!Underway, K!CalcIsSound, K!Of
<1>3. k.at = "over" /\ k = [at |-> k.at, todo |-> k.todo, pay |-> k.pay, old |-> k.old, new |-> k.new, slip |-> k.slip]
  BY DEF K!NoCalc
<1> HIDE DEF k
<1>4. calc = [o \in Workers |-> calc[o]]
  BY DEF K!KpiInv, K!CalcsAreKept
<1>5. calc'[c] = k /\ \A o \in Workers \ {c} : calc'[o] = calc[o]
  BY <1>1, <1>4
<1>6. ~K!Underway(c)' /\ \A o \in Workers \ {c} : K!Underway(o)' = K!Underway(o)
  BY <1>3, <1>5 DEF K!Underway
<1>7. ASSUME NEW m \in S, NEW x, x = result'[m], NEW new, new = calc[c].new[m]
      PROVE  /\ x \in K!ResultRow
             /\ m \in K!There => x.status = result[m].status
             /\ parallel = 1 => /\ x.value = new.value /\ K!Near(x.reward, new.reward, 1)
                                /\ x.rule \in {new.rule, None}
  BY <1>7, ResultSaved
<1>8. ASSUME NEW x, x = slip', NEW new, new = calc[c].slip.new
      PROVE  /\ x \in K!SlipRow
             /\ slip # None => x.status = slip.status
             /\ slip = None => x.status = "draft"
             /\ parallel = 1 => /\ K!Near(x.bonus, new.bonus, 1) /\ K!Near(x.penalty, new.penalty, 1)
                                /\ K!Near(x.net, new.net, 1)
             /\ changed = 0 => x.base = K!Unit * salary
  BY <1>8, SlipSaved
<1>9. slip' \in K!SlipRow /\ slip' # None
  BY <1>8, SchoolAssumption
<1>10. \A m \in S : result'[m] \in K!ResultRow /\ result'[m] # None
  BY <1>7, SchoolAssumption
<1>11. K!There \subseteq K!There' /\ S \subseteq K!There' /\ K!There' \subseteq K!There \cup S
  BY <1>1, <1>2, <1>10 DEF K!There
<1>12. result' \in [Metrics -> K!ResultRow \cup {None}]
  <2>1. \A m \in Metrics : result'[m] \in K!ResultRow \cup {None}
    BY <1>1, <1>10 DEF K!KpiInv, K!RowsAreSound
  <2> QED
    BY <1>1, <2>1
<1>13. changed = 0 => S = Metrics
  BY <1>1, <1>2 DEF K!CalcIsSound
<1>14. K!InputsAreSound'
  BY <1>1 DEF K!KpiInv, K!InputsAreSound
<1>15. K!RowsAreSound'
  <2>1. ASSUME parallel = 1, NEW m \in K!There', result'[m].rule # None
        PROVE  K!Matches(result'[m].rule, result'[m].value)
    <3>1. CASE m \in S
      <4> SUFFICES ASSUME NEW x, x = result'[m], NEW new, new = calc[c].new[m]
                   PROVE  K!Matches(x.rule, x.value)
        OBVIOUS
      <4>1. x.value = new.value /\ x.rule = new.rule
        BY <1>7, <2>1, <3>1
      <4>2. new.rule # None => K!Matches(new.rule, new.value)
        BY <1>2, <3>1 DEF K!CalcIsSound, K!NewIsSound
      <4> QED
        BY <2>1, <4>1, <4>2
    <3>2. CASE m \notin S
      <4>1. m \in K!There /\ result'[m] = result[m]
        BY <1>1, <1>11, <3>2 DEF K!There
      <4> QED
        BY <2>1, <4>1 DEF K!KpiInv, K!RowsAreSound
    <3> QED
      BY <3>1, <3>2
  <2>2. changed' = 0 => K!There' = Metrics
    BY <1>1, <1>11, <1>13 DEF K!There
  <2>3. basis'.metrics = S /\ basis'.pay = calc[c].pay
    BY <1>1
  <2> QED
    BY <1>1, <1>2, <1>9, <1>11, <1>12, <2>1, <2>2, <2>3 DEF K!RowsAreSound
<1>16. K!CalcsAreKept'
  <2>1. calc' = [o \in Workers |-> calc'[o]]
    BY <1>1, <1>4
  <2>2. ASSUME NEW o \in Workers, NEW x, x = calc'[o]
        PROVE  x = [at |-> x.at, todo |-> x.todo, pay |-> x.pay, old |-> x.old, new |-> x.new, slip |-> x.slip]
    <3>1. CASE o = c
      BY <1>3, <1>5, <2>2, <3>1
    <3>2. CASE o # c
      BY <1>5, <2>2, <3>2 DEF K!KpiInv, K!CalcsAreKept
    <3> QED
      BY <3>1, <3>2
  <2>3. approval' = [a \in Admins |-> approval'[a]]
    BY <1>1 DEF K!KpiInv, K!CalcsAreKept
  <2> QED
    BY <2>1, <2>2, <2>3 DEF K!CalcsAreKept
<1>17. ASSUME NEW o \in Workers PROVE K!CalcIsSound(o)'
  <2>1. CASE o = c
    BY <1>6, <2>1 DEF K!CalcIsSound, K!Underway
  <2>2. CASE o # c
    <3>1. ~(parallel = 1 /\ K!Underway(o))
      BY <1>2, <2>2 DEF K!KpiInv
    <3>2. K!CalcIsSound(o) /\ calc'[o] = calc[o]
      BY <1>5, <2>2 DEF K!KpiInv
    <3> QED
      BY <1>1, <1>9, <1>11, <3>1, <3>2, CalcStays
  <2> QED
    BY <2>1, <2>2
<1>18. ASSUME NEW a \in Admins PROVE K!ApprovalIsSound(a)'
  <2>1. K!ApprovalIsSound(a)
    BY DEF K!KpiInv
  <2> QED
    BY <1>1, <1>9, <1>11, <2>1 DEF K!ApprovalIsSound
<1>19. parallel' = 1 => \A x, o \in Workers : K!Underway(x)' /\ K!Underway(o)' => x = o
  BY <1>1, <1>6 DEF K!KpiInv
<1>20. K!SlipIsTheSum'
  <2> SUFFICES ASSUME NEW x, x = slip', NEW y, y = basis', NEW new, new = calc[c].slip.new
               PROVE  /\ parallel = 1 =>
                           LET each == K!Cardinality(y.metrics) + 1
                           IN  /\ K!Near(x.bonus, K!Bonus(result', y.metrics), each)
                               /\ K!Near(x.penalty, K!Penalty(result', y.metrics), each)
                               /\ K!Near(x.net, K!Unit * y.pay + x.bonus - x.penalty, 3)
                      /\ changed = 0 => x.base = K!Unit * salary
    BY <1>1 DEF K!SlipIsTheSum
  <2>1. y.metrics = S /\ y.pay = calc[c].pay /\ (changed = 0 => x.base = K!Unit * salary)
        /\ x \in K!SlipRow /\ new \in K!SlipRow
    BY <1>1, <1>2, <1>8 DEF K!SlipIsSound
  <2> SUFFICES ASSUME parallel = 1
               PROVE  /\ K!Near(x.bonus, K!Bonus(result', S), K!Cardinality(S) + 1)
                      /\ K!Near(x.penalty, K!Penalty(result', S), K!Cardinality(S) + 1)
                      /\ K!Near(x.net, K!Unit * calc[c].pay + x.bonus - x.penalty, 3)
    BY <2>1
  <2>2. K!Near(x.bonus, new.bonus, 1) /\ K!Near(x.penalty, new.penalty, 1) /\ K!Near(x.net, new.net, 1)
    BY <1>8
  <2>3. /\ new.net = K!Unit * calc[c].pay + new.bonus - new.penalty
        /\ new.bonus = K!Bonus(calc[c].new, S) /\ new.penalty = K!Penalty(calc[c].new, S)
    BY <1>2 DEF K!SlipIsSound
  <2>4. ASSUME NEW m \in S, NEW z, z = calc[c].new[m], NEW w, w = result'[m]
        PROVE  z.reward \in Int /\ w.reward \in Int /\ K!Near(w.reward, z.reward, 1)
    <3>1. z \in K!ResultRow /\ w \in K!ResultRow
      BY <1>2, <1>7, <2>4 DEF K!CalcIsSound, K!NewIsSound
    <3>2. K!Near(w.reward, z.reward, 1)
      BY <1>7, <2>4
    <3> QED
      BY <3>1, <3>2 DEF K!ResultRow
  <2>5. \A m \in S : /\ calc[c].new[m].reward \in Int /\ result'[m].reward \in Int
                     /\ K!Near(result'[m].reward, calc[c].new[m].reward, 1)
    BY <2>4
  <2>6. /\ K!Near(K!Bonus(result', S), new.bonus, Cardinality(S))
        /\ K!Near(K!Penalty(result', S), new.penalty, Cardinality(S))
        /\ K!Bonus(result', S) \in Nat /\ K!Penalty(result', S) \in Nat
    <3> HIDE DEF S
    <3> QED
      BY <1>2, <2>3, <2>5, RewardsNear, RewardsAdd
  <2>7. K!Cardinality(S) = Cardinality(S) /\ Cardinality(S) \in Nat
    BY <1>2, CountIsCount, FS_Subset, FS_CardinalityType, SchoolAssumption
  <2>8. ASSUME NEW a \in Int, NEW b \in Int, NEW d \in Int, NEW n \in Nat, K!Near(a, b, 1), K!Near(d, b, n)
        PROVE  K!Near(a, d, n + 1)
    BY <2>8 DEF K!Near, K!Unit
  <2>9. /\ x.bonus \in Int /\ x.penalty \in Int /\ x.net \in Int
        /\ new.bonus \in Int /\ new.penalty \in Int /\ new.net \in Int /\ calc[c].pay \in Int
    BY <1>2, <2>1 DEF K!SlipRow
  <2> HIDE DEF S
  <2>10. /\ K!Near(x.bonus, K!Bonus(result', S), K!Cardinality(S) + 1)
         /\ K!Near(x.penalty, K!Penalty(result', S), K!Cardinality(S) + 1)
    BY <2>2, <2>6, <2>7, <2>8, <2>9
  <2>11. K!Near(x.net, K!Unit * calc[c].pay + x.bonus - x.penalty, 3)
    BY <2>2, <2>3, <2>9 DEF K!Near, K!Unit
  <2> QED
    BY <2>10, <2>11
<1>21. K!ApprovedTogether'
  <2> SUFFICES ASSUME changed = 0, NEW x, x = slip', x.status = "approved", NEW m \in Metrics, NEW w, w = result'[m]
               PROVE  w.status = "approved"
    BY <1>1 DEF K!ApprovedTogether
  <2>1. slip # None /\ slip.status = "approved"
    BY <1>8
  <2>2. m \in S /\ K!There = Metrics
    BY <1>13, <2>1 DEF K!KpiInv, K!RowsAreSound
  <2>3. w.status = result[m].status
    BY <1>7, <2>2
  <2>4. result[m] # None => result[m].status = "approved"
    BY <2>1 DEF K!KpiInv, K!ApprovedTogether
  <2> QED
    BY <2>2, <2>3, <2>4 DEF K!There
<1> QED
  BY <1>14, <1>15, <1>16, <1>17, <1>18, <1>19, <1>20, <1>21 DEF K!KpiInv

-----------------------------------------------------------------------------
(* KPI: what a payslip promises *)

\* It holds at the start.
LEMMA KpiStart == ASSUME K!Init PROVE K!KpiInv
<1>1. /\ metrics = Metrics /\ rules \in SUBSET RuleBook /\ salary \in Salaries /\ work \in [Metrics -> Works]
      /\ result = K!Empty /\ slip = None /\ calc = [c \in Workers |-> K!NoCalc]
      /\ approval = [a \in Admins |-> None] /\ changed = 0
  BY DEF K!Init
<1>2. K!InputsAreSound
  BY <1>1 DEF K!InputsAreSound
<1>3. (\A m \in Metrics : result[m] = None) /\ K!There = {}
  BY <1>1 DEF K!Empty, K!There
<1>4. K!RowsAreSound
  <2>1. result \in [Metrics -> K!ResultRow \cup {None}]
    BY <1>1 DEF K!Empty
  <2> QED
    BY <1>1, <1>3, <2>1 DEF K!RowsAreSound
<1>5. \A c \in Workers : ~K!Underway(c)
  BY <1>1 DEF K!NoCalc, K!Underway
<1>6. \A c \in Workers : K!CalcIsSound(c)
  BY <1>5 DEF K!CalcIsSound, K!Underway
<1>7. K!CalcsAreKept
  <2>1. ASSUME NEW x, x = K!NoCalc
        PROVE  x = [at |-> x.at, todo |-> x.todo, pay |-> x.pay, old |-> x.old, new |-> x.new, slip |-> x.slip]
    BY <2>1 DEF K!NoCalc
  <2>2. \A c \in Workers : calc[c] = K!NoCalc
    BY <1>1
  <2> QED
    BY <1>1, <2>1, <2>2 DEF K!CalcsAreKept
<1>8. \A a \in Admins : K!ApprovalIsSound(a)
  BY <1>1 DEF K!ApprovalIsSound
<1>9. K!SlipIsTheSum /\ K!ApprovedTogether
  BY <1>1 DEF K!SlipIsTheSum, K!ApprovedTogether
<1> QED
  BY <1>2, <1>4, <1>5, <1>6, <1>7, <1>8, <1>9 DEF K!KpiInv

\* Every step of the KPI keeps it.
LEMMA KpiStep == ASSUME K!KpiInv, K!Next PROVE K!KpiInv'
<1>1. changed \in Nat /\ K!InputsAreSound
  BY DEF K!KpiInv, K!InputsAreSound
<1>2. ASSUME NEW m \in Metrics, NEW on \in BOOLEAN, K!SetActive(m, on)
      PROVE  K!KpiInv'
  <2>1. /\ changed' = changed + 1 /\ metrics' = IF on THEN metrics \cup {m} ELSE metrics \ {m}
        /\ UNCHANGED <<rules, salary, work, result, slip, calc, approval, basis, parallel>>
    BY <1>2 DEF K!SetActive, K!Change, K!OnlyInputs
  <2>2. changed' \in Nat /\ changed' # 0 /\ metrics' \subseteq Metrics
    BY <1>1, <2>1 DEF K!InputsAreSound
  <2>3. K!InputsAreSound'
    BY <1>1, <2>1, <2>2 DEF K!InputsAreSound
  <2> QED
    BY <2>1, <2>2, <2>3, InputsChange
<1>3. ASSUME NEW m \in Metrics, NEW w \in Works, K!Lessons(m, w)
      PROVE  K!KpiInv'
  <2>1. /\ changed' = changed + 1 /\ work' = [work EXCEPT ![m] = w]
        /\ UNCHANGED <<metrics, rules, salary, result, slip, calc, approval, basis, parallel>>
    BY <1>3 DEF K!Lessons, K!Change, K!OnlyInputs
  <2>2. changed' \in Nat /\ changed' # 0 /\ work' \in [Metrics -> Works]
    BY <1>1, <2>1 DEF K!InputsAreSound
  <2>3. K!InputsAreSound'
    BY <1>1, <2>1, <2>2 DEF K!InputsAreSound
  <2> QED
    BY <2>1, <2>2, <2>3, InputsChange
<1>4. ASSUME NEW r \in RuleBook, K!CreateRule(r)
      PROVE  K!KpiInv'
  <2>1. /\ changed' = changed + 1 /\ rules' = rules \cup {r}
        /\ UNCHANGED <<metrics, salary, work, result, slip, calc, approval, basis, parallel>>
    BY <1>4 DEF K!CreateRule, K!Change, K!OnlyInputs
  <2>2. changed' \in Nat /\ changed' # 0 /\ rules' \subseteq RuleBook
    BY <1>1, <2>1 DEF K!InputsAreSound
  <2>3. K!InputsAreSound'
    BY <1>1, <2>1, <2>2 DEF K!InputsAreSound
  <2> QED
    BY <2>1, <2>2, <2>3, InputsChange
<1>5. ASSUME NEW x \in Salaries, K!SetSalary(x)
      PROVE  K!KpiInv'
  <2>1. /\ changed' = changed + 1 /\ salary' = x
        /\ UNCHANGED <<metrics, rules, work, result, slip, calc, approval, basis, parallel>>
    BY <1>5 DEF K!SetSalary, K!Change, K!OnlyInputs
  <2>2. changed' \in Nat /\ changed' # 0
    BY <1>1, <2>1
  <2>3. K!InputsAreSound'
    BY <1>1, <2>1, <2>2 DEF K!InputsAreSound
  <2> QED
    BY <2>1, <2>2, <2>3, InputsChange
<1>6. ASSUME NEW c \in Workers,
             K!Calculate(c) \/ K!FindSlip(c) \/ K!SaveCalculation(c) \/ K!AbortCalculation(c)
      PROVE  K!KpiInv'
  BY <1>6, CalculateStep, FindSlipStep, SaveCalculationStep, AbortCalculationStep
<1> QED
  BY <1>2, <1>3, <1>4, <1>5, <1>6, DeleteRuleStep, CalculateMetricStep, LoadSlipStep, ApprovePayslipStep
  DEF K!Next

\* The payslip and its results, whatever part runs.
LEMMA KpiThroughout == SchoolSpec => []K!KpiInv
<1>1. SchoolInit => K!KpiInv
  BY KpiStart DEF SchoolInit
<1>2. K!KpiInv /\ [SchoolNext]_<<part, vars, classroom, assessment, kpi>> => K!KpiInv'
  <2> SUFFICES ASSUME K!KpiInv, [SchoolNext]_<<part, vars, classroom, assessment, kpi>>
               PROVE  K!KpiInv'
    OBVIOUS
  <2>1. CASE UNCHANGED kpi
    <3>1. UNCHANGED <<metrics, rules, salary, work, result, slip, calc, approval, basis, changed, parallel>>
      BY <2>1 DEF kpi
    <3>2. K!InputsAreSound'
      BY <3>1 DEF K!KpiInv, K!InputsAreSound
    <3> QED
      BY <3>1, <3>2, InputsChange
  <2>2. CASE K!Next
    BY <2>2, KpiStep
  <2> QED
    BY <2>1, <2>2 DEF SchoolNext, Tick
<1> QED
  BY <1>1, <1>2, PTL DEF SchoolSpec

\* One calculation at a time, a payslip is the sum of its results but for what rounding
\* each of them and the payslip takes, and each result within its rule, whatever
\* administrators edit, delete and approve meanwhile; however many overlap, the base is
\* the salary and an approval covers all results until something changes; the rule found
\* is the best one.
THEOREM PayslipIsWholeCorrect == SchoolSpec => []PayslipIsWhole
<1>1. K!KpiInv => PayslipIsWhole
  BY PayslipIsSound DEF PayslipIsWhole
<1> QED
  BY <1>1, KpiThroughout, PTL

\* However many calculations overlap, none takes an approval back.
LEMMA ApprovalStays ==
  ASSUME K!KpiInv, K!Next
  PROVE  /\ slip # None /\ slip.status = "approved" => slip'.status = "approved"
         /\ \A m \in Metrics : result[m] # None /\ result[m].status = "approved"
              => result'[m].status = "approved"
<1>1. CASE UNCHANGED <<slip, result>>
  BY <1>1
<1>2. ASSUME NEW r \in RuleBook, K!DeleteRule(r)
      PROVE  /\ slip' = slip
             /\ \A m \in Metrics : result[m] # None => result'[m].status = result[m].status
  <2>1. slip' = slip /\ result' = [m \in Metrics |->
          IF result[m] # None /\ result[m].rule = r THEN [result[m] EXCEPT !.rule = None] ELSE result[m]]
    BY <1>2 DEF K!DeleteRule
  <2>2. ASSUME NEW m \in Metrics, NEW x, x = result[m], NEW y, y = result'[m], x # None
        PROVE  y.status = x.status
    <3>1. x \in K!ResultRow
      BY <2>2 DEF K!KpiInv, K!RowsAreSound
    <3>2. y = x \/ y = [x EXCEPT !.rule = None]
      BY <2>1, <2>2
    <3> QED
      BY <3>1, <3>2 DEF K!ResultRow
  <2> QED
    BY <2>1, <2>2
<1>3. ASSUME NEW c \in Workers, K!SaveCalculation(c)
      PROVE  /\ slip # None /\ slip.status = "approved" => slip'.status = "approved"
             /\ \A m \in Metrics : result[m] # None /\ result[m].status = "approved"
                  => result'[m].status = "approved"
  <2>1. slip # None => slip'.status = slip.status
    BY <1>3, SlipSaved
  <2>2. ASSUME NEW m \in Metrics, result[m] # None
        PROVE  result'[m].status = result[m].status
    <3>1. CASE m \in K!Of(c)
      BY <1>3, <2>2, <3>1, ResultSaved DEF K!There
    <3>2. CASE m \notin K!Of(c)
      BY <1>3, <3>2 DEF K!SaveCalculation
    <3> QED
      BY <3>1, <3>2
  <2> QED
    BY <2>1, <2>2
<1>4. ASSUME NEW a \in Admins, K!ApprovePayslip(a)
      PROVE  /\ slip # None => slip'.status = "approved"
             /\ \A m \in Metrics : result[m] # None /\ result[m].status = "approved"
                  => result'[m].status = "approved"
  <2>1. /\ slip' = [slip EXCEPT !.status = "approved"]
        /\ result' = [m \in Metrics |-> IF m \in approval[a] THEN [result[m] EXCEPT !.status = "approved"]
                                        ELSE result[m]]
    BY <1>4 DEF K!ApprovePayslip
  <2>2. slip # None => slip \in K!SlipRow
    BY DEF K!KpiInv, K!RowsAreSound
  <2>3. slip # None => slip'.status = "approved"
    BY <2>1, <2>2 DEF K!SlipRow
  <2>4. ASSUME NEW m \in Metrics, NEW x, x = result[m], NEW y, y = result'[m], x # None, x.status = "approved"
        PROVE  y.status = "approved"
    <3>1. x \in K!ResultRow
      BY <2>4 DEF K!KpiInv, K!RowsAreSound
    <3>2. y = x \/ y = [x EXCEPT !.status = "approved"]
      BY <2>1, <2>4
    <3> QED
      BY <2>4, <3>1, <3>2 DEF K!ResultRow
  <2> QED
    BY <2>3, <2>4
<1>5. \/ UNCHANGED <<slip, result>>
      \/ \E r \in RuleBook : K!DeleteRule(r)
      \/ \E c \in Workers : K!SaveCalculation(c)
      \/ \E a \in Admins : K!ApprovePayslip(a)
  BY DEF K!Next, K!SetActive, K!Lessons, K!CreateRule, K!SetSalary, K!Calculate, K!FindSlip,
     K!AbortCalculation, K!CalculateMetric, K!LoadSlip
<1>6. CASE \E r \in RuleBook : K!DeleteRule(r)
  BY <1>2, <1>6
<1>7. CASE \E c \in Workers : K!SaveCalculation(c)
  BY <1>3, <1>7
<1>8. CASE \E a \in Admins : K!ApprovePayslip(a)
  BY <1>4, <1>8
<1> QED
  BY <1>1, <1>5, <1>6, <1>7, <1>8

\* No grade is lost to another group and no approval of a payslip is taken back, however
\* many requests overlap.
THEOREM RecordsStickCorrect == SchoolSpec => RecordsStick
<1>1. G!GradesInv /\ [SchoolNext]_<<part, vars, classroom, assessment, kpi>> =>
        [\A p \in Pupils, d \in DeadlineDays : grades[p][d] # None =>
           grades'[p][d] # None /\ grades'[p][d].group = grades[p][d].group]_(G!gvars)
  <2> SUFFICES ASSUME G!GradesInv, [SchoolNext]_<<part, vars, classroom, assessment, kpi>>,
                      NEW p \in Pupils, NEW d \in DeadlineDays, grades[p][d] # None
               PROVE  UNCHANGED G!gvars \/ (grades'[p][d] # None /\ grades'[p][d].group = grades[p][d].group)
    OBVIOUS
  <2>1. CASE UNCHANGED assessment
    BY <2>1 DEF assessment, G!gvars
  <2>2. CASE G!Next \/ G!Tick
    BY <2>2, GradesAreNotLost
  <2> QED
    BY <2>1, <2>2 DEF SchoolNext, Tick
<1>2. K!KpiInv /\ [SchoolNext]_<<part, vars, classroom, assessment, kpi>> =>
        [/\ slip # None /\ slip.status = "approved" => slip'.status = "approved"
         /\ \A m \in Metrics : result[m] # None /\ result[m].status = "approved"
              => result'[m].status = "approved"]_(K!kvars)
  <2> SUFFICES ASSUME K!KpiInv, [SchoolNext]_<<part, vars, classroom, assessment, kpi>>
               PROVE  [/\ slip # None /\ slip.status = "approved" => slip'.status = "approved"
                       /\ \A m \in Metrics : result[m] # None /\ result[m].status = "approved"
                            => result'[m].status = "approved"]_(K!kvars)
    OBVIOUS
  <2>1. CASE UNCHANGED kpi
    BY <2>1 DEF kpi, K!kvars, K!inputs
  <2>2. CASE K!Next
    BY <2>2, ApprovalStays
  <2> QED
    BY <2>1, <2>2 DEF SchoolNext, Tick
<1> QED
  BY <1>1, <1>2, GradesThroughout, KpiThroughout, PTL
  DEF SchoolSpec, RecordsStick, G!GroupKeepsItsGrade, K!ApprovalSticks

=============================================================================
