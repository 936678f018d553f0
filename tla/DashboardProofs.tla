---------------------------- MODULE DashboardProofs ----------------------------
(***************************************************************************)
(* The ranking's arithmetic and what it means for loadDashboard, for every *)
(* snapshot, every row of weights and any day.                             *)
(***************************************************************************)
EXTENDS DashboardService, FiniteSetTheorems, TLAPS

\* Math.min(100, Math.max(0, n)) stays in range and keeps the order.
LEMMA ClampInRange ==
    ASSUME NEW n \in Int
    PROVE  Clamp(n) \in 0 .. 100
BY DEF Clamp

LEMMA ClampMonotone ==
    ASSUME NEW m \in Int, NEW n \in Int, m <= n
    PROVE  Clamp(m) <= Clamp(n)
BY DEF Clamp

\* A date the code understands gives a factor in range, which does not fall
\* from one day to the next, nor for an earlier date.
LEMMA DeadlineFactorInRange ==
    ASSUME NEW due \in Int \cup {NoDate}, NEW day \in Int
    PROVE  DeadlineFactor(due, day) \in 0 .. 100
<1>1. CASE due = NoDate
  BY <1>1 DEF DeadlineFactor
<1>2. CASE due # NoDate
  <2>1. due \in Int /\ 100 - 10 * (due - day) \in Int
    BY <1>2
  <2> QED
    BY <1>2, <2>1, ClampInRange DEF DeadlineFactor
<1> QED
  BY <1>1, <1>2

LEMMA DeadlineFactorMonotone ==
    ASSUME NEW due \in Int, NEW day \in Int, NEW due2 \in Int, NEW day2 \in Int,
           due2 - day2 <= due - day
    PROVE  DeadlineFactor(due, day) <= DeadlineFactor(due2, day2)
<1>1. due # NoDate /\ due2 # NoDate
  BY DatesAssumption
<1>2. CASE due2 <= day2
  <2>1. DeadlineFactor(due2, day2) = 100
    BY <1>1, <1>2 DEF DeadlineFactor
  <2>2. DeadlineFactor(due, day) \in 0 .. 100
    BY DeadlineFactorInRange
  <2> QED
    BY <2>1, <2>2
<1>3. CASE ~(due2 <= day2)
  <2>1. ~(due <= day)
    BY <1>3
  <2>2. 100 - 10 * (due - day) <= 100 - 10 * (due2 - day2)
    OBVIOUS
  <2>3. Clamp(100 - 10 * (due - day)) <= Clamp(100 - 10 * (due2 - day2))
    BY <2>2, ClampMonotone
  <2> QED
    BY <1>1, <1>3, <2>1, <2>3 DEF DeadlineFactor
<1> QED
  BY <1>2, <1>3

LEMMA WaitingTimeFactorInRange ==
    ASSUME NEW created \in Int, NEW day \in Int
    PROVE  WaitingTimeFactor(created, day) \in 0 .. 100
<1>1. 10 * (day - created) \in Int
  OBVIOUS
<1> QED
  BY <1>1, ClampInRange DEF WaitingTimeFactor

LEMMA WaitingTimeFactorMonotone ==
    ASSUME NEW created \in Int, NEW day \in Int, NEW created2 \in Int, NEW day2 \in Int,
           day - created <= day2 - created2
    PROVE  WaitingTimeFactor(created, day) <= WaitingTimeFactor(created2, day2)
<1>1. 10 * (day - created) <= 10 * (day2 - created2)
  OBVIOUS
<1> QED
  BY <1>1, ClampMonotone DEF WaitingTimeFactor

LEMMA WeightedInRange ==
    ASSUME NEW a, NEW w, a \in 0 .. 100, w \in 0 .. 100
    PROVE  a * w \in Nat
OBVIOUS

\* A weight keeps the order of two factors.
LEMMA WeightedMonotone ==
    ASSUME NEW a \in 0 .. 100, NEW b \in 0 .. 100, NEW w \in 0 .. 100, a <= b
    PROVE  a * w \in Nat /\ b * w \in Nat /\ a * w <= b * w
<1>1. b * w = a * w + (b - a) * w
  OBVIOUS
<1>2. (b - a) * w \in Nat /\ a * w \in Nat
  OBVIOUS
<1> QED
  BY <1>1, <1>2

-------------------------------------------------------------------------------
(* Scores *)

\* What a task the code can rank is: a date it understands, a known status.
Rankable(t) ==
    /\ t.due \in Int \cup {NoDate}
    /\ t.created \in Int
    /\ t.status \in Statuses

TermsSet == [deadline : Nat, waitingTime : Nat, estimatedEffort : Nat, bonus : Nat]

LEMMA TermsInRange ==
    ASSUME NEW t, Rankable(t), NEW w \in Weights, NEW day \in Int
    PROVE  Terms(t, w, day) \in TermsSet
<1>1. /\ w.deadline \in 0 .. 100 /\ w.waitingTime \in 0 .. 100
      /\ w.estimatedEffort \in 0 .. 100
  BY DEF Weights
<1>2. /\ DeadlineFactor(t.due, day) \in 0 .. 100
      /\ WaitingTimeFactor(t.created, day) \in 0 .. 100
  BY DeadlineFactorInRange, WaitingTimeFactorInRange DEF Rankable
<1>3. /\ DeadlineFactor(t.due, day) * w.deadline \in Nat
      /\ WaitingTimeFactor(t.created, day) * w.waitingTime \in Nat
  BY <1>1, <1>2, WeightedInRange
<1>4. EstimatedEffort * w.estimatedEffort \in Nat
  BY <1>1 DEF EstimatedEffort
<1>5. 100 * Bonus(t.status) \in Nat
  <2>1. Bonus(t.status) \in {0, 5, 10}
    BY DEF Bonus
  <2> QED
    BY <2>1
<1> QED
  BY <1>3, <1>4, <1>5 DEF Terms, TermsSet

\* More urgent in each factor, and the same status: no term is smaller.
LEMMA TermsMonotone ==
    ASSUME NEW t, NEW u, Rankable(t), Rankable(u), t.status = u.status,
           NEW w \in Weights, NEW day \in Int, NEW day2 \in Int,
           DeadlineFactor(t.due, day) <= DeadlineFactor(u.due, day2),
           WaitingTimeFactor(t.created, day) <= WaitingTimeFactor(u.created, day2)
    PROVE  LET x == Terms(t, w, day)
               y == Terms(u, w, day2)
           IN  /\ x.deadline <= y.deadline /\ x.waitingTime <= y.waitingTime
               /\ x.estimatedEffort = y.estimatedEffort /\ x.bonus = y.bonus
<1>1. w.deadline \in 0 .. 100 /\ w.waitingTime \in 0 .. 100
  BY DEF Weights
<1>2. /\ DeadlineFactor(t.due, day) \in 0 .. 100
      /\ DeadlineFactor(u.due, day2) \in 0 .. 100
      /\ WaitingTimeFactor(t.created, day) \in 0 .. 100
      /\ WaitingTimeFactor(u.created, day2) \in 0 .. 100
  BY DeadlineFactorInRange, WaitingTimeFactorInRange DEF Rankable
<1>3. DeadlineFactor(t.due, day) * w.deadline <= DeadlineFactor(u.due, day2) * w.deadline
  BY <1>1, <1>2, WeightedMonotone
<1>4. WaitingTimeFactor(t.created, day) * w.waitingTime
        <= WaitingTimeFactor(u.created, day2) * w.waitingTime
  BY <1>1, <1>2, WeightedMonotone
<1> QED
  BY <1>3, <1>4 DEF Terms

\* The cap and the rounding, as functions of a number of hundredths; down is 1
\* where the double falls short.
Cap(n) == IF n > 10000 THEN 10000 ELSE n
RoundHalf(n, down) == IF n % 100 = 50 /\ down = 1 THEN n \div 100 ELSE (n + 50) \div 100

LEMMA CapInRange ==
    ASSUME NEW n, n \in Nat
    PROVE  Cap(n) \in Nat /\ Cap(n) <= 10000
BY DEF Cap

LEMMA CapMonotone ==
    ASSUME NEW m, NEW n, m \in Nat, n \in Nat, m < n
    PROVE  Cap(m) < Cap(n) \/ (Cap(m) = 10000 /\ Cap(n) = 10000)
BY DEF Cap

LEMMA RoundHalfInRange ==
    ASSUME NEW n, NEW down, n \in Nat, n <= 10000, down \in 0 .. 1
    PROVE  RoundHalf(n, down) \in 0 .. 100
BY DEF RoundHalf

\* A half that is rounded down is not below anything less than it.
LEMMA RoundHalfMonotone ==
    ASSUME NEW m, NEW n, NEW down, NEW down2,
           m \in Nat, n \in Nat, m < n, down \in 0 .. 1, down2 \in 0 .. 1
    PROVE  RoundHalf(m, down) <= RoundHalf(n, down2)
<1>1. CASE n % 100 = 50
  <2>1. /\ m \div 100 <= (m + 50) \div 100
        /\ (m + 50) \div 100 <= n \div 100
        /\ n \div 100 <= (n + 50) \div 100
    BY <1>1
  <2> QED
    BY <2>1 DEF RoundHalf
<1>2. CASE n % 100 # 50
  BY <1>2 DEF RoundHalf
<1> QED
  BY <1>1, <1>2

LEMMA RoundHalfAtTheCap ==
    ASSUME NEW down \in 0 .. 1
    PROVE  RoundHalf(10000, down) = 100
BY DEF RoundHalf

LEMMA SumInRange ==
    ASSUME NEW x \in TermsSet
    PROVE  WeightedSum(x) \in Nat
<1>1. x.deadline \in Nat /\ x.waitingTime \in Nat /\ x.estimatedEffort \in Nat /\ x.bonus \in Nat
  BY DEF TermsSet
<1> QED
  BY <1>1 DEF WeightedSum

\* Rounding keeps the order of terms, although a double may fall short of a
\* half: ordered terms with equal sums are the same, and the same terms fall
\* short together.
LEMMA RoundedMonotone ==
    ASSUME NEW x \in TermsSet, NEW y \in TermsSet,
           x.deadline <= y.deadline, x.waitingTime <= y.waitingTime,
           x.estimatedEffort = y.estimatedEffort, x.bonus = y.bonus,
           NEW short
    PROVE  /\ Capped(x) \in Int /\ Capped(y) \in Int /\ Capped(x) <= Capped(y)
           /\ Rounded(x, short) \in 0 .. 100
           /\ Rounded(x, short) <= Rounded(y, short)
<1> DEFINE m == WeightedSum(x)
           n == WeightedSum(y)
           p == IF x \in short THEN 1 ELSE 0
           q == IF y \in short THEN 1 ELSE 0
<1>1. Capped(x) = Cap(m) /\ Capped(y) = Cap(n)
  BY DEF Capped, Cap
<1>2. /\ Rounded(x, short) = RoundHalf(Cap(m), p)
      /\ Rounded(y, short) = RoundHalf(Cap(n), q)
  BY <1>1 DEF Rounded, OnHalf, RoundHalf
<1>3. m \in Nat /\ n \in Nat
  BY SumInRange
<1>4. x = y \/ m < n
  <2>1. /\ x.deadline \in Nat /\ x.waitingTime \in Nat /\ x.estimatedEffort \in Nat /\ x.bonus \in Nat
        /\ y.deadline \in Nat /\ y.waitingTime \in Nat /\ y.estimatedEffort \in Nat /\ y.bonus \in Nat
    BY DEF TermsSet
  <2>2. CASE x.deadline = y.deadline /\ x.waitingTime = y.waitingTime
    BY <2>2 DEF TermsSet
  <2>3. CASE x.deadline < y.deadline \/ x.waitingTime < y.waitingTime
    BY <2>1, <2>3 DEF WeightedSum
  <2> QED
    BY <2>1, <2>2, <2>3
<1>5. p \in 0 .. 1 /\ q \in 0 .. 1 /\ (x = y => p = q)
  OBVIOUS
<1> HIDE DEF m, n, p, q
<1>6. Cap(m) \in Nat /\ Cap(m) <= 10000 /\ Cap(n) \in Nat /\ Cap(n) <= 10000
  BY <1>3, CapInRange
<1>7. RoundHalf(Cap(m), p) \in 0 .. 100
  BY <1>5, <1>6, RoundHalfInRange
<1>8. CASE x = y
  BY <1>1, <1>2, <1>5, <1>6, <1>7, <1>8
<1>9. CASE Cap(m) < Cap(n)
  <2>1. RoundHalf(Cap(m), p) <= RoundHalf(Cap(n), q)
    BY <1>5, <1>6, <1>9, RoundHalfMonotone
  <2> QED
    BY <1>1, <1>2, <1>6, <1>7, <1>9, <2>1
<1>10. CASE Cap(m) = 10000 /\ Cap(n) = 10000
  <2>1. RoundHalf(Cap(m), p) = 100 /\ RoundHalf(Cap(n), q) = 100
    BY <1>5, <1>10, RoundHalfAtTheCap
  <2> QED
    BY <1>1, <1>2, <1>6, <1>10, <2>1
<1> QED
  BY <1>3, <1>4, <1>8, <1>9, <1>10, CapMonotone

-------------------------------------------------------------------------------
(* Urgency: of two tasks of one status, the one that is due no later and has *)
(* waited no less has no lower score, whatever the weights, the day and the  *)
(* halves that fall short.                                                   *)

LEMMA FactorsOfUrgency ==
    ASSUME NEW t, NEW u, Rankable(t), Rankable(u), AtLeastAsUrgent(t, u), NEW day \in Int
    PROVE  /\ DeadlineFactor(u.due, day) <= DeadlineFactor(t.due, day)
           /\ WaitingTimeFactor(u.created, day) <= WaitingTimeFactor(t.created, day)
<1>1. WaitingTimeFactor(u.created, day) <= WaitingTimeFactor(t.created, day)
  <2>1. t.created \in Int /\ u.created \in Int /\ t.created <= u.created
    BY DEF AtLeastAsUrgent, Rankable
  <2>2. day - u.created <= day - t.created
    BY <2>1
  <2> QED
    BY <2>1, <2>2, WaitingTimeFactorMonotone
<1>2. CASE u.due = NoDate
  <2>1. DeadlineFactor(u.due, day) = 0
    BY <1>2 DEF DeadlineFactor
  <2>2. DeadlineFactor(t.due, day) \in 0 .. 100
    BY DeadlineFactorInRange DEF Rankable
  <2> QED
    BY <1>1, <2>1, <2>2
<1>3. CASE u.due # NoDate
  <2>1. t.due \in Int /\ u.due \in Int /\ t.due <= u.due
    BY <1>3 DEF AtLeastAsUrgent, Rankable
  <2>2. t.due - day <= u.due - day
    BY <2>1
  <2> QED
    BY <1>1, <2>1, <2>2, DeadlineFactorMonotone
<1> QED
  BY <1>2, <1>3

\* The scores of buildDashboard keep the order of urgency and are never out
\* of 0 to 100 (calculatePriority, README "Dashboard scoring").
THEOREM UrgencyIsKept ==
    ASSUME NEW t, NEW u, Rankable(t), Rankable(u), AtLeastAsUrgent(t, u),
           NEW w \in Weights, NEW day \in Int, NEW short
    PROVE  /\ Rounded(Terms(u, w, day), short) \in 0 .. 100
           /\ Rounded(Terms(u, w, day), short) <= Rounded(Terms(t, w, day), short)
<1> DEFINE x == Terms(u, w, day)
           y == Terms(t, w, day)
<1>1. x \in TermsSet /\ y \in TermsSet
  BY TermsInRange
<1>2. /\ x.deadline <= y.deadline /\ x.waitingTime <= y.waitingTime
      /\ x.estimatedEffort = y.estimatedEffort /\ x.bonus = y.bonus
  <2>1. t.status = u.status
    BY DEF AtLeastAsUrgent
  <2> QED
    BY <2>1, FactorsOfUrgency, TermsMonotone
<1> HIDE DEF x, y
<1> QED
  BY <1>1, <1>2, RoundedMonotone DEF x, y

\* From one day to the next no sum falls.
LEMMA SumsGrow ==
    ASSUME NEW t, Rankable(t), NEW w \in Weights, NEW day \in Int
    PROVE  Capped(Terms(t, w, day)) <= Capped(Terms(t, w, day + 1))
<1> DEFINE x == Terms(t, w, day)
           y == Terms(t, w, day + 1)
<1>1. day + 1 \in Int
  OBVIOUS
<1>2. x \in TermsSet /\ y \in TermsSet
  BY <1>1, TermsInRange
<1>3. DeadlineFactor(t.due, day) <= DeadlineFactor(t.due, day + 1)
  <2>1. CASE t.due = NoDate
    BY <2>1 DEF DeadlineFactor
  <2>2. CASE t.due \in Int
    <3>1. t.due - (day + 1) <= t.due - day
      BY <2>2
    <3> QED
      BY <1>1, <2>2, <3>1, DeadlineFactorMonotone
  <2> QED
    BY <2>1, <2>2 DEF Rankable
<1>4. WaitingTimeFactor(t.created, day) <= WaitingTimeFactor(t.created, day + 1)
  <2>1. t.created \in Int
    BY DEF Rankable
  <2>2. day - t.created <= (day + 1) - t.created
    BY <2>1
  <2> QED
    BY <1>1, <2>1, <2>2, WaitingTimeFactorMonotone
<1>5. /\ x.deadline <= y.deadline /\ x.waitingTime <= y.waitingTime
      /\ x.estimatedEffort = y.estimatedEffort /\ x.bonus = y.bonus
  BY <1>1, <1>3, <1>4, TermsMonotone
<1> HIDE DEF x, y
<1> QED
  BY <1>2, <1>5, RoundedMonotone DEF x, y

-------------------------------------------------------------------------------
(* loadDashboard: what its local variables have to do with the tables, at    *)
(* every await.                                                              *)

ServiceIInv ==
    /\ today \in Nat
    /\ row \in Settings \cup {None}
    /\ DOMAIN load = {"pc", "tasks", "weights", "answer", "list", "day", "rows", "settingsFailed"}
    /\ load.tasks \subseteq Task
    /\ load.pc \in {"idle", "fetchSnapshot", "findSettings", "build", "done"}
    /\ load.pc \in {"idle", "fetchSnapshot"} => load.tasks = {}
    /\ load.pc \in {"idle", "fetchSnapshot", "findSettings"} => load.weights = None
    /\ load.pc # "done" => load.answer = "none"
    /\ load.pc \in {"fetchSnapshot", "findSettings", "build"} => row \in load.rows
    /\ WeightsWereStored
    /\ FailuresHaveACause

\* A task of the snapshot with usable dates can be ranked on any day.
LEMMA TasksAreRankable ==
    ASSUME NEW t \in Task, Readable(t)
    PROVE  Rankable(t)
BY ServiceAssumption DEF Task, Rankable, Readable

LEMMA OnlyDatesThrow ==
    ASSUME today \in Nat, NEW t \in Task, Throws(t)
    PROVE  ~Readable(t)
<1>1. SUFFICES ASSUME Readable(t)
               PROVE  FALSE
  OBVIOUS
<1>2. today \in Int /\ t.due \in Int \cup {NoDate} /\ t.created \in Int
  BY <1>1, TasksAreRankable DEF Rankable
<1>3. DeadlineFactor(t.due, today) \in 0 .. 100
  BY <1>2, DeadlineFactorInRange
<1>4. WaitingTimeFactor(t.created, today) \in 0 .. 100
  BY <1>2, WaitingTimeFactorInRange
<1> QED
  BY <1>1, <1>3, <1>4 DEF Throws, ValidFactor

LEMMA ServiceInitially == ServiceInit => ServiceIInv
BY DEF ServiceInit, Idle, ServiceIInv, WeightsWereStored, FailuresHaveACause

LEMMA LoadDashboardStep ==
    ASSUME ServiceIInv, LoadDashboard \/ Answered
    PROVE  ServiceIInv'
<1>1. CASE LoadDashboard
  <2>1. load' = [pc |-> "fetchSnapshot", tasks |-> {}, weights |-> None, answer |-> "none",
                 list |-> <<>>, day |-> 0, rows |-> {row}, settingsFailed |-> FALSE]
    BY <1>1 DEF LoadDashboard, Idle
  <2>2. UNCHANGED <<today, row>>
    BY <1>1 DEF LoadDashboard
  <2>3. DOMAIN load' = {"pc", "tasks", "weights", "answer", "list", "day", "rows", "settingsFailed"}
    BY <2>1
  <2>4. /\ load'.pc = "fetchSnapshot" /\ load'.tasks = {} /\ load'.weights = None
        /\ load'.answer = "none" /\ row' \in load'.rows
    BY <2>1, <2>2
  <2> QED
    BY <2>2, <2>3, <2>4 DEF ServiceIInv, WeightsWereStored, FailuresHaveACause
<1>2. CASE Answered
  BY <1>2 DEF Answered, Idle, ServiceIInv, WeightsWereStored, FailuresHaveACause
<1> QED
  BY <1>1, <1>2

LEMMA SnapshotsAreTasks ==
    ASSUME NEW tasks \in Snapshots
    PROVE  tasks \subseteq Task
BY DEF Snapshots, Snapshot, Task

LEMMA FetchSnapshotStep ==
    ASSUME ServiceIInv, FetchSnapshot
    PROVE  ServiceIInv'
<1>1. ASSUME NEW tasks \in Snapshots,
             load' = [load EXCEPT !.pc = "findSettings", !.tasks = tasks]
      PROVE  ServiceIInv'
  <2>1. tasks \subseteq Task
    BY SnapshotsAreTasks
  <2> QED
    BY <1>1, <2>1 DEF FetchSnapshot, At, ServiceIInv, WeightsWereStored, FailuresHaveACause
<1>2. ASSUME NEW answer \in {"notionUnavailable", "error"},
             load' = [load EXCEPT !.pc = "done", !.answer = answer]
      PROVE  ServiceIInv'
  BY <1>2 DEF FetchSnapshot, At, ServiceIInv, WeightsWereStored, FailuresHaveACause
<1> QED
  BY <1>1, <1>2 DEF FetchSnapshot

LEMMA FindSettingsStep ==
    ASSUME ServiceIInv, FindSettings
    PROVE  ServiceIInv'
BY DEF FindSettings, At, ServiceIInv, WeightsWereStored, FailuresHaveACause

LEMMA BuildDashboardStep ==
    ASSUME ServiceIInv, BuildDashboard
    PROVE  ServiceIInv'
<1>1. CASE /\ \E t \in load.tasks : Throws(t)
           /\ load' = [load EXCEPT !.pc = "done", !.answer = "error", !.day = today]
  <2>1. \E t \in load.tasks : ~Readable(t)
    BY <1>1, OnlyDatesThrow DEF ServiceIInv
  <2> QED
    BY <1>1, <2>1 DEF BuildDashboard, At, ServiceIInv, WeightsWereStored, FailuresHaveACause
<1>2. ASSUME NEW list,
             load' = [load EXCEPT !.pc = "done", !.answer = "dashboard", !.day = today,
                                  !.list = list]
      PROVE  ServiceIInv'
  BY <1>2 DEF BuildDashboard, At, ServiceIInv, WeightsWereStored, FailuresHaveACause
<1> QED
  BY <1>1, <1>2 DEF BuildDashboard

LEMMA EnvironmentStep ==
    ASSUME ServiceIInv, StoreSettings \/ Midnight
    PROVE  ServiceIInv'
<1>1. CASE StoreSettings
  <2>1. PICK r \in Settings \cup {None} :
          /\ row' = r
          /\ load' = IF load.pc \in {"idle", "done"} THEN load
                     ELSE [load EXCEPT !.rows = @ \cup {r}]
    BY <1>1 DEF StoreSettings
  <2>2. today' = today
    BY <1>1 DEF StoreSettings
  <2>3. CASE load.pc \in {"idle", "done"}
    BY <2>1, <2>2, <2>3 DEF ServiceIInv, WeightsWereStored, FailuresHaveACause
  <2>4. CASE load.pc \notin {"idle", "done"}
    <3>1. load' = [load EXCEPT !.rows = load.rows \cup {r}]
      BY <2>1, <2>4
    <3> QED
      BY <2>1, <2>2, <2>4, <3>1 DEF ServiceIInv, WeightsWereStored, FailuresHaveACause
  <2> QED
    BY <2>3, <2>4
<1>2. CASE Midnight
  BY <1>2 DEF Midnight, ServiceIInv, WeightsWereStored, FailuresHaveACause
<1> QED
  BY <1>1, <1>2

THEOREM ServiceIsSound == ServiceSpec => []ServiceIInv
<1>1. ASSUME ServiceIInv, [ServiceNext]_service
      PROVE  ServiceIInv'
  <2>1. CASE UNCHANGED service
    BY <1>1, <2>1 DEF service, ServiceIInv, WeightsWereStored, FailuresHaveACause
  <2> QED
    BY <1>1, <2>1, LoadDashboardStep, FetchSnapshotStep, FindSettingsStep, BuildDashboardStep,
       EnvironmentStep DEF ServiceNext
<1> QED
  BY <1>1, ServiceInitially, PTL DEF ServiceSpec

\* The weights of a dashboard are a row's that was stored while it was
\* loaded, the defaults only if there was no row (dashboard-service.ts).
THEOREM WeightsAreStored == ServiceSpec => []WeightsWereStored
<1>1. ServiceIInv => WeightsWereStored
  BY DEF ServiceIInv
<1> QED
  BY <1>1, ServiceIsSound, PTL

\* Neither clock nor midnight drives a factor out of range: after the
\* snapshot only the settings or an unusable date fail a load.
THEOREM FailuresAreCaused == ServiceSpec => []FailuresHaveACause
<1>1. ServiceIInv => FailuresHaveACause
  BY DEF ServiceIInv
<1> QED
  BY <1>1, ServiceIsSound, PTL

\* The passing of a day never lowers the sum of a task that was read.
THEOREM SumsGrowDaily == ServiceSpec => []SumsOnlyGrow
<1>1. ServiceIInv => SumsOnlyGrow
  <2>1. SUFFICES ASSUME ServiceIInv, NEW t \in load.tasks, NEW w \in Settings \cup {Defaults},
                        Readable(t)
                 PROVE  Capped(Terms(t, w, today)) <= Capped(Terms(t, w, today + 1))
    BY DEF SumsOnlyGrow
  <2>2. Rankable(t)
    BY <2>1, TasksAreRankable DEF ServiceIInv
  <2>3. w \in Weights
    BY <2>1, ServiceAssumption DEF Defaults, Weights
  <2>4. today \in Int
    BY <2>1 DEF ServiceIInv
  <2> QED
    BY <2>2, <2>3, <2>4, SumsGrow
<1> QED
  BY <1>1, ServiceIsSound, PTL

-------------------------------------------------------------------------------
(* The list: what sort leaves of the recommendations.                        *)

\* The recommendation of a task under given weights, on a given day.
Ranked(t, w, day, short) ==
    [id |-> t.id, score |-> Rounded(Terms(t, w, day), short),
     level |-> PriorityLevel(Rounded(Terms(t, w, day), short))]
RankedBy(active, w, day, short) == {Ranked(t, w, day, short) : t \in active}

\* Tasks with a usable date, one per id.
Distinct(tasks) == \A t, u \in tasks : t.id = u.id => t = u

\* Rounding is off by no more than half a point.
LEMMA RoundHalfIsNear ==
    ASSUME NEW n, NEW down, n \in Nat, down \in 0 .. 1
    PROVE  100 * RoundHalf(n, down) - n \in -50 .. 50
BY DEF RoundHalf

LEMMA RankedIsExact ==
    ASSUME NEW t, Rankable(t), t.id \in Ids, NEW w \in Weights, NEW day \in Int, NEW short
    PROVE  LET r == Ranked(t, w, day, short) IN
           /\ Recommendation(r) /\ r.id = t.id /\ r.score \in 0 .. 100
           /\ 100 * r.score - Capped(Terms(t, w, day)) \in -50 .. 50
           /\ (r.level = "HIGH") <=> (r.score >= 70)
           /\ (r.level = "LOW") <=> (r.score < 40)
<1> DEFINE x == Terms(t, w, day)
           down == IF x \in short THEN 1 ELSE 0
           score == Rounded(x, short)
<1>1. x \in TermsSet
  BY TermsInRange
<1> HIDE DEF x
<1>2. score \in 0 .. 100
  BY <1>1, RoundedMonotone DEF TermsSet
<1>3. 100 * score - Capped(x) \in -50 .. 50
  <2>1. score = RoundHalf(Capped(x), down)
    BY DEF Rounded, OnHalf, RoundHalf
  <2>2. Capped(x) \in Nat /\ down \in 0 .. 1
    BY <1>1, SumInRange DEF Capped
  <2> HIDE DEF score, down
  <2> QED
    BY <2>1, <2>2, RoundHalfIsNear
<1> HIDE DEF score
<1>4. /\ PriorityLevel(score) \in {"HIGH", "MEDIUM", "LOW"}
      /\ (PriorityLevel(score) = "HIGH") <=> (score >= 70)
      /\ (PriorityLevel(score) = "LOW") <=> (score < 40)
  BY <1>2 DEF PriorityLevel
<1>5. Ranked(t, w, day, short) = [id |-> t.id, score |-> score, level |-> PriorityLevel(score)]
  BY DEF Ranked, score, x
<1> QED
  BY <1>2, <1>3, <1>4, <1>5 DEF Recommendation, x

\* A set of tasks is as large as the set of its recommendations.
LEMMA RankedAreAsMany ==
    ASSUME NEW active \in SUBSET Task, Distinct(active), NEW w, NEW day, NEW short
    PROVE  /\ IsFiniteSet(active)
           /\ IsFiniteSet(RankedBy(active, w, day, short))
           /\ Cardinality(RankedBy(active, w, day, short)) = Cardinality(active)
<1>1. IsFiniteSet(active)
  <2> DEFINE f == [t \in active |-> t.id]
  <2>1. f \in Injection(active, Ids)
    BY DEF Distinct, Task, Injection, IsInjective
  <2> QED
    BY <2>1, FS_Injection, ServiceAssumption
<1>2. ExistsBijection(active, RankedBy(active, w, day, short))
  <2> DEFINE f == [t \in active |-> Ranked(t, w, day, short)]
             R == RankedBy(active, w, day, short)
  <2>1. \A t \in active : f[t].id = t.id
    BY DEF Ranked
  <2>2. f \in [active -> R] /\ \A r \in R : \E t \in active : f[t] = r
    BY DEF RankedBy
  <2> HIDE DEF f, R
  <2>3. f \in Injection(active, R)
    BY <2>1, <2>2 DEF Distinct, Injection, IsInjective
  <2>4. f \in Bijection(active, R)
    BY <2>2, <2>3 DEF Bijection, Surjection
  <2> QED
    BY <2>4 DEF ExistsBijection, R
<1> QED
  BY <1>1, <1>2, FS_Bijection

\* The place of a task in the list is that of its recommendation.
PlaceIn(list, id) == CHOOSE i \in DOMAIN list : list[i].id = id

LEMMA ListOfTasks ==
    ASSUME NEW active \in SUBSET Task, Distinct(active), NEW w, NEW day, NEW short,
           NEW list, list \in SortedLists(RankedBy(active, w, day, short))
    PROVE  /\ Cardinality(active) \in Nat /\ DOMAIN list = 1 .. Cardinality(active)
           /\ Len(list) = Cardinality(active)
           /\ \A i \in DOMAIN list : \E t \in active : list[i] = Ranked(t, w, day, short)
           /\ \A t \in active : /\ PlaceIn(list, t.id) \in DOMAIN list
                                /\ list[PlaceIn(list, t.id)] = Ranked(t, w, day, short)
           /\ \A i, j \in DOMAIN list : i < j => ByScoreThenId(list[i], list[j])
<1> DEFINE R == RankedBy(active, w, day, short)
           n == Cardinality(active)
<1>1. IsFiniteSet(active) /\ Cardinality(R) = n /\ n \in Nat
  BY RankedAreAsMany, FS_CardinalityType
<1> HIDE DEF n
<1>2. /\ list \in [1 .. n -> R]
      /\ \A r \in R : \E i \in DOMAIN list : list[i] = r
      /\ \A i, j \in DOMAIN list : i < j => ByScoreThenId(list[i], list[j])
  BY <1>1 DEF SortedLists
<1>3. Len(list) = n
  BY <1>1, <1>2
<1>4. \A i \in DOMAIN list : \E t \in active : list[i] = Ranked(t, w, day, short)
  BY <1>2 DEF RankedBy
<1>5. ASSUME NEW t \in active
      PROVE  /\ PlaceIn(list, t.id) \in DOMAIN list
             /\ list[PlaceIn(list, t.id)] = Ranked(t, w, day, short)
  <2>1. \A u \in active : Ranked(u, w, day, short).id = u.id
    BY DEF Ranked
  <2>2. \E i \in DOMAIN list : list[i].id = t.id
    BY <1>2, <2>1 DEF RankedBy
  <2>3. PlaceIn(list, t.id) \in DOMAIN list /\ list[PlaceIn(list, t.id)].id = t.id
    BY <2>2 DEF PlaceIn
  <2> QED
    BY <1>4, <2>1, <2>3 DEF Distinct
<1> QED
  BY <1>1, <1>2, <1>3, <1>4, <1>5 DEF n

-------------------------------------------------------------------------------
(* The list in loadDashboard, from the moment it is built                    *)

\* The list ranks the active ones of the tasks, which are all usable.
Ranks(list, tasks, w, day) ==
    /\ w # None /\ \A t \in tasks : Readable(t)
    /\ \E short : list \in SortedLists(
         RankedBy({t \in tasks : t.status \notin Excluded}, w, day, short))

\* What the locals are besides ServiceIInv: the types, distinct tasks, and a
\* dashboard's list is the ranking of the tasks it was built from, under the
\* weights and on the day it was built with.
ListIInv ==
    /\ today \in 0 .. MaxDay /\ load.day \in 0 .. MaxDay
    /\ load.rows \subseteq Settings \cup {None}
    /\ load.weights \in Settings \cup {Defaults, None}
    /\ load.settingsFailed \in BOOLEAN
    /\ load.answer \in {"none", "dashboard", "notionUnavailable", "error"}
    /\ Distinct(load.tasks)
    /\ load.pc = "build" => load.weights # None
    /\ ~Shown => load.list = <<>>
    /\ Shown => Ranks(load.list, load.tasks, load.weights, load.day)

LEMMA ListInitially == ServiceInit => ListIInv
BY ServiceAssumption DEF ServiceInit, Idle, ListIInv, Distinct, Shown

LEMMA SnapshotsAreDistinct ==
    ASSUME NEW tasks \in Snapshots PROVE Distinct(tasks)
BY DEF Snapshots, Snapshot, Distinct

LEMMA PlaceIsPlaceIn == \A id : Place(id) = PlaceIn(load.list, id)
BY DEF Place, PlaceIn

LEMMA ListLoadStep ==
    ASSUME ServiceIInv, ListIInv, LoadDashboard \/ Answered PROVE ListIInv'
<1>1. /\ today' = today /\ load'.answer = "none" /\ load'.list = <<>> /\ load'.tasks = {}
      /\ load'.pc # "build" /\ load'.weights = None /\ load'.day = 0
      /\ load'.rows \subseteq Settings \cup {None} /\ load'.settingsFailed = FALSE
  <2>1. CASE LoadDashboard
    <3>1. load' = [pc |-> "fetchSnapshot", tasks |-> {}, weights |-> None, answer |-> "none",
                   list |-> <<>>, day |-> 0, rows |-> {row}, settingsFailed |-> FALSE]
      BY <2>1 DEF LoadDashboard, Idle
    <3>2. today' = today /\ {row} \subseteq Settings \cup {None}
      BY <2>1 DEF LoadDashboard, ServiceIInv
    <3> QED
      BY <3>1, <3>2
  <2>2. CASE Answered
    BY <2>2 DEF Answered, Idle
  <2> QED
    BY <2>1, <2>2
<1>2. 0 \in 0 .. MaxDay /\ Distinct(load'.tasks) /\ load'.answer # "dashboard"
  BY <1>1, ServiceAssumption DEF Distinct
<1> QED
  BY <1>1, <1>2 DEF ListIInv, Shown

LEMMA ListFetchStep ==
    ASSUME ServiceIInv, ListIInv, FetchSnapshot PROVE ListIInv'
<1>1. /\ today' = today /\ ~Shown /\ load.list = <<>> /\ load.weights = None
  BY DEF FetchSnapshot, At, ServiceIInv, ListIInv, Shown
<1>2. /\ load'.answer \in {"none", "notionUnavailable", "error"} /\ load'.list = load.list
      /\ load'.tasks \in Snapshots \cup {load.tasks} /\ load'.pc # "build"
      /\ load'.weights = load.weights /\ load'.day = load.day /\ load'.rows = load.rows
      /\ load'.settingsFailed = load.settingsFailed
  BY DEF FetchSnapshot, At, ServiceIInv
<1>3. Distinct(load'.tasks)
  BY <1>2, SnapshotsAreDistinct DEF ListIInv
<1> QED
  BY <1>1, <1>2, <1>3 DEF ListIInv, Shown, Distinct

LEMMA ListSettingsStep ==
    ASSUME ServiceIInv, ListIInv, FindSettings PROVE ListIInv'
<1>1. today' = today /\ ~Shown /\ load.list = <<>>
  BY DEF FindSettings, At, ServiceIInv, ListIInv, Shown
<1>2. Defaults # None
  BY ServiceAssumption DEF Defaults, Weights
<1>3. /\ load'.answer \in {"none", "error"} /\ load'.list = load.list
      /\ load'.tasks = load.tasks /\ load'.day = load.day /\ load'.rows = load.rows
      /\ load'.settingsFailed \in {TRUE, load.settingsFailed}
      /\ \/ load'.pc = "build" /\ load'.weights = WeightsFromSettings(row)
         \/ load'.pc = "done" /\ load'.weights = load.weights
  BY DEF FindSettings, At, ServiceIInv
<1>4. /\ load'.weights \in Settings \cup {Defaults, None}
      /\ load'.pc = "build" => load'.weights # None
  BY <1>2, <1>3 DEF ListIInv, ServiceIInv, WeightsFromSettings
<1> QED
  BY <1>1, <1>3, <1>4 DEF ListIInv, Shown, Distinct

\* Nothing the list was built from changes after it is built.
LEMMA ListBuildStep ==
    ASSUME ServiceIInv, ListIInv, BuildDashboard PROVE ListIInv'
<1>1. /\ load.pc = "build" /\ ~Shown /\ load.list = <<>> /\ load.weights # None
      /\ today' = today
  BY DEF BuildDashboard, At, ServiceIInv, ListIInv, Shown
<1>2. CASE load' = [load EXCEPT !.pc = "done", !.answer = "error", !.day = today]
  <2>1. /\ load'.pc = "done" /\ load'.answer = "error" /\ load'.day = today
        /\ load'.list = <<>> /\ load'.tasks = load.tasks /\ load'.weights = load.weights
        /\ load'.rows = load.rows /\ load'.settingsFailed = load.settingsFailed
    BY <1>1, <1>2 DEF ServiceIInv
  <2> QED
    BY <1>1, <2>1 DEF ListIInv, Shown, Distinct
<1>3. ASSUME NEW short, NEW list, \A t \in load.tasks : ~Throws(t),
             list \in SortedLists(Recommendations(short)),
             load' = [load EXCEPT !.pc = "done", !.answer = "dashboard", !.day = today,
                                  !.list = list]
      PROVE  ListIInv'
  <2>1. /\ load'.pc = "done" /\ load'.answer = "dashboard" /\ load'.day = today
        /\ load'.list = list /\ load'.tasks = load.tasks /\ load'.weights = load.weights
        /\ load'.rows = load.rows /\ load'.settingsFailed = load.settingsFailed
    BY <1>3 DEF ServiceIInv
  <2>2. \A t \in load.tasks : Readable(t)
    BY <1>3 DEF Throws
  <2>3. RankedBy(ActiveTasks, load.weights, today, short) = Recommendations(short)
    BY DEF RankedBy, Ranked, Recommended, Recommendations
  <2>4. list \in SortedLists(RankedBy(ActiveTasks, load.weights, today, short))
    BY <1>3, <2>3
  <2>5. Ranks(list, load.tasks, load.weights, today)
    BY <1>1, <2>2, <2>4 DEF Ranks, ActiveTasks
  <2> QED
    BY <1>1, <2>1, <2>5 DEF ListIInv, Shown, Distinct
<1> QED
  BY <1>2, <1>3 DEF BuildDashboard

LEMMA ListEnvironmentStep ==
    ASSUME ServiceIInv, ListIInv, StoreSettings \/ Midnight \/ UNCHANGED service
    PROVE  ListIInv'
<1>1. /\ today' \in 0 .. MaxDay
      /\ load'.pc = load.pc /\ load'.tasks = load.tasks /\ load'.weights = load.weights
      /\ load'.answer = load.answer /\ load'.list = load.list /\ load'.day = load.day
      /\ load'.settingsFailed = load.settingsFailed
      /\ load'.rows \subseteq Settings \cup {None}
  <2>1. CASE StoreSettings
    <3>1. PICK r \in Settings \cup {None} :
            load' = IF load.pc \in {"idle", "done"} THEN load
                    ELSE [load EXCEPT !.rows = @ \cup {r}]
      BY <2>1 DEF StoreSettings
    <3>2. CASE load' = load
      BY <2>1, <3>2 DEF StoreSettings, ListIInv
    <3>3. CASE load' = [load EXCEPT !.rows = load.rows \cup {r}]
      BY <2>1, <3>1, <3>3 DEF StoreSettings, ListIInv, ServiceIInv
    <3> QED
      BY <3>1, <3>2, <3>3
  <2>2. CASE Midnight \/ UNCHANGED service
    BY <2>2, ServiceAssumption DEF Midnight, service, ListIInv
  <2> QED
    BY <2>1, <2>2
<1> QED
  BY <1>1 DEF ListIInv, Shown, Distinct

THEOREM ListsAreRanked == ServiceSpec => []ListIInv
<1>1. ServiceIInv /\ ListIInv /\ [ServiceNext]_service => ListIInv'
  BY ListLoadStep, ListFetchStep, ListSettingsStep, ListBuildStep, ListEnvironmentStep
     DEF ServiceNext
<1> QED
  BY <1>1, ListInitially, ServiceIsSound, PTL DEF ServiceSpec

\* What a dashboard shows, in terms of its tasks.
LEMMA DashboardShows ==
    ASSUME ServiceIInv, ListIInv, Shown
    PROVE  \E short :
             /\ load.weights \in Weights /\ load.day \in Int
             /\ ActiveTasks \in SUBSET Task /\ Distinct(ActiveTasks)
             /\ \A t \in ActiveTasks : Rankable(t) /\ t.id \in Ids
             /\ load.list \in SortedLists(RankedBy(ActiveTasks, load.weights, load.day, short))
<1>1. load.weights \in Weights /\ load.day \in Int
  BY ServiceAssumption DEF ListIInv, Ranks, Defaults, Weights
<1>2. /\ ActiveTasks \in SUBSET Task /\ Distinct(ActiveTasks)
      /\ \A t \in ActiveTasks : Readable(t)
  BY DEF ServiceIInv, ListIInv, Ranks, ActiveTasks, Distinct
<1>3. \A t \in ActiveTasks : Rankable(t) /\ t.id \in Ids
  BY <1>2, TasksAreRankable DEF Task
<1>4. \E short : load.list \in SortedLists(
                   RankedBy(ActiveTasks, load.weights, load.day, short))
  BY DEF ListIInv, Ranks, ActiveTasks
<1> QED
  BY <1>1, <1>2, <1>3, <1>4

\* The locals are what their names say, and a score shown is one of 0 to 100.
THEOREM ServiceTypesHold == ServiceSpec => []ServiceTypeOK
<1>1. ServiceIInv /\ ListIInv => ServiceTypeOK
  <2>1. SUFFICES ASSUME ServiceIInv, ListIInv PROVE ServiceTypeOK
    OBVIOUS
  <2>2. ASSUME NEW i \in DOMAIN load.list PROVE Recommendation(load.list[i])
    <3>1. Shown
      BY <2>1, <2>2 DEF ListIInv
    <3>2. PICK short :
            /\ load.weights \in Weights /\ load.day \in Int
            /\ ActiveTasks \in SUBSET Task /\ Distinct(ActiveTasks)
            /\ \A t \in ActiveTasks : Rankable(t) /\ t.id \in Ids
            /\ load.list \in SortedLists(RankedBy(ActiveTasks, load.weights, load.day, short))
      BY <2>1, <3>1, DashboardShows
    <3>3. PICK t \in ActiveTasks : load.list[i] = Ranked(t, load.weights, load.day, short)
      BY <2>2, <3>2, ListOfTasks
    <3> QED
      BY <3>2, <3>3, RankedIsExact
  <2> QED
    BY <2>1, <2>2 DEF ServiceIInv, ListIInv, ServiceTypeOK
<1> QED
  BY <1>1, ServiceIsSound, ListsAreRanked, PTL

\* Every active task that was read is listed once, and its score is its
\* weighted sum to the nearest point (buildDashboard, README "Dashboard
\* scoring").
THEOREM DashboardsExact == ServiceSpec => []DashboardsAreExact
<1>1. ServiceIInv /\ ListIInv => DashboardsAreExact
  <2>1. SUFFICES ASSUME ServiceIInv, ListIInv, Shown
                 PROVE  /\ {load.list[i].id : i \in DOMAIN load.list} = {t.id : t \in ActiveTasks}
                        /\ Len(load.list) = Cardinality(ActiveTasks)
                        /\ \A t \in ActiveTasks :
                             LET shown == load.list[Place(t.id)]
                                 error == 100 * shown.score
                                            - Capped(Terms(t, load.weights, load.day))
                             IN  /\ error \in -50 .. 50 /\ shown.score \in 0 .. 100
                                 /\ (shown.level = "HIGH") <=> (shown.score >= 70)
                                 /\ (shown.level = "LOW") <=> (shown.score < 40)
    BY DEF DashboardsAreExact
  <2>2. PICK short :
          /\ load.weights \in Weights /\ load.day \in Int
          /\ ActiveTasks \in SUBSET Task /\ Distinct(ActiveTasks)
          /\ \A t \in ActiveTasks : Rankable(t) /\ t.id \in Ids
          /\ load.list \in SortedLists(RankedBy(ActiveTasks, load.weights, load.day, short))
    BY <2>1, DashboardShows
  <2> DEFINE Shows(t) == Ranked(t, load.weights, load.day, short)
  <2>3. /\ Len(load.list) = Cardinality(ActiveTasks)
        /\ \A i \in DOMAIN load.list : \E t \in ActiveTasks : load.list[i] = Shows(t)
        /\ \A t \in ActiveTasks : /\ Place(t.id) \in DOMAIN load.list
                                  /\ load.list[Place(t.id)] = Shows(t)
    BY <2>2, ListOfTasks, PlaceIsPlaceIn
  <2>4. \A t \in ActiveTasks : Shows(t).id = t.id
    BY DEF Ranked
  <2>5. {load.list[i].id : i \in DOMAIN load.list} = {t.id : t \in ActiveTasks}
    <3> HIDE DEF Shows
    <3> QED
      BY <2>3, <2>4
  <2>6. ASSUME NEW t \in ActiveTasks
        PROVE  /\ 100 * Shows(t).score - Capped(Terms(t, load.weights, load.day)) \in -50 .. 50
               /\ Shows(t).score \in 0 .. 100
               /\ (Shows(t).level = "HIGH") <=> (Shows(t).score >= 70)
               /\ (Shows(t).level = "LOW") <=> (Shows(t).score < 40)
    BY <2>2, RankedIsExact
  <2> HIDE DEF Shows
  <2> QED
    BY <2>3, <2>5, <2>6
<1> QED
  BY <1>1, ServiceIsSound, ListsAreRanked, PTL

\* The list is in the order of urgency, and of ids where scores are equal,
\* whatever the weights, the day and the roundings (buildDashboard's sort).
THEOREM UrgentFirst == ServiceSpec => []UrgentTasksComeFirst
<1>1. ServiceIInv /\ ListIInv => UrgentTasksComeFirst
  <2>1. SUFFICES ASSUME ServiceIInv, ListIInv, Shown,
                        NEW t \in ActiveTasks, NEW u \in ActiveTasks
                 PROVE  LET Score(task) == load.list[Place(task.id)].score
                        IN  /\ AtLeastAsUrgent(t, u) => Score(t) >= Score(u)
                            /\ t.id # u.id =>
                                 (Place(t.id) < Place(u.id) <=>
                                    \/ Score(t) > Score(u)
                                    \/ Score(t) = Score(u) /\ t.id < u.id)
    BY DEF UrgentTasksComeFirst
  <2>2. PICK short :
          /\ load.weights \in Weights /\ load.day \in Int
          /\ ActiveTasks \in SUBSET Task /\ Distinct(ActiveTasks)
          /\ \A v \in ActiveTasks : Rankable(v) /\ v.id \in Ids
          /\ load.list \in SortedLists(RankedBy(ActiveTasks, load.weights, load.day, short))
    BY <2>1, DashboardShows
  <2> DEFINE rt == Ranked(t, load.weights, load.day, short)
             ru == Ranked(u, load.weights, load.day, short)
  <2>3. /\ Cardinality(ActiveTasks) \in Nat
        /\ DOMAIN load.list = 1 .. Cardinality(ActiveTasks)
        /\ Place(t.id) \in DOMAIN load.list /\ load.list[Place(t.id)] = rt
        /\ Place(u.id) \in DOMAIN load.list /\ load.list[Place(u.id)] = ru
        /\ \A i, j \in DOMAIN load.list : i < j => ByScoreThenId(load.list[i], load.list[j])
    BY <2>2, ListOfTasks, PlaceIsPlaceIn
  <2>4. /\ rt.id = t.id /\ ru.id = u.id /\ rt.score \in Int /\ ru.score \in Int
        /\ t.id \in Int /\ u.id \in Int
    <3>1. rt.id = t.id /\ rt.score \in 0 .. 100
      BY <2>2, RankedIsExact
    <3>2. ru.id = u.id /\ ru.score \in 0 .. 100
      BY <2>2, RankedIsExact
    <3>3. t.id \in Int /\ u.id \in Int
      BY <2>2, ServiceAssumption
    <3> HIDE DEF rt, ru
    <3> QED
      BY <3>1, <3>2, <3>3
  <2>5. AtLeastAsUrgent(t, u) => rt.score >= ru.score
    <3>1. /\ rt.score = Rounded(Terms(t, load.weights, load.day), short)
          /\ ru.score = Rounded(Terms(u, load.weights, load.day), short)
      BY DEF Ranked
    <3> HIDE DEF rt, ru
    <3> QED
      BY <2>2, <2>4, <3>1, UrgencyIsKept
  <2> HIDE DEF rt, ru
  <2>6. Place(t.id) \in Int /\ Place(u.id) \in Int
    BY <2>3
  <2>7. /\ Place(t.id) < Place(u.id) => ByScoreThenId(rt, ru)
        /\ Place(u.id) < Place(t.id) => ByScoreThenId(ru, rt)
        /\ Place(t.id) = Place(u.id) => rt = ru
    BY <2>3
  <2>8. t.id # u.id =>
          (Place(t.id) < Place(u.id) <=> \/ rt.score > ru.score
                                         \/ rt.score = ru.score /\ t.id < u.id)
    BY <2>4, <2>6, <2>7 DEF ByScoreThenId
  <2> QED
    BY <2>3, <2>5, <2>8
<1> QED
  BY <1>1, ServiceIsSound, ListsAreRanked, PTL
===============================================================================
