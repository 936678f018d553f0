--------------------------- MODULE DashboardRanking ---------------------------
(***************************************************************************)
(* The arithmetic of a dashboard: the factors of dashboard-service.ts and  *)
(* the score of calculate-priority.ts.  Dates are day numbers (UTC         *)
(* calendar days).  Weighted sums are exact here, in hundredths of a       *)
(* point; the code computes them in doubles, which matters only where the  *)
(* exact sum is half a point: there the double may fall short of the half. *)
(* (Over all weights and factors the code can meet, 1,440 of 195,622 such  *)
(* sums do; no other sum is rounded to another integer.)                   *)
(***************************************************************************)
EXTENDS Integers

CONSTANTS NoDate,   \* dueDate is null
          Unusable  \* a date new Date() does not understand

ASSUME DatesAssumption == NoDate \notin Int /\ Unusable \notin Int /\ NoDate # Unusable

Excluded == {"APPROVED", "WAITING_APPROVAL"}
Statuses == {"NOT_STARTED", "IN_PROGRESS", "CHANGES_REQUESTED"} \cup Excluded

\* STATUS_BONUSES; the excluded statuses never get that far.
Bonus(status) ==
    CASE status = "CHANGES_REQUESTED" -> 10
      [] status = "IN_PROGRESS" -> 5
      [] status \notin {"CHANGES_REQUESTED", "IN_PROGRESS"} -> 0

\* The check constraint of priority_settings, and validateWeights.
Weights ==
    {w \in [deadline : 0 .. 100, waitingTime : 0 .. 100, estimatedEffort : 0 .. 100] :
        w.deadline + w.waitingTime + w.estimatedEffort = 100}
Defaults == [deadline |-> 50, waitingTime |-> 40, estimatedEffort |-> 10]

\* Mutant: Math.max(0, ...) is forgotten.
CappedOnly(n) == IF n > 100 THEN 100 ELSE n
\* Math.min(100, Math.max(0, n)).
Clamp(n) == IF n < 0 THEN 0 ELSE IF n > 100 THEN 100 ELSE n

DeadlineFactor(due, today) ==
    IF due = NoDate THEN 0
    ELSE IF due <= today THEN 100 ELSE Clamp(100 - 10 * (due - today))

\* Mutant: the difference is taken the wrong way round.
WaitingTimeBackwards(created, today) == Clamp(10 * (created - today))
WaitingTimeFactor(created, today) == Clamp(10 * (today - created))

EstimatedEffort == 50

\* validateFactor
ValidFactor(n) == n \in 0 .. 100

\* The products whose sum is the score, in hundredths.
Terms(task, w, today) ==
    [deadline |-> DeadlineFactor(task.due, today) * w.deadline,
     waitingTime |-> WaitingTimeFactor(task.created, today) * w.waitingTime,
     estimatedEffort |-> EstimatedEffort * w.estimatedEffort,
     bonus |-> 100 * Bonus(task.status)]

WeightedSum(terms) == terms.deadline + terms.waitingTime + terms.estimatedEffort + terms.bonus

\* Mutant: Math.min(100, ...) is forgotten.
Uncapped(terms) == WeightedSum(terms)
Capped(terms) == IF WeightedSum(terms) > 10000 THEN 10000 ELSE WeightedSum(terms)

OnHalf(terms) == Capped(terms) % 100 = 50

\* Mutant: Math.floor for Math.round.
Floored(terms, short) == Capped(terms) \div 100
\* Math.round: halves go up, except where the double falls short of the half.
Rounded(terms, short) ==
    IF OnHalf(terms) /\ terms \in short
    THEN Capped(terms) \div 100 ELSE (Capped(terms) + 50) \div 100

PriorityLevel(score) ==
    IF score >= 70 THEN "HIGH" ELSE IF score >= 40 THEN "MEDIUM" ELSE "LOW"
===============================================================================
