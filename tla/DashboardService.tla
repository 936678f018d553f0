--------------------------- MODULE DashboardService ---------------------------
(***************************************************************************)
(* NotionDashboardService.loadDashboard: read the Notion snapshot, then    *)
(* the weights of the workspace, then the clock, and rank.  Between the    *)
(* awaits an operator may change the weights, and midnight may pass.       *)
(***************************************************************************)
EXTENDS DashboardRanking, FiniteSets, Sequences

CONSTANTS Ids,         \* ids of tasks, numbers in the order of localeCompare
          DueDates,    \* due dates a task may have
          CreatedOn,   \* days a task may have been created on
          Settings,    \* rows of priority_settings an operator may store
          MaxDay,      \* bound on the calendar
          None

ASSUME ServiceAssumption ==
    /\ Ids \subseteq Int /\ IsFiniteSet(Ids)
    /\ DueDates \subseteq Int \cup {NoDate, Unusable}
    /\ CreatedOn \subseteq Int \cup {Unusable}
    /\ Settings \subseteq Weights
    /\ MaxDay \in Nat
    /\ None \notin Weights

VARIABLES today,  \* the server's date
          row,    \* the workspace's row of priority_settings
          load    \* the local variables of loadDashboard

service == <<today, row, load>>

Task == [id : Ids, status : Statuses, due : DueDates, created : CreatedOn]

Idle == [pc |-> "idle", tasks |-> {}, weights |-> None, answer |-> "none", list |-> <<>>,
         day |-> 0,                 \* the date the dashboard was built with
         rows |-> {},               \* history: the rows stored meanwhile
         settingsFailed |-> FALSE]  \* history

Recommendation(r) ==
    /\ r.id \in Ids
    /\ r.score \in 0 .. 100
    /\ r.level \in {"HIGH", "MEDIUM", "LOW"}

\* The types of the server's date, the row and the local variables; a score
\* shown is one of 0 to 100 (calculatePriority).
ServiceTypeOK ==
    /\ today \in 0 .. MaxDay
    /\ row \in Settings \cup {None}
    /\ load.pc \in {"idle", "fetchSnapshot", "findSettings", "build", "done"}
    /\ load.tasks \subseteq Task
    /\ load.weights \in Settings \cup {Defaults, None}
    /\ load.answer \in {"none", "dashboard", "notionUnavailable", "error"}
    /\ \A i \in DOMAIN load.list : Recommendation(load.list[i])
    /\ load.day \in 0 .. MaxDay
    /\ load.rows \subseteq Settings \cup {None}
    /\ load.settingsFailed \in BOOLEAN

ServiceInit ==
    /\ today = 0
    /\ row = None
    /\ load = Idle

-------------------------------------------------------------------------------
At(pc) == load.pc = pc

\* What the reader returns: some pages, one task per id.
Snapshot(f) == {[id |-> i, status |-> f[i].status, due |-> f[i].due, created |-> f[i].created] :
                  i \in DOMAIN f}
Snapshots ==
    {Snapshot(f) : f \in UNION {[ids -> [status : Statuses, due : DueDates, created : CreatedOn]] :
                                  ids \in SUBSET Ids}}

LoadDashboard ==
    /\ At("idle")
    /\ load' = [Idle EXCEPT !.pc = "fetchSnapshot", !.rows = {row}]
    /\ UNCHANGED <<today, row>>

\* A NotionAdapterError is translated, anything else goes on to the route.
FetchSnapshot ==
    /\ At("fetchSnapshot")
    /\ \/ \E tasks \in Snapshots :
            load' = [load EXCEPT !.pc = "findSettings", !.tasks = tasks]
       \/ \E answer \in {"notionUnavailable", "error"} :
            load' = [load EXCEPT !.pc = "done", !.answer = answer]
    /\ UNCHANGED <<today, row>>

WeightsFromSettings(settings) == IF settings = None THEN Defaults ELSE settings

\* Mutant: a failed read is taken for a workspace without a row.
FindSettingsOrDefaults ==
    /\ At("findSettings")
    /\ \E settings \in {row, None} :
         load' = [load EXCEPT !.pc = "build", !.weights = WeightsFromSettings(settings)]
    /\ UNCHANGED <<today, row>>

FindSettings ==
    /\ At("findSettings")
    /\ \/ load' = [load EXCEPT !.pc = "build", !.weights = WeightsFromSettings(row)]
       \/ load' = [load EXCEPT !.pc = "done", !.answer = "error", !.settingsFailed = TRUE]
    /\ UNCHANGED <<today, row>>

\* dateDayNumber understands both dates.
Readable(task) == task.due # Unusable /\ task.created # Unusable

\* toDomainTask throws on an unusable date, calculatePriority on factors out
\* of range: the one for every task, the other for those it does not exclude.
Throws(task) ==
    \/ ~Readable(task)
    \/ /\ Readable(task) /\ task.status \notin Excluded
       /\ ~(/\ ValidFactor(DeadlineFactor(task.due, today))
            /\ ValidFactor(WaitingTimeFactor(task.created, today)))

Recommended(task, short) ==
    LET score == Rounded(Terms(task, load.weights, today), short)
    IN  [id |-> task.id, score |-> score, level |-> PriorityLevel(score)]

\* Mutant: the ids are compared the wrong way round.
ByScoreThenIdBackwards(a, b) == a.score > b.score \/ (a.score = b.score /\ a.id > b.id)
\* The comparison of recommendations.sort.
ByScoreThenId(a, b) == a.score > b.score \/ (a.score = b.score /\ a.id < b.id)

\* What sort may leave: every recommendation once, in order.
SortedLists(recommendations) ==
    {list \in [1 .. Cardinality(recommendations) -> recommendations] :
        /\ \A r \in recommendations : \E i \in DOMAIN list : list[i] = r
        /\ \A i, j \in DOMAIN list : i < j => ByScoreThenId(list[i], list[j])}

\* The tasks calculatePriority finds eligible, and their recommendations.
ActiveTasks == {t \in load.tasks : t.status \notin Excluded}
Recommendations(short) == {Recommended(t, short) : t \in ActiveTasks}

\* Where a double may fall short.
Halves == {x \in {Terms(t, load.weights, today) : t \in ActiveTasks} : OnHalf(x)}

BuildDashboard ==
    /\ At("build")
    /\ \/ /\ \E t \in load.tasks : Throws(t)
          /\ load' = [load EXCEPT !.pc = "done", !.answer = "error", !.day = today]
       \/ /\ \A t \in load.tasks : ~Throws(t)
          /\ \E short \in SUBSET Halves : \E list \in SortedLists(Recommendations(short)) :
               load' = [load EXCEPT !.pc = "done", !.answer = "dashboard", !.day = today,
                                    !.list = list]
    /\ UNCHANGED <<today, row>>

\* The route has answered.
Answered ==
    /\ At("done")
    /\ load' = Idle
    /\ UNCHANGED <<today, row>>

-------------------------------------------------------------------------------
\* SQL by hand; the table's check constraint lets only Weights in.
StoreSettings ==
    /\ \E r \in Settings \cup {None} :
         /\ r # row
         /\ row' = r
         /\ load' = IF load.pc \in {"idle", "done"} THEN load
                    ELSE [load EXCEPT !.rows = @ \cup {r}]
    /\ UNCHANGED today

Midnight ==
    /\ today < MaxDay
    /\ today' = today + 1
    /\ UNCHANGED <<row, load>>

ServiceNext ==
    \/ LoadDashboard \/ FetchSnapshot \/ FindSettings \/ BuildDashboard \/ Answered
    \/ StoreSettings \/ Midnight

ServiceSpec == ServiceInit /\ [][ServiceNext]_service

-------------------------------------------------------------------------------
(* Properties *)

Shown == load.answer = "dashboard"
Place(id) == CHOOSE i \in DOMAIN load.list : load.list[i].id = id

\* README "Dashboard scoring": the score is the weighted sum of the factors
\* plus the bonus, capped, to the nearest point, under weights that were
\* stored; every active task is listed once, none is left out because of
\* another (dashboard-service.ts buildDashboard, calculatePriority).
DashboardsAreExact ==
    Shown =>
        /\ {load.list[i].id : i \in DOMAIN load.list} = {t.id : t \in ActiveTasks}
        /\ Len(load.list) = Cardinality(ActiveTasks)
        /\ \A t \in ActiveTasks :
             LET shown == load.list[Place(t.id)]
                 error == 100 * shown.score - Capped(Terms(t, load.weights, load.day))
             IN  /\ error \in -50 .. 50 /\ shown.score \in 0 .. 100
                 /\ (shown.level = "HIGH") <=> (shown.score >= 70)
                 /\ (shown.level = "LOW") <=> (shown.score < 40)

\* Of two active tasks with the same status, one that is due no later and
\* waits no less is never behind with a lower score, and of equal scores the
\* lower id is first: rounding, caps and the clock do not turn the order round.
AtLeastAsUrgent(t, u) ==
    /\ t.status = u.status /\ t.created <= u.created
    /\ \/ u.due = NoDate
       \/ t.due # NoDate /\ u.due # NoDate /\ t.due <= u.due

UrgentTasksComeFirst ==
    Shown =>
        \A t, u \in ActiveTasks :
            LET Score(task) == load.list[Place(task.id)].score
            IN  /\ AtLeastAsUrgent(t, u) => Score(t) >= Score(u)
                /\ t.id # u.id =>
                     (Place(t.id) < Place(u.id) <=>
                        \/ Score(t) > Score(u)
                        \/ Score(t) = Score(u) /\ t.id < u.id)

\* "a settings read failure fails the request rather than silently using
\* defaults" (README): the weights are a row's that was stored while the
\* dashboard was loaded, and the defaults' only if there was none.
WeightsWereStored ==
    load.weights # None => \E r \in load.rows : load.weights = WeightsFromSettings(r)

\* A load fails after the snapshot only because the settings could not be
\* read or a task's date is unusable: no other date and no clock, and no
\* midnight between, drives a factor out of the range calculatePriority
\* accepts.  One such date costs the whole dashboard.
FailuresHaveACause ==
    load.answer = "error" /\ load.tasks # {} =>
        load.settingsFailed \/ \E t \in load.tasks : ~Readable(t)

\* A task's weighted sum never falls as days pass, whatever its dates and the
\* weights (deadlineFactor, waitingTimeFactor).
SumsOnlyGrow ==
    \A t \in load.tasks, w \in Settings \cup {Defaults} :
        Readable(t) =>
            Capped(Terms(t, w, today)) <= Capped(Terms(t, w, today + 1))
===============================================================================
