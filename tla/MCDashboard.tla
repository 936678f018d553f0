------------------------------ MODULE MCDashboard ------------------------------
(* A small instance of loading the dashboard for TLC. *)
EXTENDS DashboardService

\* With the first row's weights 14.5, the score of a new task without a date, is
\* 14.499999999999998 in doubles.
Rows == {[deadline |-> 57, waitingTime |-> 14, estimatedEffort |-> 29],
         [deadline |-> 0, waitingTime |-> 100, estimatedEffort |-> 0]}

\* Overdue, on the way, beyond the horizon, none, and unusable.
Dates == {-1, 5, 14, NoDate, Unusable}

\* Long ago, lately, by a clock that is ahead of the server's, and unusable.
Days == {-20, -3, 1, Unusable}
===============================================================================
