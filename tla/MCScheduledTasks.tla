-------------------------- MODULE MCScheduledTasks --------------------------
EXTENDS ScheduledTasks, TLC

\* Rows, request slots and cron expressions are interchangeable.
Symmetry == Permutations(Tasks) \cup Permutations(Requests) \cup Permutations(Crons)
=============================================================================
