----------------------------- MODULE TaskQueue -----------------------------
(***************************************************************************)
(* The BullMQ queue `tasks' as TasksService and TaskProcessor use it.      *)
(* BullMQ is a library: its part here is what the calls of the repository  *)
(* rely on.  Adding a job whose id exists changes nothing.  A repeatable   *)
(* is keyed by job name, time zone and pattern, so the key of a cron       *)
(* expression is the expression itself, and its next run is the job with   *)
(* id <<c, k>>, the k-th date of the pattern.                              *)
(***************************************************************************)
EXTENDS Naturals, FiniteSets

CONSTANTS
    OnceIds,        \* job ids of one-time jobs, given or chosen by BullMQ
    ManualIds,      \* job ids BullMQ chooses for `manual' jobs
    Crons,          \* cron expressions
    None,           \* an absent value
    MaxInstances    \* dates of a cron expression within a behaviour

ASSUME MaxInstancesAssumption == MaxInstances \in Nat \ {0}

Instances == Crons \X (1..MaxInstances)
JobIds == OnceIds \cup ManualIds \cup Instances

\* Ids of the three kinds of job, and expressions, are never mistaken for
\* each other: BullMQ's own ids are numbers, those of instances `repeat:...'.
ASSUME IdsAssumption ==
    /\ OnceIds \cap (ManualIds \cup (Crons \X (1..(MaxInstances + 1)))) = {}
    /\ ManualIds \cap Instances = {}
    /\ Crons \cap JobIds = {}
    /\ None \notin JobIds \cup Crons

VARIABLES
    job,        \* job[j]: the state of job j in Redis
    stalls,     \* jobs that have lost their worker once
    repeat,     \* keys of the repeatables
    next,       \* next[c]: the first date of c that is still to come
    paused      \* the queue's pause flag

queueVars == <<job, stalls, repeat, next, paused>>

QueueTypeOK ==
    /\ job \in [JobIds -> {"none", "delayed", "waiting", "active", "stalled", "done"}]
    /\ stalls \subseteq JobIds
    /\ repeat \subseteq Crons
    /\ next \in [Crons -> 1..(MaxInstances + 1)]
    /\ paused \in BOOLEAN

QueueInit ==
    /\ job = [j \in JobIds |-> "none"]
    /\ stalls = {}
    /\ repeat = {}
    /\ next = [c \in Crons |-> 1]
    /\ paused = FALSE

-----------------------------------------------------------------------------
(* The calls of TasksService *)

\* The jobs after queue.add of job j in the given state.
JobsWith(j, state) == IF job[j] = "none" THEN [job EXCEPT ![j] = state] ELSE job

AddJob(j, state) ==
    /\ job' = JobsWith(j, state)
    /\ UNCHANGED <<stalls, repeat, next, paused>>

\* queue.add with `repeat': the key, and the job of the next date.
AddRepeatable(c) ==
    /\ next[c] <= MaxInstances
    /\ repeat' = repeat \cup {c}
    /\ job' = JobsWith(<<c, next[c]>>, "delayed")
    /\ UNCHANGED <<stalls, next, paused>>

\* removeRepeatableByKey: the key, and the next job while it is delayed.
RemoveRepeatable(c) ==
    /\ repeat' = repeat \ {c}
    /\ job' = [j \in JobIds |->
                 IF j = <<c, next[c]>> /\ job[j] = "delayed" THEN "none" ELSE job[j]]
    /\ UNCHANGED <<stalls, next, paused>>

\* queue.remove: a job that a worker has locked cannot be removed.
RemoveJob(j) ==
    /\ job[j] # "active"
    /\ job' = [job EXCEPT ![j] = "none"]
    /\ stalls' = stalls \ {j}
    /\ UNCHANGED <<repeat, next, paused>>

\* A locked job stays; a stalled one is locked until its lock runs out.
JobLocked(j) == job[j] \in {"active", "stalled"}

SetPaused(flag) ==
    /\ paused' = flag
    /\ UNCHANGED <<job, stalls, repeat, next>>

-----------------------------------------------------------------------------
(* The queue and its worker, one job at a time *)

\* A delayed job is due; the date of a cron instance lies in the past then.
JobDue(j) ==
    /\ job[j] = "delayed"
    /\ job' = [job EXCEPT ![j] = "waiting"]
    /\ next' = IF j \in Instances THEN [next EXCEPT ![j[1]] = j[2] + 1] ELSE next
    /\ UNCHANGED <<stalls, repeat, paused>>

\* The worker takes a job; an instance schedules its successor.
TakeJob(j) ==
    /\ job[j] = "waiting"
    /\ ~paused
    /\ \A k \in JobIds : job[k] # "active"
    /\ job' = [k \in JobIds |->
                 IF k = j THEN "active"
                 ELSE IF /\ j \in Instances
                         /\ j[1] \in repeat
                         /\ k = <<j[1], next[j[1]]>>
                         /\ job[k] = "none"
                      THEN "delayed"
                      ELSE job[k]]
    /\ UNCHANGED <<stalls, repeat, next, paused>>

CompleteJob(j) ==
    /\ job[j] = "active"
    /\ job' = [job EXCEPT ![j] = "done"]
    /\ UNCHANGED <<stalls, repeat, next, paused>>

\* The worker's process ends while the job runs.
LoseWorker ==
    /\ job' = [j \in JobIds |-> IF job[j] = "active" THEN "stalled" ELSE job[j]]
    /\ UNCHANGED <<stalls, repeat, next, paused>>

\* The stalled check: run it again, but only once (maxStalledCount is 1).
RetryStalled(j) ==
    /\ job[j] = "stalled"
    /\ j \notin stalls
    /\ stalls' = stalls \cup {j}
    /\ job' = [job EXCEPT ![j] = "waiting"]
    /\ UNCHANGED <<repeat, next, paused>>

FailStalled(j) ==
    /\ job[j] = "stalled"
    /\ j \in stalls
    /\ job' = [job EXCEPT ![j] = "done"]
    /\ UNCHANGED <<stalls, repeat, next, paused>>

\* removeOnComplete, removeOnFail: a finished job is forgotten after a while.
ForgetJob(j) ==
    /\ job[j] = "done"
    /\ job' = [job EXCEPT ![j] = "none"]
    /\ stalls' = stalls \ {j}
    /\ UNCHANGED <<repeat, next, paused>>
=============================================================================
