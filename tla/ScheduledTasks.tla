--------------------------- MODULE ScheduledTasks ---------------------------
(***************************************************************************)
(* TasksService and TaskProcessor: the scheduled_tasks table kept beside   *)
(* the queue.  Every operation is a queue call and a table call with an    *)
(* await between them and no transaction over both; the processor writes   *)
(* the status of a job's row from worker events, whose updates are in      *)
(* flight together and reach the table in any order.                       *)
(***************************************************************************)
EXTENDS TaskQueue

CONSTANTS
    Tasks,          \* ids of rows; the table never reuses one
    Requests,       \* slots for requests in flight
    ClientStatuses, \* values the status of an update request may have
    MaxArrivals,    \* bound on the requests of a behaviour
    MaxFaults,      \* bound on the failed calls of a behaviour
    MaxCrashes      \* bound on the restarts of a behaviour

VARIABLES
    stored,         \* tasks that have a row
    deleted,        \* tasks whose row was deleted
    row,            \* row[t]: the row of t, or the last one it had
    pending,        \* status updates of worker events, on their way
    pc,             \* pc[r]: the await point request r is at
    req,            \* req[r]: its parameters and locals
    arrivals, faults, crashes,
    disturbed,      \* history: crons and jobs two plans claimed, or one that
                    \*   failed, or one that met another on its row
    blurred,        \* history: a resume met a pause or an update, or failed
    loose,          \* history: one-time jobs whose id was given twice, or
                    \*   whose removal from the queue failed
    started         \* history: one-time jobs a worker has taken

tableVars == <<stored, deleted, row>>
requestVars == <<pc, req, arrivals>>
countVars == <<faults, crashes>>
historyVars == <<disturbed, blurred, loose, started>>
vars == <<queueVars, tableVars, pending, requestVars, countVars, historyVars>>

Statuses == {"PENDING", "SCHEDULED", "RUNNING", "COMPLETED", "FAILED", "PAUSED"}

ASSUME StatusesAssumption == ClientStatuses \subseteq Statuses
ASSUME TasksAssumption == None \notin Tasks \cup Statuses \cup {"ONCE", "CRON"}

NoRow == [type |-> None, job |-> None, cron |-> None, key |-> None, status |-> None]
OnceRow(j) == [NoRow EXCEPT !.type = "ONCE", !.job = j, !.status = "SCHEDULED"]
CronRow(c, j) == [type |-> "CRON", job |-> j, cron |-> c, key |-> c,
                  status |-> "SCHEDULED"]

Row == [type: {"ONCE", "CRON", None}, job: JobIds \cup {None},
        cron: Crons \cup {None}, key: Crons \cup {None},
        status: Statuses \cup {None}]

\* `row' is what detail read; the rest are the call's own arguments.
Request == [task: Tasks \cup {None}, row: Row, cron: Crons \cup {None},
            job: JobIds \cup {None}, status: Statuses \cup {None}]

NoRequest == [task |-> None, row |-> NoRow, cron |-> None, job |-> None,
              status |-> None]

Points == {"idle", "onceStore", "cronStore", "updRemove", "updAdd", "updStore",
           "rmDequeue", "rmDelete", "pauseMark", "resumeMark", "runAdd"}

TypeOK ==
    /\ QueueTypeOK
    /\ stored \subseteq Tasks
    /\ deleted \subseteq Tasks \ stored
    /\ row \in [Tasks -> Row]
    /\ pending \subseteq JobIds \X Statuses
    /\ pc \in [Requests -> Points]
    /\ req \in [Requests -> Request]
    /\ arrivals \in Nat /\ faults \in Nat /\ crashes \in Nat
    /\ disturbed \subseteq Crons \cup JobIds
    /\ blurred \in BOOLEAN
    /\ loose \subseteq OnceIds
    /\ started \subseteq OnceIds

Init ==
    /\ QueueInit
    /\ stored = {}
    /\ deleted = {}
    /\ row = [t \in Tasks |-> NoRow]
    /\ pending = {}
    /\ pc = [r \in Requests |-> "idle"]
    /\ req = [r \in Requests |-> NoRequest]
    /\ arrivals = 0 /\ faults = 0 /\ crashes = 0
    /\ disturbed = {}
    /\ blurred = FALSE
    /\ loose = {}
    /\ started = {}

-----------------------------------------------------------------------------
(* Request plumbing *)

Goto(r, point) == pc' = [pc EXCEPT ![r] = point]

Step(r, point) ==
    /\ Goto(r, point)
    /\ UNCHANGED <<req, arrivals>>

Finish(r) ==
    /\ Goto(r, "idle")
    /\ req' = [req EXCEPT ![r] = NoRequest]
    /\ UNCHANGED arrivals

Arrive(r, point, request) ==
    /\ pc[r] = "idle"
    /\ arrivals < MaxArrivals
    /\ arrivals' = arrivals + 1
    /\ Goto(r, point)
    /\ req' = [req EXCEPT ![r] = request]

\* What a request plans with: the crons and jobs it read or was given.
Touched(q) == {q.cron, q.job, q.row.cron, q.row.key, q.row.job} \ {None}

Claimed(x) ==
    \/ \E t \in stored : x \in {row[t].cron, row[t].job}
    \/ \E r \in Requests : x \in Touched(req[r])

\* History of a plan for x: it is disturbed when x is somebody's already.
Claim(x) == disturbed' = IF Claimed(x) THEN disturbed \cup {x} ELSE disturbed

InFlight(points) == \E r \in Requests : pc[r] \in points

UpdatePoints == {"updRemove", "updAdd", "updStore"}

-----------------------------------------------------------------------------
(* Creating *)

\* Job id j is somebody's, or that of a deleted row.
Taken(j) == job[j] # "none" \/ Claimed(j) \/ \E t \in deleted : row[t].job = j

\* Mutant: createOnce drops the error of queue.add and stores the row.
CreateOnceMayNotAdd(r, j) ==
    /\ Arrive(r, "onceStore", [NoRequest EXCEPT !.job = j])
    /\ AddJob(j, "delayed") \/ (faults < MaxFaults /\ UNCHANGED queueVars)
    /\ disturbed' = IF job[j] # "none" \/ Claimed(j) THEN disturbed \cup {j} ELSE disturbed
    /\ loose' = IF Taken(j) THEN loose \cup {j} ELSE loose
    /\ UNCHANGED <<tableVars, pending, countVars, blurred, started>>

\* createOnce: queue.add, with the caller's job id or one BullMQ chooses.
CreateOnceAdds(r, j) ==
    /\ Arrive(r, "onceStore", [NoRequest EXCEPT !.job = j])
    /\ AddJob(j, "delayed")
    /\ disturbed' = IF Taken(j) THEN disturbed \cup {j} ELSE disturbed
    /\ loose' = IF Taken(j) THEN loose \cup {j} ELSE loose
    /\ UNCHANGED <<tableVars, pending, countVars, blurred, started>>

Insert(t, newRow) ==
    /\ t \notin stored \cup deleted
    /\ stored' = stored \cup {t}
    /\ row' = [row EXCEPT ![t] = newRow]
    /\ UNCHANGED deleted

CreateOnceStores(r, t) ==
    /\ pc[r] = "onceStore"
    /\ Insert(t, OnceRow(req[r].job))
    /\ Finish(r)
    /\ UNCHANGED <<queueVars, pending, countVars, historyVars>>

\* createCron: queue.add returns the job of the expression's next date.
CreateCronAdds(r, c) ==
    /\ Arrive(r, "cronStore", [NoRequest EXCEPT !.cron = c, !.job = <<c, next[c]>>])
    /\ AddRepeatable(c)
    /\ Claim(c)
    /\ UNCHANGED <<tableVars, pending, countVars, blurred, loose, started>>

CreateCronStores(r, t) ==
    /\ pc[r] = "cronStore"
    /\ Insert(t, CronRow(req[r].cron, req[r].job))
    /\ Finish(r)
    /\ UNCHANGED <<queueVars, pending, countVars, historyVars>>

-----------------------------------------------------------------------------
(* Updating *)

\* History of a request on row t that meets others on the same row.
Meet(request) ==
    LET met == {q \in Requests : req[q].task = request.task}
    IN  IF met = {} THEN {}
        ELSE Touched(request) \cup UNION {Touched(req[q]) : q \in met}

\* update: detail, and the condition on the type and the new expression.
\* c and s are None where the request leaves cron or status out.
UpdateReads(r, t, c, s) ==
    LET moves == row[t].type = "CRON" /\ c # None /\ c # row[t].cron
        new == IF moves THEN c ELSE None
        request == [NoRequest EXCEPT !.task = t, !.row = row[t], !.cron = new,
                                     !.status = s]
    IN  /\ t \in stored
        /\ Arrive(r, IF ~moves THEN "updStore"
                     ELSE IF row[t].key # None THEN "updRemove" ELSE "updAdd",
                  request)
        /\ disturbed' = disturbed \cup Meet(request)
                          \cup (IF moves /\ Claimed(c) THEN {c} ELSE {})
        /\ blurred' = (blurred \/ InFlight({"resumeMark"}) \/ s = "PAUSED")
        /\ UNCHANGED <<queueVars, tableVars, pending, countVars, loose, started>>

UpdateRemovesRepeatable(r) ==
    /\ pc[r] = "updRemove"
    /\ RemoveRepeatable(req[r].row.key)
    /\ Step(r, "updAdd")
    /\ UNCHANGED <<tableVars, pending, countVars, historyVars>>

UpdateAddsRepeatable(r) ==
    /\ pc[r] = "updAdd"
    /\ AddRepeatable(req[r].cron)
    /\ Step(r, "updStore")
    /\ UNCHANGED <<tableVars, pending, countVars, historyVars>>

\* Mutant: the new expression is stored and the old repeatKey kept.
UpdatedKeepsKey(q, current) ==
    [current EXCEPT !.status = q.row.status, !.cron = IF q.cron = None THEN @ ELSE q.cron]

\* The row after the update: columns the request leaves out are written
\* back as detail read them; jobId is not among the columns.
Updated(q, current) ==
    LET status == IF q.status # None THEN q.status ELSE q.row.status
    IN  IF q.cron = None
        THEN [current EXCEPT !.status = status]
        ELSE [current EXCEPT !.status = status, !.cron = q.cron, !.key = q.cron]

\* Mutant: the update is an upsert.
UpdateUpserts(r) ==
    /\ pc[r] = "updStore"
    /\ row' = [row EXCEPT ![req[r].task] = Updated(req[r], row[req[r].task])]
    /\ stored' = stored \cup {req[r].task}
    /\ Finish(r)
    /\ UNCHANGED <<queueVars, deleted, pending, countVars, historyVars>>

\* scheduledTask.update throws when the row is gone.
UpdateStores(r) ==
    /\ pc[r] = "updStore"
    /\ LET t == req[r].task
       IN  row' = IF t \in stored
                  THEN [row EXCEPT ![t] = Updated(req[r], row[t])]
                  ELSE row
    /\ Finish(r)
    /\ UNCHANGED <<queueVars, stored, deleted, pending, countVars, historyVars>>

-----------------------------------------------------------------------------
(* Deleting *)

RemoveReads(r, t) ==
    LET request == [NoRequest EXCEPT !.task = t, !.row = row[t]]
    IN  /\ t \in stored
        /\ Arrive(r, "rmDequeue", request)
        /\ disturbed' = disturbed \cup Meet(request)
        /\ UNCHANGED <<queueVars, tableVars, pending, countVars, blurred, loose, started>>

RemoveUnschedules(r) ==
    /\ pc[r] = "rmDequeue"
    /\ req[r].row.type = "CRON"
    /\ IF req[r].row.key # None THEN RemoveRepeatable(req[r].row.key)
                                ELSE UNCHANGED queueVars
    /\ Step(r, "rmDelete")
    /\ UNCHANGED <<tableVars, pending, countVars, historyVars>>

\* Mutant: only repeatables are taken out of the queue.
RemoveLeavesJob(r) ==
    /\ pc[r] = "rmDequeue"
    /\ req[r].row.type = "ONCE"
    /\ Step(r, "rmDelete")
    /\ UNCHANGED <<queueVars, tableVars, pending, countVars, historyVars>>

\* queue.remove of a one-time task's job, whose error is dropped.
RemoveDequeues(r) ==
    LET j == req[r].row.job
    IN  /\ pc[r] = "rmDequeue"
        /\ req[r].row.type = "ONCE"
        /\ \/ RemoveJob(j) /\ UNCHANGED <<countVars, disturbed, loose>>
           \/ JobLocked(j) /\ UNCHANGED <<queueVars, countVars, disturbed, loose>>
           \/ /\ faults < MaxFaults
              /\ faults' = faults + 1
              /\ disturbed' = disturbed \cup {j}
              /\ loose' = loose \cup {j}
              /\ UNCHANGED <<queueVars, crashes>>
        /\ Step(r, "rmDelete")
        /\ UNCHANGED <<tableVars, pending, blurred, started>>

RemoveDeletes(r) ==
    /\ pc[r] = "rmDelete"
    /\ stored' = stored \ {req[r].task}
    /\ deleted' = deleted \cup {req[r].task}
    /\ Finish(r)
    /\ UNCHANGED <<queueVars, row, pending, countVars, historyVars>>

-----------------------------------------------------------------------------
(* Pausing, resuming, running now *)

\* updateMany over the rows that have status `from'.
Remark(from, to) ==
    row' = [t \in Tasks |-> IF t \in stored /\ row[t].status = from
                            THEN [row[t] EXCEPT !.status = to] ELSE row[t]]

PauseQueue(r) ==
    /\ Arrive(r, "pauseMark", NoRequest)
    /\ SetPaused(TRUE)
    /\ blurred' = (blurred \/ InFlight({"resumeMark"}))
    /\ UNCHANGED <<tableVars, pending, countVars, disturbed, loose, started>>

PauseMarks(r) ==
    /\ pc[r] = "pauseMark"
    /\ Remark("SCHEDULED", "PAUSED")
    /\ Finish(r)
    /\ UNCHANGED <<queueVars, stored, deleted, pending, countVars, historyVars>>

ResumeQueue(r) ==
    /\ Arrive(r, "resumeMark", NoRequest)
    /\ SetPaused(FALSE)
    /\ blurred' = (blurred \/ InFlight({"pauseMark"} \cup UpdatePoints))
    /\ UNCHANGED <<tableVars, pending, countVars, disturbed, loose, started>>

\* Mutant: resumeQueue leaves the rows as they are.
ResumeMarksNothing(r) ==
    /\ pc[r] = "resumeMark"
    /\ Finish(r)
    /\ UNCHANGED <<queueVars, tableVars, pending, countVars, historyVars>>

ResumeMarks(r) ==
    /\ pc[r] = "resumeMark"
    /\ Remark("PAUSED", "SCHEDULED")
    /\ Finish(r)
    /\ UNCHANGED <<queueVars, stored, deleted, pending, countVars, historyVars>>

RunNowReads(r, t) ==
    /\ t \in stored
    /\ Arrive(r, "runAdd", NoRequest)
    /\ UNCHANGED <<queueVars, tableVars, pending, countVars, historyVars>>

RunNowAdds(r, j) ==
    /\ pc[r] = "runAdd"
    /\ job[j] = "none"
    /\ AddJob(j, "waiting")
    /\ Finish(r)
    /\ UNCHANGED <<tableVars, pending, countVars, historyVars>>

-----------------------------------------------------------------------------
(* The processor *)

\* The worker emits `active': onActive starts an update and nobody waits.
StartJob(j) ==
    /\ TakeJob(j)
    /\ pending' = pending \cup {<<j, "RUNNING">>}
    /\ started' = started \cup ({j} \cap OnceIds)
    /\ UNCHANGED <<tableVars, requestVars, countVars, disturbed, blurred, loose>>

\* process never throws; `completed' starts onCompleted's update.
FinishJob(j) ==
    /\ CompleteJob(j)
    /\ pending' = pending \cup {<<j, "COMPLETED">>}
    /\ UNCHANGED <<tableVars, requestVars, countVars, historyVars>>

StalledJob(j) ==
    /\ \/ RetryStalled(j) /\ UNCHANGED pending
       \/ FailStalled(j) /\ pending' = pending \cup {<<j, "FAILED">>}
    /\ UNCHANGED <<tableVars, requestVars, countVars, historyVars>>

\* updateMany by jobId, which finds no row when there is none (yet).
ApplyUpdate(j, status) ==
    /\ <<j, status>> \in pending
    /\ pending' = pending \ {<<j, status>>}
    /\ row' = [t \in Tasks |-> IF t \in stored /\ row[t].job = j
                               THEN [row[t] EXCEPT !.status = status] ELSE row[t]]
    /\ UNCHANGED <<queueVars, stored, deleted, requestVars, countVars, historyVars>>

\* The update fails and its error is dropped.
DropUpdate(j, status) ==
    /\ <<j, status>> \in pending
    /\ faults < MaxFaults
    /\ faults' = faults + 1
    /\ pending' = pending \ {<<j, status>>}
    /\ UNCHANGED <<queueVars, tableVars, requestVars, crashes, historyVars>>

-----------------------------------------------------------------------------
(* Failures, Next, Spec *)

\* The next call of request r fails, and its error goes to the client.
RequestFails(r) ==
    /\ pc[r] # "idle"
    /\ faults < MaxFaults
    /\ faults' = faults + 1
    /\ disturbed' = disturbed \cup Touched(req[r])
    /\ blurred' = (blurred \/ pc[r] = "resumeMark")
    /\ Finish(r)
    /\ UNCHANGED <<queueVars, tableVars, pending, crashes, loose, started>>

\* The process restarts: the queue and the table are all that is left.
Crash ==
    /\ crashes < MaxCrashes
    /\ crashes' = crashes + 1
    /\ LoseWorker
    /\ pending' = {}
    /\ disturbed' = disturbed \cup UNION {Touched(req[r]) : r \in Requests}
    /\ blurred' = (blurred \/ InFlight({"resumeMark"}))
    /\ pc' = [r \in Requests |-> "idle"]
    /\ req' = [r \in Requests |-> NoRequest]
    /\ UNCHANGED <<tableVars, arrivals, faults, loose, started>>

QueueTurns(j) ==
    /\ JobDue(j) \/ ForgetJob(j)
    /\ UNCHANGED <<tableVars, pending, requestVars, countVars, historyVars>>

RequestStep(r) ==
    \/ \E t \in Tasks : CreateOnceStores(r, t) \/ CreateCronStores(r, t)
    \/ UpdateRemovesRepeatable(r)
    \/ UpdateAddsRepeatable(r)
    \/ UpdateStores(r)
    \/ RemoveUnschedules(r)
    \/ RemoveDequeues(r)
    \/ RemoveDeletes(r)
    \/ PauseMarks(r)
    \/ ResumeMarks(r)
    \/ \E j \in ManualIds : RunNowAdds(r, j)

RequestArrives(r) ==
    \/ \E j \in OnceIds : CreateOnceAdds(r, j)
    \/ \E c \in Crons : CreateCronAdds(r, c)
    \/ \E t \in Tasks, c \in Crons \cup {None}, s \in ClientStatuses \cup {None} :
          UpdateReads(r, t, c, s)
    \/ \E t \in Tasks : RemoveReads(r, t) \/ RunNowReads(r, t)
    \/ PauseQueue(r)
    \/ ResumeQueue(r)

WorkerStep(j) == StartJob(j) \/ FinishJob(j) \/ StalledJob(j)

Next ==
    \/ \E r \in Requests : RequestArrives(r) \/ RequestStep(r) \/ RequestFails(r)
    \/ \E j \in JobIds : WorkerStep(j) \/ QueueTurns(j)
    \/ \E update \in pending :
          ApplyUpdate(update[1], update[2]) \/ DropUpdate(update[1], update[2])
    \/ Crash

Spec == Init /\ [][Next]_vars

\* Node runs the continuations of a request; BullMQ promotes a due job and
\* hands waiting jobs out in the order they came, so none is passed over
\* for ever; the worker's process is restarted and checks for stalled jobs.
Fairness ==
    /\ \A r \in Requests : WF_vars(RequestStep(r))
    /\ \A j \in JobIds :
          /\ WF_vars(QueueTurns(j))
          /\ SF_vars(StartJob(j))
          /\ WF_vars(FinishJob(j))
          /\ WF_vars(StalledJob(j))

FairSpec == Spec /\ Fairness
-----------------------------------------------------------------------------
(* Properties *)

\* The queue repeats a cron expression exactly when a task's row has it: a
\* deleted or moved CRON task leaves no repeatable behind, and no row says a
\* schedule that nothing runs.  Over update's and remove's two stores, for
\* every expression that only one plan claimed and no failure or overlap on
\* its row disturbed.
ScheduleMatchesRows ==
    \A c \in Crons \ disturbed :
        (\A r \in Requests : c \notin Touched(req[r]))
            => (c \in repeat <=> \E t \in stored : row[t].cron = c)

\* While the queue is not paused no task is left marked PAUSED, unless a
\* resume overlapped a pause or an update, or its table update was lost:
\* pauseQueue and resumeQueue change the flag first and the rows later.
PauseAgrees ==
    (~paused /\ ~blurred /\ ~InFlight({"pauseMark", "resumeMark"}))
        => \A t \in stored : row[t].status # "PAUSED"

\* A one-time task deleted before its job was taken is never run: remove
\* dequeues before it deletes, and no overlapping update or delete, restart
\* or failed request puts the job back.  Left out are the two ways it can
\* come back: queue.remove failed and remove dropped the error, or createOnce
\* was given the id of a job that another had or has.
DeletedOnceNeverStarts ==
    [][\A t \in deleted : row[t].type = "ONCE" /\ row[t].job \notin loose
         => (row[t].job \in started' => row[t].job \in started)]_vars

\* The job of a stored one-time task is taken at last, unless the task is
\* deleted or the queue paused first: createOnce adds the job before the row
\* and no other operation loses it.
OnceTasksRun ==
    \A t \in Tasks :
        (t \in stored /\ row[t].type = "ONCE")
            ~> (row[t].job \in started \cup disturbed \/ paused \/ t \in deleted)

\* What the API documentation says of a CRON task: it is run by its
\* expression until it is changed or deleted.  The row of a task that
\* no request is working on has a repeatable.
CronTasksStayScheduled ==
    \A t \in stored :
        (row[t].type = "CRON" /\ \A r \in Requests : pc[r] = "idle")
            => row[t].cron \in repeat
=============================================================================
