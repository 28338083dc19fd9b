------------------------ MODULE ScheduledTasksProofs ------------------------
(***************************************************************************)
(* Proofs about ScheduledTasks, for every set of rows, requests, jobs and  *)
(* expressions and every bound.  TasksInv is inductive.  It says what each *)
(* kind of row and each await point of a request holds, who may still mark *)
(* rows PAUSED, why the job of a deleted one-time task is gone, and, for   *)
(* an expression nothing disturbed, that one row and one request at most   *)
(* are about it and whether the queue repeats it at that point.  QueueInv  *)
(* adds that the job of every row nothing disturbed is in the queue until  *)
(* the worker or a delete takes it, and that no repeatable runs dry.       *)
(***************************************************************************)
EXTENDS ScheduledTasks, TLAPS

-----------------------------------------------------------------------------
(* Rows and requests *)

IsOnce(x) == x.type = "ONCE" /\ x.job \in OnceIds /\ x.cron = None /\ x.key = None
IsCron(x) == x.type = "CRON" /\ x.job \in Instances /\ x.cron \in Crons /\ x.key = x.cron

RowOK(x) == x \in Row /\ x.status \in Statuses /\ (IsOnce(x) \/ IsCron(x))

RemovePoints == {"rmDequeue", "rmDelete"}
RowPoints == UpdatePoints \cup RemovePoints

\* A request without a row: nothing read, and what it is about to store.
FreeOK(p, q) ==
    /\ q.task = None /\ q.row = NoRow /\ q.status = None
    /\ p = "onceStore" => q.job \in OnceIds /\ q.cron = None
    /\ p = "cronStore" => q.job \in Instances /\ q.cron \in Crons
    /\ p \notin {"onceStore", "cronStore"} => q.job = None /\ q.cron = None

\* A request on a row: detail read it, and moves only a CRON row elsewhere.
BoundOK(p, q) ==
    /\ q.task \in Tasks /\ RowOK(q.row) /\ q.job = None
    /\ p \in RemovePoints \cup {"updRemove", "updAdd"} =>
          (q.cron # None <=> p \in UpdatePoints)
    /\ q.cron # None => q.row.type = "CRON" /\ q.cron # q.row.cron
    /\ q.row.type = "ONCE" => p \in {"updStore"} \cup RemovePoints

RequestOK(p, q) == IF p \in RowPoints THEN BoundOK(p, q) ELSE FreeOK(p, q)

\* The row a request read keeps its type and its job for ever.
SameTask(x, y) == x.type = y.type /\ x.job = y.job

RowsOK ==
    /\ \A t \in stored \cup deleted : RowOK(row[t])
    /\ \A r \in Requests : RequestOK(pc[r], req[r])
    /\ \A r \in Requests : pc[r] \in RowPoints =>
          /\ req[r].task \in stored \cup deleted
          /\ SameTask(req[r].row, row[req[r].task])

-----------------------------------------------------------------------------
(* The pause flag *)

PauseOK ==
    ~blurred =>
       /\ InFlight({"pauseMark"}) => paused /\ ~InFlight({"resumeMark"})
       /\ (~paused /\ \E t \in stored : row[t].status = "PAUSED") => InFlight({"resumeMark"})
       /\ \A r \in Requests : pc[r] \in UpdatePoints =>
             /\ req[r].status # "PAUSED"
             /\ req[r].row.status = "PAUSED" => paused

UpdatesOK == \A u \in pending : u[2] \in {"RUNNING", "COMPLETED", "FAILED"}

-----------------------------------------------------------------------------
(* One-time jobs *)

Quiet(j) == j \in started \/ job[j] = "none"

OnceOK ==
    /\ \A j \in OnceIds : JobLocked(j) => j \in started
    /\ \A t \in deleted :
          row[t].type = "ONCE" /\ row[t].job \notin loose => Quiet(row[t].job)
    /\ \A r \in Requests :
          pc[r] = "rmDelete" /\ req[r].row.type = "ONCE" /\ req[r].row.job \notin loose
             => Quiet(req[r].row.job)

-----------------------------------------------------------------------------
(* Expressions *)

Plans(r, c) == req[r].cron = c
Works(r, c) == req[r].row.cron = c
Uses(r, c) == Plans(r, c) \/ Works(r, c)

OneRow(c) == \A t, u \in stored : row[t].cron = c /\ row[u].cron = c => t = u
OneRequest(c) == \A r, s \in Requests : Uses(r, c) /\ Uses(s, c) => r = s

\* Who plans for c has no row of it yet, and has added its repeatable.
PlanOK(c) ==
    \A r \in Requests : Plans(r, c) =>
       /\ \A t \in stored : row[t].cron # c
       /\ c \in repeat <=> pc[r] \in {"cronStore", "updStore"}

\* Who works on the row of c leaves the repeatable until it removes it.
WorkOK(c) ==
    \A r \in Requests : Works(r, c) =>
       /\ req[r].task \in stored
       /\ row[req[r].task].cron = c
       /\ c \in repeat <=> \/ pc[r] \in {"updRemove", "rmDequeue"}
                           \/ pc[r] = "updStore" /\ req[r].cron = None

\* Who uses c is alone on its row, and whose row has c uses it.
AloneOK(c) ==
    \A r \in Requests : req[r].task # None =>
       /\ Uses(r, c) => /\ req[r].task \in stored
                        /\ \A s \in Requests : req[s].task = req[r].task => s = r
       /\ req[r].task \in stored /\ row[req[r].task].cron = c => Works(r, c)

FreeCronOK(c) ==
    (\A r \in Requests : ~Uses(r, c)) => (c \in repeat <=> \E t \in stored : row[t].cron = c)

CronOK(c) ==
    OneRow(c) /\ OneRequest(c) /\ PlanOK(c) /\ WorkOK(c) /\ AloneOK(c) /\ FreeCronOK(c)

CronsOK == \A c \in Crons \ disturbed : CronOK(c)

BaseInv == TypeOK /\ RowsOK /\ UpdatesOK
TasksInv == BaseInv /\ PauseOK /\ OnceOK /\ CronsOK

-----------------------------------------------------------------------------
(* Rows *)

LEMMA RowKinds ==
  /\ NoRow \in Row
  /\ NoRequest \in Request
  /\ \A j \in OnceIds : RowOK(OnceRow(j))
  /\ \A c \in Crons, j \in Instances : RowOK(CronRow(c, j))
  <1>1. NoRow \in Row
    BY DEF NoRow, Row
  <1>2. NoRequest \in Request
    BY <1>1 DEF NoRequest, Request
  <1>3. ASSUME NEW j \in OnceIds PROVE RowOK(OnceRow(j))
    <2>1. PICK x : x = OnceRow(j)
      OBVIOUS
    <2>2. /\ x.type = "ONCE" /\ x.job = j /\ x.cron = None /\ x.key = None
          /\ x.status = "SCHEDULED" /\ x \in Row
      BY <2>1 DEF OnceRow, NoRow, Row, Statuses, JobIds
    <2> QED BY <2>1, <2>2 DEF RowOK, IsOnce, Statuses
  <1>4. ASSUME NEW c \in Crons, NEW j \in Instances PROVE RowOK(CronRow(c, j))
    BY DEF CronRow, RowOK, IsCron, Row, Statuses, JobIds
  <1> QED BY <1>1, <1>2, <1>3, <1>4

\* A row whose status changes is the same task's.
LEMMA Remarked ==
  ASSUME NEW x, RowOK(x), NEW s \in Statuses
  PROVE  /\ RowOK([x EXCEPT !.status = s])
         /\ SameTask(x, [x EXCEPT !.status = s])
         /\ [x EXCEPT !.status = s].cron = x.cron
         /\ [x EXCEPT !.status = s].status = s
  <1>1. x \in Row
    BY DEF RowOK
  <1>2. PICK y : y = [x EXCEPT !.status = s]
    OBVIOUS
  <1>3. /\ y.type = x.type /\ y.job = x.job /\ y.cron = x.cron /\ y.key = x.key
        /\ y.status = s /\ y \in Row
    BY <1>1, <1>2 DEF Row
  <1> QED BY <1>2, <1>3 DEF RowOK, IsOnce, IsCron, SameTask

\* The row an update stores.
LEMMA UpdatedRow ==
  ASSUME NEW p \in UpdatePoints, NEW q \in Request, BoundOK(p, q),
         NEW x, RowOK(x), SameTask(q.row, x)
  PROVE  /\ RowOK(Updated(q, x)) /\ SameTask(x, Updated(q, x))
         /\ Updated(q, x).cron = IF q.cron = None THEN x.cron ELSE q.cron
         /\ Updated(q, x).status = IF q.status = None THEN q.row.status ELSE q.status
  <1>1. x \in Row /\ q.row \in Row /\ q.row.status \in Statuses
    BY DEF RowOK, BoundOK
  <1>2. q.status \in Statuses \cup {None} /\ q.cron \in Crons \cup {None}
    BY DEF Request
  <1>3. PICK s : s = IF q.status # None THEN q.status ELSE q.row.status
    OBVIOUS
  <1>4. s \in Statuses /\ s = IF q.status = None THEN q.row.status ELSE q.status
    BY <1>1, <1>2, <1>3
  <1>5. CASE q.cron = None
    <2>1. Updated(q, x) = [x EXCEPT !.status = s]
      BY <1>3, <1>5 DEF Updated
    <2> QED BY <2>1, <1>4, <1>5, Remarked
  <1>6. CASE q.cron # None
    <2>1. Updated(q, x) = [x EXCEPT !.status = s, !.cron = q.cron, !.key = q.cron]
      BY <1>3, <1>6 DEF Updated
    <2>2. PICK y : y = [x EXCEPT !.status = s, !.cron = q.cron, !.key = q.cron]
      OBVIOUS
    <2>3. q.cron \in Crons
      BY <1>2, <1>6
    <2>4. /\ y.type = x.type /\ y.job = x.job /\ y.cron = q.cron /\ y.key = q.cron
          /\ y.status = s /\ y \in Row
      BY <1>1, <1>4, <2>2, <2>3 DEF Row
    <2>5. q.row.type = "CRON"
      BY <1>6 DEF BoundOK
    <2>6. IsCron(x)
      BY <2>5 DEF SameTask, RowOK, IsOnce
    <2>7. RowOK(y)
      BY <2>3, <2>4, <2>6, <1>4 DEF RowOK, IsCron
    <2> QED BY <2>1, <2>2, <2>4, <2>7, <1>4, <1>6 DEF SameTask
  <1> QED BY <1>5, <1>6

-----------------------------------------------------------------------------
(* Type correctness of the queue *)

LEMMA InstanceTypes ==
  ASSUME NEW c \in Crons, NEW n \in 1..(MaxInstances + 1), n <= MaxInstances
  PROVE  <<c, n>> \in Instances /\ <<c, n>> \in JobIds
  BY MaxInstancesAssumption DEF Instances, JobIds

\* Every call and every step of the queue leaves it well typed.
LEMMA CallsKeepQueue ==
  ASSUME QueueTypeOK
  PROVE  /\ UNCHANGED queueVars => QueueTypeOK'
         /\ \A j \in JobIds, s \in {"delayed", "waiting"} : AddJob(j, s) => QueueTypeOK'
         /\ \A c \in Crons : AddRepeatable(c) \/ RemoveRepeatable(c) => QueueTypeOK'
         /\ \A j \in JobIds : RemoveJob(j) => QueueTypeOK'
         /\ \A flag \in BOOLEAN : SetPaused(flag) => QueueTypeOK'
  <1>1. UNCHANGED queueVars => QueueTypeOK'
    BY DEF queueVars, QueueTypeOK
  <1>2. ASSUME NEW j \in JobIds, NEW s \in {"delayed", "waiting"}, AddJob(j, s)
        PROVE  QueueTypeOK'
    BY <1>2 DEF AddJob, JobsWith, QueueTypeOK
  <1>3. ASSUME NEW c \in Crons, AddRepeatable(c)
        PROVE  QueueTypeOK'
    <2>1. next[c] \in 1..(MaxInstances + 1)
      BY DEF QueueTypeOK
    <2>2. <<c, next[c]>> \in JobIds
      BY <1>3, <2>1, InstanceTypes DEF AddRepeatable
    <2>3. PICK j \in JobIds : j = <<c, next[c]>>
      BY <2>2
    <2>4. job' = IF job[j] = "none" THEN [job EXCEPT ![j] = "delayed"] ELSE job
      BY <1>3, <2>3 DEF AddRepeatable, JobsWith
    <2> QED BY <1>3, <2>4 DEF AddRepeatable, QueueTypeOK
  <1>4. ASSUME NEW c \in Crons, RemoveRepeatable(c)
        PROVE  QueueTypeOK'
    <2>1. job' \in [JobIds -> {"none", "delayed", "waiting", "active", "stalled", "done"}]
      BY <1>4 DEF RemoveRepeatable, QueueTypeOK
    <2> QED BY <1>4, <2>1 DEF RemoveRepeatable, QueueTypeOK
  <1>5. ASSUME NEW j \in JobIds, RemoveJob(j)
        PROVE  QueueTypeOK'
    BY <1>5 DEF RemoveJob, QueueTypeOK
  <1>6. ASSUME NEW flag \in BOOLEAN, SetPaused(flag)
        PROVE  QueueTypeOK'
    BY <1>6 DEF SetPaused, QueueTypeOK
  <1> QED BY <1>1, <1>2, <1>3, <1>4, <1>5, <1>6

LEMMA StepsKeepQueue ==
  ASSUME QueueTypeOK, NEW j \in JobIds,
         \/ JobDue(j) \/ TakeJob(j) \/ CompleteJob(j) \/ LoseWorker
         \/ RetryStalled(j) \/ FailStalled(j) \/ ForgetJob(j)
  PROVE  QueueTypeOK'
  <1>1. CASE JobDue(j)
    <2>1. CASE j \in Instances
      <3>1. PICK c \in Crons, n \in 1..MaxInstances : j = <<c, n>>
        BY <2>1 DEF Instances
      <3>2. j[1] = c /\ j[2] = n
        BY <3>1
      <3>3. next' = [next EXCEPT ![c] = n + 1] /\ n + 1 \in 1..(MaxInstances + 1)
        BY <1>1, <2>1, <3>2, MaxInstancesAssumption DEF JobDue
      <3> QED BY <1>1, <3>3 DEF JobDue, QueueTypeOK
    <2>2. CASE j \notin Instances
      BY <1>1, <2>2 DEF JobDue, QueueTypeOK
    <2> QED BY <2>1, <2>2
  <1>2. CASE TakeJob(j)
    <2>1. job' \in [JobIds -> {"none", "delayed", "waiting", "active", "stalled", "done"}]
      BY <1>2 DEF TakeJob, QueueTypeOK
    <2> QED BY <1>2, <2>1 DEF TakeJob, QueueTypeOK
  <1>3. CASE LoseWorker
    <2>1. job' \in [JobIds -> {"none", "delayed", "waiting", "active", "stalled", "done"}]
      BY <1>3 DEF LoseWorker, QueueTypeOK
    <2> QED BY <1>3, <2>1 DEF LoseWorker, QueueTypeOK
  <1>4. CASE CompleteJob(j)
    BY <1>4 DEF CompleteJob, QueueTypeOK
  <1>5. CASE RetryStalled(j)
    BY <1>5 DEF RetryStalled, QueueTypeOK
  <1>6. CASE FailStalled(j)
    BY <1>6 DEF FailStalled, QueueTypeOK
  <1>7. CASE ForgetJob(j)
    BY <1>7 DEF ForgetJob, QueueTypeOK
  <1> QED BY <1>1, <1>2, <1>3, <1>4, <1>5, <1>6, <1>7

-----------------------------------------------------------------------------
(* Types, rows and requests *)

LEMMA InitBase == Init => BaseInv
  <1> SUFFICES ASSUME Init PROVE BaseInv OBVIOUS
  <1>1. QueueTypeOK
    <2>1. 1 \in 1..(MaxInstances + 1)
      BY MaxInstancesAssumption
    <2>2. next \in [Crons -> 1..(MaxInstances + 1)]
      BY <2>1 DEF Init, QueueInit
    <2>3. job \in [JobIds -> {"none", "delayed", "waiting", "active", "stalled", "done"}]
      BY DEF Init, QueueInit
    <2> QED BY <2>2, <2>3 DEF Init, QueueInit, QueueTypeOK
  <1>2. TypeOK
    BY <1>1, RowKinds DEF Init, TypeOK, Points
  <1>3. ASSUME NEW r \in Requests PROVE pc[r] \notin RowPoints /\ FreeOK(pc[r], req[r])
    BY DEF Init, RowPoints, UpdatePoints, RemovePoints, FreeOK, NoRequest
  <1>4. RowsOK
    BY <1>3 DEF Init, RowsOK, RequestOK
  <1> QED BY <1>2, <1>4 DEF BaseInv, UpdatesOK, Init

LEMMA TouchedTypes ==
  ASSUME NEW q \in Request PROVE Touched(q) \subseteq Crons \cup JobIds
  <1>1. /\ q.cron \in Crons \cup {None} /\ q.job \in JobIds \cup {None} /\ q.row \in Row
    BY DEF Request
  <1>2. /\ q.row.cron \in Crons \cup {None} /\ q.row.key \in Crons \cup {None}
        /\ q.row.job \in JobIds \cup {None}
    BY <1>1 DEF Row
  <1> QED BY <1>1, <1>2 DEF Touched

\* Rows are only added, and stay those of their tasks.
RowsKept ==
    \A t \in stored \cup deleted :
       t \in stored' \cup deleted' /\ SameTask(row[t], row'[t])

LEMMA SameRows ==
  ASSUME BaseInv, UNCHANGED tableVars
  PROVE  RowsKept /\ \A t \in stored' \cup deleted' : RowOK(row'[t])
  BY DEF BaseInv, RowsOK, RowsKept, SameTask, tableVars

\* What every action on one request's slot has to show.
LEMMA SlotStep ==
  ASSUME BaseInv, NEW r \in Requests, NEW point \in Points, NEW q \in Request,
         pc' = [pc EXCEPT ![r] = point], req' = [req EXCEPT ![r] = q],
         RequestOK(point, q),
         point \in RowPoints =>
            q.task \in stored' \cup deleted' /\ SameTask(q.row, row'[q.task]),
         RowsKept, \A t \in stored' \cup deleted' : RowOK(row'[t]),
         QueueTypeOK', stored' \subseteq Tasks, deleted' \subseteq Tasks \ stored',
         row' \in [Tasks -> Row],
         arrivals' \in {arrivals, arrivals + 1}, faults' \in {faults, faults + 1},
         disturbed' \subseteq Crons \cup JobIds, blurred' \in BOOLEAN,
         loose' \subseteq OnceIds,
         UNCHANGED <<pending, crashes, started>>
  PROVE  BaseInv'
  <1>1. pc' \in [Requests -> Points] /\ req' \in [Requests -> Request]
    BY DEF BaseInv, TypeOK
  <1>2. arrivals' \in Nat /\ faults' \in Nat /\ crashes' \in Nat
    BY DEF BaseInv, TypeOK
  <1>3. pending' \subseteq JobIds \X Statuses /\ started' \subseteq OnceIds
    BY DEF BaseInv, TypeOK
  <1>4. TypeOK'
    BY <1>1, <1>2, <1>3 DEF TypeOK
  <1>5. ASSUME NEW s \in Requests
        PROVE  /\ RequestOK(pc'[s], req'[s])
               /\ pc'[s] \in RowPoints =>
                     /\ req'[s].task \in stored' \cup deleted'
                     /\ SameTask(req'[s].row, row'[req'[s].task])
    <2>1. CASE s = r
      <3>1. pc'[s] = point /\ req'[s] = q
        BY <2>1 DEF BaseInv, TypeOK
      <3> QED BY <3>1
    <2>2. CASE s # r
      <3>1. pc'[s] = pc[s] /\ req'[s] = req[s]
        BY <2>2 DEF BaseInv, TypeOK
      <3>2. /\ RequestOK(pc[s], req[s])
            /\ pc[s] \in RowPoints => /\ req[s].task \in stored \cup deleted
                                      /\ SameTask(req[s].row, row[req[s].task])
        BY DEF BaseInv, RowsOK
      <3>3. CASE pc[s] \in RowPoints
        <4>1. PICK t \in stored \cup deleted : t = req[s].task
          BY <3>2, <3>3
        <4>2. SameTask(req[s].row, row[t])
          BY <3>2, <3>3, <4>1
        <4>3. t \in stored' \cup deleted' /\ SameTask(row[t], row'[t])
          BY DEF RowsKept
        <4>4. SameTask(req[s].row, row'[t])
          BY <4>2, <4>3 DEF SameTask
        <4> QED BY <3>1, <3>2, <4>1, <4>3, <4>4
      <3>4. CASE pc[s] \notin RowPoints
        BY <3>1, <3>2, <3>4
      <3> QED BY <3>3, <3>4
    <2> QED BY <2>1, <2>2
  <1>6. RowsOK'
    BY <1>5 DEF RowsOK
  <1>7. UpdatesOK'
    BY DEF BaseInv, UpdatesOK
  <1> QED BY <1>4, <1>6, <1>7 DEF BaseInv

\* An action that ends a request.
LEMMA FinishStep ==
  ASSUME BaseInv, NEW r \in Requests, Finish(r),
         RowsKept, \A t \in stored' \cup deleted' : RowOK(row'[t]),
         QueueTypeOK', stored' \subseteq Tasks, deleted' \subseteq Tasks \ stored',
         row' \in [Tasks -> Row], faults' \in {faults, faults + 1},
         disturbed' \subseteq Crons \cup JobIds, blurred' \in BOOLEAN,
         loose' \subseteq OnceIds,
         UNCHANGED <<pending, crashes, started>>
  PROVE  BaseInv'
  <1>1. FreeOK("idle", NoRequest) /\ "idle" \in Points /\ "idle" \notin RowPoints
    BY DEF FreeOK, NoRequest, Points, RowPoints, UpdatePoints, RemovePoints
  <1>2. /\ pc' = [pc EXCEPT ![r] = "idle"] /\ req' = [req EXCEPT ![r] = NoRequest]
        /\ arrivals' = arrivals
    BY DEF Finish, Goto
  <1>3. RequestOK("idle", NoRequest)
    BY <1>1 DEF RequestOK
  <1> QED BY <1>1, <1>2, <1>3, RowKinds, SlotStep

\* An action that leaves the table alone.
LEMMA QuietTable ==
  ASSUME BaseInv, UNCHANGED tableVars
  PROVE  /\ RowsKept /\ \A t \in stored' \cup deleted' : RowOK(row'[t])
         /\ stored' = stored /\ deleted' = deleted /\ row' = row
         /\ stored' \subseteq Tasks /\ deleted' \subseteq Tasks \ stored'
         /\ row' \in [Tasks -> Row]
  BY SameRows DEF BaseInv, TypeOK, tableVars

\* What a request's slot holds.
LEMMA SlotFacts ==
  ASSUME BaseInv, NEW r \in Requests
  PROVE  /\ req[r] \in Request /\ pc[r] \in Points
         /\ RequestOK(pc[r], req[r])
         /\ pc[r] \in RowPoints => /\ BoundOK(pc[r], req[r])
                                   /\ req[r].task \in stored \cup deleted
                                   /\ SameTask(req[r].row, row[req[r].task])
         /\ pc[r] \notin RowPoints => FreeOK(pc[r], req[r])
         /\ disturbed \subseteq Crons \cup JobIds /\ blurred \in BOOLEAN /\ loose \subseteq OnceIds /\ QueueTypeOK
  BY DEF BaseInv, TypeOK, RowsOK, RequestOK

\* What the requests that arrive hold.
OnceCall(j) == [NoRequest EXCEPT !.job = j]
CronCall(c, j) == [NoRequest EXCEPT !.cron = c, !.job = j]
RemoveCall(t, x) == [NoRequest EXCEPT !.task = t, !.row = x]

Moves(x, c) == x.type = "CRON" /\ c # None /\ c # x.cron
MovesTo(x, c) == IF Moves(x, c) THEN c ELSE None
UpdateCall(t, x, c, s) ==
    [NoRequest EXCEPT !.task = t, !.row = x, !.cron = MovesTo(x, c), !.status = s]
UpdatePoint(x, c) ==
    IF ~Moves(x, c) THEN "updStore" ELSE IF x.key # None THEN "updRemove" ELSE "updAdd"

LEMMA OnceRequest ==
  ASSUME NEW j \in OnceIds
  PROVE  /\ OnceCall(j) \in Request /\ RequestOK("onceStore", OnceCall(j))
         /\ OnceCall(j).cron = None /\ OnceCall(j).row = NoRow /\ OnceCall(j).task = None
         /\ "onceStore" \in Points /\ "onceStore" \notin RowPoints
  <1>1. PICK q : q = OnceCall(j)
    OBVIOUS
  <1>2. /\ q.task = None /\ q.row = NoRow /\ q.cron = None /\ q.job = j /\ q.status = None
        /\ q \in Request
    BY <1>1, RowKinds DEF OnceCall, NoRequest, Request, JobIds
  <1>3. "onceStore" \in Points /\ "onceStore" \notin RowPoints
    BY DEF Points, RowPoints, UpdatePoints, RemovePoints
  <1>4. FreeOK("onceStore", q)
    BY <1>2 DEF FreeOK
  <1> QED BY <1>1, <1>2, <1>3, <1>4 DEF RequestOK

LEMMA CronRequest ==
  ASSUME NEW c \in Crons, NEW j \in Instances
  PROVE  /\ CronCall(c, j) \in Request /\ RequestOK("cronStore", CronCall(c, j))
         /\ CronCall(c, j).cron = c /\ CronCall(c, j).row = NoRow
         /\ CronCall(c, j).task = None
         /\ "cronStore" \in Points /\ "cronStore" \notin RowPoints
  <1>1. PICK q : q = CronCall(c, j)
    OBVIOUS
  <1>2. /\ q.task = None /\ q.row = NoRow /\ q.cron = c /\ q.job = j /\ q.status = None
        /\ q \in Request
    BY <1>1, RowKinds DEF CronCall, NoRequest, Request, JobIds
  <1>3. "cronStore" \in Points /\ "cronStore" \notin RowPoints
    BY DEF Points, RowPoints, UpdatePoints, RemovePoints
  <1>4. FreeOK("cronStore", q)
    BY <1>2 DEF FreeOK
  <1> QED BY <1>1, <1>2, <1>3, <1>4 DEF RequestOK

LEMMA RemoveRequest ==
  ASSUME NEW t \in Tasks, NEW x, RowOK(x)
  PROVE  /\ RemoveCall(t, x) \in Request /\ RequestOK("rmDequeue", RemoveCall(t, x))
         /\ RemoveCall(t, x).task = t /\ RemoveCall(t, x).row = x
         /\ RemoveCall(t, x).cron = None
         /\ "rmDequeue" \in Points
  <1>1. PICK q : q = RemoveCall(t, x)
    OBVIOUS
  <1>2. x \in Row
    BY DEF RowOK
  <1>3. /\ q.task = t /\ q.row = x /\ q.cron = None /\ q.job = None /\ q.status = None
        /\ q \in Request
    BY <1>1, <1>2 DEF RemoveCall, NoRequest, Request
  <1>4. /\ "rmDequeue" \in Points /\ "rmDequeue" \in RowPoints
        /\ "rmDequeue" \in RemovePoints /\ "rmDequeue" \notin UpdatePoints
    BY DEF Points, RowPoints, UpdatePoints, RemovePoints
  <1>5. BoundOK("rmDequeue", q)
    BY <1>3, <1>4 DEF BoundOK
  <1> QED BY <1>1, <1>3, <1>4, <1>5 DEF RequestOK

\* update moves a CRON row, whose key is there, or stores at once.
LEMMA UpdateRequest ==
  ASSUME NEW t \in Tasks, NEW x, RowOK(x), NEW c \in Crons \cup {None},
         NEW s \in ClientStatuses \cup {None}
  PROVE  LET q == UpdateCall(t, x, c, s)
         IN  /\ q \in Request /\ RequestOK(UpdatePoint(x, c), q)
             /\ q.task = t /\ q.row = x /\ q.status = s /\ q.cron = MovesTo(x, c)
             /\ UpdatePoint(x, c) = IF Moves(x, c) THEN "updRemove" ELSE "updStore"
             /\ UpdatePoint(x, c) \in Points /\ UpdatePoint(x, c) \in UpdatePoints
  <1>1. x \in Row /\ MovesTo(x, c) \in Crons \cup {None} /\ s \in Statuses \cup {None}
    BY StatusesAssumption DEF RowOK, MovesTo
  <1>2. PICK d \in Crons \cup {None} : d = MovesTo(x, c)
    BY <1>1
  <1>3. PICK q : q = UpdateCall(t, x, c, s)
    OBVIOUS
  <1>4. /\ q.task = t /\ q.row = x /\ q.cron = d /\ q.job = None /\ q.status = s
        /\ q \in Request
    BY <1>1, <1>2, <1>3 DEF UpdateCall, NoRequest, Request
  <1>5. Moves(x, c) => x.key # None
    BY IdsAssumption DEF RowOK, IsOnce, IsCron, Moves
  <1>6. UpdatePoint(x, c) = IF Moves(x, c) THEN "updRemove" ELSE "updStore"
    BY <1>5 DEF UpdatePoint
  <1>7. /\ UpdatePoint(x, c) \in Points /\ UpdatePoint(x, c) \in UpdatePoints
        /\ UpdatePoint(x, c) \in RowPoints /\ UpdatePoint(x, c) \notin RemovePoints
    BY <1>6 DEF Points, UpdatePoints, RowPoints, RemovePoints
  <1>8. /\ d # None <=> Moves(x, c)
        /\ Moves(x, c) => x.type = "CRON" /\ d # x.cron
    BY <1>2 DEF MovesTo, Moves
  <1>9. RequestOK(UpdatePoint(x, c), q)
    BY <1>4, <1>6, <1>7, <1>8 DEF RequestOK, BoundOK
  <1> QED BY <1>2, <1>3, <1>4, <1>6, <1>7, <1>9

LEMMA ArriveStep ==
  ASSUME BaseInv, NEW r \in Requests, NEW point \in Points, NEW q \in Request,
         Arrive(r, point, q), RequestOK(point, q),
         point \in RowPoints => q.task \in stored /\ q.row = row[q.task],
         QueueTypeOK', disturbed' \subseteq Crons \cup JobIds, blurred' \in BOOLEAN,
         loose' \subseteq OnceIds,
         UNCHANGED <<tableVars, pending, countVars, started>>
  PROVE  BaseInv'
  <1>1. /\ pc' = [pc EXCEPT ![r] = point] /\ req' = [req EXCEPT ![r] = q]
        /\ arrivals' = arrivals + 1 /\ faults' = faults /\ crashes' = crashes
        /\ UNCHANGED tableVars
    BY DEF Arrive, Goto, countVars
  <1>2. point \in RowPoints =>
          q.task \in stored' \cup deleted' /\ SameTask(q.row, row'[q.task])
    BY <1>1 DEF SameTask, tableVars
  <1> QED BY <1>1, <1>2, QuietTable, SlotStep

\* Histories only name crons and jobs.
LEMMA MeetTypes ==
  ASSUME BaseInv, NEW q \in Request
  PROVE  /\ Meet(q) \subseteq Crons \cup JobIds
         /\ UNION {Touched(req[r]) : r \in Requests} \subseteq Crons \cup JobIds
  <1>1. \A r \in Requests : req[r] \in Request
    BY DEF BaseInv, TypeOK
  <1>2. \A r \in Requests : Touched(req[r]) \subseteq Crons \cup JobIds
    BY <1>1, TouchedTypes
  <1>3. Touched(q) \subseteq Crons \cup JobIds
    BY TouchedTypes
  <1> QED BY <1>2, <1>3 DEF Meet

LEMMA ArrivalsKeepBase ==
  ASSUME BaseInv, NEW r \in Requests, RequestArrives(r)
  PROVE  BaseInv'
  <1>0. /\ QueueTypeOK /\ disturbed \subseteq Crons \cup JobIds /\ blurred \in BOOLEAN /\ loose \subseteq OnceIds
        /\ row \in [Tasks -> Row] /\ stored \subseteq Tasks
    BY DEF BaseInv, TypeOK
  <1>1. ASSUME NEW j \in OnceIds, CreateOnceAdds(r, j)
        PROVE  BaseInv'
    <2>1. j \in JobIds
      BY DEF JobIds
    <2>2. QueueTypeOK'
      BY <1>0, <1>1, <2>1, CallsKeepQueue DEF CreateOnceAdds
    <2>3. disturbed' \subseteq Crons \cup JobIds /\ loose' \subseteq OnceIds /\ UNCHANGED blurred
      BY <1>0, <1>1, <2>1 DEF CreateOnceAdds
    <2>4. PICK q \in Request : q = OnceCall(j)
      BY OnceRequest
    <2>5. Arrive(r, "onceStore", q) /\ UNCHANGED <<tableVars, pending, countVars, started>>
      BY <1>1, <2>4 DEF CreateOnceAdds, OnceCall
    <2>6. /\ q \in Request /\ RequestOK("onceStore", q)
          /\ "onceStore" \in Points /\ "onceStore" \notin RowPoints
      BY <2>4, OnceRequest
    <2> QED BY <1>0, <2>2, <2>3, <2>5, <2>6, ArriveStep
  <1>2. ASSUME NEW c \in Crons, CreateCronAdds(r, c)
        PROVE  BaseInv'
    <2>1. next[c] \in 1..(MaxInstances + 1) /\ next[c] <= MaxInstances
      BY <1>0, <1>2 DEF QueueTypeOK, CreateCronAdds, AddRepeatable
    <2>2. PICK j \in Instances : j = <<c, next[c]>>
      BY <2>1, InstanceTypes
    <2>3. PICK q \in Request : q = CronCall(c, j)
      BY CronRequest
    <2>4. QueueTypeOK'
      BY <1>0, <1>2, CallsKeepQueue DEF CreateCronAdds
    <2>5. disturbed' \subseteq Crons \cup JobIds /\ UNCHANGED <<blurred, loose>>
      BY <1>0, <1>2 DEF CreateCronAdds, Claim
    <2>6. Arrive(r, "cronStore", q) /\ UNCHANGED <<tableVars, pending, countVars, started>>
      BY <1>2, <2>2, <2>3 DEF CreateCronAdds, CronCall
    <2>7. /\ q \in Request /\ RequestOK("cronStore", q)
          /\ "cronStore" \in Points /\ "cronStore" \notin RowPoints
      BY <2>3, CronRequest
    <2> QED BY <1>0, <2>4, <2>5, <2>6, <2>7, ArriveStep
  <1>3. ASSUME NEW t \in Tasks, NEW c \in Crons \cup {None},
               NEW s \in ClientStatuses \cup {None}, UpdateReads(r, t, c, s)
        PROVE  BaseInv'
    <2>1. t \in stored
      BY <1>3 DEF UpdateReads
    <2>2. PICK x : x = row[t]
      OBVIOUS
    <2>3. RowOK(x)
      BY <2>1, <2>2 DEF BaseInv, RowsOK
    <2>4. PICK q \in Request : q = UpdateCall(t, x, c, s)
      BY <2>3, UpdateRequest
    <2>5. PICK point \in Points : point = UpdatePoint(x, c)
      BY <2>3, UpdateRequest
    <2>6. RequestOK(point, q) /\ q.task = t /\ q.row = x
      BY <2>3, <2>4, <2>5, UpdateRequest
    <2>7. /\ Arrive(r, point, q)
          /\ UNCHANGED <<queueVars, tableVars, pending, countVars, loose, started>>
          /\ disturbed' = disturbed \cup Meet(q)
                            \cup (IF Moves(x, c) /\ Claimed(c) THEN {c} ELSE {})
          /\ blurred' = (blurred \/ InFlight({"resumeMark"}) \/ s = "PAUSED")
      BY <1>3, <2>2, <2>4, <2>5 DEF UpdateReads, UpdateCall, UpdatePoint, Moves, MovesTo
    <2>8. QueueTypeOK' /\ blurred' \in BOOLEAN /\ loose' \subseteq OnceIds
      BY <1>0, <2>7, CallsKeepQueue
    <2>9. Meet(q) \subseteq Crons \cup JobIds
      BY MeetTypes
    <2>10. Moves(x, c) => c \in Crons
      BY DEF Moves
    <2>11. disturbed' \subseteq Crons \cup JobIds
      BY <1>0, <2>7, <2>9, <2>10
    <2> QED BY <2>1, <2>2, <2>6, <2>7, <2>8, <2>11, ArriveStep
  <1>4. ASSUME NEW t \in Tasks, RemoveReads(r, t)
        PROVE  BaseInv'
    <2>1. t \in stored
      BY <1>4 DEF RemoveReads
    <2>2. PICK x : x = row[t]
      OBVIOUS
    <2>3. RowOK(x)
      BY <2>1, <2>2 DEF BaseInv, RowsOK
    <2>4. PICK q \in Request : q = RemoveCall(t, x)
      BY <2>3, RemoveRequest
    <2>5. /\ RequestOK("rmDequeue", q) /\ q.task = t /\ q.row = x
          /\ "rmDequeue" \in Points
      BY <2>3, <2>4, RemoveRequest
    <2>6. /\ Arrive(r, "rmDequeue", q)
          /\ UNCHANGED <<queueVars, tableVars, pending, countVars, loose, started, blurred>>
          /\ disturbed' = disturbed \cup Meet(q)
      BY <1>4, <2>2, <2>4 DEF RemoveReads, RemoveCall
    <2>7. QueueTypeOK' /\ disturbed' \subseteq Crons \cup JobIds
      BY <1>0, <2>5, <2>6, CallsKeepQueue, MeetTypes
    <2> QED BY <1>0, <2>1, <2>2, <2>5, <2>6, <2>7, ArriveStep
  <1>5. \A point \in {"runAdd", "pauseMark", "resumeMark"} :
           point \in Points /\ point \notin RowPoints /\ RequestOK(point, NoRequest)
    BY DEF Points, RowPoints, UpdatePoints, RemovePoints, RequestOK, FreeOK, NoRequest
  <1>6. ASSUME NEW t \in Tasks, RunNowReads(r, t)
        PROVE  BaseInv'
    <2>1. /\ Arrive(r, "runAdd", NoRequest)
          /\ UNCHANGED <<queueVars, tableVars, pending, countVars, historyVars>>
      BY <1>6 DEF RunNowReads
    <2>2. QueueTypeOK' /\ UNCHANGED <<disturbed, blurred, loose, started>>
      BY <1>0, <2>1, CallsKeepQueue DEF historyVars
    <2> QED BY <1>0, <1>5, <2>1, <2>2, RowKinds, ArriveStep
  <1>7. ASSUME PauseQueue(r) \/ ResumeQueue(r)
        PROVE  BaseInv'
    <2>1. /\ Arrive(r, "pauseMark", NoRequest) \/ Arrive(r, "resumeMark", NoRequest)
          /\ \E flag \in BOOLEAN : SetPaused(flag)
          /\ UNCHANGED <<tableVars, pending, countVars, disturbed, loose, started>>
          /\ blurred' \in BOOLEAN
      BY <1>7, <1>0 DEF PauseQueue, ResumeQueue
    <2>2. QueueTypeOK'
      BY <1>0, <2>1, CallsKeepQueue
    <2> QED BY <1>0, <1>5, <2>1, <2>2, RowKinds, ArriveStep
  <1> QED BY <1>1, <1>2, <1>3, <1>4, <1>6, <1>7 DEF RequestArrives

\* What the table's calls leave: the tasks of before, and rows in order.
TableOK ==
    /\ RowsKept /\ \A t \in stored' \cup deleted' : RowOK(row'[t])
    /\ stored' \subseteq Tasks /\ deleted' \subseteq Tasks \ stored'
    /\ row' \in [Tasks -> Row]

LEMMA InsertTable ==
  ASSUME BaseInv, NEW t \in Tasks, NEW x, RowOK(x), Insert(t, x)
  PROVE  TableOK
  <1>1. /\ row \in [Tasks -> Row] /\ x \in Row
        /\ stored \subseteq Tasks /\ deleted \subseteq Tasks \ stored
        /\ \A u \in stored \cup deleted : RowOK(row[u])
    BY DEF BaseInv, TypeOK, RowsOK, RowOK
  <1>2. /\ t \notin stored \cup deleted /\ stored' = stored \cup {t} /\ deleted' = deleted
        /\ row' = [row EXCEPT ![t] = x]
    BY DEF Insert
  <1>3. \A u \in Tasks : row'[u] = IF u = t THEN x ELSE row[u]
    BY <1>1, <1>2
  <1>4. row' \in [Tasks -> Row] /\ stored' \subseteq Tasks /\ deleted' \subseteq Tasks \ stored'
    BY <1>1, <1>2
  <1>5. \A u \in stored' \cup deleted' : RowOK(row'[u])
    BY <1>1, <1>2, <1>3
  <1>6. RowsKept
    BY <1>1, <1>2, <1>3 DEF RowsKept, SameTask
  <1> QED BY <1>4, <1>5, <1>6 DEF TableOK

\* Every stored row keeps its task and stays in order, no other row changes.
LEMMA WriteTable ==
  ASSUME BaseInv, UNCHANGED <<stored, deleted>>, row' \in [Tasks -> Row],
         \A t \in Tasks : \/ row'[t] = row[t]
                          \/ t \in stored /\ RowOK(row'[t]) /\ SameTask(row[t], row'[t])
  PROVE  TableOK
  <1>1. /\ stored \subseteq Tasks /\ deleted \subseteq Tasks \ stored
        /\ \A u \in stored \cup deleted : RowOK(row[u])
    BY DEF BaseInv, TypeOK, RowsOK
  <1>2. \A u \in stored' \cup deleted' : RowOK(row'[u])
    BY <1>1
  <1>3. RowsKept
    BY <1>1 DEF RowsKept, SameTask
  <1> QED BY <1>1, <1>2, <1>3 DEF TableOK

\* updateMany over some of the stored rows.
MarkRows(S, status) ==
    [t \in Tasks |-> IF t \in S THEN [row[t] EXCEPT !.status = status] ELSE row[t]]

LEMMA RemarkTable ==
  ASSUME BaseInv, UNCHANGED <<stored, deleted>>, NEW S \in SUBSET stored,
         NEW status \in Statuses, row' = MarkRows(S, status)
  PROVE  /\ TableOK
         /\ \A t \in stored : /\ row'[t].cron = row[t].cron
                              /\ t \in S => row'[t].status = status
                              /\ t \notin S => row'[t] = row[t]
         /\ \A t \in deleted : row'[t] = row[t]
  <1>1. /\ stored \subseteq Tasks /\ row \in [Tasks -> Row] /\ deleted \subseteq Tasks \ stored
        /\ \A u \in stored \cup deleted : RowOK(row[u])
    BY DEF BaseInv, TypeOK, RowsOK
  <1>2. ASSUME NEW t \in Tasks
        PROVE  /\ t \in S => /\ RowOK(row'[t]) /\ SameTask(row[t], row'[t])
                             /\ row'[t].cron = row[t].cron /\ row'[t].status = status
               /\ t \notin S => row'[t] = row[t]
    <2>1. CASE t \in S
      <3>1. row'[t] = [row[t] EXCEPT !.status = status]
        BY <2>1 DEF MarkRows
      <3>2. RowOK(row[t])
        BY <1>1, <2>1
      <3> QED BY <2>1, <3>1, <3>2, Remarked
    <2>2. CASE t \notin S
      BY <2>2 DEF MarkRows
    <2> QED BY <2>1, <2>2
  <1>3. \A t \in Tasks : row'[t] \in Row
    BY <1>1, <1>2 DEF RowOK
  <1>4. row' \in [Tasks -> Row]
    BY <1>3 DEF MarkRows
  <1>5. TableOK
    BY <1>2, <1>4, WriteTable
  <1> QED BY <1>1, <1>2, <1>5

\* update writes the row it read, with its own columns, if it is still there.
LEMMA UpdateTable ==
  ASSUME BaseInv, NEW r \in Requests, UpdateStores(r)
  PROVE  LET t == req[r].task
         IN  /\ TableOK
             /\ \A u \in Tasks : u # t \/ t \notin stored => row'[u] = row[u]
             /\ t \in stored =>
                   /\ row'[t].cron = IF req[r].cron = None THEN row[t].cron ELSE req[r].cron
                   /\ row'[t].status = IF req[r].status = None THEN req[r].row.status
                                                                ELSE req[r].status
  <1>1. /\ stored \subseteq Tasks /\ row \in [Tasks -> Row]
        /\ \A u \in stored \cup deleted : RowOK(row[u])
        /\ req[r] \in Request
    BY DEF BaseInv, TypeOK, RowsOK
  <1>2. pc[r] = "updStore" /\ pc[r] \in RowPoints /\ pc[r] \in UpdatePoints
    BY DEF UpdateStores, RowPoints, UpdatePoints
  <1>3. PICK q \in Request : q = req[r]
    BY <1>1
  <1>4. /\ BoundOK(pc[r], q) /\ q.task \in Tasks
        /\ SameTask(q.row, row[q.task])
    BY <1>2, <1>3, SlotFacts DEF BoundOK
  <1>5. PICK t \in Tasks : t = q.task
    BY <1>4
  <1>6. /\ row' = IF t \in stored THEN [row EXCEPT ![t] = Updated(q, row[t])] ELSE row
        /\ UNCHANGED <<stored, deleted>>
    BY <1>3, <1>5 DEF UpdateStores
  <1>7. CASE t \in stored
    <2>1. PICK x : x = row[t]
      OBVIOUS
    <2>2. RowOK(x) /\ SameTask(q.row, x)
      BY <1>1, <1>4, <1>5, <1>7, <2>1
    <2>3. /\ RowOK(Updated(q, x)) /\ SameTask(x, Updated(q, x))
          /\ Updated(q, x).cron = IF q.cron = None THEN x.cron ELSE q.cron
          /\ Updated(q, x).status = IF q.status = None THEN q.row.status ELSE q.status
      BY <1>2, <1>4, <2>2, UpdatedRow
    <2>4. PICK y : y = Updated(q, x)
      OBVIOUS
    <2>5. row' = [row EXCEPT ![t] = y]
      BY <1>6, <1>7, <2>1, <2>4
    <2>6. row'[t] = y /\ \A u \in Tasks : u # t => row'[u] = row[u]
      BY <1>1, <2>5
    <2>7. y \in Row
      BY <2>3, <2>4 DEF RowOK
    <2>8. row' \in [Tasks -> Row]
      BY <1>1, <2>5, <2>7
    <2>9. RowOK(row'[t]) /\ SameTask(row[t], row'[t])
      BY <2>1, <2>3, <2>4, <2>6
    <2>10. TableOK
      BY <1>6, <1>7, <2>6, <2>8, <2>9, WriteTable
    <2> QED BY <1>3, <1>5, <1>7, <2>1, <2>3, <2>4, <2>6, <2>10
  <1>8. CASE t \notin stored
    BY <1>1, <1>3, <1>5, <1>6, <1>8, WriteTable
  <1> QED BY <1>7, <1>8

\* A request that goes on with what it holds.
LEMMA MoveStep ==
  ASSUME BaseInv, NEW r \in Requests, NEW point \in Points,
         pc[r] \in RowPoints, point \in RowPoints, Step(r, point),
         RequestOK(point, req[r]), UNCHANGED tableVars, QueueTypeOK',
         faults' \in {faults, faults + 1}, disturbed' \subseteq Crons \cup JobIds,
         loose' \subseteq OnceIds,
         UNCHANGED <<pending, crashes, blurred, started>>
  PROVE  BaseInv'
  <1>1. /\ req \in [Requests -> Request] /\ blurred \in BOOLEAN
    BY DEF BaseInv, TypeOK
  <1>2. /\ pc' = [pc EXCEPT ![r] = point] /\ req' = req /\ arrivals' = arrivals
    BY DEF Step, Goto
  <1>3. PICK q \in Request : q = req[r]
    BY <1>1
  <1>4. req' = [req EXCEPT ![r] = q]
    BY <1>1, <1>2, <1>3
  <1>5. q.task \in stored \cup deleted /\ SameTask(q.row, row[q.task])
    BY <1>3, SlotFacts
  <1>6. q.task \in stored' \cup deleted' /\ SameTask(q.row, row'[q.task])
    BY <1>5 DEF tableVars
  <1>7. RequestOK(point, q) /\ blurred' \in BOOLEAN
    BY <1>1, <1>3
  <1> QED BY <1>2, <1>4, <1>6, <1>7, QuietTable, SlotStep

LEMMA StoresKeepBase ==
  ASSUME BaseInv, NEW r \in Requests,
         \/ \E t \in Tasks : CreateOnceStores(r, t) \/ CreateCronStores(r, t)
         \/ UpdateStores(r) \/ RemoveDeletes(r) \/ PauseMarks(r) \/ ResumeMarks(r)
         \/ \E j \in ManualIds : RunNowAdds(r, j)
  PROVE  BaseInv'
  <1>0. /\ QueueTypeOK /\ disturbed \subseteq Crons \cup JobIds /\ blurred \in BOOLEAN /\ loose \subseteq OnceIds
        /\ stored \subseteq Tasks /\ deleted \subseteq Tasks \ stored
        /\ row \in [Tasks -> Row] /\ \A u \in stored \cup deleted : RowOK(row[u])
    BY DEF BaseInv, TypeOK, RowsOK
  <1>1. ASSUME TableOK, Finish(r),
               UNCHANGED <<queueVars, pending, countVars, historyVars>>
        PROVE  BaseInv'
    <2>1. QueueTypeOK'
      BY <1>0, <1>1, CallsKeepQueue
    <2>2. /\ disturbed' \subseteq Crons \cup JobIds /\ blurred' \in BOOLEAN
          /\ loose' \subseteq OnceIds
          /\ UNCHANGED <<pending, crashes, started>> /\ faults' = faults
      BY <1>0, <1>1 DEF countVars, historyVars
    <2> QED BY <1>1, <2>1, <2>2, FinishStep DEF TableOK
  <1>2. ASSUME NEW t \in Tasks, CreateOnceStores(r, t) PROVE BaseInv'
    <2>1. pc[r] = "onceStore" /\ pc[r] \notin RowPoints
      BY <1>2 DEF CreateOnceStores, RowPoints, UpdatePoints, RemovePoints
    <2>2. req[r].job \in OnceIds
      BY <2>1, SlotFacts DEF FreeOK
    <2>3. RowOK(OnceRow(req[r].job))
      BY <2>2, RowKinds
    <2>4. TableOK
      BY <1>2, <2>3, InsertTable DEF CreateOnceStores
    <2> QED BY <1>1, <1>2, <2>4 DEF CreateOnceStores
  <1>3. ASSUME NEW t \in Tasks, CreateCronStores(r, t) PROVE BaseInv'
    <2>1. pc[r] = "cronStore" /\ pc[r] \notin RowPoints
      BY <1>3 DEF CreateCronStores, RowPoints, UpdatePoints, RemovePoints
    <2>2. req[r].job \in Instances /\ req[r].cron \in Crons
      BY <2>1, SlotFacts DEF FreeOK
    <2>3. RowOK(CronRow(req[r].cron, req[r].job))
      BY <2>2, RowKinds
    <2>4. TableOK
      BY <1>3, <2>3, InsertTable DEF CreateCronStores
    <2> QED BY <1>1, <1>3, <2>4 DEF CreateCronStores
  <1>4. ASSUME UpdateStores(r) PROVE BaseInv'
    <2>1. TableOK
      BY <1>4, UpdateTable
    <2> QED BY <1>1, <1>4, <2>1 DEF UpdateStores
  <1>5. ASSUME RemoveDeletes(r) PROVE BaseInv'
    <2>1. pc[r] \in RowPoints
      BY <1>5 DEF RemoveDeletes, RowPoints, RemovePoints
    <2>2. req[r].task \in stored \cup deleted
      BY <2>1, SlotFacts
    <2>3. /\ stored' = stored \ {req[r].task} /\ deleted' = deleted \cup {req[r].task}
          /\ row' = row
      BY <1>5 DEF RemoveDeletes
    <2>4. RowsKept
      BY <2>2, <2>3 DEF RowsKept, SameTask
    <2>5. TableOK
      BY <1>0, <2>2, <2>3, <2>4 DEF TableOK
    <2> QED BY <1>1, <1>5, <2>5 DEF RemoveDeletes
  <1>6. ASSUME PauseMarks(r) \/ ResumeMarks(r) PROVE BaseInv'
    <2>1. PICK from, to \in Statuses : Remark(from, to)
      BY <1>6 DEF PauseMarks, ResumeMarks, Statuses
    <2>2. /\ Finish(r) /\ UNCHANGED <<stored, deleted>>
          /\ UNCHANGED <<queueVars, pending, countVars, historyVars>>
      BY <1>6 DEF PauseMarks, ResumeMarks
    <2>3. PICK S \in SUBSET stored : S = {t \in stored : row[t].status = from}
      OBVIOUS
    <2>4. row' = MarkRows(S, to)
      BY <2>1, <2>3 DEF Remark, MarkRows
    <2>5. TableOK
      BY <2>2, <2>4, RemarkTable
    <2> QED BY <1>1, <2>2, <2>5
  <1>7. ASSUME NEW j \in ManualIds, RunNowAdds(r, j) PROVE BaseInv'
    <2>1. QueueTypeOK'
      BY <1>0, <1>7, CallsKeepQueue DEF RunNowAdds, JobIds
    <2>2. /\ Finish(r) /\ UNCHANGED tableVars
          /\ UNCHANGED <<pending, crashes, started, faults, disturbed, blurred, loose>>
      BY <1>7 DEF RunNowAdds, countVars, historyVars
    <2> QED BY <1>0, <2>1, <2>2, QuietTable, FinishStep
  <1> QED BY <1>2, <1>3, <1>4, <1>5, <1>6, <1>7

LEMMA MovesKeepBase ==
  ASSUME BaseInv, NEW r \in Requests,
         \/ UpdateRemovesRepeatable(r) \/ UpdateAddsRepeatable(r)
         \/ RemoveUnschedules(r) \/ RemoveDequeues(r)
  PROVE  BaseInv'
  <1>0. /\ QueueTypeOK /\ disturbed \subseteq Crons \cup JobIds /\ req[r] \in Request /\ loose \subseteq OnceIds
        /\ pc[r] \in RowPoints => BoundOK(pc[r], req[r])
    BY SlotFacts
  <1>1. /\ {"updRemove", "updAdd", "updStore", "rmDequeue", "rmDelete"} \subseteq RowPoints
        /\ {"updAdd", "updStore", "rmDelete"} \subseteq Points
    BY DEF RowPoints, UpdatePoints, RemovePoints, Points
  <1>2. ASSUME UpdateRemovesRepeatable(r) PROVE BaseInv'
    <2>1. pc[r] = "updRemove" /\ BoundOK("updRemove", req[r])
      BY <1>0, <1>1, <1>2 DEF UpdateRemovesRepeatable
    <2>2. req[r].row.key \in Crons
      BY <2>1 DEF BoundOK, RowOK, IsCron, IsOnce, RemovePoints
    <2>3. QueueTypeOK'
      BY <1>0, <1>2, <2>2, CallsKeepQueue DEF UpdateRemovesRepeatable
    <2>4. RequestOK("updAdd", req[r])
      BY <1>1, <2>1 DEF RequestOK, BoundOK, RemovePoints, UpdatePoints
    <2>5. /\ Step(r, "updAdd") /\ UNCHANGED tableVars
          /\ UNCHANGED <<pending, crashes, faults, disturbed, blurred, loose, started>>
      BY <1>2 DEF UpdateRemovesRepeatable, countVars, historyVars
    <2> QED BY <1>0, <1>1, <2>1, <2>3, <2>4, <2>5, MoveStep
  <1>3. ASSUME UpdateAddsRepeatable(r) PROVE BaseInv'
    <2>1. pc[r] = "updAdd" /\ BoundOK("updAdd", req[r])
      BY <1>0, <1>1, <1>3 DEF UpdateAddsRepeatable
    <2>2. req[r].cron \in Crons
      BY <1>0, <2>1 DEF BoundOK, Request, UpdatePoints
    <2>3. QueueTypeOK'
      BY <1>0, <1>3, <2>2, CallsKeepQueue DEF UpdateAddsRepeatable
    <2>4. RequestOK("updStore", req[r])
      BY <1>1, <2>1 DEF RequestOK, BoundOK, RemovePoints, UpdatePoints
    <2>5. /\ Step(r, "updStore") /\ UNCHANGED tableVars
          /\ UNCHANGED <<pending, crashes, faults, disturbed, blurred, loose, started>>
      BY <1>3 DEF UpdateAddsRepeatable, countVars, historyVars
    <2> QED BY <1>0, <1>1, <2>1, <2>3, <2>4, <2>5, MoveStep
  <1>4. ASSUME RemoveUnschedules(r) \/ RemoveDequeues(r) PROVE BaseInv'
    <2>1. pc[r] = "rmDequeue" /\ BoundOK("rmDequeue", req[r])
      BY <1>0, <1>1, <1>4 DEF RemoveUnschedules, RemoveDequeues
    <2>2. RequestOK("rmDelete", req[r])
      BY <1>1, <2>1 DEF RequestOK, BoundOK, RemovePoints, UpdatePoints
    <2>3. Step(r, "rmDelete") /\ UNCHANGED tableVars /\ UNCHANGED <<pending, blurred, started>>
      BY <1>4 DEF RemoveUnschedules, RemoveDequeues, historyVars
    <2>4. CASE RemoveUnschedules(r)
      <3>1. req[r].row.key \in Crons
        BY <2>1, <2>4 DEF BoundOK, RowOK, IsCron, IsOnce, RemoveUnschedules
      <3>2. QueueTypeOK'
        BY <1>0, <2>4, <3>1, CallsKeepQueue DEF RemoveUnschedules
      <3>3. UNCHANGED <<crashes, faults, disturbed, loose>>
        BY <2>4 DEF RemoveUnschedules, countVars, historyVars
      <3> QED BY <1>0, <1>1, <2>1, <2>2, <2>3, <3>2, <3>3, MoveStep
    <2>5. CASE RemoveDequeues(r)
      <3>1. req[r].row.job \in JobIds
        BY <2>1, <2>5 DEF BoundOK, RowOK, IsCron, IsOnce, RemoveDequeues, JobIds
      <3>2. QueueTypeOK'
        BY <1>0, <2>5, <3>1, CallsKeepQueue DEF RemoveDequeues
      <3>3. /\ UNCHANGED crashes /\ faults' \in {faults, faults + 1}
            /\ disturbed' \subseteq Crons \cup JobIds /\ loose' \subseteq OnceIds
        BY <1>0, <2>1, <2>5, <3>1 DEF RemoveDequeues, countVars, BoundOK, RowOK, IsCron, IsOnce
      <3> QED BY <1>0, <1>1, <2>1, <2>2, <2>3, <3>2, <3>3, MoveStep
    <2> QED BY <1>4, <2>4, <2>5
  <1> QED BY <1>2, <1>3, <1>4

LEMMA FailuresKeepBase ==
  ASSUME BaseInv, NEW r \in Requests, RequestFails(r)
  PROVE  BaseInv'
  <1>1. /\ QueueTypeOK /\ disturbed \subseteq Crons \cup JobIds /\ req[r] \in Request
        /\ loose \subseteq OnceIds /\ blurred \in BOOLEAN
    BY SlotFacts
  <1>2. /\ Finish(r) /\ UNCHANGED tableVars /\ UNCHANGED <<pending, crashes, loose, started>>
        /\ faults' = faults + 1 /\ blurred' \in BOOLEAN
        /\ disturbed' = disturbed \cup Touched(req[r])
    BY DEF RequestFails
  <1>3. QueueTypeOK'
    BY <1>1, CallsKeepQueue DEF RequestFails
  <1>4. disturbed' \subseteq Crons \cup JobIds /\ loose' \subseteq OnceIds
    BY <1>1, <1>2, TouchedTypes
  <1> QED BY <1>2, <1>3, <1>4, QuietTable, FinishStep

LEMMA CrashKeepsBase ==
  ASSUME BaseInv, Crash
  PROVE  BaseInv'
  <1>1. /\ QueueTypeOK /\ disturbed \subseteq Crons \cup JobIds /\ blurred \in BOOLEAN /\ loose \subseteq OnceIds
        /\ crashes \in Nat
    BY DEF BaseInv, TypeOK
  <1>2. QueueTypeOK'
    <2>1. job' \in [JobIds -> {"none", "delayed", "waiting", "active", "stalled", "done"}]
      BY <1>1 DEF Crash, LoseWorker, QueueTypeOK
    <2> QED BY <1>1, <2>1 DEF Crash, LoseWorker, QueueTypeOK
  <1>3. UNCHANGED <<stored, deleted, row, arrivals, faults, loose, started>> /\ crashes' \in Nat
    BY <1>1 DEF Crash, tableVars
  <1>4. disturbed' = disturbed \cup UNION {Touched(req[r]) : r \in Requests}
    BY DEF Crash
  <1>5. UNION {Touched(req[r]) : r \in Requests} \subseteq Crons \cup JobIds
    BY RowKinds, MeetTypes
  <1>6. disturbed' \subseteq Crons \cup JobIds
    BY <1>1, <1>4, <1>5
  <1>7. /\ pc' = [r \in Requests |-> "idle"] /\ req' = [r \in Requests |-> NoRequest]
        /\ pending' = {} /\ blurred' \in BOOLEAN
    BY <1>1 DEF Crash
  <1>8. "idle" \in Points /\ NoRequest \in Request
    BY RowKinds DEF Points
  <1>9. TypeOK'
    BY <1>2, <1>3, <1>6, <1>7, <1>8 DEF BaseInv, TypeOK
  <1>10. ASSUME NEW r \in Requests PROVE RequestOK(pc'[r], req'[r]) /\ pc'[r] \notin RowPoints
    BY <1>7 DEF RequestOK, FreeOK, NoRequest, RowPoints, UpdatePoints, RemovePoints
  <1>11. RowsOK'
    BY <1>3, <1>10 DEF BaseInv, RowsOK
  <1>12. UpdatesOK'
    BY <1>7 DEF UpdatesOK
  <1> QED BY <1>9, <1>11, <1>12 DEF BaseInv

LEMMA WorkerKeepsBase ==
  ASSUME BaseInv, NEW j \in JobIds, WorkerStep(j) \/ QueueTurns(j)
  PROVE  BaseInv'
  <1>1. UNCHANGED <<tableVars, requestVars, countVars, disturbed, blurred, loose>>
    BY DEF WorkerStep, StartJob, FinishJob, StalledJob, QueueTurns, historyVars
  <1>2. /\ pending' \subseteq pending \cup ({j} \X {"RUNNING", "COMPLETED", "FAILED"})
        /\ started' \subseteq OnceIds
    BY DEF BaseInv, TypeOK, WorkerStep, StartJob, FinishJob, StalledJob, QueueTurns, historyVars
  <1>3. QueueTypeOK'
    <2>1. QueueTypeOK
      BY DEF BaseInv, TypeOK
    <2>2. \/ JobDue(j) \/ TakeJob(j) \/ CompleteJob(j)
          \/ RetryStalled(j) \/ FailStalled(j) \/ ForgetJob(j)
      BY DEF WorkerStep, StartJob, FinishJob, StalledJob, QueueTurns
    <2> QED BY <2>1, <2>2, StepsKeepQueue
  <1>4. pending' \subseteq JobIds \X Statuses /\ UpdatesOK'
    BY <1>2 DEF BaseInv, TypeOK, UpdatesOK, Statuses
  <1>5. TypeOK'
    BY <1>1, <1>2, <1>3, <1>4
       DEF BaseInv, TypeOK, tableVars, requestVars, countVars
  <1>6. RowsOK'
    BY <1>1 DEF BaseInv, RowsOK, tableVars, requestVars
  <1> QED BY <1>4, <1>5, <1>6 DEF BaseInv

\* An update of a worker event: at most the status of stored rows.
LEMMA UpdatesTable ==
  ASSUME BaseInv, NEW u \in pending, ApplyUpdate(u[1], u[2])
  PROVE  /\ TableOK
         /\ \A t \in stored : /\ row'[t].cron = row[t].cron
                              /\ row'[t].status \in {row[t].status, u[2]}
         /\ \A t \in deleted : row'[t] = row[t]
  <1>1. u[2] \in Statuses /\ stored \subseteq Tasks
    BY DEF BaseInv, TypeOK
  <1>2. PICK s \in Statuses : s = u[2]
    BY <1>1
  <1>3. PICK S \in SUBSET stored : S = {t \in stored : row[t].job = u[1]}
    OBVIOUS
  <1>4. row' = MarkRows(S, s)
    BY <1>2, <1>3 DEF ApplyUpdate, MarkRows
  <1>5. UNCHANGED <<stored, deleted>>
    BY DEF ApplyUpdate
  <1>6. /\ TableOK
        /\ \A t \in stored : /\ row'[t].cron = row[t].cron
                             /\ t \in S => row'[t].status = s
                             /\ t \notin S => row'[t] = row[t]
        /\ \A t \in deleted : row'[t] = row[t]
    BY <1>4, <1>5, RemarkTable
  <1> QED BY <1>2, <1>6

LEMMA UpdatesKeepBase ==
  ASSUME BaseInv, NEW u \in pending, ApplyUpdate(u[1], u[2]) \/ DropUpdate(u[1], u[2])
  PROVE  BaseInv'
  <1>1. /\ UNCHANGED <<queueVars, stored, deleted, requestVars, crashes, historyVars>>
        /\ faults' \in {faults, faults + 1} /\ pending' \subseteq pending
    BY DEF ApplyUpdate, DropUpdate, tableVars, countVars
  <1>2. QueueTypeOK'
    BY <1>1, CallsKeepQueue DEF BaseInv, TypeOK
  <1>3. TableOK
    <2>1. CASE ApplyUpdate(u[1], u[2])
      BY <2>1, UpdatesTable
    <2>2. CASE DropUpdate(u[1], u[2])
      <3>1. UNCHANGED tableVars
        BY <2>2 DEF DropUpdate
      <3> QED BY <3>1, QuietTable DEF TableOK
    <2> QED BY <2>1, <2>2
  <1>4. TypeOK'
    BY <1>1, <1>2, <1>3 DEF BaseInv, TypeOK, TableOK, requestVars, historyVars
  <1>5. ASSUME NEW r \in Requests
        PROVE  /\ RequestOK(pc'[r], req'[r])
               /\ pc'[r] \in RowPoints =>
                     /\ req'[r].task \in stored' \cup deleted'
                     /\ SameTask(req'[r].row, row'[req'[r].task])
    <2>1. pc' = pc /\ req' = req
      BY <1>1 DEF requestVars
    <2>2. CASE pc[r] \in RowPoints
      <3>1. PICK t \in stored \cup deleted : t = req[r].task
        BY <2>2, SlotFacts
      <3>2. SameTask(req[r].row, row[t]) /\ RequestOK(pc[r], req[r])
        BY <2>2, <3>1, SlotFacts
      <3>3. t \in stored' \cup deleted' /\ SameTask(row[t], row'[t])
        BY <1>3 DEF TableOK, RowsKept
      <3>4. SameTask(req[r].row, row'[t])
        BY <3>2, <3>3 DEF SameTask
      <3> QED BY <2>1, <3>1, <3>2, <3>3, <3>4
    <2>3. CASE pc[r] \notin RowPoints
      BY <2>1, <2>3, SlotFacts
    <2> QED BY <2>2, <2>3
  <1>6. RowsOK'
    BY <1>3, <1>5 DEF RowsOK, TableOK
  <1>7. UpdatesOK'
    BY <1>1 DEF BaseInv, UpdatesOK
  <1> QED BY <1>4, <1>6, <1>7 DEF BaseInv

\* The kinds of step, the way the proofs take them.
LEMMA StepKinds ==
  ASSUME Next
  PROVE  \/ \E r \in Requests : \/ RequestArrives(r) \/ RequestStep(r) \/ RequestFails(r)
         \/ \E j \in JobIds : WorkerStep(j) \/ QueueTurns(j)
         \/ \E u \in pending : ApplyUpdate(u[1], u[2]) \/ DropUpdate(u[1], u[2])
         \/ Crash
  BY DEF Next

LEMMA BaseStep == BaseInv /\ [Next]_vars => BaseInv'
  <1> SUFFICES ASSUME BaseInv, [Next]_vars PROVE BaseInv' OBVIOUS
  <1>1. CASE UNCHANGED vars
    <2>1. QueueTypeOK'
      BY <1>1, CallsKeepQueue DEF vars, BaseInv, TypeOK
    <2>2. UNCHANGED <<tableVars, pending, requestVars, countVars, historyVars>>
      BY <1>1 DEF vars
    <2>3. TypeOK'
      BY <2>1, <2>2 DEF BaseInv, TypeOK, tableVars, requestVars, countVars, historyVars
    <2>4. RowsOK'
      BY <2>2 DEF BaseInv, RowsOK, tableVars, requestVars
    <2>5. UpdatesOK'
      BY <2>2 DEF BaseInv, UpdatesOK
    <2> QED BY <2>3, <2>4, <2>5 DEF BaseInv
  <1>2. ASSUME NEW r \in Requests, RequestStep(r) PROVE BaseInv'
    BY <1>2, StoresKeepBase, MovesKeepBase DEF RequestStep
  <1>3. CASE Next
    BY <1>2, <1>3, StepKinds, ArrivalsKeepBase, FailuresKeepBase, CrashKeepsBase,
       WorkerKeepsBase, UpdatesKeepBase
  <1> QED BY <1>1, <1>3

-----------------------------------------------------------------------------
(* The pause flag *)

\* What an action on one request's slot that leaves the flag has to show.
LEMMA PauseSlot ==
  ASSUME BaseInv, PauseOK, NEW r \in Requests, NEW point \in Points, NEW q \in Request,
         pc' = [pc EXCEPT ![r] = point], req' = [req EXCEPT ![r] = q],
         paused' = paused, ~blurred' => ~blurred, point \notin {"pauseMark", "resumeMark"},
         ~blurred' /\ pc[r] = "resumeMark" => \A t \in stored' : row'[t].status # "PAUSED",
         ~blurred' /\ point \in UpdatePoints =>
            q.status # "PAUSED" /\ (q.row.status = "PAUSED" => paused),
         ~blurred' /\ ~paused => \A t \in stored' :
            row'[t].status = "PAUSED" => t \in stored /\ row[t].status = "PAUSED"
  PROVE  PauseOK'
  <1> SUFFICES ASSUME ~blurred'
               PROVE  /\ InFlight({"pauseMark"})' => paused' /\ ~InFlight({"resumeMark"})'
                      /\ (~paused' /\ \E t \in stored' : row'[t].status = "PAUSED")
                            => InFlight({"resumeMark"})'
                      /\ \A s \in Requests : pc'[s] \in UpdatePoints =>
                            /\ req'[s].status # "PAUSED"
                            /\ req'[s].row.status = "PAUSED" => paused'
    BY DEF PauseOK
  <1>1. /\ pc'[r] = point /\ req'[r] = q
        /\ \A s \in Requests \ {r} : pc'[s] = pc[s] /\ req'[s] = req[s]
    BY DEF BaseInv, TypeOK
  <1>2. /\ InFlight({"pauseMark"}) => paused /\ ~InFlight({"resumeMark"})
        /\ (~paused /\ \E t \in stored : row[t].status = "PAUSED") => InFlight({"resumeMark"})
        /\ \A s \in Requests : pc[s] \in UpdatePoints =>
              /\ req[s].status # "PAUSED"
              /\ req[s].row.status = "PAUSED" => paused
    BY DEF PauseOK
  <1>3. InFlight({"pauseMark"})' => paused' /\ ~InFlight({"resumeMark"})'
    BY <1>1, <1>2 DEF InFlight
  <1>4. ASSUME ~paused', NEW t \in stored', row'[t].status = "PAUSED"
        PROVE  InFlight({"resumeMark"})'
    <2>1. t \in stored /\ row[t].status = "PAUSED" /\ ~paused
      BY <1>4
    <2>2. PICK s \in Requests : pc[s] = "resumeMark"
      BY <1>2, <2>1 DEF InFlight
    <2>3. s # r
      BY <1>4, <2>2
    <2> QED BY <1>1, <2>2, <2>3 DEF InFlight
  <1>5. ASSUME NEW s \in Requests, pc'[s] \in UpdatePoints
        PROVE  req'[s].status # "PAUSED" /\ (req'[s].row.status = "PAUSED" => paused')
    <2>1. CASE s = r
      BY <1>1, <1>5, <2>1
    <2>2. CASE s # r
      BY <1>1, <1>2, <1>5, <2>2
    <2> QED BY <2>1, <2>2
  <1> QED BY <1>3, <1>4, <1>5

\* A request that finishes: the flag stays, and nobody is marked anew.
LEMMA PauseFinish ==
  ASSUME BaseInv, PauseOK, NEW r \in Requests, Finish(r),
         paused' = paused, ~blurred' => ~blurred,
         ~blurred' /\ pc[r] = "resumeMark" => \A t \in stored' : row'[t].status # "PAUSED",
         ~blurred' /\ ~paused => \A t \in stored' :
            row'[t].status = "PAUSED" => t \in stored /\ row[t].status = "PAUSED"
  PROVE  PauseOK'
  <1>1. /\ "idle" \in Points /\ "idle" \notin {"pauseMark", "resumeMark"}
        /\ "idle" \notin UpdatePoints
    BY DEF Points, UpdatePoints
  <1>2. pc' = [pc EXCEPT ![r] = "idle"] /\ req' = [req EXCEPT ![r] = NoRequest]
    BY DEF Finish, Goto
  <1> QED BY <1>1, <1>2, RowKinds, PauseSlot

\* A request that arrives, or goes on, while the table stays as it is.
LEMMA PauseMove ==
  ASSUME BaseInv, PauseOK, NEW r \in Requests, NEW point \in Points, NEW q \in Request,
         pc' = [pc EXCEPT ![r] = point], req' = [req EXCEPT ![r] = q],
         paused' = paused, ~blurred' => ~blurred, point \notin {"pauseMark", "resumeMark"},
         pc[r] # "resumeMark", UNCHANGED tableVars,
         ~blurred' /\ point \in UpdatePoints =>
            q.status # "PAUSED" /\ (q.row.status = "PAUSED" => paused)
  PROVE  PauseOK'
  <1>1. stored' = stored /\ row' = row
    BY DEF tableVars
  <1> QED BY <1>1, PauseSlot

LEMMA PauseArrivals ==
  ASSUME BaseInv, PauseOK, NEW r \in Requests, RequestArrives(r)
  PROVE  PauseOK'
  <1>1. ASSUME NEW point \in Points, NEW q \in Request, Arrive(r, point, q),
               point \notin {"pauseMark", "resumeMark"}, paused' = paused,
               UNCHANGED tableVars, ~blurred' => ~blurred,
               ~blurred' /\ point \in UpdatePoints =>
                  q.status # "PAUSED" /\ (q.row.status = "PAUSED" => paused)
        PROVE  PauseOK'
    <2>1. /\ pc' = [pc EXCEPT ![r] = point] /\ req' = [req EXCEPT ![r] = q]
          /\ pc[r] # "resumeMark"
      BY <1>1 DEF Arrive, Goto
    <2> QED BY <1>1, <2>1, PauseMove
  <1>2. ASSUME NEW j \in OnceIds, CreateOnceAdds(r, j) PROVE PauseOK'
    <2>1. PICK q \in Request : q = OnceCall(j)
      BY OnceRequest
    <2>2. /\ Arrive(r, "onceStore", q) /\ paused' = paused
          /\ UNCHANGED tableVars /\ blurred' = blurred
      BY <1>2, <2>1 DEF CreateOnceAdds, AddJob, OnceCall
    <2>3. "onceStore" \in Points /\ "onceStore" \notin UpdatePoints
      BY DEF Points, UpdatePoints
    <2> QED BY <1>1, <2>2, <2>3
  <1>3. ASSUME NEW c \in Crons, CreateCronAdds(r, c) PROVE PauseOK'
    <2>1. next[c] \in 1..(MaxInstances + 1) /\ next[c] <= MaxInstances
      BY <1>3 DEF BaseInv, TypeOK, QueueTypeOK, CreateCronAdds, AddRepeatable
    <2>2. PICK j \in Instances : j = <<c, next[c]>>
      BY <2>1, InstanceTypes
    <2>3. PICK q \in Request : q = CronCall(c, j)
      BY CronRequest
    <2>4. /\ Arrive(r, "cronStore", q) /\ paused' = paused
          /\ UNCHANGED tableVars /\ blurred' = blurred
      BY <1>3, <2>2, <2>3 DEF CreateCronAdds, AddRepeatable, CronCall
    <2>5. "cronStore" \in Points /\ "cronStore" \notin UpdatePoints
      BY DEF Points, UpdatePoints
    <2> QED BY <1>1, <2>4, <2>5
  <1>4. ASSUME NEW t \in Tasks, NEW c \in Crons \cup {None},
               NEW s \in ClientStatuses \cup {None}, UpdateReads(r, t, c, s)
        PROVE  PauseOK'
    <2>1. t \in stored
      BY <1>4 DEF UpdateReads
    <2>2. PICK x : x = row[t]
      OBVIOUS
    <2>3. RowOK(x)
      BY <2>1, <2>2 DEF BaseInv, RowsOK
    <2>4. PICK q \in Request : q = UpdateCall(t, x, c, s)
      BY <2>3, UpdateRequest
    <2>5. PICK point \in Points : point = UpdatePoint(x, c)
      BY <2>3, UpdateRequest
    <2>6. q.row = x /\ q.status = s /\ point \in UpdatePoints
      BY <2>3, <2>4, <2>5, UpdateRequest
    <2>7. /\ Arrive(r, point, q) /\ UNCHANGED tableVars /\ paused' = paused
          /\ blurred' = (blurred \/ InFlight({"resumeMark"}) \/ s = "PAUSED")
      BY <1>4, <2>2, <2>4, <2>5
         DEF UpdateReads, UpdateCall, UpdatePoint, Moves, MovesTo, queueVars
    <2>8. point \notin {"pauseMark", "resumeMark"}
      BY <2>6 DEF UpdatePoints
    <2>9. ~blurred' => ~blurred /\ q.status # "PAUSED"
                                /\ (q.row.status = "PAUSED" => paused)
      BY <2>1, <2>2, <2>6, <2>7 DEF PauseOK
    <2> QED BY <1>1, <2>7, <2>8, <2>9
  <1>5. ASSUME NEW t \in Tasks, RemoveReads(r, t) PROVE PauseOK'
    <2>1. t \in stored
      BY <1>5 DEF RemoveReads
    <2>2. PICK x : x = row[t]
      OBVIOUS
    <2>3. RowOK(x)
      BY <2>1, <2>2 DEF BaseInv, RowsOK
    <2>4. PICK q \in Request : q = RemoveCall(t, x)
      BY <2>3, RemoveRequest
    <2>5. /\ Arrive(r, "rmDequeue", q) /\ paused' = paused
          /\ UNCHANGED tableVars /\ blurred' = blurred
      BY <1>5, <2>2, <2>4 DEF RemoveReads, RemoveCall, queueVars
    <2>6. "rmDequeue" \in Points /\ "rmDequeue" \notin UpdatePoints
      BY DEF Points, UpdatePoints
    <2> QED BY <1>1, <2>5, <2>6
  <1>6. ASSUME NEW t \in Tasks, RunNowReads(r, t) PROVE PauseOK'
    <2>1. /\ Arrive(r, "runAdd", NoRequest) /\ paused' = paused
          /\ UNCHANGED tableVars /\ blurred' = blurred
      BY <1>6 DEF RunNowReads, queueVars, historyVars
    <2>2. "runAdd" \in Points /\ "runAdd" \notin UpdatePoints /\ NoRequest \in Request
      BY RowKinds DEF Points, UpdatePoints
    <2> QED BY <1>1, <2>1, <2>2
  <1>7. /\ pc \in [Requests -> Points] /\ blurred \in BOOLEAN
        /\ {"pauseMark", "resumeMark"} \cap UpdatePoints = {}
    BY DEF BaseInv, TypeOK, UpdatePoints
  <1>8. ASSUME PauseQueue(r) PROVE PauseOK'
    <2>1. /\ pc' = [pc EXCEPT ![r] = "pauseMark"] /\ req' = [req EXCEPT ![r] = NoRequest]
          /\ paused' = TRUE /\ blurred' = (blurred \/ InFlight({"resumeMark"}))
          /\ pc[r] = "idle"
      BY <1>8 DEF PauseQueue, Arrive, Goto, SetPaused
    <2>2. /\ pc'[r] = "pauseMark"
          /\ \A s \in Requests \ {r} : pc'[s] = pc[s] /\ req'[s] = req[s]
      BY <1>7, <2>1 DEF BaseInv, TypeOK
    <2>3. ASSUME ~blurred' PROVE ~InFlight({"resumeMark"})'
      BY <2>1, <2>2, <2>3 DEF InFlight
    <2>4. ASSUME ~blurred', NEW s \in Requests, pc'[s] \in UpdatePoints
          PROVE  req'[s].status # "PAUSED"
      <3>1. s # r
        BY <1>7, <2>2, <2>4
      <3> QED BY <2>1, <2>2, <2>4, <3>1 DEF PauseOK
    <2> QED BY <2>1, <2>3, <2>4 DEF PauseOK
  <1>9. ASSUME ResumeQueue(r) PROVE PauseOK'
    <2>1. /\ pc' = [pc EXCEPT ![r] = "resumeMark"] /\ pc[r] = "idle"
          /\ blurred' = (blurred \/ InFlight({"pauseMark"} \cup UpdatePoints))
      BY <1>9 DEF ResumeQueue, Arrive, Goto
    <2>2. pc'[r] = "resumeMark" /\ \A s \in Requests \ {r} : pc'[s] = pc[s]
      BY <1>7, <2>1
    <2>3. InFlight({"resumeMark"})'
      BY <2>2 DEF InFlight
    <2>4. ASSUME ~blurred', NEW s \in Requests
          PROVE  pc'[s] # "pauseMark" /\ pc'[s] \notin UpdatePoints
      BY <1>7, <2>1, <2>2, <2>4 DEF InFlight
    <2> QED BY <2>3, <2>4 DEF PauseOK, InFlight
  <1> QED BY <1>2, <1>3, <1>4, <1>5, <1>6, <1>8, <1>9 DEF RequestArrives

LEMMA PauseSteps ==
  ASSUME BaseInv, PauseOK, NEW r \in Requests, RequestStep(r)
  PROVE  PauseOK'
  <1>0. /\ req \in [Requests -> Request] /\ req[r] \in Request /\ blurred \in BOOLEAN
        /\ stored \subseteq Tasks /\ row \in [Tasks -> Row]
    BY DEF BaseInv, TypeOK
  <1>1. ASSUME NEW t \in Tasks, NEW x, Insert(t, x), x.status = "SCHEDULED",
               Finish(r), pc[r] # "resumeMark", UNCHANGED <<queueVars, historyVars>>
        PROVE  PauseOK'
    <2>1. /\ stored' = stored \cup {t} /\ row'[t] = x
          /\ \A u \in Tasks \ {t} : row'[u] = row[u]
      BY <1>0, <1>1 DEF Insert
    <2>2. \A u \in stored' : row'[u].status = "PAUSED" => u \in stored /\ row[u].status = "PAUSED"
      BY <1>0, <1>1, <2>1
    <2>3. paused' = paused /\ blurred' = blurred
      BY <1>1 DEF queueVars, historyVars
    <2> QED BY <1>1, <2>2, <2>3, PauseFinish
  <1>2. ASSUME NEW t \in Tasks, CreateOnceStores(r, t) \/ CreateCronStores(r, t)
        PROVE  PauseOK'
    <2>1. PICK x : Insert(t, x) /\ x.status = "SCHEDULED"
      <3>1. ASSUME NEW j PROVE OnceRow(j).status = "SCHEDULED"
        BY DEF OnceRow, NoRow
      <3>2. ASSUME NEW j, NEW c PROVE CronRow(c, j).status = "SCHEDULED"
        BY DEF CronRow
      <3> QED BY <1>2, <3>1, <3>2 DEF CreateOnceStores, CreateCronStores
    <2> QED BY <1>1, <1>2, <2>1 DEF CreateOnceStores, CreateCronStores
  <1>3. ASSUME UpdateStores(r) PROVE PauseOK'
    <2>1. /\ Finish(r) /\ paused' = paused /\ blurred' = blurred /\ stored' = stored
          /\ pc[r] = "updStore" /\ pc[r] \in UpdatePoints
      BY <1>3 DEF UpdateStores, queueVars, historyVars, UpdatePoints
    <2>2. ASSUME ~blurred', ~paused, NEW u \in stored', row'[u].status = "PAUSED"
          PROVE  row[u].status = "PAUSED"
      <3>1. u \in stored /\ u \in Tasks
        BY <1>0, <2>1
      <3>2. CASE u # req[r].task
        BY <1>3, <2>2, <3>1, <3>2, UpdateTable
      <3>3. CASE u = req[r].task
        <4>1. row'[u].status = IF req[r].status = None THEN req[r].row.status
                                                       ELSE req[r].status
          BY <1>3, <3>1, <3>3, UpdateTable
        <4>2. /\ req[r].status # "PAUSED"
              /\ req[r].row.status # "PAUSED"
          BY <2>1, <2>2 DEF PauseOK
        <4> QED BY <2>2, <4>1, <4>2
      <3> QED BY <3>2, <3>3
    <2> QED BY <2>1, <2>2, PauseFinish
  <1>4. ASSUME RemoveDeletes(r) PROVE PauseOK'
    <2>1. /\ Finish(r) /\ paused' = paused /\ blurred' = blurred /\ pc[r] # "resumeMark"
          /\ stored' \subseteq stored /\ row' = row
      BY <1>4 DEF RemoveDeletes, queueVars, historyVars
    <2> QED BY <2>1, PauseFinish
  <1>5. ASSUME NEW from \in Statuses, NEW to \in Statuses, Remark(from, to),
               UNCHANGED <<stored, deleted>>
        PROVE  \A t \in stored' : /\ row[t].status = from => row'[t].status = to
                                  /\ row[t].status # from => row'[t] = row[t]
    <2>1. PICK S \in SUBSET stored : S = {t \in stored : row[t].status = from}
      OBVIOUS
    <2>2. row' = MarkRows(S, to)
      BY <1>5, <2>1 DEF Remark, MarkRows
    <2>3. \A t \in stored : /\ t \in S => row'[t].status = to
                            /\ t \notin S => row'[t] = row[t]
      BY <1>5, <2>2, RemarkTable
    <2> QED BY <1>5, <2>1, <2>3
  <1>6. {"SCHEDULED", "PAUSED"} \subseteq Statuses
    BY DEF Statuses
  <1>7. ASSUME PauseMarks(r) PROVE PauseOK'
    <2>1. /\ Finish(r) /\ paused' = paused /\ blurred' = blurred /\ pc[r] = "pauseMark"
      BY <1>7 DEF PauseMarks, queueVars, historyVars
    <2>2. ~blurred => paused
      BY <2>1 DEF PauseOK, InFlight
    <2> QED BY <2>1, <2>2, PauseFinish
  <1>8. ASSUME ResumeMarks(r) PROVE PauseOK'
    <2>1. /\ Finish(r) /\ paused' = paused /\ blurred' = blurred /\ pc[r] = "resumeMark"
          /\ UNCHANGED <<stored, deleted>> /\ Remark("PAUSED", "SCHEDULED")
      BY <1>8 DEF ResumeMarks, queueVars, historyVars
    <2>2. \A t \in stored' : row'[t].status # "PAUSED"
      BY <1>5, <1>6, <2>1
    <2> QED BY <2>1, <2>2, PauseFinish
  <1>9. ASSUME NEW j \in ManualIds, RunNowAdds(r, j) PROVE PauseOK'
    <2>1. /\ Finish(r) /\ paused' = paused /\ blurred' = blurred /\ pc[r] # "resumeMark"
          /\ stored' = stored /\ row' = row
      BY <1>9 DEF RunNowAdds, AddJob, historyVars, tableVars
    <2> QED BY <2>1, PauseFinish
  <1>10. ASSUME NEW point \in Points, Step(r, point), paused' = paused, blurred' = blurred,
                UNCHANGED tableVars, point \notin {"pauseMark", "resumeMark"},
                pc[r] # "resumeMark",
                point \in UpdatePoints => pc[r] \in UpdatePoints
         PROVE  PauseOK'
    <2>1. PICK q \in Request : q = req[r]
      BY <1>0
    <2>2. pc' = [pc EXCEPT ![r] = point] /\ req' = [req EXCEPT ![r] = q]
      BY <1>0, <1>10, <2>1 DEF Step, Goto
    <2>3. ~blurred /\ point \in UpdatePoints =>
             q.status # "PAUSED" /\ (q.row.status = "PAUSED" => paused)
      BY <1>10, <2>1 DEF PauseOK
    <2> QED BY <1>10, <2>2, <2>3, PauseMove
  <1>11. ASSUME UpdateRemovesRepeatable(r) \/ UpdateAddsRepeatable(r) PROVE PauseOK'
    <2>1. /\ Step(r, "updAdd") \/ Step(r, "updStore")
          /\ paused' = paused /\ blurred' = blurred /\ UNCHANGED tableVars
          /\ pc[r] \in {"updRemove", "updAdd"}
      BY <1>11 DEF UpdateRemovesRepeatable, UpdateAddsRepeatable, RemoveRepeatable,
                   AddRepeatable, historyVars
    <2> QED BY <1>10, <2>1 DEF UpdatePoints, Points
  <1>12. ASSUME RemoveUnschedules(r) \/ RemoveDequeues(r) PROVE PauseOK'
    <2>1. /\ Step(r, "rmDelete") /\ blurred' = blurred /\ UNCHANGED tableVars
          /\ pc[r] = "rmDequeue"
      BY <1>12 DEF RemoveUnschedules, RemoveDequeues, historyVars
    <2>2. paused' = paused
      BY <1>12 DEF RemoveUnschedules, RemoveDequeues, RemoveRepeatable, RemoveJob, queueVars
    <2> QED BY <1>10, <2>1, <2>2 DEF UpdatePoints, Points
  <1> QED BY <1>2, <1>3, <1>4, <1>7, <1>8, <1>9, <1>11, <1>12 DEF RequestStep

LEMMA PauseOthers ==
  ASSUME BaseInv, PauseOK,
         \/ \E j \in JobIds : WorkerStep(j) \/ QueueTurns(j)
         \/ \E u \in pending : ApplyUpdate(u[1], u[2]) \/ DropUpdate(u[1], u[2])
  PROVE  PauseOK'
  <1>1. /\ paused' = paused /\ blurred' = blurred /\ pc' = pc /\ req' = req
        /\ stored' = stored
    BY DEF WorkerStep, StartJob, FinishJob, StalledJob, QueueTurns, ApplyUpdate, DropUpdate,
           TakeJob, CompleteJob, RetryStalled, FailStalled, JobDue, ForgetJob,
           queueVars, tableVars, requestVars, historyVars
  <1>2. ASSUME NEW t \in stored', row'[t].status = "PAUSED"
        PROVE  row[t].status = "PAUSED"
    <2>1. CASE \E u \in pending : ApplyUpdate(u[1], u[2])
      <3>1. PICK u \in pending : ApplyUpdate(u[1], u[2])
        BY <2>1
      <3>2. row'[t].status \in {row[t].status, u[2]}
        BY <1>1, <3>1, UpdatesTable
      <3>3. u[2] # "PAUSED"
        BY DEF BaseInv, UpdatesOK
      <3> QED BY <1>2, <3>2, <3>3
    <2>2. CASE row' = row
      BY <1>2, <2>2
    <2>3. \/ row' = row
          \/ \E u \in pending : ApplyUpdate(u[1], u[2])
      BY DEF WorkerStep, StartJob, FinishJob, StalledJob, QueueTurns, DropUpdate, tableVars
    <2> QED BY <2>1, <2>2, <2>3
  <1> QED BY <1>1, <1>2 DEF PauseOK, InFlight

LEMMA PauseStep ==
  ASSUME BaseInv, PauseOK, [Next]_vars
  PROVE  PauseOK'
  <1>1. CASE UNCHANGED vars
    BY <1>1 DEF vars, queueVars, tableVars, requestVars, historyVars, PauseOK, InFlight
  <1>2. ASSUME NEW r \in Requests, RequestFails(r) PROVE PauseOK'
    <2>1. /\ Finish(r) /\ paused' = paused /\ stored' = stored /\ row' = row
          /\ blurred' = (blurred \/ pc[r] = "resumeMark")
      BY <1>2 DEF RequestFails, queueVars, tableVars
    <2> QED BY <2>1, PauseFinish
  <1>3. ASSUME Crash PROVE PauseOK'
    <2>1. /\ pc' = [r \in Requests |-> "idle"] /\ paused' = paused
          /\ stored' = stored /\ row' = row
          /\ blurred' = (blurred \/ InFlight({"resumeMark"}))
      BY <1>3 DEF Crash, LoseWorker, tableVars
    <2>2. \A r \in Requests : pc'[r] = "idle"
      BY <2>1
    <2> QED BY <2>1, <2>2 DEF PauseOK, InFlight, UpdatePoints
  <1>4. CASE Next
    BY <1>2, <1>3, <1>4, StepKinds, PauseArrivals, PauseSteps, PauseOthers
  <1> QED BY <1>1, <1>4

-----------------------------------------------------------------------------
(* One-time jobs *)

\* A request that arrives only reads the table.
LEMMA ArrivalHistory ==
  ASSUME NEW r \in Requests, RequestArrives(r)
  PROVE  UNCHANGED tableVars /\ started' = started /\ disturbed \subseteq disturbed' /\ loose \subseteq loose'
  <1> DEFINE Same == UNCHANGED tableVars /\ started' = started /\ disturbed \subseteq disturbed' /\ loose \subseteq loose'
  <1>1. ASSUME NEW j \in OnceIds, CreateOnceAdds(r, j) PROVE Same
    BY <1>1 DEF CreateOnceAdds
  <1>2. ASSUME NEW c \in Crons, CreateCronAdds(r, c) PROVE Same
    BY <1>2 DEF CreateCronAdds, Claim
  <1>3. ASSUME NEW t \in Tasks, NEW c \in Crons \cup {None},
               NEW s \in ClientStatuses \cup {None}, UpdateReads(r, t, c, s)
        PROVE  Same
    BY <1>3 DEF UpdateReads
  <1>4. ASSUME NEW t \in Tasks, RemoveReads(r, t) \/ RunNowReads(r, t) PROVE Same
    BY <1>4 DEF RemoveReads, RunNowReads, historyVars
  <1>5. ASSUME PauseQueue(r) \/ ResumeQueue(r) PROVE Same
    BY <1>5 DEF PauseQueue, ResumeQueue
  <1> HIDE DEF Same
  <1>6. Same
    BY <1>1, <1>2, <1>3, <1>4, <1>5 DEF RequestArrives
  <1> QED BY <1>6 DEF Same

\* Histories and the set of deleted rows only grow, and nobody writes to the
\* row of a deleted task.
LEMMA DeletedRowsStay ==
  ASSUME BaseInv, Next
  PROVE  /\ disturbed \subseteq disturbed' /\ loose \subseteq loose' /\ started \subseteq started'
         /\ \A t \in deleted : t \in deleted' /\ row'[t] = row[t]
         /\ \A t \in deleted' \ deleted :
               \E r \in Requests : RemoveDeletes(r) /\ t = req[r].task
  <1>0. /\ stored \subseteq Tasks /\ deleted \subseteq Tasks \ stored
        /\ row \in [Tasks -> Row] /\ \A r \in Requests : req[r] \in Request
    BY DEF BaseInv, TypeOK
  <1>1. CASE \E r \in Requests : RequestArrives(r)
    <2>1. UNCHANGED tableVars /\ started' = started /\ disturbed \subseteq disturbed' /\ loose \subseteq loose'
      BY <1>1, ArrivalHistory
    <2> QED BY <2>1 DEF tableVars
  <1>2. ASSUME NEW r \in Requests, RequestStep(r), ~RemoveDeletes(r)
        PROVE  /\ deleted' = deleted /\ started' = started /\ disturbed \subseteq disturbed' /\ loose \subseteq loose'
               /\ \A t \in deleted : row'[t] = row[t]
    <2>1. deleted' = deleted /\ started' = started /\ disturbed \subseteq disturbed' /\ loose \subseteq loose'
      BY <1>2 DEF RequestStep, CreateOnceStores, CreateCronStores, UpdateRemovesRepeatable,
                  UpdateAddsRepeatable, UpdateStores, RemoveUnschedules, RemoveDequeues,
                  PauseMarks, ResumeMarks, RunNowAdds, Insert, tableVars, historyVars
    <2>2. ASSUME NEW t \in Tasks, NEW x, Insert(t, x) PROVE \A u \in deleted : row'[u] = row[u]
      BY <1>0, <2>2 DEF Insert
    <2>3. ASSUME NEW from, NEW to, Remark(from, to) PROVE \A u \in deleted : row'[u] = row[u]
      BY <1>0, <2>3 DEF Remark
    <2>4. ASSUME UpdateStores(r) PROVE \A u \in deleted : row'[u] = row[u]
      BY <1>0, <2>4, UpdateTable
    <2>5. ASSUME row' = row PROVE \A u \in deleted : row'[u] = row[u]
      BY <2>5
    <2>6. \/ \E t \in Tasks, x \in {OnceRow(req[r].job), CronRow(req[r].cron, req[r].job)} :
                Insert(t, x)
          \/ \E from, to \in Statuses : Remark(from, to)
          \/ UpdateStores(r) \/ row' = row
      BY <1>2 DEF RequestStep, CreateOnceStores, CreateCronStores, UpdateRemovesRepeatable,
                  UpdateAddsRepeatable, RemoveUnschedules, RemoveDequeues,
                  PauseMarks, ResumeMarks, RunNowAdds, tableVars, Statuses
    <2> QED BY <2>1, <2>2, <2>3, <2>4, <2>5, <2>6
  <1>3. ASSUME NEW r \in Requests, RemoveDeletes(r)
        PROVE  /\ disturbed' = disturbed /\ loose' = loose /\ started' = started
               /\ deleted' = deleted \cup {req[r].task} /\ row' = row
    BY <1>3 DEF RemoveDeletes, historyVars
  <1>4. CASE \/ \E r \in Requests : RequestFails(r)
             \/ \E j \in JobIds : WorkerStep(j) \/ QueueTurns(j)
             \/ Crash
             \/ \E u \in pending : DropUpdate(u[1], u[2])
    <2>1. UNCHANGED tableVars /\ started \subseteq started' /\ disturbed \subseteq disturbed' /\ loose \subseteq loose'
      BY <1>4 DEF RequestFails, WorkerStep, StartJob, FinishJob, StalledJob, QueueTurns, Crash,
                  DropUpdate, historyVars
    <2> QED BY <2>1 DEF tableVars
  <1>5. ASSUME NEW u \in pending, ApplyUpdate(u[1], u[2])
        PROVE  /\ disturbed' = disturbed /\ loose' = loose /\ started' = started /\ deleted' = deleted
               /\ \A t \in deleted : row'[t] = row[t]
    BY <1>5, UpdatesTable DEF ApplyUpdate, historyVars
  <1> QED BY <1>1, <1>2, <1>3, <1>4, <1>5, StepKinds

\* A job id that a user or BullMQ chose is no instance of an expression.
LEMMA OnceNotInstance ==
  ASSUME BaseInv, NEW j \in OnceIds, NEW c \in Crons
  PROVE  j \notin Instances /\ j \notin ManualIds /\ j # <<c, next[c]>> /\ j \in JobIds
  <1>1. next[c] \in 1..(MaxInstances + 1)
    BY DEF BaseInv, TypeOK, QueueTypeOK
  <1>2. Instances \subseteq Crons \X (1..(MaxInstances + 1))
    BY MaxInstancesAssumption DEF Instances
  <1> QED BY <1>1, <1>2, IdsAssumption DEF JobIds

\* What a step does to the job of a one-time task: it is added, becomes due,
\* is taken, is taken out of the queue for its row, or ends.
LEMMA OnceJobChanges ==
  ASSUME BaseInv, Next, NEW j \in OnceIds
  PROVE  \/ job'[j] = job[j]
         \/ \E r \in Requests : CreateOnceAdds(r, j)
         \/ \E r \in Requests : RemoveDequeues(r) /\ req[r].row.job = j /\ job'[j] = "none"
         \/ StartJob(j)
         \/ job[j] = "delayed" /\ job'[j] = "waiting"
         \/ JobLocked(j) /\ job'[j] \in {"stalled", "waiting", "done"}
         \/ job[j] = "done" /\ job'[j] = "none"
  <1>0. job \in [JobIds -> {"none", "delayed", "waiting", "active", "stalled", "done"}] /\ j \in JobIds
    BY DEF BaseInv, TypeOK, QueueTypeOK, JobIds
  <1> DEFINE Kept == job'[j] = job[j]
             Due == job[j] = "delayed" /\ job'[j] = "waiting"
             Left == JobLocked(j) /\ job'[j] \in {"stalled", "waiting", "done"}
             Forgot == job[j] = "done" /\ job'[j] = "none"
  <1>1. ASSUME NEW c \in Crons, AddRepeatable(c) \/ RemoveRepeatable(c) PROVE Kept
    <2>1. j # <<c, next[c]>>
      BY OnceNotInstance
    <2> QED BY <1>0, <1>1, <2>1 DEF AddRepeatable, RemoveRepeatable, JobsWith
  <1>2. ASSUME NEW i, i # j, RemoveJob(i) PROVE Kept
    BY <1>0, <1>2 DEF RemoveJob
  <1>3. ASSUME NEW i, NEW s, i # j, AddJob(i, s) PROVE Kept
    BY <1>0, <1>3 DEF AddJob, JobsWith
  <1>4. ASSUME UNCHANGED queueVars \/ \E flag : SetPaused(flag) PROVE Kept
    BY <1>4 DEF queueVars, SetPaused
  <1>5. ASSUME NEW r \in Requests, RequestArrives(r), ~CreateOnceAdds(r, j) PROVE Kept
    <2>1. ASSUME NEW i \in OnceIds, CreateOnceAdds(r, i) PROVE Kept
      BY <1>3, <1>5, <2>1 DEF CreateOnceAdds
    <2>2. ASSUME NEW c \in Crons, CreateCronAdds(r, c) PROVE Kept
      BY <1>1, <2>2 DEF CreateCronAdds
    <2>3. ASSUME NEW t \in Tasks, NEW c \in Crons \cup {None},
                 NEW s \in ClientStatuses \cup {None}, UpdateReads(r, t, c, s)
          PROVE  Kept
      BY <1>4, <2>3 DEF UpdateReads
    <2>4. ASSUME NEW t \in Tasks, RemoveReads(r, t) \/ RunNowReads(r, t) PROVE Kept
      BY <1>4, <2>4 DEF RemoveReads, RunNowReads
    <2>5. ASSUME PauseQueue(r) \/ ResumeQueue(r) PROVE Kept
      BY <1>4, <2>5 DEF PauseQueue, ResumeQueue
    <2> HIDE DEF Kept
    <2> QED BY <1>5, <2>1, <2>2, <2>3, <2>4, <2>5 DEF RequestArrives
  <1>6. ASSUME NEW r \in Requests, RequestStep(r),
               ~(RemoveDequeues(r) /\ req[r].row.job = j /\ job'[j] = "none")
        PROVE  Kept
    <2>1. pc[r] \in RowPoints => BoundOK(pc[r], req[r]) /\ req[r] \in Request
      BY SlotFacts
    <2>2. ASSUME UpdateRemovesRepeatable(r) PROVE Kept
      <3>1. pc[r] = "updRemove" /\ pc[r] \in RowPoints
        BY <2>2 DEF UpdateRemovesRepeatable, RowPoints, UpdatePoints
      <3>2. req[r].row.key \in Crons
        BY <2>1, <3>1 DEF BoundOK, RowOK, IsCron, IsOnce, RemovePoints
      <3> QED BY <1>1, <2>2, <3>2 DEF UpdateRemovesRepeatable
    <2>3. ASSUME UpdateAddsRepeatable(r) PROVE Kept
      <3>1. pc[r] = "updAdd" /\ pc[r] \in RowPoints /\ pc[r] \in UpdatePoints
        BY <2>3 DEF UpdateAddsRepeatable, RowPoints, UpdatePoints
      <3>2. req[r].cron \in Crons
        BY <2>1, <3>1 DEF BoundOK, Request
      <3> QED BY <1>1, <2>3, <3>2 DEF UpdateAddsRepeatable
    <2>4. ASSUME RemoveUnschedules(r) PROVE Kept
      <3>1. pc[r] = "rmDequeue" /\ pc[r] \in RowPoints /\ req[r].row.type = "CRON"
        BY <2>4 DEF RemoveUnschedules, RowPoints, RemovePoints
      <3>2. req[r].row.key \in Crons
        BY <2>1, <3>1 DEF BoundOK, RowOK, IsCron, IsOnce
      <3> QED BY <1>1, <1>4, <2>4, <3>2 DEF RemoveUnschedules
    <2>5. ASSUME RemoveDequeues(r) PROVE Kept
      <3>1. CASE RemoveJob(req[r].row.job)
        <4>1. CASE req[r].row.job = j
          BY <1>0, <1>6, <2>5, <3>1, <4>1 DEF RemoveJob
        <4>2. CASE req[r].row.job # j
          BY <1>2, <3>1, <4>2
        <4> QED BY <4>1, <4>2
      <3>2. CASE UNCHANGED queueVars
        BY <1>4, <3>2
      <3> QED BY <2>5, <3>1, <3>2 DEF RemoveDequeues
    <2>6. ASSUME NEW i \in ManualIds, RunNowAdds(r, i) PROVE Kept
      <3>1. i # j
        BY IdsAssumption
      <3> QED BY <1>3, <2>6, <3>1 DEF RunNowAdds
    <2>7. CASE \/ \E t \in Tasks : CreateOnceStores(r, t) \/ CreateCronStores(r, t)
               \/ UpdateStores(r) \/ RemoveDeletes(r) \/ PauseMarks(r) \/ ResumeMarks(r)
      BY <1>4, <2>7 DEF CreateOnceStores, CreateCronStores, UpdateStores, RemoveDeletes,
                        PauseMarks, ResumeMarks
    <2> QED BY <1>6, <2>2, <2>3, <2>4, <2>5, <2>6, <2>7 DEF RequestStep
  <1>7. ASSUME NEW r \in Requests, RequestFails(r) PROVE Kept
    BY <1>4, <1>7 DEF RequestFails
  <1>8. ASSUME NEW u \in pending, ApplyUpdate(u[1], u[2]) \/ DropUpdate(u[1], u[2]) PROVE Kept
    BY <1>4, <1>8 DEF ApplyUpdate, DropUpdate
  <1>9. ASSUME Crash PROVE Kept \/ Left
    BY <1>0, <1>9 DEF Crash, LoseWorker, JobLocked
  <1>10. ASSUME NEW i \in JobIds, WorkerStep(i) \/ QueueTurns(i)
         PROVE  Kept \/ StartJob(j) \/ Due \/ Left \/ Forgot
    <2>1. CASE StartJob(i) /\ i # j
      <3>1. i \in Instances => i[1] \in Crons
        BY DEF Instances
      <3>2. i \in Instances => j # <<i[1], next[i[1]]>>
        BY <3>1, OnceNotInstance
      <3> QED BY <1>0, <2>1, <3>2 DEF StartJob, TakeJob
    <2>2. CASE StartJob(i) /\ i = j
      BY <2>2
    <2>3. CASE FinishJob(i)
      BY <1>0, <2>3 DEF FinishJob, CompleteJob, JobLocked
    <2>4. CASE StalledJob(i)
      BY <1>0, <2>4 DEF StalledJob, RetryStalled, FailStalled, JobLocked
    <2>5. CASE QueueTurns(i)
      BY <1>0, <2>5 DEF QueueTurns, JobDue, ForgetJob
    <2> QED BY <1>10, <2>1, <2>2, <2>3, <2>4, <2>5 DEF WorkerStep
  <1> HIDE DEF Kept, Due, Left, Forgot
  <1>11. \/ Kept \/ Due \/ Left \/ Forgot \/ StartJob(j)
         \/ \E r \in Requests : CreateOnceAdds(r, j)
         \/ \E r \in Requests : RemoveDequeues(r) /\ req[r].row.job = j /\ job'[j] = "none"
    BY <1>5, <1>6, <1>7, <1>8, <1>9, <1>10, StepKinds
  <1> QED BY <1>11 DEF Kept, Due, Left, Forgot

\* A job is locked only for a worker that takes it, and only a create adds it.
LEMMA OnceJobSteps ==
  ASSUME BaseInv, Next, NEW j \in OnceIds
  PROVE  /\ JobLocked(j)' => JobLocked(j) \/ j \in started'
         /\ job[j] = "none" /\ job'[j] # "none" => \E r \in Requests : CreateOnceAdds(r, j)
  <1>0. job \in [JobIds -> {"none", "delayed", "waiting", "active", "stalled", "done"}] /\ j \in JobIds
    BY DEF BaseInv, TypeOK, QueueTypeOK, JobIds
  <1>1. ASSUME NEW r \in Requests, CreateOnceAdds(r, j) PROVE JobLocked(j)' => JobLocked(j)
    BY <1>0, <1>1 DEF CreateOnceAdds, AddJob, JobsWith, JobLocked
  <1>2. ASSUME StartJob(j) PROVE j \in started' /\ job[j] # "none"
    BY <1>2 DEF StartJob, TakeJob
  <1> QED BY <1>1, <1>2, OnceJobChanges DEF JobLocked

\* A request about to delete its row was so before, or has just come to it.
LEMMA ReachesDelete ==
  ASSUME BaseInv, Next, NEW r \in Requests, pc'[r] = "rmDelete"
  PROVE  \/ pc[r] = "rmDelete" /\ req'[r] = req[r]
         \/ RemoveUnschedules(r) \/ RemoveDequeues(r)
  <1> DEFINE Goal == \/ pc[r] = "rmDelete" /\ req'[r] = req[r]
                     \/ RemoveUnschedules(r) \/ RemoveDequeues(r)
  <1>0. pc \in [Requests -> Points] /\ req \in [Requests -> Request]
    BY DEF BaseInv, TypeOK
  <1>1. ASSUME NEW s \in Requests, Finish(s) PROVE Goal
    BY <1>0, <1>1 DEF Finish, Goto
  <1>2. ASSUME NEW s \in Requests, NEW point, NEW q, Arrive(s, point, q), point # "rmDelete"
        PROVE  Goal
    BY <1>0, <1>2 DEF Arrive, Goto
  <1>3. ASSUME NEW s \in Requests, NEW point, Step(s, point), s # r \/ point # "rmDelete"
        PROVE  Goal
    BY <1>0, <1>3 DEF Step, Goto
  <1>4. ASSUME UNCHANGED requestVars PROVE Goal
    BY <1>4 DEF requestVars
  <1>5. ASSUME NEW s \in Requests, RequestArrives(s) PROVE Goal
    <2>1. ASSUME NEW j \in OnceIds, CreateOnceAdds(s, j) PROVE Goal
      BY <1>2, <2>1 DEF CreateOnceAdds
    <2>2. ASSUME NEW c \in Crons, CreateCronAdds(s, c) PROVE Goal
      BY <1>2, <2>2 DEF CreateCronAdds
    <2>3. ASSUME NEW t \in Tasks, NEW c \in Crons \cup {None},
                 NEW st \in ClientStatuses \cup {None}, UpdateReads(s, t, c, st)
          PROVE  Goal
      <3>1. PICK point \in {"updStore", "updRemove", "updAdd"} :
               \E q : Arrive(s, point, q)
        BY <2>3 DEF UpdateReads
      <3> QED BY <1>2, <3>1
    <2>4. ASSUME NEW t \in Tasks, RemoveReads(s, t) \/ RunNowReads(s, t) PROVE Goal
      BY <1>2, <2>4 DEF RemoveReads, RunNowReads
    <2>5. ASSUME PauseQueue(s) \/ ResumeQueue(s) PROVE Goal
      BY <1>2, <2>5 DEF PauseQueue, ResumeQueue
    <2> HIDE DEF Goal
    <2> QED BY <1>5, <2>1, <2>2, <2>3, <2>4, <2>5 DEF RequestArrives
  <1>6. ASSUME NEW s \in Requests, RequestStep(s) PROVE Goal
    <2>1. CASE \/ \E t \in Tasks : CreateOnceStores(s, t) \/ CreateCronStores(s, t)
               \/ UpdateStores(s) \/ RemoveDeletes(s) \/ PauseMarks(s) \/ ResumeMarks(s)
               \/ \E j \in ManualIds : RunNowAdds(s, j)
      <3>1. Finish(s)
        BY <2>1 DEF CreateOnceStores, CreateCronStores, UpdateStores, RemoveDeletes,
                    PauseMarks, ResumeMarks, RunNowAdds
      <3> QED BY <1>1, <3>1
    <2>2. CASE UpdateRemovesRepeatable(s) \/ UpdateAddsRepeatable(s)
      BY <1>3, <2>2 DEF UpdateRemovesRepeatable, UpdateAddsRepeatable
    <2>3. CASE RemoveUnschedules(s) \/ RemoveDequeues(s)
      <3>1. Step(s, "rmDelete")
        BY <2>3 DEF RemoveUnschedules, RemoveDequeues
      <3> QED BY <1>3, <2>3, <3>1
    <2> QED BY <1>6, <2>1, <2>2, <2>3 DEF RequestStep
  <1>7. ASSUME NEW s \in Requests, RequestFails(s) PROVE Goal
    BY <1>1, <1>7 DEF RequestFails
  <1>8. ASSUME NEW j \in JobIds, WorkerStep(j) \/ QueueTurns(j) PROVE Goal
    BY <1>4, <1>8 DEF WorkerStep, StartJob, FinishJob, StalledJob, QueueTurns
  <1>9. ASSUME NEW u \in pending, ApplyUpdate(u[1], u[2]) \/ DropUpdate(u[1], u[2]) PROVE Goal
    BY <1>4, <1>9 DEF ApplyUpdate, DropUpdate
  <1>10. ASSUME Crash PROVE Goal
    BY <1>10 DEF Crash
  <1> HIDE DEF Goal
  <1>11. Goal
    BY <1>5, <1>6, <1>7, <1>8, <1>9, <1>10, StepKinds
  <1> QED BY <1>11 DEF Goal

QuietAfter(j) == j \in started' \/ job'[j] = "none"

\* The job of a deleted task, or of one that is about to be, stays quiet: a
\* create that gave its id again would have made it loose.
LEMMA QuietStays ==
  ASSUME BaseInv, Next, NEW j \in OnceIds, j \notin loose', Quiet(j),
         \/ \E t \in deleted : row[t].job = j
         \/ \E r \in Requests : req[r].row.job = j
  PROVE  QuietAfter(j)
  <1>1. started \subseteq started'
    BY DeletedRowsStay
  <1>2. ASSUME NEW r \in Requests, CreateOnceAdds(r, j) PROVE FALSE
    <2>1. j # None
      BY IdsAssumption DEF JobIds
    <2>2. ASSUME NEW s \in Requests, req[s].row.job = j PROVE Claimed(j)
      BY <2>1, <2>2 DEF Claimed, Touched
    <2>3. Claimed(j) \/ \E t \in deleted : row[t].job = j
      BY <2>2
    <2> QED BY <1>2, <2>3 DEF CreateOnceAdds, Taken
  <1>3. job[j] = "none" => job'[j] = "none"
    BY <1>2, OnceJobSteps
  <1> QED BY <1>1, <1>3 DEF Quiet, QuietAfter

LEMMA OnceStep ==
  ASSUME BaseInv, OnceOK, [Next]_vars
  PROVE  OnceOK'
  <1>1. CASE UNCHANGED vars
    BY <1>1 DEF vars, queueVars, tableVars, requestVars, historyVars, OnceOK, JobLocked, Quiet
  <1>2. CASE Next
    <2>0. /\ loose \subseteq loose' /\ started \subseteq started'
          /\ \A t \in deleted : t \in deleted' /\ row'[t] = row[t] /\ RowOK(row[t])
      BY <1>2, DeletedRowsStay DEF BaseInv, RowsOK
    <2>1. ASSUME NEW j \in OnceIds, JobLocked(j)' PROVE j \in started'
      BY <1>2, <2>0, <2>1, OnceJobSteps DEF OnceOK
    <2>2. ASSUME NEW r \in Requests, pc[r] = "rmDelete", req[r].row.type = "ONCE",
                 req[r].row.job \notin loose'
          PROVE  req[r].row.job \in OnceIds /\ QuietAfter(req[r].row.job)
      <3>1. PICK j : j = req[r].row.job
        OBVIOUS
      <3>2. pc[r] \in RowPoints
        BY <2>2 DEF RowPoints, RemovePoints
      <3>3. j \in OnceIds
        BY <2>2, <3>1, <3>2, SlotFacts DEF BoundOK, RowOK, IsOnce, IsCron
      <3>4. Quiet(j)
        BY <2>0, <2>2, <3>1 DEF OnceOK
      <3> QED BY <1>2, <2>2, <3>1, <3>3, <3>4, QuietStays
    <2>3. ASSUME NEW t \in deleted', row'[t].type = "ONCE", row'[t].job \notin loose'
          PROVE  QuietAfter(row'[t].job)
      <3>1. CASE t \in deleted
        <4>1. PICK j : j = row[t].job
          OBVIOUS
        <4>2. j \in OnceIds
          BY <2>0, <2>3, <3>1, <4>1 DEF RowOK, IsOnce, IsCron
        <4>3. Quiet(j)
          BY <2>0, <2>3, <3>1, <4>1 DEF OnceOK
        <4>4. QuietAfter(j)
          BY <1>2, <2>0, <2>3, <3>1, <4>1, <4>2, <4>3, QuietStays
        <4> QED BY <2>0, <3>1, <4>1, <4>4
      <3>2. CASE t \notin deleted
        <4>1. PICK r \in Requests : RemoveDeletes(r) /\ t = req[r].task
          BY <1>2, <2>3, <3>2, DeletedRowsStay
        <4>2. pc[r] = "rmDelete" /\ pc[r] \in RowPoints /\ row' = row
          BY <4>1 DEF RemoveDeletes, RowPoints, RemovePoints
        <4>3. SameTask(req[r].row, row[t])
          BY <4>1, <4>2, SlotFacts
        <4>4. req[r].row.type = "ONCE" /\ req[r].row.job = row'[t].job
          BY <2>3, <4>2, <4>3 DEF SameTask
        <4> QED BY <2>2, <2>3, <4>2, <4>4
      <3> QED BY <3>1, <3>2
    <2>4. ASSUME NEW r \in Requests, pc'[r] = "rmDelete", req'[r].row.type = "ONCE",
                 req'[r].row.job \notin loose'
          PROVE  QuietAfter(req'[r].row.job)
      <3>1. CASE pc[r] = "rmDelete" /\ req'[r] = req[r]
        BY <2>2, <2>4, <3>1
      <3>2. CASE RemoveUnschedules(r) \/ RemoveDequeues(r)
        <4>1. req' = req /\ pc[r] = "rmDequeue" /\ pc[r] \in RowPoints
          BY <3>2 DEF RemoveUnschedules, RemoveDequeues, Step, RowPoints, RemovePoints
        <4>2. PICK j : j = req[r].row.job
          OBVIOUS
        <4>3. j \in OnceIds /\ j \in JobIds
          BY <2>4, <4>1, <4>2, SlotFacts DEF BoundOK, RowOK, IsOnce, IsCron, JobIds
        <4>4. RemoveDequeues(r)
          BY <2>4, <3>2, <4>1 DEF RemoveUnschedules
        <4>5. CASE RemoveJob(j)
          <5>1. job \in [JobIds -> {"none", "delayed", "waiting", "active", "stalled", "done"}]
            BY DEF BaseInv, TypeOK, QueueTypeOK
          <5>2. job'[j] = "none"
            BY <4>3, <4>5, <5>1 DEF RemoveJob
          <5> QED BY <4>1, <4>2, <5>2 DEF QuietAfter
        <4>6. CASE JobLocked(j)
          <5>1. j \in started'
            BY <2>0, <4>3, <4>6 DEF OnceOK
          <5> QED BY <4>1, <4>2, <5>1 DEF QuietAfter
        <4>7. CASE j \in loose'
          BY <2>4, <4>1, <4>2, <4>7
        <4>8. RemoveJob(j) \/ JobLocked(j) \/ j \in loose'
          BY <4>2, <4>4 DEF RemoveDequeues
        <4> QED BY <4>5, <4>6, <4>7, <4>8
      <3> QED BY <1>2, <2>4, <3>1, <3>2, ReachesDelete
    <2> QED BY <2>1, <2>3, <2>4 DEF OnceOK, Quiet, QuietAfter
  <1> QED BY <1>1, <1>2

-----------------------------------------------------------------------------
(* Expressions *)

LEMMA CronNames ==
  ASSUME NEW c \in Crons
  PROVE  c # None /\ c \notin JobIds
  BY IdsAssumption

\* What a request touches of the expressions is what it uses.
LEMMA UsesTouched ==
  ASSUME BaseInv, NEW c \in Crons, NEW r \in Requests
  PROVE  /\ Uses(r, c) <=> c \in Touched(req[r])
         /\ Works(r, c) => pc[r] \in RowPoints
         /\ Plans(r, c) => pc[r] \in {"cronStore"} \cup UpdatePoints
         /\ pc[r] \in RowPoints <=> req[r].task # None
  <1>1. c # None /\ c \notin JobIds /\ None \notin Crons
    BY CronNames, IdsAssumption
  <1>2. req[r] \in Request /\ req[r].job \in JobIds \cup {None}
    BY SlotFacts DEF Request
  <1>3. CASE pc[r] \in RowPoints
    <2>1. BoundOK(pc[r], req[r]) /\ req[r].task \in Tasks /\ RowOK(req[r].row)
      BY <1>3, SlotFacts DEF BoundOK
    <2>2. req[r].row.key = req[r].row.cron /\ req[r].row.job \in JobIds
      BY <2>1 DEF RowOK, IsOnce, IsCron, JobIds
    <2>3. Plans(r, c) => pc[r] \in UpdatePoints
      BY <1>1, <1>3, <2>1 DEF BoundOK, Plans, RowPoints
    <2>4. req[r].task # None
      BY <2>1, TasksAssumption
    <2> QED BY <1>1, <1>2, <1>3, <2>2, <2>3, <2>4 DEF Uses, Plans, Works, Touched
  <1>4. CASE pc[r] \notin RowPoints
    <2>1. FreeOK(pc[r], req[r])
      BY <1>4, SlotFacts
    <2>2. /\ req[r].row.cron = None /\ req[r].row.key = None /\ req[r].row.job = None
          /\ req[r].task = None
      BY <2>1 DEF FreeOK, NoRow
    <2>3. Plans(r, c) => pc[r] = "cronStore"
      BY <1>1, <2>1 DEF FreeOK, Plans
    <2> QED BY <1>1, <1>2, <1>4, <2>2, <2>3 DEF Uses, Plans, Works, Touched
  <1> QED BY <1>3, <1>4

\* Nobody has a row of an expression that is not claimed, or uses it.
LEMMA Unclaimed ==
  ASSUME BaseInv, NEW c \in Crons, ~Claimed(c)
  PROVE  /\ \A t \in stored : row[t].cron # c
         /\ \A r \in Requests : ~Uses(r, c)
  BY UsesTouched DEF Claimed

\* A slot that an action leaves, or that has nothing to do with c before
\* the action or after it.
Aside(s, c) ==
    \/ pc'[s] = pc[s] /\ req'[s] = req[s]
    \/ /\ ~Uses(s, c) /\ req'[s].cron # c /\ req'[s].row.cron # c
       /\ \/ req'[s].task \in {None, req[s].task}
          \/ /\ \A u \in Requests : Uses(u, c) => req[u].task # req'[s].task
             /\ req'[s].task \in stored => row[req'[s].task].cron # c

\* The stored rows of c after an action are those before it.
SameRowsOf(c) ==
    \A t : (t \in stored' /\ row'[t].cron = c) <=> (t \in stored /\ row[t].cron = c)

LEMMA CronAside ==
  ASSUME NEW c \in Crons, CronOK(c), \A s \in Requests : Aside(s, c),
         c \in repeat' <=> c \in repeat, SameRowsOf(c),
         \A s \in Requests : Uses(s, c) /\ req[s].task # None => req[s].task \in stored'
  PROVE  CronOK(c)'
  <1>1. \A s \in Requests : req'[s].cron = c \/ req'[s].row.cron = c
            <=> (Uses(s, c) /\ pc'[s] = pc[s] /\ req'[s] = req[s])
    BY DEF Aside, Uses, Plans, Works
  <1>2. OneRow(c)'
    BY DEF CronOK, OneRow, SameRowsOf
  <1>3. OneRequest(c)'
    BY <1>1 DEF CronOK, OneRequest, Uses, Plans, Works
  <1>4. PlanOK(c)'
    BY <1>1 DEF CronOK, PlanOK, Uses, Plans, Works, SameRowsOf
  <1>5. ASSUME NEW r \in Requests, req'[r].row.cron = c
        PROVE  /\ req'[r].task \in stored' /\ row'[req'[r].task].cron = c
               /\ c \in repeat' <=> \/ pc'[r] \in {"updRemove", "rmDequeue"}
                                    \/ pc'[r] = "updStore" /\ req'[r].cron = None
    <2>1. pc'[r] = pc[r] /\ req'[r] = req[r] /\ Works(r, c)
      BY <1>1, <1>5 DEF Works
    <2>2. PICK t : t = req[r].task
      OBVIOUS
    <2>3. t \in stored /\ row[t].cron = c
      BY <2>1, <2>2 DEF CronOK, WorkOK
    <2>4. t \in stored' /\ row'[t].cron = c
      BY <2>3 DEF SameRowsOf
    <2> QED BY <2>1, <2>2, <2>4 DEF CronOK, WorkOK
  <1>6. WorkOK(c)'
    BY <1>5 DEF WorkOK, Works
  <1>7. ASSUME NEW r \in Requests, req'[r].task # None
        PROVE  /\ req'[r].cron = c \/ req'[r].row.cron = c =>
                     /\ req'[r].task \in stored'
                     /\ \A s \in Requests : req'[s].task = req'[r].task => s = r
               /\ req'[r].task \in stored' /\ row'[req'[r].task].cron = c
                     => req'[r].row.cron = c
    <2>1. ASSUME req'[r].cron = c \/ req'[r].row.cron = c
          PROVE  /\ req'[r].task \in stored'
                 /\ \A s \in Requests : req'[s].task = req'[r].task => s = r
      <3>1. Uses(r, c) /\ req'[r] = req[r]
        BY <1>1, <2>1
      <3>2. /\ \A s \in Requests : req[s].task = req[r].task => s = r
        BY <1>7, <3>1 DEF CronOK, AloneOK
      <3>3. ASSUME NEW s \in Requests, req'[s].task = req[r].task PROVE s = r
        <4>1. CASE req'[s] = req[s] \/ req'[s].task \in {None, req[s].task}
          BY <1>7, <3>1, <3>2, <3>3, <4>1
        <4>2. CASE \A u \in Requests : Uses(u, c) => req[u].task # req'[s].task
          BY <3>1, <3>3, <4>2
        <4> QED BY <4>1, <4>2 DEF Aside
      <3> QED BY <1>7, <3>1, <3>3
    <2>2. ASSUME req'[r].task \in stored', row'[req'[r].task].cron = c
          PROVE  req'[r].row.cron = c
      <3>1. PICK t : t = req'[r].task
        OBVIOUS
      <3>2. t \in stored /\ row[t].cron = c
        BY <2>2, <3>1 DEF SameRowsOf
      <3>3. CASE req'[r] = req[r]
        BY <1>7, <3>1, <3>2, <3>3 DEF CronOK, AloneOK, Works
      <3>4. CASE ~Uses(r, c) /\ t = req[r].task
        BY <1>7, <3>1, <3>2, <3>4 DEF CronOK, AloneOK, Uses
      <3> QED BY <1>7, <3>1, <3>2, <3>3, <3>4 DEF Aside
    <2> QED BY <2>1, <2>2
  <1>8. AloneOK(c)'
    BY <1>7 DEF AloneOK, Uses, Plans, Works
  <1>9. FreeCronOK(c)'
    <2>1. ASSUME \A r \in Requests : ~(req'[r].cron = c \/ req'[r].row.cron = c)
          PROVE  \A r \in Requests : ~Uses(r, c)
      BY <2>1 DEF Aside, Uses, Plans, Works
    <2> QED BY <2>1 DEF CronOK, FreeCronOK, SameRowsOf, Uses, Plans, Works
  <1> QED BY <1>2, <1>3, <1>4, <1>6, <1>8, <1>9 DEF CronOK

\* An action of the only request that may use c: what it has to show.
LEMMA CronBy ==
  ASSUME NEW c \in Crons, NEW r \in Requests,
         \A s \in Requests \ {r} : pc'[s] = pc[s] /\ req'[s] = req[s] /\ ~Uses(s, c),
         \A t, u \in stored' : row'[t].cron = c /\ row'[u].cron = c => t = u,
         req'[r].cron = c =>
            /\ \A t \in stored' : row'[t].cron # c
            /\ c \in repeat' <=> pc'[r] \in {"cronStore", "updStore"},
         req'[r].row.cron = c =>
            /\ req'[r].task \in stored' /\ row'[req'[r].task].cron = c
            /\ c \in repeat' <=> \/ pc'[r] \in {"updRemove", "rmDequeue"}
                                 \/ pc'[r] = "updStore" /\ req'[r].cron = None,
         req'[r].task # None =>
            /\ req'[r].cron = c \/ req'[r].row.cron = c =>
                  /\ req'[r].task \in stored'
                  /\ \A s \in Requests \ {r} : req[s].task # req'[r].task
            /\ req'[r].task \in stored' /\ row'[req'[r].task].cron = c
                  => req'[r].row.cron = c,
         \A s \in Requests \ {r} : req[s].task # None /\ req[s].task \in stored'
            => row'[req[s].task].cron # c,
         req'[r].cron # c /\ req'[r].row.cron # c
            => (c \in repeat' <=> \E t \in stored' : row'[t].cron = c)
  PROVE  CronOK(c)'
  <1>1. \A s \in Requests : req'[s].cron = c \/ req'[s].row.cron = c => s = r
    BY DEF Uses, Plans, Works
  <1>2. OneRow(c)' /\ OneRequest(c)'
    BY <1>1 DEF OneRow, OneRequest, Uses, Plans, Works
  <1>3. PlanOK(c)'
    BY <1>1 DEF PlanOK, Plans
  <1>4. WorkOK(c)'
    BY <1>1 DEF WorkOK, Works
  <1>5. AloneOK(c)'
    <2>1. ASSUME NEW s \in Requests, req'[s].task # None
          PROVE  /\ req'[s].cron = c \/ req'[s].row.cron = c =>
                       /\ req'[s].task \in stored'
                       /\ \A u \in Requests : req'[u].task = req'[s].task => u = s
                 /\ req'[s].task \in stored' /\ row'[req'[s].task].cron = c
                       => req'[s].row.cron = c
      BY <1>1, <2>1
    <2> QED BY <2>1 DEF AloneOK, Uses, Plans, Works
  <1>6. FreeCronOK(c)'
    BY DEF FreeCronOK, Uses, Plans, Works
  <1> QED BY <1>2, <1>3, <1>4, <1>5, <1>6 DEF CronOK

\* Who uses an expression is the only one, and nobody else has its row.
LEMMA OnlyUser ==
  ASSUME NEW c \in Crons, CronOK(c), NEW r \in Requests, Uses(r, c)
  PROVE  /\ \A s \in Requests \ {r} : ~Uses(s, c)
         /\ \A s \in Requests \ {r} : req[s].task # None /\ req[s].task \in stored
               => row[req[s].task].cron # c
  BY DEF CronOK, OneRequest, AloneOK, Uses

\* The other requests' slots.
LEMMA OtherSlots ==
  ASSUME BaseInv, NEW r \in Requests,
         \/ \E point, q : Arrive(r, point, q)
         \/ \E point : Step(r, point)
         \/ Finish(r)
  PROVE  \A s \in Requests \ {r} : pc'[s] = pc[s] /\ req'[s] = req[s]
  BY DEF BaseInv, TypeOK, Arrive, Step, Finish, Goto

\* A request that arrives with none of its own names for c.
LEMMA CronArrives ==
  ASSUME BaseInv, NEW c \in Crons, CronOK(c), NEW r \in Requests, NEW point, NEW q,
         Arrive(r, point, q), UNCHANGED tableVars, c \in repeat' <=> c \in repeat,
         q.cron # c, q.row.cron # c,
         \/ q.task = None
         \/ /\ \A u \in Requests : Uses(u, c) => req[u].task # q.task
            /\ q.task \in stored => row[q.task].cron # c
  PROVE  CronOK(c)'
  <1>1. pc[r] = "idle" /\ pc'[r] = point /\ req'[r] = q
    BY DEF Arrive, Goto, BaseInv, TypeOK
  <1>2. ~Uses(r, c)
    BY <1>1, UsesTouched DEF Uses, RowPoints, UpdatePoints, RemovePoints
  <1>3. Aside(r, c)
    BY <1>1, <1>2 DEF Aside
  <1>4. \A s \in Requests : Aside(s, c)
    BY <1>3, OtherSlots DEF Aside
  <1>5. stored' = stored /\ row' = row
    BY DEF tableVars
  <1>6. \A s \in Requests : Uses(s, c) /\ req[s].task # None => req[s].task \in stored'
    BY <1>5 DEF CronOK, AloneOK
  <1> QED BY <1>4, <1>5, <1>6, CronAside DEF SameRowsOf

\* A request that ends, or goes on, without using c.
LEMMA CronPasses ==
  ASSUME BaseInv, NEW c \in Crons, CronOK(c), NEW r \in Requests, ~Uses(r, c),
         Finish(r) \/ \E point : Step(r, point),
         c \in repeat' <=> c \in repeat, SameRowsOf(c),
         \A s \in Requests \ {r} :
            Uses(s, c) /\ req[s].task # None => req[s].task \in stored'
  PROVE  CronOK(c)'
  <1>1. req'[r] \in {NoRequest, req[r]}
    BY DEF Finish, Step, Goto, BaseInv, TypeOK
  <1>2. NoRequest.cron = None /\ NoRequest.row.cron = None /\ NoRequest.task = None
    BY DEF NoRequest, NoRow
  <1>3. Aside(r, c)
    BY <1>1, <1>2, CronNames DEF Aside, Uses, Plans, Works
  <1>4. \A s \in Requests : Aside(s, c)
    BY <1>3, OtherSlots DEF Aside
  <1> QED BY <1>4, CronAside

\* A request on row t: c is one of its names only when nobody else is about
\* c or on t, for it would be disturbed otherwise.
LEMMA CronReads ==
  ASSUME BaseInv, NEW c \in Crons, CronOK(c), NEW r \in Requests,
         NEW t \in stored, NEW q, NEW point, Arrive(r, point, q),
         q.task = t, q.row = row[t], q.cron \in Crons \cup {None}, q.cron # row[t].cron,
         UNCHANGED tableVars, repeat' = repeat,
         c \notin Meet(q), q.cron = c => ~Claimed(c),
         q.cron # None => point = "updRemove",
         point \in {"updRemove", "updStore", "rmDequeue"}
  PROVE  CronOK(c)'
  <1>0. /\ pc[r] = "idle" /\ pc'[r] = point /\ req'[r] = q
        /\ \A s \in Requests \ {r} : pc'[s] = pc[s] /\ req'[s] = req[s]
        /\ stored' = stored /\ row' = row
    BY OtherSlots DEF Arrive, Goto, BaseInv, TypeOK, tableVars
  <1>1. ~Uses(r, c) /\ req[r].task = None
    BY <1>0, UsesTouched DEF Uses, RowPoints, UpdatePoints, RemovePoints
  <1>2. t # None /\ c # None /\ stored \subseteq Tasks
    BY TasksAssumption, CronNames DEF BaseInv, TypeOK
  <1>3. ASSUME NEW s \in Requests, req[s].task = t PROVE ~Uses(s, c)
    <2>1. Touched(req[s]) \subseteq Meet(q)
      BY <1>3 DEF Meet
    <2> QED BY <2>1, UsesTouched
  <1>4. CASE q.cron # c /\ row[t].cron # c
    <2>1. \A u \in Requests : Uses(u, c) => req[u].task # t
      BY <1>3
    <2> QED BY <1>4, <2>1, CronArrives
  <1>5. ASSUME q.cron = c \/ row[t].cron = c
        PROVE  \A s \in Requests : req[s].task # t
    <2>1. c \in Touched(q)
      BY <1>2, <1>5 DEF Touched
    <2> QED BY <2>1 DEF Meet
  <1>6. CASE row[t].cron = c
    <2>1. ASSUME NEW s \in Requests PROVE ~Uses(s, c)
      <3>1. ASSUME Plans(s, c) PROVE FALSE
        BY <1>6, <3>1 DEF CronOK, PlanOK
      <3>2. ASSUME Works(s, c) PROVE FALSE
        <4>1. req[s].task \in stored /\ row[req[s].task].cron = c
          BY <3>2 DEF CronOK, WorkOK
        <4>2. req[s].task = t
          BY <1>6, <4>1 DEF CronOK, OneRow
        <4> QED BY <1>5, <1>6, <4>2
      <3> QED BY <3>1, <3>2 DEF Uses
    <2>2. c \in repeat
      BY <1>6, <2>1 DEF CronOK, FreeCronOK
    <2>3. \A s \in Requests \ {r} : req[s].task # None /\ req[s].task \in stored'
             => row'[req[s].task].cron # c
      BY <1>0, <1>5, <1>6 DEF CronOK, OneRow
    <2>4. \A u, v \in stored' : row'[u].cron = c /\ row'[v].cron = c => u = v
      BY <1>0 DEF CronOK, OneRow
    <2>5. \/ point \in {"updRemove", "rmDequeue"}
          \/ point = "updStore" /\ q.cron = None
      OBVIOUS
    <2> QED BY <1>0, <1>2, <1>5, <1>6, <2>1, <2>2, <2>3, <2>4, <2>5, CronBy
  <1>7. CASE q.cron = c
    <2>1. /\ \A u \in stored : row[u].cron # c
          /\ \A s \in Requests : ~Uses(s, c)
      BY <1>7, Unclaimed
    <2>2. c \notin repeat
      BY <2>1 DEF CronOK, FreeCronOK
    <2>3. point = "updRemove"
      BY <1>2, <1>7
    <2> QED BY <1>0, <1>2, <1>5, <1>7, <2>1, <2>2, <2>3, CronBy
  <1> QED BY <1>4, <1>6, <1>7

LEMMA CronArrivals ==
  ASSUME BaseInv, NEW c \in Crons, c \notin disturbed', CronOK(c),
         NEW r \in Requests, RequestArrives(r)
  PROVE  CronOK(c)'
  <1>0. c # None /\ NoRow.cron = None /\ NoRequest.task = None /\ NoRequest.cron = None
        /\ NoRequest.row = NoRow
    BY CronNames DEF NoRow, NoRequest
  <1>1. ASSUME NEW j \in OnceIds, CreateOnceAdds(r, j) PROVE CronOK(c)'
    <2>1. PICK q \in Request : q = OnceCall(j)
      BY OnceRequest
    <2>2. q.cron = None /\ q.row = NoRow /\ q.task = None
      BY <2>1, OnceRequest
    <2>3. Arrive(r, "onceStore", q) /\ repeat' = repeat /\ UNCHANGED tableVars
      BY <1>1, <2>1 DEF CreateOnceAdds, AddJob, OnceCall
    <2> QED BY <1>0, <2>2, <2>3, CronArrives
  <1>2. ASSUME NEW d \in Crons, CreateCronAdds(r, d) PROVE CronOK(c)'
    <2>1. next[d] \in 1..(MaxInstances + 1) /\ next[d] <= MaxInstances
      BY <1>2 DEF BaseInv, TypeOK, QueueTypeOK, CreateCronAdds, AddRepeatable
    <2>2. PICK j \in Instances : j = <<d, next[d]>>
      BY <2>1, InstanceTypes
    <2>3. PICK q \in Request : q = CronCall(d, j)
      BY CronRequest
    <2>4. q.cron = d /\ q.row = NoRow /\ q.task = None
      BY <2>3, CronRequest
    <2>5. /\ Arrive(r, "cronStore", q) /\ repeat' = repeat \cup {d} /\ UNCHANGED tableVars
          /\ Claim(d)
      BY <1>2, <2>2, <2>3 DEF CreateCronAdds, AddRepeatable, CronCall
    <2>6. CASE d # c
      BY <1>0, <2>4, <2>5, <2>6, CronArrives
    <2>7. CASE d = c
      <3>1. /\ \A t \in stored : row[t].cron # c
            /\ \A s \in Requests : ~Uses(s, c)
        BY <2>5, <2>7, Unclaimed DEF Claim
      <3>2. /\ pc'[r] = "cronStore" /\ req'[r] = q /\ stored' = stored /\ row' = row
            /\ \A s \in Requests \ {r} : pc'[s] = pc[s] /\ req'[s] = req[s]
        BY <2>5, OtherSlots DEF Arrive, Goto, BaseInv, TypeOK, tableVars
      <3> QED BY <1>0, <2>4, <2>5, <2>7, <3>1, <3>2, CronBy
    <2> QED BY <2>6, <2>7
  <1>3. ASSUME NEW t \in Tasks, NEW d \in Crons \cup {None},
               NEW s \in ClientStatuses \cup {None}, UpdateReads(r, t, d, s)
        PROVE  CronOK(c)'
    <2>1. t \in stored
      BY <1>3 DEF UpdateReads
    <2>2. PICK x : x = row[t]
      OBVIOUS
    <2>3. RowOK(x)
      BY <2>1, <2>2 DEF BaseInv, RowsOK
    <2>4. PICK q \in Request : q = UpdateCall(t, x, d, s)
      BY <2>3, UpdateRequest
    <2>5. PICK point \in Points : point = UpdatePoint(x, d)
      BY <2>3, UpdateRequest
    <2>6. /\ q.task = t /\ q.row = x /\ q.cron = MovesTo(x, d)
          /\ point = IF Moves(x, d) THEN "updRemove" ELSE "updStore"
      BY <2>3, <2>4, <2>5, UpdateRequest
    <2>7. /\ Arrive(r, point, q)
          /\ UNCHANGED tableVars /\ repeat' = repeat
          /\ disturbed' = disturbed \cup Meet(q)
                            \cup (IF Moves(x, d) /\ Claimed(d) THEN {d} ELSE {})
      BY <1>3, <2>2, <2>4, <2>5
         DEF UpdateReads, UpdateCall, UpdatePoint, Moves, MovesTo, queueVars
    <2>8. /\ q.cron \in Crons \cup {None}
          /\ q.cron = c => ~Claimed(c)
          /\ q.cron # None <=> Moves(x, d)
      BY <1>0, <2>6, <2>7 DEF MovesTo, Moves
    <2>9. \/ Moves(x, d) /\ q.cron # x.cron /\ point = "updRemove"
          \/ ~Moves(x, d) /\ q.cron = None /\ point = "updStore"
      BY <2>6 DEF MovesTo, Moves
    <2>10. CASE q.cron # x.cron
      <3>1. /\ q.cron # None => point = "updRemove"
            /\ point \in {"updRemove", "updStore", "rmDequeue"}
            /\ c \notin Meet(q)
        BY <2>7, <2>9
      <3> QED BY <2>1, <2>2, <2>6, <2>7, <2>8, <2>10, <3>1, CronReads
    <2>11. CASE q.cron = x.cron
      <3>1. q.cron = None /\ x.cron = None
        BY <2>9, <2>11
      <3>2. \A u \in Requests : Uses(u, c) => req[u].task # t
        <4>1. ASSUME NEW u \in Requests, req[u].task = t PROVE ~Uses(u, c)
          <5>1. Touched(req[u]) \subseteq Meet(q)
            BY <2>6, <4>1 DEF Meet
          <5> QED BY <2>7, <5>1, UsesTouched
        <4> QED BY <4>1
      <3> QED BY <1>0, <2>2, <2>6, <2>7, <3>1, <3>2, CronArrives
    <2> QED BY <2>10, <2>11
  <1>4. ASSUME NEW t \in Tasks, RemoveReads(r, t) PROVE CronOK(c)'
    <2>1. t \in stored
      BY <1>4 DEF RemoveReads
    <2>2. PICK x : x = row[t]
      OBVIOUS
    <2>3. RowOK(x)
      BY <2>1, <2>2 DEF BaseInv, RowsOK
    <2>4. PICK q \in Request : q = RemoveCall(t, x)
      BY <2>3, RemoveRequest
    <2>5. q.task = t /\ q.row = x /\ q.cron = None
      BY <2>3, <2>4, RemoveRequest
    <2>6. /\ Arrive(r, "rmDequeue", q) /\ UNCHANGED tableVars /\ repeat' = repeat
          /\ disturbed' = disturbed \cup Meet(q)
      BY <1>4, <2>2, <2>4 DEF RemoveReads, RemoveCall, queueVars
    <2>7. CASE x.cron # None
      BY <1>0, <2>1, <2>2, <2>5, <2>6, <2>7, CronReads
    <2>8. CASE x.cron = None
      <3>1. \A u \in Requests : Uses(u, c) => req[u].task # t
        <4>1. ASSUME NEW u \in Requests, req[u].task = t PROVE ~Uses(u, c)
          <5>1. Touched(req[u]) \subseteq Meet(q)
            BY <2>5, <4>1 DEF Meet
          <5> QED BY <2>6, <5>1, UsesTouched
        <4> QED BY <4>1
      <3> QED BY <1>0, <2>2, <2>5, <2>6, <2>8, <3>1, CronArrives
    <2> QED BY <2>7, <2>8
  <1>5. ASSUME NEW t \in Tasks, RunNowReads(r, t) PROVE CronOK(c)'
    <2>1. Arrive(r, "runAdd", NoRequest) /\ repeat' = repeat /\ UNCHANGED tableVars
      BY <1>5 DEF RunNowReads, queueVars
    <2> QED BY <1>0, <2>1, CronArrives
  <1>6. ASSUME PauseQueue(r) \/ ResumeQueue(r) PROVE CronOK(c)'
    <2>1. /\ Arrive(r, "pauseMark", NoRequest) \/ Arrive(r, "resumeMark", NoRequest)
          /\ repeat' = repeat /\ UNCHANGED tableVars
      BY <1>6 DEF PauseQueue, ResumeQueue, SetPaused
    <2> QED BY <1>0, <2>1, CronArrives
  <1> HIDE DEF CronOK
  <1> QED BY <1>1, <1>2, <1>3, <1>4, <1>5, <1>6 DEF RequestArrives

\* The row of c of a request that may write to it is nobody else's.
LEMMA CronRowOf ==
  ASSUME BaseInv, NEW c \in Crons, CronOK(c), NEW r \in Requests, pc[r] \in RowPoints
  PROVE  /\ req[r].task # None
         /\ req[r].task \in stored /\ row[req[r].task].cron = c => Works(r, c)
         /\ Uses(r, c) => /\ req[r].task \in stored
                          /\ \A s \in Requests \ {r} : req[s].task # req[r].task
  <1>1. req[r].task # None
    BY UsesTouched
  <1> QED BY <1>1 DEF CronOK, AloneOK

LEMMA CronCreated ==
  ASSUME BaseInv, NEW c \in Crons, CronOK(c), NEW r \in Requests, NEW t \in Tasks,
         CreateOnceStores(r, t) \/ CreateCronStores(r, t)
  PROVE  CronOK(c)'
  <1>0. /\ pc'[r] = "idle" /\ req'[r] = NoRequest /\ NoRequest.cron = None
        /\ NoRequest.row.cron = None /\ NoRequest.task = None /\ c # None
        /\ \A s \in Requests \ {r} : pc'[s] = pc[s] /\ req'[s] = req[s]
        /\ repeat' = repeat
    BY CronNames, OtherSlots DEF CreateOnceStores, CreateCronStores, Finish, Goto, BaseInv,
       TypeOK, NoRequest, NoRow, queueVars
  <1>1. PICK x \in {OnceRow(req[r].job), CronRow(req[r].cron, req[r].job)} :
           Insert(t, x) /\ (x.cron = c <=> Plans(r, c))
    <2>1. CASE CreateOnceStores(r, t)
      <3>1. pc[r] = "onceStore"
        BY <2>1 DEF CreateOnceStores
      <3>2. ~Plans(r, c)
        BY <3>1, UsesTouched DEF UpdatePoints
      <3>3. OnceRow(req[r].job).cron = None
        BY DEF OnceRow, NoRow
      <3> QED BY <1>0, <2>1, <3>2, <3>3 DEF CreateOnceStores
    <2>2. CASE CreateCronStores(r, t)
      <3>1. CronRow(req[r].cron, req[r].job).cron = req[r].cron
        BY DEF CronRow
      <3> QED BY <2>2, <3>1 DEF CreateCronStores, Plans
    <2> QED BY <2>1, <2>2
  <1>2. /\ t \notin stored \cup deleted /\ stored' = stored \cup {t} /\ row'[t] = x
        /\ \A u \in Tasks \ {t} : row'[u] = row[u]
        /\ stored \subseteq Tasks
    BY <1>1 DEF Insert, BaseInv, TypeOK
  <1>3. pc[r] \notin RowPoints /\ ~Works(r, c)
    <2>1. pc[r] \in {"onceStore", "cronStore"}
      BY DEF CreateOnceStores, CreateCronStores
    <2> QED BY <2>1, UsesTouched DEF RowPoints, UpdatePoints, RemovePoints
  <1>4. CASE ~Plans(r, c)
    <2>1. SameRowsOf(c)
      BY <1>1, <1>2, <1>4 DEF SameRowsOf
    <2>2. Finish(r)
      BY DEF CreateOnceStores, CreateCronStores
    <2>3. \A s \in Requests : Uses(s, c) /\ req[s].task # None => req[s].task \in stored'
      BY <1>2 DEF CronOK, AloneOK
    <2> QED BY <1>0, <1>3, <1>4, <2>1, <2>2, <2>3, CronPasses DEF Uses
  <1>5. CASE Plans(r, c)
    <2>1. pc[r] = "cronStore"
      BY <1>3, <1>5, UsesTouched DEF RowPoints
    <2>2. c \in repeat /\ \A u \in stored : row[u].cron # c
      BY <1>5, <2>1 DEF CronOK, PlanOK
    <2>3. \A s \in Requests \ {r} : ~Uses(s, c)
      BY <1>5, OnlyUser DEF Uses
    <2>4. \A s \in Requests : req[s].task # None => req[s].task \in stored \cup deleted
      BY UsesTouched, SlotFacts
    <2>5. \A s \in Requests \ {r} : req[s].task # None /\ req[s].task \in stored'
             => row'[req[s].task].cron # c
      BY <1>2, <2>2, <2>4
    <2>6. \A u \in stored' : row'[u].cron = c <=> u = t
      BY <1>1, <1>2, <1>5, <2>2
    <2> QED BY <1>0, <1>2, <2>2, <2>3, <2>5, <2>6, CronBy
  <1> QED BY <1>4, <1>5

LEMMA CronUpdated ==
  ASSUME BaseInv, NEW c \in Crons, CronOK(c), NEW r \in Requests, UpdateStores(r)
  PROVE  CronOK(c)'
  <1>0. /\ pc'[r] = "idle" /\ req'[r] = NoRequest /\ NoRequest.cron = None
        /\ NoRequest.row.cron = None /\ NoRequest.task = None /\ c # None
        /\ \A s \in Requests \ {r} : pc'[s] = pc[s] /\ req'[s] = req[s]
        /\ repeat' = repeat /\ stored' = stored /\ stored \subseteq Tasks
        /\ pc[r] = "updStore" /\ pc[r] \in RowPoints /\ Finish(r)
    BY CronNames, OtherSlots DEF UpdateStores, Finish, Goto, BaseInv, TypeOK, NoRequest,
       NoRow, queueVars, RowPoints, UpdatePoints
  <1>1. PICK t : t = req[r].task
    OBVIOUS
  <1>2. /\ \A u \in Tasks : u # t \/ t \notin stored => row'[u] = row[u]
        /\ t \in stored => row'[t].cron = IF req[r].cron = None THEN row[t].cron
                                                                ELSE req[r].cron
    BY <1>1, UpdateTable
  <1>3. /\ t # None
        /\ t \in stored /\ row[t].cron = c => Works(r, c)
        /\ Uses(r, c) => t \in stored /\ \A s \in Requests \ {r} : req[s].task # t
    BY <1>0, <1>1, CronRowOf
  <1>4. CASE ~Uses(r, c)
    <2>1. SameRowsOf(c)
      BY <1>0, <1>2, <1>3, <1>4 DEF SameRowsOf, Uses, Plans
    <2>2. \A s \in Requests : Uses(s, c) /\ req[s].task # None => req[s].task \in stored'
      BY <1>0 DEF CronOK, AloneOK
    <2> QED BY <1>0, <1>4, <2>1, <2>2, CronPasses
  <1>5. CASE Uses(r, c)
    <2>1. /\ \A s \in Requests \ {r} : ~Uses(s, c)
          /\ \A s \in Requests \ {r} : req[s].task # None /\ req[s].task \in stored
                => row[req[s].task].cron # c
      BY <1>5, OnlyUser
    <2>2. \A s \in Requests \ {r} : req[s].task # None /\ req[s].task \in stored'
             => row'[req[s].task].cron # c
      BY <1>0, <1>2, <1>3, <1>5, <2>1
    <2>3. ASSUME Plans(r, c)
          PROVE  c \in repeat /\ \A u \in stored' : row'[u].cron = c <=> u = t
      BY <1>0, <1>2, <1>3, <1>5, <2>3 DEF CronOK, PlanOK, Plans
    <2>4. ASSUME Works(r, c), req[r].cron = None
          PROVE  c \in repeat /\ \A u \in stored' : row'[u].cron = c <=> u = t
      BY <1>0, <1>1, <1>2, <1>3, <1>5, <2>4 DEF CronOK, WorkOK, OneRow
    <2>5. ASSUME Works(r, c), req[r].cron # None, req[r].cron # c
          PROVE  c \notin repeat /\ \A u \in stored' : row'[u].cron # c
      BY <1>0, <1>1, <1>2, <1>3, <1>5, <2>5 DEF CronOK, WorkOK, OneRow
    <2>6. \/ c \in repeat /\ \A u \in stored' : row'[u].cron = c <=> u = t
          \/ c \notin repeat /\ \A u \in stored' : row'[u].cron # c
      BY <1>5, <2>3, <2>4, <2>5 DEF Uses, Plans
    <2>7. /\ \A u, v \in stored' : row'[u].cron = c /\ row'[v].cron = c => u = v
          /\ c \in repeat <=> \E u \in stored' : row'[u].cron = c
      BY <1>0, <1>3, <1>5, <2>6
    <2> QED BY <1>0, <2>1, <2>2, <2>7, CronBy
  <1> QED BY <1>4, <1>5

LEMMA CronRemoved ==
  ASSUME BaseInv, NEW c \in Crons, CronOK(c), NEW r \in Requests, RemoveDeletes(r)
  PROVE  CronOK(c)'
  <1>0. /\ pc'[r] = "idle" /\ req'[r] = NoRequest /\ NoRequest.cron = None
        /\ NoRequest.row.cron = None /\ NoRequest.task = None /\ c # None
        /\ \A s \in Requests \ {r} : pc'[s] = pc[s] /\ req'[s] = req[s]
        /\ repeat' = repeat /\ row' = row /\ stored \subseteq Tasks
        /\ pc[r] = "rmDelete" /\ pc[r] \in RowPoints /\ Finish(r)
    BY CronNames, OtherSlots DEF RemoveDeletes, Finish, Goto, BaseInv, TypeOK, NoRequest,
       NoRow, queueVars, RowPoints, RemovePoints
  <1>1. PICK t : t = req[r].task
    OBVIOUS
  <1>2. stored' = stored \ {t}
    BY <1>1 DEF RemoveDeletes
  <1>3. /\ t # None
        /\ t \in stored /\ row[t].cron = c => Works(r, c)
        /\ Uses(r, c) => t \in stored /\ \A s \in Requests \ {r} : req[s].task # t
    BY <1>0, <1>1, CronRowOf
  <1>4. CASE ~Uses(r, c)
    <2>1. SameRowsOf(c)
      BY <1>0, <1>2, <1>3, <1>4 DEF SameRowsOf, Uses
    <2>2. \A s \in Requests \ {r} :
             Uses(s, c) /\ req[s].task # None => req[s].task \in stored'
      <3>1. ASSUME NEW s \in Requests \ {r}, Uses(s, c), req[s].task # None
            PROVE  req[s].task \in stored /\ req[s].task # t
        BY <1>1, <3>1 DEF CronOK, AloneOK
      <3> QED BY <1>2, <3>1
    <2> QED BY <1>0, <1>4, <2>1, <2>2, CronPasses
  <1>5. CASE Uses(r, c)
    <2>1. /\ \A s \in Requests \ {r} : ~Uses(s, c)
          /\ \A s \in Requests \ {r} : req[s].task # None /\ req[s].task \in stored
                => row[req[s].task].cron # c
      BY <1>5, OnlyUser
    <2>2. Works(r, c)
      BY <1>0, <1>5, UsesTouched DEF Uses, UpdatePoints
    <2>3. row[t].cron = c /\ c \notin repeat
      BY <1>0, <1>1, <2>2 DEF CronOK, WorkOK
    <2>4. \A u \in stored' : row'[u].cron # c
      BY <1>0, <1>2, <1>3, <1>5, <2>3 DEF CronOK, OneRow
    <2> QED BY <1>0, <1>2, <2>1, <2>3, <2>4, CronBy
  <1> QED BY <1>4, <1>5

\* A request on a row that goes on: only whether the queue repeats c matters.
LEMMA CronGoesOn ==
  ASSUME BaseInv, NEW c \in Crons, CronOK(c), NEW r \in Requests, pc[r] \in RowPoints,
         NEW point, Step(r, point), UNCHANGED tableVars,
         ~Uses(r, c) => (c \in repeat' <=> c \in repeat),
         Plans(r, c) => (c \in repeat' <=> point \in {"cronStore", "updStore"}),
         Works(r, c) => (c \in repeat' <=> \/ point \in {"updRemove", "rmDequeue"}
                                           \/ point = "updStore" /\ req[r].cron = None)
  PROVE  CronOK(c)'
  <1>0. /\ pc'[r] = point /\ req'[r] = req[r]
        /\ \A s \in Requests \ {r} : pc'[s] = pc[s] /\ req'[s] = req[s]
        /\ stored' = stored /\ row' = row
    BY OtherSlots DEF Step, Goto, BaseInv, TypeOK, tableVars
  <1>1. CASE ~Uses(r, c)
    <2>1. SameRowsOf(c)
      BY <1>0 DEF SameRowsOf
    <2>2. \A s \in Requests : Uses(s, c) /\ req[s].task # None => req[s].task \in stored'
      BY <1>0 DEF CronOK, AloneOK
    <2> QED BY <1>0, <1>1, <2>1, <2>2, CronPasses
  <1>2. CASE Uses(r, c)
    <2>1. /\ \A s \in Requests \ {r} : ~Uses(s, c)
          /\ \A s \in Requests \ {r} : req[s].task # None /\ req[s].task \in stored
                => row[req[s].task].cron # c
      BY <1>2, OnlyUser
    <2>2. /\ req[r].task # None
          /\ req[r].task \in stored /\ row[req[r].task].cron = c => Works(r, c)
          /\ req[r].task \in stored /\ \A s \in Requests \ {r} : req[s].task # req[r].task
      BY <1>2, CronRowOf
    <2>3. /\ Plans(r, c) => \A t \in stored : row[t].cron # c
          /\ Works(r, c) => row[req[r].task].cron = c
          /\ \A t, u \in stored : row[t].cron = c /\ row[u].cron = c => t = u
      BY DEF CronOK, PlanOK, WorkOK, OneRow
    <2> QED BY <1>0, <1>2, <2>1, <2>2, <2>3, CronBy DEF Uses, Plans, Works
  <1> QED BY <1>1, <1>2

LEMMA CronMoves ==
  ASSUME BaseInv, NEW c \in Crons, CronOK(c), NEW r \in Requests,
         \/ UpdateRemovesRepeatable(r) \/ UpdateAddsRepeatable(r)
         \/ RemoveUnschedules(r) \/ RemoveDequeues(r)
  PROVE  CronOK(c)'
  <1>0. /\ pc[r] \in {"updRemove", "updAdd", "rmDequeue"} /\ pc[r] \in RowPoints
        /\ UNCHANGED tableVars /\ c # None
    BY CronNames DEF UpdateRemovesRepeatable, UpdateAddsRepeatable, RemoveUnschedules,
       RemoveDequeues, RowPoints, UpdatePoints, RemovePoints
  <1>1. BoundOK(pc[r], req[r]) /\ req[r] \in Request
    BY <1>0, SlotFacts
  <1>2. /\ Plans(r, c) => c \in repeat <=> pc[r] \in {"cronStore", "updStore"}
        /\ Works(r, c) => c \in repeat <=> \/ pc[r] \in {"updRemove", "rmDequeue"}
                                           \/ pc[r] = "updStore" /\ req[r].cron = None
    BY DEF CronOK, PlanOK, WorkOK
  <1>3. req[r].row.key = req[r].row.cron
    BY <1>1 DEF BoundOK, RowOK, IsOnce, IsCron
  <1>4. CASE UpdateRemovesRepeatable(r)
    <2>1. pc[r] = "updRemove" /\ pc[r] \in UpdatePoints
      BY <1>4 DEF UpdateRemovesRepeatable, UpdatePoints
    <2>2. req[r].cron # None /\ req[r].cron # req[r].row.cron
      BY <1>1, <2>1 DEF BoundOK
    <2>3. repeat' = repeat \ {req[r].row.cron} /\ Step(r, "updAdd")
      BY <1>3, <1>4 DEF UpdateRemovesRepeatable, RemoveRepeatable
    <2> QED BY <1>0, <1>2, <2>1, <2>2, <2>3, CronGoesOn DEF Plans, Works, Uses
  <1>5. CASE UpdateAddsRepeatable(r)
    <2>1. pc[r] = "updAdd" /\ pc[r] \in UpdatePoints
      BY <1>5 DEF UpdateAddsRepeatable, UpdatePoints
    <2>2. req[r].cron # None /\ req[r].cron # req[r].row.cron
      BY <1>1, <2>1 DEF BoundOK
    <2>3. repeat' = repeat \cup {req[r].cron} /\ Step(r, "updStore")
      BY <1>5 DEF UpdateAddsRepeatable, AddRepeatable
    <2> QED BY <1>0, <1>2, <2>1, <2>2, <2>3, CronGoesOn DEF Plans, Works, Uses
  <1>6. CASE RemoveUnschedules(r) \/ RemoveDequeues(r)
    <2>1. /\ pc[r] = "rmDequeue" /\ pc[r] \in RemovePoints /\ pc[r] \notin UpdatePoints
          /\ Step(r, "rmDelete")
      BY <1>6 DEF RemoveUnschedules, RemoveDequeues, UpdatePoints, RemovePoints
    <2>2. req[r].cron = None
      BY <1>1, <2>1 DEF BoundOK
    <2>3. CASE RemoveUnschedules(r)
      <3>1. req[r].row.type = "CRON"
        BY <2>3 DEF RemoveUnschedules
      <3>2. req[r].row.key # None
        BY <1>1, <3>1, IdsAssumption DEF BoundOK, RowOK, IsOnce, IsCron
      <3>3. repeat' = repeat \ {req[r].row.cron}
        BY <1>3, <2>3, <3>2 DEF RemoveUnschedules, RemoveRepeatable
      <3> QED BY <1>0, <1>2, <2>1, <2>2, <3>3, CronGoesOn DEF Plans, Works, Uses
    <2>4. CASE RemoveDequeues(r)
      <3>1. req[r].row.cron = None
        BY <1>1, <2>4 DEF RemoveDequeues, BoundOK, RowOK, IsOnce, IsCron
      <3>2. repeat' = repeat
        BY <2>4 DEF RemoveDequeues, RemoveJob, queueVars
      <3> QED BY <1>0, <2>1, <2>2, <3>1, <3>2, CronGoesOn DEF Plans, Works, Uses
    <2> QED BY <1>6, <2>3, <2>4
  <1> QED BY <1>4, <1>5, <1>6

\* The steps that are not about an expression.
LEMMA CronOthers ==
  ASSUME BaseInv, NEW c \in Crons, CronOK(c),
         \/ \E j \in JobIds : WorkerStep(j) \/ QueueTurns(j)
         \/ \E u \in pending : ApplyUpdate(u[1], u[2]) \/ DropUpdate(u[1], u[2])
  PROVE  CronOK(c)'
  <1>1. /\ repeat' = repeat /\ pc' = pc /\ req' = req /\ stored' = stored
    BY DEF WorkerStep, StartJob, FinishJob, StalledJob, QueueTurns, ApplyUpdate, DropUpdate,
           TakeJob, CompleteJob, RetryStalled, FailStalled, JobDue, ForgetJob,
           queueVars, tableVars, requestVars
  <1>2. \A t \in stored : row'[t].cron = row[t].cron
    <2>1. CASE row' = row
      BY <2>1
    <2>2. ASSUME NEW u \in pending, ApplyUpdate(u[1], u[2])
          PROVE  \A t \in stored : row'[t].cron = row[t].cron
      BY <2>2, UpdatesTable
    <2>3. row' = row \/ \E u \in pending : ApplyUpdate(u[1], u[2])
      BY DEF WorkerStep, StartJob, FinishJob, StalledJob, QueueTurns, DropUpdate, tableVars
    <2> QED BY <2>1, <2>2, <2>3
  <1>3. SameRowsOf(c) /\ \A s \in Requests : Aside(s, c)
    BY <1>1, <1>2 DEF SameRowsOf, Aside
  <1>4. \A s \in Requests : Uses(s, c) /\ req[s].task # None => req[s].task \in stored'
    BY <1>1 DEF CronOK, AloneOK
  <1> QED BY <1>1, <1>3, <1>4, CronAside

LEMMA CronMarks ==
  ASSUME BaseInv, NEW c \in Crons, CronOK(c), NEW r \in Requests,
         \/ PauseMarks(r) \/ ResumeMarks(r) \/ \E j \in ManualIds : RunNowAdds(r, j)
  PROVE  CronOK(c)'
  <1>1. /\ Finish(r) /\ repeat' = repeat /\ stored' = stored
        /\ pc[r] \in {"pauseMark", "resumeMark", "runAdd"}
    BY DEF PauseMarks, ResumeMarks, RunNowAdds, AddJob, queueVars, tableVars
  <1>2. ~Uses(r, c)
    BY <1>1, UsesTouched DEF Uses, RowPoints, UpdatePoints, RemovePoints
  <1>3. \A t \in stored : row'[t].cron = row[t].cron
    <2>1. CASE PauseMarks(r) \/ ResumeMarks(r)
      <3>1. PICK from, to \in Statuses : Remark(from, to) /\ UNCHANGED deleted
        BY <2>1 DEF PauseMarks, ResumeMarks, Statuses
      <3>2. PICK S \in SUBSET stored : S = {t \in stored : row[t].status = from}
        OBVIOUS
      <3>3. row' = MarkRows(S, to)
        BY <3>1, <3>2 DEF Remark, MarkRows
      <3> QED BY <1>1, <3>1, <3>3, RemarkTable
    <2>2. CASE \E j \in ManualIds : RunNowAdds(r, j)
      BY <2>2 DEF RunNowAdds, tableVars
    <2> QED BY <2>1, <2>2
  <1>4. SameRowsOf(c)
    BY <1>1, <1>3 DEF SameRowsOf
  <1>5. \A s \in Requests : Uses(s, c) /\ req[s].task # None => req[s].task \in stored'
    BY <1>1 DEF CronOK, AloneOK
  <1> QED BY <1>1, <1>2, <1>4, <1>5, CronPasses

\* A request that fails, or a crash, disturbs what it was about.
LEMMA CronFails ==
  ASSUME BaseInv, NEW c \in Crons, c \notin disturbed', CronOK(c),
         Crash \/ \E r \in Requests : RequestFails(r)
  PROVE  CronOK(c)'
  <1>0. NoRequest.cron = None /\ NoRequest.row.cron = None /\ NoRequest.task = None /\ c # None
    BY CronNames DEF NoRequest, NoRow
  <1>1. stored' = stored /\ row' = row /\ repeat' = repeat
    BY DEF RequestFails, Crash, LoseWorker, tableVars, queueVars
  <1>2. SameRowsOf(c)
    BY <1>1 DEF SameRowsOf
  <1>3. \A s \in Requests : Uses(s, c) /\ req[s].task # None => req[s].task \in stored'
    BY <1>1 DEF CronOK, AloneOK
  <1>4. ASSUME NEW r \in Requests, RequestFails(r) PROVE CronOK(c)'
    <2>1. ~Uses(r, c)
      BY <1>4, UsesTouched DEF RequestFails
    <2>2. Finish(r)
      BY <1>4 DEF RequestFails
    <2> QED BY <1>1, <1>2, <1>3, <2>1, <2>2, CronPasses
  <1>5. CASE Crash
    <2>1. /\ disturbed' = disturbed \cup UNION {Touched(req[r]) : r \in Requests}
          /\ req' = [r \in Requests |-> NoRequest]
      BY <1>5 DEF Crash
    <2>2. ASSUME NEW s \in Requests PROVE Aside(s, c)
      <3>1. c \notin Touched(req[s])
        BY <2>1
      <3>2. ~Uses(s, c)
        BY <3>1, UsesTouched
      <3> QED BY <1>0, <2>1, <3>2 DEF Aside
    <2> QED BY <1>1, <1>2, <1>3, <2>2, CronAside
  <1> HIDE DEF CronOK
  <1> QED BY <1>4, <1>5

LEMMA CronsStep ==
  ASSUME BaseInv, CronsOK, [Next]_vars
  PROVE  CronsOK'
  <1> SUFFICES ASSUME NEW c \in Crons, c \notin disturbed'
               PROVE  CronOK(c)'
    BY DEF CronsOK
  <1>1. CASE UNCHANGED vars
    <2>1. CronOK(c)
      BY <1>1 DEF CronsOK, vars, historyVars
    <2> QED BY <1>1, <2>1 DEF vars, queueVars, tableVars, requestVars, CronOK, OneRow,
              OneRequest, PlanOK, WorkOK, AloneOK, FreeCronOK, Uses, Plans, Works
  <1>2. CASE Next
    <2>1. CronOK(c)
      BY <1>2, DeletedRowsStay DEF CronsOK
    <2>2. ASSUME NEW r \in Requests, RequestStep(r) PROVE CronOK(c)'
      BY <2>1, <2>2, CronCreated, CronUpdated, CronRemoved, CronMoves, CronMarks
         DEF RequestStep
    <2> QED BY <1>2, <2>1, <2>2, CronArrivals, CronOthers, CronFails, StepKinds
  <1> QED BY <1>1, <1>2

-----------------------------------------------------------------------------
(* No operation loses the job of a one-time task *)

Queued(j) == job[j] \in {"delayed", "waiting"}
Adding(r, j) == pc[r] = "onceStore" /\ req[r].job = j
HasJob(t, j) == t \in stored \cup deleted /\ row[t].job = j
Deleting(t) == \E r \in Requests : pc[r] = "rmDelete" /\ req[r].task = t

LiveOK == \A j \in OnceIds : j \in started \/ job[j] \in {"none", "delayed", "waiting"}

\* One row has the job j, or one request is about to store that row.
OneHolder(j) ==
    /\ \A t, u \in Tasks : HasJob(t, j) /\ HasJob(u, j) => t = u
    /\ \A r, s \in Requests : Adding(r, j) /\ Adding(s, j) => r = s
    /\ \A r \in Requests, t \in Tasks : ~(Adding(r, j) /\ HasJob(t, j))

\* Its job is in the queue until a delete has taken it out.
StaysQueued(j) ==
    /\ \A r \in Requests : Adding(r, j) => Queued(j)
    /\ \A t \in stored : row[t].job = j /\ ~Deleting(t) => Queued(j)

HoldersOK ==
    \A j \in OnceIds \ disturbed : OneHolder(j) /\ (j \notin started => StaysQueued(j))

LEMMA LiveStep ==
  ASSUME BaseInv, LiveOK, Next
  PROVE  LiveOK'
  <1> SUFFICES ASSUME NEW j \in OnceIds, j \notin started'
               PROVE  job'[j] \in {"none", "delayed", "waiting"}
    BY DEF LiveOK
  <1>1. job \in [JobIds -> {"none", "delayed", "waiting", "active", "stalled", "done"}] /\ j \in JobIds
    BY DEF BaseInv, TypeOK, QueueTypeOK, JobIds
  <1>2. job[j] \in {"none", "delayed", "waiting"}
    BY DeletedRowsStay DEF LiveOK
  <1>3. ASSUME NEW r \in Requests, CreateOnceAdds(r, j) PROVE job'[j] \in {job[j], "delayed"}
    BY <1>1, <1>3 DEF CreateOnceAdds, AddJob, JobsWith
  <1>4. ~StartJob(j)
    BY DEF StartJob
  <1> QED BY <1>2, <1>3, <1>4, OnceJobChanges DEF JobLocked

\* A slot changes by its own request's steps, or with the process.
LEMMA SlotMoves ==
  ASSUME BaseInv, Next, NEW r \in Requests
  PROVE  \/ pc'[r] = pc[r] /\ req'[r] = req[r]
         \/ RequestArrives(r) \/ RequestStep(r) \/ RequestFails(r) \/ Crash
  <1>1. ASSUME NEW s \in Requests, s # r, RequestArrives(s)
        PROVE  pc'[r] = pc[r] /\ req'[r] = req[r]
    <2>1. \E point, q : Arrive(s, point, q)
      <3>1. ASSUME NEW j \in OnceIds, CreateOnceAdds(s, j) PROVE \E point, q : Arrive(s, point, q)
        BY <3>1 DEF CreateOnceAdds
      <3>2. ASSUME NEW c \in Crons, CreateCronAdds(s, c) PROVE \E point, q : Arrive(s, point, q)
        BY <3>2 DEF CreateCronAdds
      <3>3. ASSUME NEW t \in Tasks, NEW c \in Crons \cup {None},
                   NEW st \in ClientStatuses \cup {None}, UpdateReads(s, t, c, st)
            PROVE  \E point, q : Arrive(s, point, q)
        BY <3>3 DEF UpdateReads
      <3>4. ASSUME NEW t \in Tasks, RemoveReads(s, t) \/ RunNowReads(s, t)
            PROVE  \E point, q : Arrive(s, point, q)
        BY <3>4 DEF RemoveReads, RunNowReads
      <3>5. ASSUME PauseQueue(s) \/ ResumeQueue(s) PROVE \E point, q : Arrive(s, point, q)
        BY <3>5 DEF PauseQueue, ResumeQueue
      <3> QED BY <1>1, <3>1, <3>2, <3>3, <3>4, <3>5 DEF RequestArrives
    <2> QED BY <1>1, <2>1, OtherSlots
  <1>2. ASSUME NEW s \in Requests, s # r, RequestStep(s)
        PROVE  pc'[r] = pc[r] /\ req'[r] = req[r]
    <2>1. Finish(s) \/ \E point : Step(s, point)
      BY <1>2 DEF RequestStep, CreateOnceStores, CreateCronStores, UpdateRemovesRepeatable,
                  UpdateAddsRepeatable, UpdateStores, RemoveUnschedules, RemoveDequeues,
                  RemoveDeletes, PauseMarks, ResumeMarks, RunNowAdds
    <2> QED BY <1>2, <2>1, OtherSlots
  <1>3. ASSUME NEW s \in Requests, s # r, RequestFails(s)
        PROVE  pc'[r] = pc[r] /\ req'[r] = req[r]
    BY <1>3, OtherSlots DEF RequestFails
  <1>4. ASSUME \/ \E j \in JobIds : WorkerStep(j) \/ QueueTurns(j)
               \/ \E u \in pending : ApplyUpdate(u[1], u[2]) \/ DropUpdate(u[1], u[2])
        PROVE  pc' = pc /\ req' = req
    BY <1>4 DEF WorkerStep, StartJob, FinishJob, StalledJob, QueueTurns, ApplyUpdate,
                DropUpdate, requestVars
  <1> QED BY <1>1, <1>2, <1>3, <1>4, StepKinds

\* A request about to store the row of a one-time task was so before, or has
\* just added the job.
LEMMA ReachesStore ==
  ASSUME BaseInv, Next, NEW r \in Requests, pc'[r] = "onceStore"
  PROVE  \/ pc[r] = "onceStore" /\ req'[r] = req[r]
         \/ \E j \in OnceIds : CreateOnceAdds(r, j) /\ req'[r].job = j
  <1>0. pc \in [Requests -> Points] /\ req \in [Requests -> Request]
    BY DEF BaseInv, TypeOK
  <1>1. ASSUME Finish(r) PROVE FALSE
    BY <1>0, <1>1 DEF Finish, Goto
  <1>2. ASSUME NEW point, NEW q, Arrive(r, point, q), point # "onceStore" PROVE FALSE
    BY <1>0, <1>2 DEF Arrive, Goto
  <1>3. ASSUME NEW point, Step(r, point), point # "onceStore" PROVE FALSE
    BY <1>0, <1>3 DEF Step, Goto
  <1>4. CASE RequestArrives(r)
    <2>1. ASSUME NEW j \in OnceIds, CreateOnceAdds(r, j) PROVE req'[r].job = j
      <3>1. req'[r] = OnceCall(j) /\ OnceCall(j) \in Request
        BY <1>0, <2>1, OnceRequest DEF CreateOnceAdds, Arrive, OnceCall
      <3> QED BY <3>1 DEF OnceCall, NoRequest
    <2>2. ASSUME NEW c \in Crons, CreateCronAdds(r, c) PROVE FALSE
      BY <1>2, <2>2 DEF CreateCronAdds
    <2>3. ASSUME NEW t \in Tasks, NEW c \in Crons \cup {None},
                 NEW st \in ClientStatuses \cup {None}, UpdateReads(r, t, c, st)
          PROVE  FALSE
      <3>1. PICK point \in {"updStore", "updRemove", "updAdd"} :
               \E q : Arrive(r, point, q)
        BY <2>3 DEF UpdateReads
      <3> QED BY <1>2, <3>1
    <2>4. ASSUME NEW t \in Tasks, RemoveReads(r, t) \/ RunNowReads(r, t) PROVE FALSE
      BY <1>2, <2>4 DEF RemoveReads, RunNowReads
    <2>5. ASSUME PauseQueue(r) \/ ResumeQueue(r) PROVE FALSE
      BY <1>2, <2>5 DEF PauseQueue, ResumeQueue
    <2> QED BY <1>4, <2>1, <2>2, <2>3, <2>4, <2>5 DEF RequestArrives
  <1>5. CASE RequestStep(r)
    <2>1. Finish(r) \/ \E point \in {"updAdd", "updStore", "rmDelete"} : Step(r, point)
      BY <1>5 DEF RequestStep, CreateOnceStores, CreateCronStores, UpdateRemovesRepeatable,
                  UpdateAddsRepeatable, UpdateStores, RemoveUnschedules, RemoveDequeues,
                  RemoveDeletes, PauseMarks, ResumeMarks, RunNowAdds
    <2> QED BY <1>1, <1>3, <2>1
  <1>6. CASE RequestFails(r)
    BY <1>1, <1>6 DEF RequestFails
  <1>7. CASE Crash
    BY <1>7 DEF Crash
  <1> QED BY <1>4, <1>5, <1>6, <1>7, SlotMoves

\* A row that is there after a step was there, for the same task, or a
\* create has just stored it.
LEMMA RowSteps ==
  ASSUME BaseInv, Next
  PROVE  \A t \in stored' \cup deleted' :
            \/ t \in stored \cup deleted /\ SameTask(row[t], row'[t])
            \/ \E r \in Requests : CreateOnceStores(r, t) \/ CreateCronStores(r, t)
  <1> DEFINE Same == \A t \in stored' \cup deleted' :
                        t \in stored \cup deleted /\ SameTask(row[t], row'[t])
  <1>1. ASSUME UNCHANGED tableVars PROVE Same
    BY <1>1 DEF tableVars, SameTask
  <1>2. ASSUME TableOK, UNCHANGED <<stored, deleted>> PROVE Same
    BY <1>2 DEF TableOK, RowsKept
  <1>3. ASSUME NEW r \in Requests, RequestStep(r),
               ~\E t \in Tasks : CreateOnceStores(r, t) \/ CreateCronStores(r, t)
        PROVE  Same
    <2>1. CASE UpdateStores(r)
      BY <1>2, <2>1, UpdateTable DEF UpdateStores
    <2>2. CASE PauseMarks(r) \/ ResumeMarks(r)
      <3>1. PICK from \in Statuses, to \in Statuses : Remark(from, to)
        BY <2>2 DEF PauseMarks, ResumeMarks, Statuses
      <3>2. row' = MarkRows({t \in stored : row[t].status = from}, to)
        BY <3>1 DEF Remark, MarkRows, BaseInv, TypeOK
      <3>3. UNCHANGED <<stored, deleted>>
        BY <2>2 DEF PauseMarks, ResumeMarks
      <3> QED BY <1>2, <3>2, <3>3, RemarkTable
    <2>3. CASE RemoveDeletes(r)
      <3>1. pc[r] \in RowPoints
        BY <2>3 DEF RemoveDeletes, RowPoints, RemovePoints
      <3>2. req[r].task \in stored \cup deleted
        BY <3>1, SlotFacts
      <3> QED BY <2>3, <3>2 DEF RemoveDeletes, SameTask
    <2>4. CASE \/ UpdateRemovesRepeatable(r) \/ UpdateAddsRepeatable(r)
               \/ RemoveUnschedules(r) \/ RemoveDequeues(r)
               \/ \E j \in ManualIds : RunNowAdds(r, j)
      BY <1>1, <2>4 DEF UpdateRemovesRepeatable, UpdateAddsRepeatable, RemoveUnschedules,
                        RemoveDequeues, RunNowAdds
    <2> HIDE DEF Same
    <2> QED BY <1>3, <2>1, <2>2, <2>3, <2>4 DEF RequestStep
  <1>4. ASSUME NEW u \in pending, ApplyUpdate(u[1], u[2]) PROVE Same
    BY <1>2, <1>4, UpdatesTable DEF ApplyUpdate
  <1>5. CASE \E r \in Requests : RequestArrives(r)
    BY <1>1, <1>5, ArrivalHistory
  <1>6. CASE \/ \E r \in Requests : RequestFails(r)
             \/ \E j \in JobIds : WorkerStep(j) \/ QueueTurns(j)
             \/ Crash
             \/ \E u \in pending : DropUpdate(u[1], u[2])
    BY <1>1, <1>6 DEF RequestFails, WorkerStep, StartJob, FinishJob, StalledJob, QueueTurns,
                      Crash, DropUpdate
  <1>7. ASSUME NEW r \in Requests, NEW t \in Tasks, CreateOnceStores(r, t) \/ CreateCronStores(r, t)
        PROVE  \A u \in (stored' \cup deleted') \ {t} :
                  u \in stored \cup deleted /\ SameTask(row[u], row'[u])
    <2>1. PICK x : Insert(t, x)
      BY <1>7 DEF CreateOnceStores, CreateCronStores
    <2> QED BY <2>1 DEF Insert, SameTask, BaseInv, TypeOK
  <1>8. CASE \E r \in Requests, t \in Tasks : CreateOnceStores(r, t) \/ CreateCronStores(r, t)
    BY <1>7, <1>8
  <1> QED BY <1>3, <1>4, <1>5, <1>6, <1>8, StepKinds

\* While a delete is about to remove a row whose job nothing disturbed, the
\* row stays: it goes when the delete ends, and a failure would disturb.
LEMMA DeletingStays ==
  ASSUME BaseInv, Next, NEW t \in stored', row[t].job \in OnceIds,
         row[t].job \notin disturbed', Deleting(t)
  PROVE  Deleting(t)'
  <1>0. pc \in [Requests -> Points] /\ req \in [Requests -> Request]
    BY DEF BaseInv, TypeOK
  <1>1. PICK r \in Requests : pc[r] = "rmDelete" /\ req[r].task = t
    BY DEF Deleting
  <1>2. pc[r] \in RowPoints
    BY <1>1 DEF RowPoints, RemovePoints
  <1>3. row[t].job \in Touched(req[r])
    <2>1. req[r].row.job = row[t].job
      BY <1>1, <1>2, SlotFacts DEF SameTask
    <2>2. row[t].job # None
      BY IdsAssumption DEF JobIds
    <2> QED BY <2>1, <2>2 DEF Touched
  <1>4. ~RequestFails(r) /\ ~Crash
    BY <1>3 DEF RequestFails, Crash
  <1>5. ~RequestArrives(r)
    BY <1>1 DEF RequestArrives, CreateOnceAdds, CreateCronAdds, UpdateReads, RemoveReads,
                RunNowReads, PauseQueue, ResumeQueue, Arrive
  <1>6. ~RequestStep(r)
    <2>1. ~RemoveDeletes(r)
      BY <1>1 DEF RemoveDeletes
    <2> QED BY <1>1, <2>1 DEF RequestStep, CreateOnceStores, CreateCronStores,
                UpdateRemovesRepeatable, UpdateAddsRepeatable, UpdateStores,
                RemoveUnschedules, RemoveDequeues, PauseMarks, ResumeMarks, RunNowAdds
  <1>7. pc'[r] = pc[r] /\ req'[r] = req[r]
    BY <1>4, <1>5, <1>6, SlotMoves
  <1> QED BY <1>1, <1>7 DEF Deleting

\* The create that adds j makes it its own: nobody has j, or it is disturbed.
LEMMA HeldFromCreate ==
  ASSUME BaseInv, Next, NEW j \in OnceIds, j \notin disturbed',
         NEW r \in Requests, CreateOnceAdds(r, j)
  PROVE  OneHolder(j)' /\ StaysQueued(j)'
  <1>0. /\ pc \in [Requests -> Points] /\ req \in [Requests -> Request] /\ j \in JobIds /\ j # None
        /\ job \in [JobIds -> {"none", "delayed", "waiting", "active", "stalled", "done"}]
        /\ stored \subseteq Tasks /\ deleted \subseteq Tasks
    BY IdsAssumption DEF BaseInv, TypeOK, QueueTypeOK, JobIds
  <1>1. job[j] = "none" /\ ~Claimed(j) /\ \A t \in deleted : row[t].job # j
    BY DEF CreateOnceAdds, Taken
  <1>2. job'[j] = "delayed"
    BY <1>0, <1>1 DEF CreateOnceAdds, AddJob, JobsWith
  <1>3. \A t \in Tasks : ~HasJob(t, j)
    BY <1>1 DEF Claimed, HasJob
  <1>4. \A s \in Requests : req[s].job # j
    BY <1>0, <1>1 DEF Claimed, Touched
  <1>5. /\ UNCHANGED tableVars
        /\ \A s \in Requests \ {r} : pc'[s] = pc[s] /\ req'[s] = req[s]
    <2>1. Arrive(r, "onceStore", [NoRequest EXCEPT !.job = j])
      BY DEF CreateOnceAdds
    <2> QED BY <2>1, OtherSlots DEF CreateOnceAdds
  <1>6. \A t \in Tasks : ~HasJob(t, j)'
    BY <1>3, <1>5 DEF HasJob, tableVars
  <1>7. \A s \in Requests : Adding(s, j)' => s = r
    BY <1>4, <1>5 DEF Adding
  <1>8. \A t \in stored' : row'[t].job # j
    BY <1>0, <1>5, <1>6 DEF HasJob, tableVars
  <1>9. StaysQueued(j)'
    BY <1>2, <1>8 DEF StaysQueued, Queued
  <1> QED BY <1>6, <1>7, <1>9 DEF OneHolder

\* The create that stores the row of j hands its job on to the row.
LEMMA HeldFromStore ==
  ASSUME BaseInv, Next, NEW j \in OnceIds, OneHolder(j), j \notin started => StaysQueued(j),
         NEW r \in Requests, NEW t \in Tasks, CreateOnceStores(r, t), Adding(r, j)
  PROVE  OneHolder(j)' /\ (j \notin started' => StaysQueued(j)')
  <1>0. /\ pc \in [Requests -> Points] /\ req \in [Requests -> Request]
        /\ stored \subseteq Tasks /\ deleted \subseteq Tasks /\ row \in [Tasks -> Row]
    BY DEF BaseInv, TypeOK
  <1>1. /\ stored' = stored \cup {t} /\ deleted' = deleted /\ job' = job /\ started' = started
        /\ row' = [row EXCEPT ![t] = OnceRow(j)]
        /\ pc' = [pc EXCEPT ![r] = "idle"]
        /\ \A s \in Requests \ {r} : pc'[s] = pc[s] /\ req'[s] = req[s]
    <2>1. Finish(r) /\ Insert(t, OnceRow(j))
      BY DEF CreateOnceStores, Adding
    <2>2. \A s \in Requests \ {r} : pc'[s] = pc[s] /\ req'[s] = req[s]
      BY <2>1, OtherSlots
    <2> QED BY <2>1, <2>2 DEF CreateOnceStores, Insert, Finish, Goto, queueVars, historyVars
  <1>2. \A u \in Tasks : ~HasJob(u, j)
    BY DEF OneHolder
  <1>3. \A u \in Tasks : HasJob(u, j)' => u = t
    BY <1>0, <1>1, <1>2 DEF HasJob
  <1>4. \A s \in Requests : ~Adding(s, j)'
    <2>1. pc'[r] = "idle"
      BY <1>0, <1>1
    <2>2. \A s \in Requests \ {r} : ~Adding(s, j)
      BY DEF OneHolder
    <2> QED BY <1>1, <2>1, <2>2 DEF Adding
  <1>5. j \notin started => Queued(j)'
    BY <1>1 DEF StaysQueued, Queued
  <1> QED BY <1>1, <1>3, <1>4, <1>5 DEF OneHolder, StaysQueued

\* Any other step leaves j to the row or request that has it, and takes its
\* job out of the queue only for a worker or for the delete of that row.
LEMMA HeldOtherwise ==
  ASSUME BaseInv, LiveOK, Next, NEW j \in OnceIds, j \notin disturbed',
         OneHolder(j), j \notin started => StaysQueued(j),
         \A r \in Requests : ~CreateOnceAdds(r, j),
         \A r \in Requests, t \in Tasks : ~(CreateOnceStores(r, t) /\ Adding(r, j))
  PROVE  OneHolder(j)' /\ (j \notin started' => StaysQueued(j)')
  <1>0. /\ stored \subseteq Tasks /\ deleted \subseteq Tasks \ stored
        /\ stored' \subseteq Tasks /\ deleted' \subseteq Tasks \ stored'
        /\ j \notin Instances
    <2>1. BaseInv'
      BY BaseStep
    <2>2. Instances \subseteq Crons \X (1..(MaxInstances + 1))
      BY MaxInstancesAssumption DEF Instances
    <2> QED BY <2>1, <2>2, IdsAssumption DEF BaseInv, TypeOK
  <1>1. ASSUME NEW s \in Requests, Adding(s, j)' PROVE Adding(s, j)
    BY <1>1, ReachesStore DEF Adding
  <1>2. ASSUME NEW t \in Tasks, HasJob(t, j)' PROVE HasJob(t, j)
    <2>1. ASSUME NEW r \in Requests, CreateOnceStores(r, t) PROVE FALSE
      <3>1. row'[t] = OnceRow(req[r].job) /\ pc[r] = "onceStore"
        BY <2>1 DEF CreateOnceStores, Insert, BaseInv, TypeOK
      <3>2. OnceRow(req[r].job).job = req[r].job
        BY DEF OnceRow, NoRow
      <3> QED BY <1>2, <2>1, <3>1, <3>2 DEF HasJob, Adding
    <2>2. ASSUME NEW r \in Requests, CreateCronStores(r, t) PROVE FALSE
      <3>1. row'[t] = CronRow(req[r].cron, req[r].job) /\ pc[r] = "cronStore"
        BY <2>2 DEF CreateCronStores, Insert, BaseInv, TypeOK
      <3>2. req[r].job \in Instances
        BY <3>1, SlotFacts DEF FreeOK, RowPoints, UpdatePoints, RemovePoints
      <3> QED BY <1>0, <1>2, <3>1, <3>2 DEF HasJob, CronRow
    <2> QED BY <1>2, <2>1, <2>2, RowSteps DEF HasJob, SameTask
  <1>3. OneHolder(j)'
    BY <1>1, <1>2 DEF OneHolder
  <1>4. ASSUME j \notin started', Queued(j) PROVE
          Queued(j)' \/ \E r \in Requests : RemoveDequeues(r) /\ req[r].row.job = j
    <2>1. ~StartJob(j)
      BY <1>4 DEF StartJob
    <2> QED BY <1>4, <2>1, OnceJobChanges DEF Queued, JobLocked
  <1>5. ASSUME NEW r \in Requests, RemoveDequeues(r), req[r].row.job = j
        PROVE  /\ HasJob(req[r].task, j) /\ req[r].task \in Tasks
               /\ pc'[r] = "rmDelete" /\ req'[r] = req[r]
    <2>1. pc[r] = "rmDequeue" /\ pc[r] \in RowPoints /\ Step(r, "rmDelete")
      BY <1>5 DEF RemoveDequeues, RowPoints, RemovePoints
    <2>2. req[r].task \in stored \cup deleted /\ row[req[r].task].job = j
      BY <1>5, <2>1, SlotFacts DEF SameTask
    <2>3. pc'[r] = "rmDelete" /\ req'[r] = req[r]
      BY <2>1 DEF Step, Goto, BaseInv, TypeOK
    <2> QED BY <1>0, <2>2, <2>3 DEF HasJob
  <1>6. ASSUME j \notin started' PROVE StaysQueued(j)'
    <2>0. StaysQueued(j)
      BY <1>6, DeletedRowsStay
    <2>1. ASSUME NEW s \in Requests, Adding(s, j)' PROVE Queued(j)'
      <3>1. Adding(s, j) /\ Queued(j)
        BY <1>1, <2>0, <2>1 DEF StaysQueued
      <3>2. ASSUME NEW r \in Requests, RemoveDequeues(r), req[r].row.job = j PROVE FALSE
        BY <1>5, <3>1, <3>2 DEF OneHolder
      <3> QED BY <1>4, <1>6, <3>1, <3>2
    <2>2. ASSUME NEW t \in stored', row'[t].job = j, ~Deleting(t)' PROVE Queued(j)'
      <3>1. t \in Tasks /\ HasJob(t, j)
        BY <1>0, <1>2, <2>2 DEF HasJob
      <3>2. t \in stored /\ row[t].job = j
        BY <1>0, <3>1, <2>2, DeletedRowsStay DEF HasJob
      <3>3. ~Deleting(t)
        BY <2>2, <3>2, DeletingStays
      <3>4. Queued(j)
        BY <2>0, <3>2, <3>3 DEF StaysQueued
      <3>5. ASSUME NEW r \in Requests, RemoveDequeues(r), req[r].row.job = j PROVE FALSE
        <4>1. req[r].task = t
          BY <1>5, <3>1, <3>5 DEF OneHolder
        <4> QED BY <1>5, <2>2, <3>5, <4>1 DEF Deleting
      <3> QED BY <1>4, <1>6, <3>4, <3>5
    <2> QED BY <2>1, <2>2 DEF StaysQueued
  <1> QED BY <1>3, <1>6

LEMMA HoldersStep ==
  ASSUME BaseInv, LiveOK, HoldersOK, [Next]_vars
  PROVE  HoldersOK'
  <1> SUFFICES ASSUME NEW j \in OnceIds, j \notin disturbed'
               PROVE  OneHolder(j)' /\ (j \notin started' => StaysQueued(j)')
    BY DEF HoldersOK
  <1>1. CASE UNCHANGED vars
    <2>1. OneHolder(j) /\ (j \notin started => StaysQueued(j))
      BY <1>1 DEF HoldersOK, vars, historyVars
    <2> QED BY <1>1, <2>1 DEF vars, queueVars, tableVars, requestVars, historyVars, OneHolder,
              StaysQueued, HasJob, Adding, Deleting, Queued
  <1>2. CASE Next
    <2>1. OneHolder(j) /\ (j \notin started => StaysQueued(j))
      BY <1>2, DeletedRowsStay DEF HoldersOK
    <2> QED BY <1>2, <2>1, HeldFromCreate, HeldFromStore, HeldOtherwise
  <1> QED BY <1>1, <1>2

-----------------------------------------------------------------------------
(* No repeatable runs dry *)

DateTypes == {"none", "delayed", "waiting", "active", "stalled", "done"}

\* The dates of c to come have no job, but for the next one, which may be
\* delayed; those that are past have none that is.
DatesOK(c) ==
    \A k \in 1..MaxInstances :
       /\ k > next[c] => job[<<c, k>>] = "none"
       /\ k = next[c] => job[<<c, k>>] \in {"none", "delayed"}
       /\ k < next[c] => job[<<c, k>>] # "delayed"

\* The next date of c is in the queue, or the date before it waits for the
\* worker that will add it.  Beyond MaxInstances the model has no dates.
NextRunQueued(c) ==
    \/ next[c] > MaxInstances
    \/ job[<<c, next[c]>>] = "delayed"
    \/ next[c] > 1 /\ job[<<c, next[c] - 1>>] = "waiting"

RunsOK(c) == DatesOK(c) /\ (c \in repeat => NextRunQueued(c))
RepeatsOK == \A c \in Crons : RunsOK(c)

LEMMA DateIds ==
  ASSUME QueueTypeOK, NEW c \in Crons
  PROVE  /\ \A k \in 1..MaxInstances : /\ <<c, k>> \in JobIds /\ <<c, k>> \in Instances
                                       /\ job[<<c, k>>] \in DateTypes
                                       /\ <<c, k>> \notin OnceIds \cup ManualIds
         /\ next[c] \in 1..(MaxInstances + 1)
         /\ MaxInstances \in Nat \ {0}
  <1>1. ASSUME NEW k \in 1..MaxInstances
        PROVE  <<c, k>> \in Instances /\ <<c, k>> \in Crons \X (1..(MaxInstances + 1))
    BY MaxInstancesAssumption DEF Instances
  <1>2. ASSUME NEW k \in 1..MaxInstances PROVE <<c, k>> \notin OnceIds \cup ManualIds
    BY <1>1, IdsAssumption
  <1>3. ASSUME NEW k \in 1..MaxInstances
        PROVE  <<c, k>> \in JobIds /\ job[<<c, k>>] \in DateTypes
    BY <1>1 DEF QueueTypeOK, DateTypes, JobIds
  <1> QED BY <1>1, <1>2, <1>3, MaxInstancesAssumption DEF QueueTypeOK

\* Steps that leave the dates of c, their jobs and its key alone.
LEMMA RunsAside ==
  ASSUME QueueTypeOK, NEW c \in Crons, RunsOK(c), next'[c] = next[c],
         \A k \in 1..MaxInstances : job'[<<c, k>>] = job[<<c, k>>],
         c \in repeat' => c \in repeat
  PROVE  RunsOK(c)'
  <1>1. next[c] \in 1..(MaxInstances + 1) /\ MaxInstances \in Nat \ {0}
    BY DateIds
  <1>2. DatesOK(c)'
    BY DEF RunsOK, DatesOK
  <1>3. ASSUME NextRunQueued(c) PROVE NextRunQueued(c)'
    BY <1>1, <1>3 DEF NextRunQueued
  <1> QED BY <1>2, <1>3 DEF RunsOK

\* The jobs of c that change become waiting, active, stalled or done from a
\* state past the delay, or are forgotten, and none of them was waiting.
LEMMA RunsPast ==
  ASSUME QueueTypeOK, NEW c \in Crons, RunsOK(c), next'[c] = next[c],
         c \in repeat' => c \in repeat,
         \A k \in 1..MaxInstances :
            \/ job'[<<c, k>>] = job[<<c, k>>]
            \/ /\ job[<<c, k>>] \in {"active", "stalled", "done"}
               /\ job'[<<c, k>>] # "delayed"
  PROVE  RunsOK(c)'
  <1>1. next[c] \in 1..(MaxInstances + 1) /\ MaxInstances \in Nat \ {0}
    BY DateIds
  <1>2. DatesOK(c)'
    BY DEF RunsOK, DatesOK
  <1>3. ASSUME NextRunQueued(c) PROVE NextRunQueued(c)'
    <2>1. CASE next[c] > MaxInstances
      BY <2>1 DEF NextRunQueued
    <2>2. CASE next[c] <= MaxInstances /\ job[<<c, next[c]>>] = "delayed"
      <3>1. next[c] \in 1..MaxInstances
        BY <1>1, <2>2
      <3>2. job'[<<c, next[c]>>] = "delayed"
        BY <2>2, <3>1
      <3> QED BY <3>2 DEF NextRunQueued
    <2>3. CASE next[c] > 1 /\ job[<<c, next[c] - 1>>] = "waiting"
      <3>1. PICK k : k = next[c] - 1
        OBVIOUS
      <3>2. k \in 1..MaxInstances
        BY <1>1, <2>3, <3>1
      <3>3. job'[<<c, k>>] = "waiting"
        BY <2>3, <3>1, <3>2
      <3> QED BY <2>3, <3>1, <3>3 DEF NextRunQueued
    <2> QED BY <1>1, <1>3, <2>1, <2>2, <2>3 DEF NextRunQueued
  <1> QED BY <1>2, <1>3 DEF RunsOK

\* The calls of TasksService.
LEMMA RunsCalls ==
  ASSUME QueueTypeOK, NEW c \in Crons, RunsOK(c)
  PROVE  /\ UNCHANGED queueVars => RunsOK(c)'
         /\ \A flag : SetPaused(flag) => RunsOK(c)'
         /\ \A j \in OnceIds \cup ManualIds : \A s : AddJob(j, s) => RunsOK(c)'
         /\ \A j \in OnceIds : RemoveJob(j) => RunsOK(c)'
         /\ \A d \in Crons : AddRepeatable(d) \/ RemoveRepeatable(d) => RunsOK(c)'
  <1>0. job \in [JobIds -> DateTypes]
    BY DEF QueueTypeOK, DateTypes
  <1>1. ASSUME UNCHANGED queueVars \/ \E flag : SetPaused(flag) PROVE RunsOK(c)'
    BY <1>1, RunsAside DEF queueVars, SetPaused
  <1>2. ASSUME NEW j \in OnceIds \cup ManualIds, NEW s, AddJob(j, s) PROVE RunsOK(c)'
    <2>1. \A k \in 1..MaxInstances : job'[<<c, k>>] = job[<<c, k>>]
      BY <1>0, <1>2, DateIds DEF AddJob, JobsWith
    <2> QED BY <1>2, <2>1, RunsAside DEF AddJob
  <1>3. ASSUME NEW j \in OnceIds, RemoveJob(j) PROVE RunsOK(c)'
    <2>1. \A k \in 1..MaxInstances : job'[<<c, k>>] = job[<<c, k>>]
      BY <1>0, <1>3, DateIds DEF RemoveJob
    <2> QED BY <1>3, <2>1, RunsAside DEF RemoveJob
  <1>4. ASSUME NEW d \in Crons, AddRepeatable(d) PROVE RunsOK(c)'
    <2>1. next[d] \in 1..MaxInstances
      BY <1>4, DateIds DEF AddRepeatable
    <2>2. PICK j \in JobIds : j = <<d, next[d]>>
      BY <2>1, DateIds
    <2>3. /\ job' = IF job[j] = "none" THEN [job EXCEPT ![j] = "delayed"] ELSE job
          /\ next' = next /\ repeat' = repeat \cup {d}
      BY <1>4, <2>2 DEF AddRepeatable, JobsWith
    <2>4. CASE d # c
      <3>1. \A k \in 1..MaxInstances : job'[<<c, k>>] = job[<<c, k>>]
        BY <1>0, <2>2, <2>3, <2>4, DateIds
      <3> QED BY <2>3, <2>4, <3>1, RunsAside
    <2>5. CASE d = c
      <3>1. job[j] \in {"none", "delayed"}
        BY <2>1, <2>2, <2>5 DEF RunsOK, DatesOK
      <3>2. job'[j] = "delayed" /\ \A i \in JobIds : i # j => job'[i] = job[i]
        BY <1>0, <2>3, <3>1
      <3>3. \A k \in 1..MaxInstances : k # next[c] => job'[<<c, k>>] = job[<<c, k>>]
        BY <2>2, <2>5, <3>2, DateIds
      <3>4. DatesOK(c)'
        BY <2>2, <2>3, <2>5, <3>2, <3>3 DEF RunsOK, DatesOK
      <3>5. NextRunQueued(c)'
        BY <2>2, <2>3, <2>5, <3>2 DEF NextRunQueued
      <3> QED BY <3>4, <3>5 DEF RunsOK
    <2> QED BY <2>4, <2>5
  <1>5. ASSUME NEW d \in Crons, RemoveRepeatable(d) PROVE RunsOK(c)'
    <2>1. \A j \in JobIds : job'[j] = IF j = <<d, next[d]>> /\ job[j] = "delayed"
                                      THEN "none" ELSE job[j]
      BY <1>5 DEF RemoveRepeatable
    <2>2. repeat' = repeat \ {d} /\ next' = next
      BY <1>5 DEF RemoveRepeatable
    <2>3. CASE d # c
      <3>1. \A k \in 1..MaxInstances : job'[<<c, k>>] = job[<<c, k>>]
        BY <2>1, <2>3, DateIds
      <3> QED BY <2>2, <3>1, RunsAside
    <2>4. CASE d = c
      <3>1. \A k \in 1..MaxInstances : job'[<<c, k>>] \in {job[<<c, k>>], "none"}
        BY <2>1, DateIds
      <3>2. DatesOK(c)'
        BY <2>2, <3>1 DEF RunsOK, DatesOK
      <3> QED BY <2>2, <2>4, <3>2 DEF RunsOK
    <2> QED BY <2>3, <2>4
  <1> QED BY <1>1, <1>2, <1>3, <1>4, <1>5

\* The steps of the queue and its worker.
LEMMA RunsSteps ==
  ASSUME QueueTypeOK, NEW c \in Crons, RunsOK(c), NEW i \in JobIds,
         \/ JobDue(i) \/ TakeJob(i) \/ CompleteJob(i) \/ LoseWorker
         \/ RetryStalled(i) \/ FailStalled(i) \/ ForgetJob(i)
  PROVE  RunsOK(c)'
  <1>0. /\ job \in [JobIds -> DateTypes] /\ next \in [Crons -> 1..(MaxInstances + 1)]
        /\ next[c] \in 1..(MaxInstances + 1) /\ MaxInstances \in Nat \ {0}
    BY DateIds DEF QueueTypeOK, DateTypes
  <1>1. CASE CompleteJob(i) \/ RetryStalled(i) \/ FailStalled(i) \/ ForgetJob(i)
    <2>1. /\ next' = next /\ repeat' = repeat
          /\ \A j \in JobIds : \/ job'[j] = job[j]
                               \/ /\ job[j] \in {"active", "stalled", "done"}
                                  /\ job'[j] # "delayed"
      BY <1>0, <1>1 DEF CompleteJob, RetryStalled, FailStalled, ForgetJob
    <2> QED BY <2>1, DateIds, RunsPast
  <1>2. CASE LoseWorker
    <2>1. /\ next' = next /\ repeat' = repeat
          /\ \A j \in JobIds : job'[j] = IF job[j] = "active" THEN "stalled" ELSE job[j]
      BY <1>2 DEF LoseWorker
    <2>2. \A k \in 1..MaxInstances :
            \/ job'[<<c, k>>] = job[<<c, k>>]
            \/ /\ job[<<c, k>>] \in {"active", "stalled", "done"}
               /\ job'[<<c, k>>] # "delayed"
      BY <2>1, DateIds
    <2> QED BY <2>1, <2>2, RunsPast
  <1>3. CASE JobDue(i)
    <2>1. /\ job[i] = "delayed" /\ job' = [job EXCEPT ![i] = "waiting"] /\ repeat' = repeat
          /\ next' = IF i \in Instances THEN [next EXCEPT ![i[1]] = i[2] + 1] ELSE next
      BY <1>3 DEF JobDue
    <2>2. CASE \E k \in 1..MaxInstances : i = <<c, k>>
      <3>1. PICK k \in 1..MaxInstances : i = <<c, k>>
        BY <2>2
      <3>2. k = next[c]
        BY <1>0, <2>1, <3>1 DEF RunsOK, DatesOK
      <3>3. i \in Instances /\ i[1] = c /\ i[2] = k
        BY <3>1, DateIds
      <3>4. next'[c] = k + 1
        BY <1>0, <2>1, <3>3
      <3>5. /\ job'[<<c, k>>] = "waiting"
            /\ \A m \in 1..MaxInstances : m # k => job'[<<c, m>>] = job[<<c, m>>]
        BY <1>0, <2>1, <3>1, DateIds
      <3>6. ASSUME NEW m \in 1..MaxInstances
            PROVE  /\ m > k + 1 => job'[<<c, m>>] = "none"
                   /\ m = k + 1 => job'[<<c, m>>] \in {"none", "delayed"}
                   /\ m < k + 1 => job'[<<c, m>>] # "delayed"
        <4>1. CASE m = k
          BY <3>5, <4>1
        <4>2. CASE m # k
          BY <3>2, <3>5, <4>2 DEF RunsOK, DatesOK
        <4> QED BY <4>1, <4>2
      <3>7. DatesOK(c)'
        BY <3>4, <3>6 DEF DatesOK
      <3>8. NextRunQueued(c)'
        <4>1. k + 1 > 1 /\ (k + 1) - 1 = k
          OBVIOUS
        <4> QED BY <3>4, <3>5, <4>1 DEF NextRunQueued
      <3> QED BY <3>7, <3>8 DEF RunsOK
    <2>3. CASE ~\E k \in 1..MaxInstances : i = <<c, k>>
      <3>1. \A k \in 1..MaxInstances : job'[<<c, k>>] = job[<<c, k>>]
        BY <1>0, <2>1, <2>3, DateIds
      <3>2. next'[c] = next[c]
        <4>1. ASSUME i \in Instances PROVE i[1] # c
          <5>1. PICK d \in Crons, k \in 1..MaxInstances : i = <<d, k>>
            BY <4>1 DEF Instances
          <5> QED BY <2>3, <5>1
        <4> QED BY <1>0, <2>1, <4>1
      <3> QED BY <2>1, <3>1, <3>2, RunsAside
    <2> QED BY <2>2, <2>3
  <1>4. CASE TakeJob(i)
    <2>1. /\ job[i] = "waiting" /\ repeat' = repeat /\ next' = next
          /\ \A k \in JobIds :
                job'[k] = IF k = i THEN "active"
                          ELSE IF /\ i \in Instances
                                  /\ i[1] \in repeat
                                  /\ k = <<i[1], next[i[1]]>>
                                  /\ job[k] = "none"
                               THEN "delayed"
                               ELSE job[k]
      BY <1>4 DEF TakeJob
    <2>2. CASE ~\E k \in 1..MaxInstances : i = <<c, k>>
      <3>1. ASSUME NEW k \in 1..MaxInstances PROVE job'[<<c, k>>] = job[<<c, k>>]
        <4>1. <<c, k>> \in JobIds /\ <<c, k>> # i
          BY <2>2, DateIds
        <4>2. ASSUME i \in Instances PROVE <<c, k>> # <<i[1], next[i[1]]>>
          <5>1. PICK d \in Crons, m \in 1..MaxInstances : i = <<d, m>>
            BY <4>2 DEF Instances
          <5>2. d # c /\ i[1] = d
            BY <2>2, <5>1
          <5> QED BY <5>2
        <4> QED BY <2>1, <4>1, <4>2
      <3> QED BY <2>1, <3>1, RunsAside
    <2>3. CASE \E k \in 1..MaxInstances : i = <<c, k>>
      <3>1. PICK k \in 1..MaxInstances : i = <<c, k>>
        BY <2>3
      <3>2. i \in Instances /\ i[1] = c
        BY <3>1, DateIds
      <3>3. k < next[c]
        BY <1>0, <2>1, <3>1 DEF RunsOK, DatesOK
      <3>4. ASSUME NEW m \in 1..MaxInstances
            PROVE  /\ m > next[c] => job'[<<c, m>>] = "none"
                   /\ m = next[c] => job'[<<c, m>>] \in {"none", "delayed"}
                   /\ m < next[c] => job'[<<c, m>>] # "delayed"
                   /\ m = next[c] /\ c \in repeat => job'[<<c, m>>] = "delayed"
        <4>1. <<c, m>> \in JobIds /\ (<<c, m>> = i <=> m = k)
          BY <3>1, DateIds
        <4>2. CASE m = k
          <5>1. job'[<<c, m>>] = "active"
            BY <2>1, <4>1, <4>2
          <5>2. m < next[c] /\ m # next[c] /\ ~(m > next[c])
            BY <1>0, <3>3, <4>2
          <5> QED BY <5>1, <5>2
        <4>3. CASE m # k
          <5>1. job'[<<c, m>>] = IF c \in repeat /\ m = next[c] /\ job[<<c, m>>] = "none"
                                 THEN "delayed" ELSE job[<<c, m>>]
            BY <2>1, <3>2, <4>1, <4>3
          <5> QED BY <1>0, <5>1 DEF RunsOK, DatesOK
        <4> QED BY <4>2, <4>3
      <3>5. DatesOK(c)'
        BY <2>1, <3>4 DEF DatesOK
      <3>6. c \in repeat => NextRunQueued(c)'
        BY <1>0, <2>1, <3>4 DEF NextRunQueued
      <3> QED BY <2>1, <3>5, <3>6 DEF RunsOK
    <2> QED BY <2>2, <2>3
  <1> QED BY <1>1, <1>2, <1>3, <1>4

LEMMA RepeatsStep ==
  ASSUME BaseInv, RepeatsOK, [Next]_vars
  PROVE  RepeatsOK'
  <1> SUFFICES ASSUME NEW c \in Crons PROVE RunsOK(c)'
    BY DEF RepeatsOK
  <1>0. QueueTypeOK /\ RunsOK(c)
    BY DEF BaseInv, TypeOK, RepeatsOK
  <1>1. CASE UNCHANGED queueVars
    BY <1>0, <1>1, RunsCalls
  <1>2. ASSUME NEW r \in Requests, RequestArrives(r) PROVE RunsOK(c)'
    <2>1. ASSUME NEW j \in OnceIds, CreateOnceAdds(r, j) PROVE RunsOK(c)'
      BY <1>0, <2>1, RunsCalls DEF CreateOnceAdds
    <2>2. ASSUME NEW d \in Crons, CreateCronAdds(r, d) PROVE RunsOK(c)'
      BY <1>0, <2>2, RunsCalls DEF CreateCronAdds
    <2>3. ASSUME NEW t \in Tasks, NEW d \in Crons \cup {None},
                 NEW s \in ClientStatuses \cup {None}, UpdateReads(r, t, d, s)
          PROVE  RunsOK(c)'
      BY <1>1, <2>3 DEF UpdateReads
    <2>4. ASSUME NEW t \in Tasks, RemoveReads(r, t) \/ RunNowReads(r, t) PROVE RunsOK(c)'
      BY <1>1, <2>4 DEF RemoveReads, RunNowReads
    <2>5. ASSUME PauseQueue(r) \/ ResumeQueue(r) PROVE RunsOK(c)'
      BY <1>0, <2>5, RunsCalls DEF PauseQueue, ResumeQueue
    <2> HIDE DEF RunsOK
    <2> QED BY <1>2, <2>1, <2>2, <2>3, <2>4, <2>5 DEF RequestArrives
  <1>3. ASSUME NEW r \in Requests, RequestStep(r) PROVE RunsOK(c)'
    <2>1. pc[r] \in RowPoints => BoundOK(pc[r], req[r]) /\ req[r] \in Request
      BY SlotFacts
    <2>2. ASSUME UpdateRemovesRepeatable(r) PROVE RunsOK(c)'
      <3>1. req[r].row.key \in Crons
        BY <2>1, <2>2 DEF UpdateRemovesRepeatable, RowPoints, UpdatePoints, BoundOK, RowOK,
                          IsCron, IsOnce, RemovePoints
      <3> QED BY <1>0, <2>2, <3>1, RunsCalls DEF UpdateRemovesRepeatable
    <2>3. ASSUME UpdateAddsRepeatable(r) PROVE RunsOK(c)'
      <3>1. pc[r] = "updAdd" /\ pc[r] \in RowPoints /\ pc[r] \in UpdatePoints
        BY <2>3 DEF UpdateAddsRepeatable, RowPoints, UpdatePoints
      <3>2. req[r].cron \in Crons
        BY <2>1, <3>1 DEF BoundOK, Request
      <3> QED BY <1>0, <2>3, <3>2, RunsCalls DEF UpdateAddsRepeatable
    <2>4. ASSUME RemoveUnschedules(r) PROVE RunsOK(c)'
      <3>1. pc[r] = "rmDequeue" /\ pc[r] \in RowPoints /\ req[r].row.type = "CRON"
        BY <2>4 DEF RemoveUnschedules, RowPoints, RemovePoints
      <3>2. req[r].row.key \in Crons
        BY <2>1, <3>1 DEF BoundOK, RowOK, IsCron, IsOnce
      <3> QED BY <1>0, <2>4, <3>2, RunsCalls DEF RemoveUnschedules
    <2>5. ASSUME RemoveDequeues(r) PROVE RunsOK(c)'
      <3>1. pc[r] = "rmDequeue" /\ pc[r] \in RowPoints /\ req[r].row.type = "ONCE"
        BY <2>5 DEF RemoveDequeues, RowPoints, RemovePoints
      <3>2. req[r].row.job \in OnceIds
        BY <2>1, <3>1 DEF BoundOK, RowOK, IsCron, IsOnce
      <3> QED BY <1>0, <2>5, <3>2, RunsCalls DEF RemoveDequeues
    <2>6. ASSUME NEW j \in ManualIds, RunNowAdds(r, j) PROVE RunsOK(c)'
      BY <1>0, <2>6, RunsCalls DEF RunNowAdds
    <2>7. CASE \/ \E t \in Tasks : CreateOnceStores(r, t) \/ CreateCronStores(r, t)
               \/ UpdateStores(r) \/ RemoveDeletes(r) \/ PauseMarks(r) \/ ResumeMarks(r)
      BY <1>1, <2>7 DEF CreateOnceStores, CreateCronStores, UpdateStores, RemoveDeletes,
                        PauseMarks, ResumeMarks
    <2> HIDE DEF RunsOK
    <2> QED BY <1>3, <2>2, <2>3, <2>4, <2>5, <2>6, <2>7 DEF RequestStep
  <1>4. ASSUME NEW j \in JobIds, WorkerStep(j) \/ QueueTurns(j) PROVE RunsOK(c)'
    BY <1>0, <1>4, RunsSteps DEF WorkerStep, StartJob, FinishJob, StalledJob, QueueTurns
  <1>5. CASE Crash
    <2>1. CASE JobIds = {}
      <3>1. MaxInstances \in Nat \ {0} /\ 1 \in 1..MaxInstances
        BY MaxInstancesAssumption
      <3> QED BY <1>0, <2>1, <3>1, DateIds
    <2>2. CASE JobIds # {}
      BY <1>0, <1>5, <2>2, RunsSteps DEF Crash
    <2> QED BY <2>1, <2>2
  <1>6. ASSUME \/ \E r \in Requests : RequestFails(r)
               \/ \E u \in pending : ApplyUpdate(u[1], u[2]) \/ DropUpdate(u[1], u[2])
               \/ UNCHANGED vars
        PROVE  RunsOK(c)'
    BY <1>1, <1>6 DEF RequestFails, ApplyUpdate, DropUpdate, vars, queueVars
  <1> HIDE DEF RunsOK
  <1> QED BY <1>2, <1>3, <1>4, <1>5, <1>6, StepKinds

-----------------------------------------------------------------------------
(* The theorems *)

\* TasksInv is an invariant: every step of a request, of the worker, of a
\* worker event's update, and every failure and restart keeps each part.
THEOREM TasksInvariant == Spec => []TasksInv
  <1>0. Init => BaseInv
    BY InitBase
  <1>1. Init => OnceOK
    <2>1. Init => \A j \in OnceIds : ~JobLocked(j)
      BY DEF Init, QueueInit, JobLocked, JobIds
    <2> QED BY <2>1 DEF Init, OnceOK
  <1>2. Init => CronsOK
    <2> SUFFICES ASSUME Init, NEW c \in Crons PROVE CronOK(c)
      BY DEF CronsOK
    <2>1. /\ stored = {} /\ repeat = {} /\ c # None
          /\ \A r \in Requests : req[r].cron = None /\ req[r].row.cron = None /\ req[r].task = None
      BY CronNames DEF Init, QueueInit, NoRequest, NoRow
    <2> QED BY <2>1 DEF CronOK, OneRow, OneRequest, PlanOK, WorkOK, AloneOK, FreeCronOK,
              Uses, Plans, Works
  <1>3. Init => PauseOK
    BY DEF Init, PauseOK, InFlight, UpdatePoints
  <1>4. TasksInv /\ [Next]_vars => TasksInv'
    BY BaseStep, PauseStep, OnceStep, CronsStep DEF TasksInv
  <1>5. Init => TasksInv
    BY <1>0, <1>1, <1>2, <1>3 DEF TasksInv
  <1> QED BY <1>4, <1>5, PTL DEF Spec

\* Every variable keeps its type: rows, requests and status updates stay
\* those the code can write, at every await point.
THEOREM TasksTypes == Spec => []TypeOK
  <1>1. TasksInv => TypeOK
    BY DEF TasksInv, BaseInv
  <1> QED BY <1>1, TasksInvariant, PTL

\* While the queue is not paused no task is left marked PAUSED: without an
\* overlap with a pause or an update, whoever clears the flag also comes
\* past every row that was marked.
THEOREM NoTaskLeftPaused == Spec => []PauseAgrees
  <1>1. TasksInv => PauseAgrees
    BY DEF TasksInv, PauseOK, PauseAgrees, InFlight
  <1> QED BY <1>1, TasksInvariant, PTL

\* A one-time task deleted before its job was taken is never run, whatever
\* request overlaps it, fails or is cut off by a restart, unless its removal
\* from the queue failed or its job id was given twice: once its row is gone
\* its job is gone, or was taken, and a step that takes a job finds it waiting.
THEOREM DeletedTasksNeverStart == Spec => DeletedOnceNeverStarts
  <1> DEFINE NeverStarts ==
        \A t \in deleted : row[t].type = "ONCE" /\ row[t].job \notin loose
            => (row[t].job \in started' => row[t].job \in started)
  <1>1. TasksInv /\ [Next]_vars => [NeverStarts]_vars
    <2> SUFFICES ASSUME BaseInv, OnceOK, Next, NEW t \in deleted, row[t].type = "ONCE",
                        row[t].job \notin loose, row[t].job \in started',
                        row[t].job \notin started
                 PROVE  FALSE
      BY DEF TasksInv
    <2>1. job[row[t].job] = "none"
      BY DEF OnceOK, Quiet
    <2>2. ASSUME NEW j \in JobIds, StartJob(j) PROVE row[t].job # j
      BY <2>1, <2>2 DEF StartJob, TakeJob
    <2>3. PICK j \in JobIds : StartJob(j)
      <3>1. started' # started
        OBVIOUS
      <3>2. CASE \E r \in Requests : RequestArrives(r)
        BY <3>1, <3>2, ArrivalHistory
      <3>3. CASE \E r \in Requests : RequestStep(r)
        BY <3>1, <3>3 DEF RequestStep, CreateOnceStores, CreateCronStores,
                          UpdateRemovesRepeatable, UpdateAddsRepeatable, UpdateStores,
                          RemoveUnschedules, RemoveDequeues, RemoveDeletes, PauseMarks,
                          ResumeMarks, RunNowAdds, historyVars
      <3>4. CASE \/ \E r \in Requests : RequestFails(r)
                 \/ Crash
                 \/ \E u \in pending : ApplyUpdate(u[1], u[2]) \/ DropUpdate(u[1], u[2])
        BY <3>1, <3>4 DEF RequestFails, Crash, ApplyUpdate, DropUpdate, historyVars
      <3>5. ASSUME NEW i \in JobIds, WorkerStep(i) \/ QueueTurns(i) PROVE StartJob(i)
        BY <3>1, <3>5 DEF WorkerStep, FinishJob, StalledJob, QueueTurns, historyVars
      <3> QED BY <3>2, <3>3, <3>4, <3>5, StepKinds
    <2> QED BY <2>2, <2>3 DEF StartJob
  <1> QED BY <1>1, TasksInvariant, PTL DEF Spec, DeletedOnceNeverStarts

\* The queue repeats an expression exactly when a row has it, for every
\* expression that nothing disturbed and no request is about: the one request
\* that may be about it moves the repeatable and the row together.
THEOREM SchedulesMatchRows == Spec => []ScheduleMatchesRows
  <1>1. TasksInv => ScheduleMatchesRows
    BY UsesTouched DEF TasksInv, CronsOK, CronOK, FreeCronOK, ScheduleMatchesRows
  <1> QED BY <1>1, TasksInvariant, PTL

\* What the queue holds for the rows, beside TasksInv: one-time jobs nobody
\* disturbed have one holder each and wait for the worker, and each key's
\* next date is there.
QueueInv == LiveOK /\ HoldersOK /\ RepeatsOK

\* The queue of BullMQ keeps what TasksService has put into it, however
\* requests, worker, failures and restarts are interleaved
\* (TasksService.createOnce, createCron, update, remove, resumeQueue).
THEOREM QueueInvariant == Spec => []QueueInv
  <1>1. Init => LiveOK /\ HoldersOK
    <2> SUFFICES ASSUME Init, NEW j \in OnceIds
                 PROVE  job[j] = "none" /\ OneHolder(j) /\ StaysQueued(j)
      BY DEF LiveOK, HoldersOK
    <2>1. stored = {} /\ deleted = {} /\ job[j] = "none" /\ \A r \in Requests : pc[r] = "idle"
      BY DEF Init, QueueInit, JobIds
    <2> QED BY <2>1 DEF OneHolder, StaysQueued, HasJob, Adding
  <1>2. Init => RepeatsOK
    <2> SUFFICES ASSUME Init, NEW c \in Crons PROVE RunsOK(c)
      BY DEF RepeatsOK
    <2>1. QueueTypeOK
      BY InitBase DEF BaseInv, TypeOK
    <2>2. next[c] = 1 /\ repeat = {} /\ \A k \in 1..MaxInstances : job[<<c, k>>] = "none"
      BY <2>1, DateIds DEF Init, QueueInit
    <2>3. \A k \in 1..MaxInstances : ~(k < 1)
      OBVIOUS
    <2> QED BY <2>2, <2>3 DEF RunsOK, DatesOK
  <1>3. LiveOK /\ UNCHANGED vars => LiveOK'
    BY DEF LiveOK, vars, queueVars, historyVars
  <1>4. TasksInv /\ QueueInv /\ [Next]_vars => QueueInv'
    BY <1>3, LiveStep, HoldersStep, RepeatsStep DEF TasksInv, QueueInv
  <1>5. Init => QueueInv
    BY <1>1, <1>2 DEF QueueInv
  <1> QED BY <1>4, <1>5, TasksInvariant, PTL DEF Spec

\* No operation loses the job of a one-time task: while the row is stored,
\* the worker has not taken the job and no delete has just dequeued it, the
\* job is in the queue, whatever other requests, failures and restarts do.
\* It is the safety half of OnceTasksRun; disturbed are the jobs whose id was
\* given twice, or whose own request failed or met another on the row.
THEOREM OnceTasksStayQueued ==
  Spec => [](\A t \in stored :
                (row[t].type = "ONCE" /\ row[t].job \notin started \cup disturbed /\ ~Deleting(t))
                   => Queued(row[t].job))
  <1>1. TasksInv /\ QueueInv =>
           \A t \in stored :
              (row[t].type = "ONCE" /\ row[t].job \notin started \cup disturbed /\ ~Deleting(t))
                 => Queued(row[t].job)
    <2> SUFFICES ASSUME TasksInv, QueueInv, NEW t \in stored, row[t].type = "ONCE",
                        row[t].job \notin started \cup disturbed, ~Deleting(t)
                 PROVE  Queued(row[t].job)
      OBVIOUS
    <2>1. row[t].job \in OnceIds
      BY DEF TasksInv, BaseInv, RowsOK, RowOK, IsOnce, IsCron
    <2>2. StaysQueued(row[t].job)
      BY <2>1 DEF QueueInv, HoldersOK
    <2> QED BY <2>2 DEF StaysQueued
  <1> QED BY <1>1, TasksInvariant, QueueInvariant, PTL

\* A CRON task's next run stays in the queue: an expression that a stored row
\* has, nothing disturbed and no request is about is repeated, and its next
\* date is delayed there, or the date before it waits for the worker that
\* adds it, however deletes, moves, stalls and restarts are interleaved.
THEOREM CronTasksStayQueued ==
  Spec => [](\A t \in stored :
                (/\ row[t].type = "CRON" /\ row[t].cron \notin disturbed
                 /\ \A r \in Requests : row[t].cron \notin Touched(req[r]))
                   => row[t].cron \in repeat /\ NextRunQueued(row[t].cron))
  <1>1. TasksInv /\ QueueInv /\ ScheduleMatchesRows =>
           \A t \in stored :
              (/\ row[t].type = "CRON" /\ row[t].cron \notin disturbed
               /\ \A r \in Requests : row[t].cron \notin Touched(req[r]))
                 => row[t].cron \in repeat /\ NextRunQueued(row[t].cron)
    <2> SUFFICES ASSUME TasksInv, QueueInv, ScheduleMatchesRows, NEW t \in stored,
                        row[t].type = "CRON", row[t].cron \notin disturbed,
                        \A r \in Requests : row[t].cron \notin Touched(req[r])
                 PROVE  row[t].cron \in repeat /\ NextRunQueued(row[t].cron)
      OBVIOUS
    <2>1. row[t].cron \in Crons
      BY DEF TasksInv, BaseInv, RowsOK, RowOK, IsOnce, IsCron
    <2>2. row[t].cron \in repeat
      BY <2>1 DEF ScheduleMatchesRows
    <2> QED BY <2>1, <2>2 DEF QueueInv, RepeatsOK, RunsOK
  <1> QED BY <1>1, TasksInvariant, QueueInvariant, SchedulesMatchRows, PTL
=============================================================================
