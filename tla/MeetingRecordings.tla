-------------------------- MODULE MeetingRecordings --------------------------
(***************************************************************************)
(* What follows a meeting: recording.completed, which writes the recording *)
(* files and what each participant who spoke is told of them to Bitable;   *)
(* smart.fullsummary, which writes recordings and summaries to Postgres;   *)
(* and Lark's all_meeting_ended, which goes through the BullMQ queue       *)
(* "lark-events" to the Bitable table of meetings.                         *)
(*                                                                         *)
(* One action per request to Bitable, Tencent, OpenAI, Redis or Postgres.  *)
(* Rows are never deleted, so that the identity of a row is its place in   *)
(* its table.  The order of a payload's files and of a meeting's           *)
(* participants is the sender's, and is left open.                         *)
(***************************************************************************)
EXTENDS Naturals, Sequences

CONSTANTS
    Deliveries,         \* slots for deliveries that are handled
    Meetings,           \* Tencent's: records [id, sub], sub = None for none
    LarkMeetings,       \* Lark's: records [id, sub] without a sub
    Files,              \* recording files
    Users,              \* Tencent uuids
    Lower,              \* Lower[u]: u in lower case
    PlainRows,          \* rows of users whose record id has no capitals
    IgnoresCase,        \* whether Bitable's search ignores case
    None,
    Attendees,          \* Attendees[m]: what the participants API lists of m
    Speakers,           \* Speakers[f]: whose names the transcript of f has
    MaxDeliveries, MaxFaults, MaxCrashes    \* bounds on a behaviour

AllMeetings == Meetings \cup LarkMeetings

ASSUME MeetingsAssumption ==
    /\ \A m \in AllMeetings : DOMAIN m = {"id", "sub"}
    /\ None \notin AllMeetings \cup Files \cup Users

\* No user's uuid differs from another's in case only.
ASSUME CaseAssumption ==
    /\ DOMAIN Lower = Users
    /\ \A u, v \in Users : Lower[v] \in {u, Lower[u]} => u = v
    /\ PlainRows \subseteq Nat /\ IgnoresCase \in BOOLEAN

ASSUME RecordingsAssumption ==
    /\ Attendees \in [Meetings -> SUBSET Users]
    /\ Speakers \in [Files -> SUBSET Users]
    /\ MaxDeliveries \in Nat /\ MaxFaults \in Nat /\ MaxCrashes \in Nat

VARIABLES
    rows,               \* rows[t]: the Bitable tables
    known,              \* the meetings that Postgres has, see MeetingDatabase
    recordings,         \* tables of Postgres
    summaries,
    job,                \* job[d]: the delivery in slot d
    delivered, faults, crashes,
    through             \* history: the deliveries that met no fault

postgresVars == <<recordings, summaries>>
recordingVars == <<rows, known, recordings, summaries, job, delivered,
                   faults, crashes, through>>

Tables == {"meeting", "user", "file", "number"}

\* What of a recording file is fetched, each of it possibly empty.
Parts == {"content", "transcript"}

(***************************************************************************)
(* A row of Bitable: the key it is searched by, and of a file its parts    *)
(* and the row of its meeting, of a number record the row of its file and  *)
(* the file `of' its summary; `of' is history, as is `seen', the length of *)
(* the table when the upsert that created the row searched it, 0 if that   *)
(* got no data.  The key of a number record is the row of its participant. *)
(***************************************************************************)
Keys == [meeting |-> AllMeetings, user |-> Users, file |-> Files, number |-> Nat]

Row(t) == [key: Keys[t], parts: SUBSET Parts, link: Nat,
           of: Files \cup {None}, seen: Nat]

Recording == [meeting: Meetings, file: Files, seen: Nat]
Summary == [meeting: Meetings, file: Files, recording: Nat \ {0}]

(***************************************************************************)
(* A delivery is `at' a table of Bitable and about to send the request     *)
(* `step', or at a request to somebody else.  `row' is the row its last    *)
(* search found and `seen' how far that search saw; `meetingRow',          *)
(* `fileRow', `userRow' are what its upserts for the present file          *)
(* returned.  History: `all' are its files, `early' those skipped because  *)
(* their meeting was not there yet, `whole' if no request of it failed.    *)
(***************************************************************************)
NoJob == [kind |-> "none", at |-> "idle", step |-> "none", meeting |-> None,
          files |-> {}, file |-> None, people |-> {}, left |-> {},
          user |-> None, parts |-> {}, meetingRow |-> 0, fileRow |-> 0,
          userRow |-> 0, row |-> 0, seen |-> 0, stalled |-> 0, all |-> {},
          early |-> {}, whole |-> TRUE]

Job == [kind: {"none", "completed", "summary", "ended"},
        at: Tables \cup {"idle", "people", "content", "ask",
                         "find", "recording", "write", "fetch", "store",
                         "enqueue", "queued"},
        step: {"none", "search", "update", "create"},
        meeting: AllMeetings \cup {None},
        files: SUBSET Files, file: Files \cup {None}, all: SUBSET Files,
        people: SUBSET Users, left: SUBSET Users, user: Users \cup {None},
        parts: SUBSET Parts, meetingRow: Nat, fileRow: Nat, userRow: Nat,
        row: Nat, seen: Nat, stalled: 0..1, early: SUBSET Files, whole: BOOLEAN]

RecordingsTypeOK ==
    /\ DOMAIN rows = Tables
    /\ \A t \in Tables : rows[t] \in Seq(Row(t))
    /\ known \subseteq Meetings
    /\ recordings \in Seq(Recording) /\ summaries \in Seq(Summary)
    /\ job \in [Deliveries -> Job]
    /\ delivered \in 0..MaxDeliveries
    /\ faults \in 0..MaxFaults /\ crashes \in 0..MaxCrashes

RecordingsInit ==
    /\ rows = [t \in Tables |-> << >>]
    /\ known = {}
    /\ recordings = << >> /\ summaries = << >>
    /\ job = [d \in Deliveries |-> NoJob]
    /\ delivered = 0 /\ faults = 0 /\ crashes = 0
    /\ through = {}

-----------------------------------------------------------------------------
(* Plumbing *)

End(k) == [k EXCEPT !.at = "end"]

\* The delivery goes on as k, which may be its end.
Goes(d, k) ==
    /\ job' = [job EXCEPT ![d] = IF k.at = "end" THEN NoJob ELSE k]
    /\ through' = IF k.at = "end" /\ k.whole
                  THEN through \cup {[kind |-> k.kind, meeting |-> k.meeting,
                                      files |-> k.all, early |-> k.early]}
                  ELSE through

Fault == faults < MaxFaults /\ faults' = faults + 1
Unhurt == UNCHANGED faults

At(d, point) == job[d].at = point /\ job[d].step = "none"

TablesKept == UNCHANGED <<rows, postgresVars>>
Quiet == UNCHANGED <<known, delivered, crashes>>

\* The rows of table t for the key k: meetings by their id, and by their sub
\* only where the event names one.
RowsFor(t, k) ==
    {i \in 1..Len(rows[t]) :
        IF t = "meeting"
        THEN /\ rows[t][i].key.id = k.id
             /\ k.sub # None => rows[t][i].key.sub = k.sub
        ELSE rows[t][i].key = k}

\* The key k of table t has no capitals: ids of meetings and files are digits.
InLowerCase(t, k) ==
    CASE t = "user" -> Lower[k] = k
      [] t = "number" -> k \in PlainRows
      [] OTHER -> TRUE

\* Those that a search for k finds: buildSearchFilter puts k in lower case,
\* and the rows have it as it came.
Hits(t, k) ==
    IF IgnoresCase \/ InLowerCase(t, k) THEN RowsFor(t, k) ELSE {}

\* data.items[0]
First(S) == CHOOSE i \in S : \A j \in S : i <= j

\* What the delivery k searches its table for.
KeyOf(k) ==
    CASE k.at = "meeting" -> k.meeting
      [] k.at = "file" -> k.file
      [] k.at = "user" -> k.user
      [] k.at = "number" -> k.userRow

Upsert(k, t) == [k EXCEPT !.at = t, !.step = "search", !.row = 0, !.seen = 0]

Point(k, p) == [k EXCEPT !.at = p, !.step = "none", !.row = 0, !.seen = 0]

-----------------------------------------------------------------------------
(* How a delivery goes on *)

Hurt(k) == [k EXCEPT !.whole = FALSE]

\* Mutant: the row of the file is declared outside the loop.
NextFileKeepsRow(k) ==
    IF k.files = {} THEN {End(k)}
    ELSE {[Point(k, IF k.kind = "completed" THEN "content" ELSE "find")
              EXCEPT !.file = f, !.files = @ \ {f}, !.left = k.people,
                     !.user = None, !.parts = {}, !.meetingRow = 0,
                     !.userRow = 0] : f \in k.files}

\* Mutant: the participants are used up by the first file.
NextFileOnce(k) ==
    IF k.files = {} THEN {End(k)}
    ELSE {[Point(k, IF k.kind = "completed" THEN "content" ELSE "find")
              EXCEPT !.file = f, !.files = @ \ {f},
                     !.left = IF k.file = None THEN k.people ELSE {},
                     !.user = None, !.parts = {}, !.meetingRow = 0,
                     !.fileRow = 0, !.userRow = 0] : f \in k.files}

\* The loop over the files of a payload: what k may be next.
NextFile(k) ==
    IF k.files = {} THEN {End(k)}
    ELSE {[Point(k, IF k.kind = "completed" THEN "content" ELSE "find")
              EXCEPT !.file = f, !.files = @ \ {f}, !.left = k.people,
                     !.user = None, !.parts = {}, !.meetingRow = 0,
                     !.fileRow = 0, !.userRow = 0] : f \in k.files}

\* The loop over the participants, within a file.
NextPerson(k) ==
    IF k.left = {} THEN NextFile(k)
    ELSE {[Upsert(k, "user") EXCEPT !.user = u, !.left = @ \ {u}] :
              u \in k.left}

\* uniqueUsernames, none where the transcript was not had.
Names(k) == IF "transcript" \in k.parts THEN Speakers[k.file] ELSE {}

\* After an upsert that returned row i.
Returned(k, i) ==
    CASE k.kind = "ended" -> {End(k)}
      [] k.kind = "completed" /\ k.at = "meeting" ->
             {[Upsert(k, "file") EXCEPT !.meetingRow = i]}
      [] k.kind = "completed" /\ k.at = "file" ->
             NextPerson([k EXCEPT !.fileRow = i])
      [] k.kind = "completed" /\ k.at = "user" ->
             IF k.user \in Names(k)
             THEN {[Point(k, "ask") EXCEPT !.userRow = i]}
             ELSE NextPerson(k)
      [] k.kind = "completed" /\ k.at = "number" -> NextPerson(k)

\* After a request that threw.  upsertRecordingFileRecord catches and returns
\* no row; what throws for a participant ends the file; handleMeetingEnded
\* catches, so that the queue takes the job for completed.
Raised(k) ==
    CASE k.kind = "ended" -> {End(Hurt(k))}
      [] k.kind = "completed" /\ k.at \in {"meeting", "file"} ->
             NextPerson(Hurt(k))
      [] OTHER -> NextFile(Hurt(k))

-----------------------------------------------------------------------------
(* upsertRecord *)

\* Mutant: no row is ever found.
SearchMisses(d) ==
    /\ job[d].step = "search"
    /\ Goes(d, [job[d] EXCEPT !.step = "create", !.seen = Len(rows[job[d].at])])
    /\ Unhurt /\ TablesKept /\ Quiet

\* searchRecords, which takes an answer without data for an empty one.
Search(d) ==
    /\ job[d].step = "search"
    /\ LET k == job[d]
           hits == Hits(k.at, KeyOf(k))
       IN  IF hits # {}
           THEN Goes(d, [k EXCEPT !.step = "update", !.row = First(hits)])
           ELSE Goes(d, [k EXCEPT !.step = "create", !.seen = Len(rows[k.at])])
    /\ Unhurt /\ TablesKept /\ Quiet

\* updateRecord or createRecord without a record in the answer, and
\* searchRecords without data: the first and the last go on to create.
WithoutData(d) ==
    /\ job[d].step # "none"
    /\ IF job[d].step = "create"
       THEN \E k \in Raised(job[d]) : Goes(d, k)
       ELSE Goes(d, Hurt([job[d] EXCEPT !.step = "create", !.seen = 0]))
    /\ Fault /\ TablesKept /\ Quiet

\* A request of the upsert throws.
Throws(d) ==
    /\ job[d].step # "none"
    /\ \E k \in Raised(job[d]) : Goes(d, k)
    /\ Fault /\ TablesKept /\ Quiet

\* Mutant: the row of a file takes the parts that were fetched last.
FieldsReplaced(r, k) ==
    CASE k.at = "file" -> [r EXCEPT !.parts = k.parts, !.link = k.meetingRow]
      [] k.at = "number" -> [r EXCEPT !.of = k.file, !.link = k.fileRow]
      [] OTHER -> r

\* The fields of a row after k's upsert: a part of a file that is empty is
\* not among the fields, and stays; a number record is written whole, with
\* no file where the upsert of the file failed.
Fields(r, k) ==
    CASE k.at = "file" -> [r EXCEPT !.parts = @ \cup k.parts, !.link = k.meetingRow]
      [] k.at = "number" -> [r EXCEPT !.of = k.file, !.link = k.fileRow]
      [] OTHER -> r

\* updateRecord of the row that was found.
Updated(k) ==
    /\ k.step = "update"
    /\ rows' = [rows EXCEPT ![k.at][k.row] = Fields(@, k)]

\* createRecord.
Created(k) ==
    /\ k.step = "create"
    /\ rows' = [rows EXCEPT ![k.at] = Append(@,
                   Fields([key |-> KeyOf(k), parts |-> {}, link |-> 0,
                           of |-> None, seen |-> k.seen], k))]

\* The row that the write of k returns.
RowOf(k) == IF k.step = "update" THEN k.row ELSE Len(rows[k.at]) + 1

Write(d) ==
    /\ Updated(job[d]) \/ Created(job[d])
    /\ \E k \in Returned(job[d], RowOf(job[d])) : Goes(d, k)
    /\ UNCHANGED postgresVars /\ Unhurt /\ Quiet

\* The row is written and the answer is lost.
WriteUnanswered(d) ==
    /\ Updated(job[d]) \/ Created(job[d])
    /\ \E k \in Raised(job[d]) : Goes(d, k)
    /\ UNCHANGED postgresVars /\ Fault /\ Quiet

-----------------------------------------------------------------------------
(* recording.completed *)

Idle(d) == job[d] = NoJob /\ delivered < MaxDeliveries
Arrives(d, k) ==
    /\ Idle(d) /\ job' = [job EXCEPT ![d] = k]
    /\ delivered' = delivered + 1
    /\ TablesKept /\ UNCHANGED <<known, faults, crashes, through>>

CompletedArrives(d) ==
    \E m \in Meetings, fs \in (SUBSET Files) \ {{}} :
        Arrives(d, [NoJob EXCEPT !.kind = "completed", !.at = "people",
                                 !.meeting = m, !.files = fs, !.all = fs])

\* getUniqueParticipants, which returns none where the request fails.
GetUniqueParticipants(d) ==
    /\ At(d, "people")
    /\ \/ /\ \E k \in NextFile([job[d] EXCEPT
                       !.people = Attendees[job[d].meeting]]) : Goes(d, k)
          /\ Unhurt
       \/ /\ \E k \in NextFile(Hurt(job[d])) : Goes(d, k)
          /\ Fault
    /\ TablesKept /\ Quiet

\* getMeetingContent, which fails whole, and getTranscript, which returns
\* nothing where it fails: allSettled waits for both.
FetchContent(d) ==
    /\ At(d, "content")
    /\ \/ /\ Goes(d, Upsert([job[d] EXCEPT !.parts = Parts], "meeting"))
          /\ Unhurt
       \/ /\ \E ps \in (SUBSET Parts) \ {Parts} :
                Goes(d, Upsert(Hurt([job[d] EXCEPT !.parts = ps]), "meeting"))
          /\ Fault
    /\ TablesKept /\ Quiet

\* openaiService.ask; what it throws ends the file.
AskSummary(d) ==
    /\ At(d, "ask")
    /\ \/ Goes(d, Upsert(job[d], "number")) /\ Unhurt
       \/ (\E k \in Raised(job[d]) : Goes(d, k)) /\ Fault
    /\ TablesKept /\ Quiet

-----------------------------------------------------------------------------
(* smart.fullsummary *)

SummaryArrives(d) ==
    \E m \in Meetings, fs \in (SUBSET Files) \ {{}} :
        \E k \in NextFile([NoJob EXCEPT !.kind = "summary", !.meeting = m,
                                         !.files = fs, !.all = fs]) :
            Arrives(d, k)

\* A transaction of MeetingDatabase commits the meeting.
MeetingRecorded ==
    /\ \E m \in Meetings \ known : known' = known \cup {m}
    /\ TablesKept /\ UNCHANGED <<job, delivered, faults, crashes, through>>

\* findMeeting; a file whose meeting is not there yet is skipped for good.
FindMeeting(d) ==
    /\ At(d, "find")
    /\ IF job[d].meeting \in known
       THEN Goes(d, Point(job[d], "recording"))
       ELSE \E k \in NextFile([job[d] EXCEPT !.early = @ \cup {job[d].file}]) :
                Goes(d, k)
    /\ Unhurt /\ TablesKept /\ Quiet

RecordingsOf(k) ==
    {i \in 1..Len(recordings) :
        recordings[i].meeting = k.meeting /\ recordings[i].file = k.file}

\* findRecording, a findFirst without an order.
FindRecording(d) ==
    /\ At(d, "recording")
    /\ LET k == [job[d] EXCEPT !.at = "write", !.seen = Len(recordings)]
       IN  IF RecordingsOf(k) = {} THEN Goes(d, k)
           ELSE \E i \in RecordingsOf(k) : Goes(d, [k EXCEPT !.row = i])
    /\ Unhurt /\ TablesKept /\ Quiet

\* upsertMeetingRecording, after the search: update, or create.  An update
\* leaves the columns that are modelled.
RecordingWritten(k) ==
    recordings' = IF k.row # 0 THEN recordings
                  ELSE Append(recordings, [meeting |-> k.meeting,
                                           file |-> k.file, seen |-> k.seen])

\* Mutant: the id of a recording that is created is not passed on.
WriteRecordingForgets(d) ==
    /\ At(d, "write")
    /\ RecordingWritten(job[d])
    /\ \/ Goes(d, [job[d] EXCEPT !.at = "fetch"]) /\ Unhurt
       \/ (\E k \in Raised(job[d]) : Goes(d, k)) /\ Fault
    /\ UNCHANGED <<rows, summaries>> /\ Quiet

WriteRecording(d) ==
    /\ At(d, "write")
    /\ RecordingWritten(job[d])
    /\ \/ /\ Goes(d, [job[d] EXCEPT !.at = "fetch",
                            !.row = IF @ # 0 THEN @ ELSE Len(recordings) + 1])
          /\ Unhurt
       \/ /\ \E k \in Raised(job[d]) : Goes(d, k)
          /\ Fault
    /\ UNCHANGED <<rows, summaries>> /\ Quiet

\* fetchSmartSummary.
FetchSummary(d) ==
    /\ At(d, "fetch")
    /\ Goes(d, [job[d] EXCEPT !.at = "store"])
    /\ Unhurt /\ TablesKept /\ Quiet

\* createMeetingSummary: version 1 and the latest, however many there are.
StoreSummary(d) ==
    /\ At(d, "store")
    /\ summaries' = Append(summaries, [meeting |-> job[d].meeting,
                                       file |-> job[d].file,
                                       recording |-> job[d].row])
    /\ \/ (\E k \in NextFile(job[d]) : Goes(d, k)) /\ Unhurt
       \/ (\E k \in Raised(job[d]) : Goes(d, k)) /\ Fault
    /\ UNCHANGED <<rows, recordings>> /\ Quiet

\* A request for a file throws and has had no effect.
SummaryThrows(d) ==
    /\ job[d].kind = "summary"
    /\ \E k \in Raised(job[d]) : Goes(d, k)
    /\ Fault /\ TablesKept /\ Quiet

-----------------------------------------------------------------------------
(* Lark *)

\* The event of a meeting that ended, by the webhook or the long connection;
\* either answers Lark before the job is in the queue.
EndedArrives(d) ==
    \E m \in LarkMeetings \cup {None} :
        Arrives(d, [NoJob EXCEPT !.kind = "ended", !.at = "enqueue",
                                 !.meeting = m])

\* enqueueMeetingEnded, whose error is logged or dropped.
EnqueueMeetingEnded(d) ==
    /\ At(d, "enqueue")
    /\ \/ Goes(d, [job[d] EXCEPT !.at = "queued"]) /\ Unhurt
       \/ Goes(d, End(Hurt(job[d]))) /\ Fault
    /\ TablesKept /\ Quiet

\* The worker has one job at a time.
WorkerFree == \A d \in Deliveries : job[d].kind = "ended" => job[d].step = "none"

\* handleMeetingEnded.
HandleMeetingEnded(d) ==
    /\ At(d, "queued") /\ WorkerFree
    /\ Goes(d, IF job[d].meeting = None THEN End(job[d])
               ELSE Upsert(job[d], "meeting"))
    /\ Unhurt /\ TablesKept /\ Quiet

-----------------------------------------------------------------------------
(* Crashes *)

\* What is left of a delivery when the process ends: a job in the queue, and
\* one that was being worked on, which is found stalled and goes back once.
Survives(k) ==
    CASE k.at = "queued" -> k
      [] k.kind = "ended" /\ k.at = "meeting" /\ k.stalled = 0 ->
             [Point(k, "queued") EXCEPT !.stalled = 1]
      [] OTHER -> NoJob

Crash ==
    /\ \E d \in Deliveries : Survives(job[d]) # job[d]
    /\ crashes < MaxCrashes /\ crashes' = crashes + 1
    /\ job' = [d \in Deliveries |-> Survives(job[d])]
    /\ TablesKept /\ UNCHANGED <<known, delivered, faults, through>>

-----------------------------------------------------------------------------

UpsertNext(d) ==
    Search(d) \/ WithoutData(d) \/ Throws(d) \/ Write(d) \/ WriteUnanswered(d)

CompletedNext(d) ==
    CompletedArrives(d) \/ GetUniqueParticipants(d) \/ FetchContent(d)
        \/ AskSummary(d)

SummaryNext(d) ==
    \/ SummaryArrives(d) \/ FindMeeting(d) \/ FindRecording(d)
    \/ WriteRecording(d) \/ FetchSummary(d) \/ StoreSummary(d)
    \/ SummaryThrows(d)

EndedNext(d) ==
    EndedArrives(d) \/ EnqueueMeetingEnded(d) \/ HandleMeetingEnded(d)

RecordingsNext ==
    \/ \E d \in Deliveries :
           UpsertNext(d) \/ CompletedNext(d) \/ SummaryNext(d) \/ EndedNext(d)
    \/ MeetingRecorded
    \/ Crash

RecordingsSpec == RecordingsInit /\ [][RecordingsNext]_recordingVars

-----------------------------------------------------------------------------
(* Properties *)

\* A second row for one key, of any table, was created by an upsert that
\* searched before the first was there, or whose search or update was
\* answered without data.  Hits leaves out the keys that have capitals, if
\* Bitable minds case: of those each upsert makes another row.
TwinsOverlapped ==
    /\ \A t \in Tables : \A j \in 1..Len(rows[t]) :
           \A i \in Hits(t, rows[t][j].key) : i < j => rows[t][j].seen < i
    /\ \A i, j \in 1..Len(recordings) :
           /\ i < j
           /\ recordings[i].meeting = recordings[j].meeting
           /\ recordings[i].file = recordings[j].file
           => recordings[j].seen < i

\* What tables say of each other agrees, though rows of other deliveries come
\* between the requests that write them: a participant's summary that names
\* a row of the file table names the file it was made from, a file names a
\* row of the meetings, and a summary in Postgres a recording of its
\* file and meeting.
LinksAgree ==
    /\ \A i \in 1..Len(rows["number"]) :
           LET r == rows["number"][i]
           IN  /\ r.key \in 1..Len(rows["user"])
               /\ r.link # 0 => /\ r.link \in 1..Len(rows["file"])
                                /\ rows["file"][r.link].key = r.of
    /\ \A i \in 1..Len(rows["file"]) :
           rows["file"][i].link \in 1..Len(rows["meeting"])
    /\ \A i \in 1..Len(summaries) :
           LET s == summaries[i]
           IN  /\ s.recording \in 1..Len(recordings)
               /\ recordings[s.recording].file = s.file
               /\ recordings[s.recording].meeting = s.meeting

HasRow(t, k) == RowsFor(t, k) # {}

\* A delivery of which no request failed has left all its rows, those of each
\* file and in it of each participant, though errors of a file or of a
\* participant are caught and passed over on the way.  What is lost without
\* a fault is the summary of a file whose meeting was not in the database
\* when smart.fullsummary came to it: nothing brings it later.
ThroughIsWritten ==
    \A p \in through :
        /\ p.kind = "completed" =>
               \A f \in p.files :
                   /\ HasRow("meeting", p.meeting)
                   /\ \E i \in RowsFor("file", f) : rows["file"][i].parts = Parts
                   /\ \A u \in Attendees[p.meeting] :
                          /\ HasRow("user", u)
                          /\ u \in Speakers[f] =>
                                 \E i \in RowsFor("user", u) : HasRow("number", i)
        /\ p.kind = "summary" =>
               \A f \in p.files \ p.early : \E i \in 1..Len(summaries) :
                   summaries[i].meeting = p.meeting /\ summaries[i].file = f
        /\ p.kind = "ended" /\ p.meeting # None => HasRow("meeting", p.meeting)

\* A file keeps what a delivery brought of it, though a later one, or one
\* that is sent again, got less.
PartsAreKept ==
    [][\A i \in 1..Len(rows["file"]) :
           rows["file"][i].parts \subseteq rows'["file"][i].parts]_recordingVars
=============================================================================
