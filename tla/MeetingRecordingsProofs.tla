----------------------- MODULE MeetingRecordingsProofs -----------------------
(***************************************************************************)
(* Proofs about MeetingRecordings, for every set of deliveries, meetings,  *)
(* files and users, and every bound.                                       *)
(*                                                                         *)
(* RecordingsInv is inductive.  It says of each delivery in flight what it *)
(* may rely on although others write the same tables between its requests: *)
(* the row its search found is still one of its key, a row that the search *)
(* did not see is at a later place, the rows it holds of earlier upserts   *)
(* are still those of its file and its participant, and, if it has met no  *)
(* fault, whatever it has gone through is written.                         *)
(*                                                                         *)
(* All this is stated of tables rs, recs and sums that are given, so that  *)
(* the lemmas are about constants.                                         *)
(***************************************************************************)
EXTENDS MeetingRecordings, FiniteSetTheorems, SequenceTheorems, TLAPS

Fits(t, key, k) ==
    IF t = "meeting" THEN key.id = k.id /\ (k.sub # None => key.sub = k.sub)
    ELSE key = k

\* RowsFor, in any tables.
RowsIn(rs, t, k) == {i \in 1..Len(rs[t]) : Fits(t, rs[t][i].key, k)}

\* A search finds the rows of k, and not none for its capitals.
Found(t, k) == IgnoresCase \/ InLowerCase(t, k)

-----------------------------------------------------------------------------
(* What is written *)

PersonDone(rs, f, u) ==
    /\ RowsIn(rs, "user", u) # {}
    /\ u \in Speakers[f] => \E i \in RowsIn(rs, "user", u) : RowsIn(rs, "number", i) # {}

HasFile(rs, f) == \E i \in RowsIn(rs, "file", f) : rs["file"][i].parts = Parts

FileDone(rs, m, f) ==
    /\ RowsIn(rs, "meeting", m) # {}
    /\ HasFile(rs, f)
    /\ \A u \in Attendees[m] : PersonDone(rs, f, u)

SummaryDone(sums, m, f) ==
    \E i \in 1..Len(sums) : sums[i].meeting = m /\ sums[i].file = f

ThroughOK(p, rs, sums) ==
    /\ p.kind = "completed" => \A f \in p.files : FileDone(rs, p.meeting, f)
    /\ p.kind = "summary" => \A f \in p.files \ p.early : SummaryDone(sums, p.meeting, f)
    /\ p.kind = "ended" /\ p.meeting # None => RowsIn(rs, "meeting", p.meeting) # {}

-----------------------------------------------------------------------------
(* The tables *)

TwinsIn(rs) ==
    \A t \in Tables : \A j \in 1..Len(rs[t]) :
        Found(t, rs[t][j].key) =>
            \A i \in RowsIn(rs, t, rs[t][j].key) : i < j => rs[t][j].seen < i

NumberOK(r, rs) ==
    /\ r.key \in 1..Len(rs["user"])
    /\ r.link # 0 => /\ r.link \in 1..Len(rs["file"])
                     /\ rs["file"][r.link].key = r.of

RowsOK(rs) ==
    /\ rs = [t \in Tables |-> rs[t]]
    /\ \A t \in Tables : rs[t] \in Seq(Row(t))
    /\ TwinsIn(rs)
    /\ \A i \in 1..Len(rs["number"]) : NumberOK(rs["number"][i], rs)
    /\ \A i \in 1..Len(rs["file"]) : rs["file"][i].link \in 1..Len(rs["meeting"])

IsRecording(i, m, f, recs) ==
    i \in 1..Len(recs) /\ recs[i].meeting = m /\ recs[i].file = f

PostgresOK(recs, sums) ==
    /\ recs \in Seq(Recording) /\ sums \in Seq(Summary)
    /\ \A i, j \in 1..Len(recs) :
          i < j /\ recs[i].meeting = recs[j].meeting /\ recs[i].file = recs[j].file
              => recs[j].seen < i
    /\ \A i \in 1..Len(sums) :
          IsRecording(sums[i].recording, sums[i].meeting, sums[i].file, recs)

\* What a request does to the tables.
Grown(rs, qs) ==
    \A t \in Tables :
        /\ Len(rs[t]) <= Len(qs[t])
        /\ \A i \in 1..Len(rs[t]) : /\ qs[t][i].key = rs[t][i].key
                                    /\ rs[t][i].parts \subseteq qs[t][i].parts

Longer(s, r) == Len(s) <= Len(r) /\ \A i \in 1..Len(s) : r[i] = s[i]

-----------------------------------------------------------------------------
(* Deliveries in flight *)

UpsertSteps == {"search", "update", "create"}

\* What the search of an upsert saw.
SearchOK(k, rs) ==
    /\ k.step = "update" => k.row \in RowsIn(rs, k.at, KeyOf(k))
    /\ k.step = "create" => /\ k.seen <= Len(rs[k.at])
                            /\ Found(k.at, KeyOf(k)) =>
                                  \A i \in RowsIn(rs, k.at, KeyOf(k)) : k.seen < i

\* The rows that a delivery has from the upserts for its file.
HeldOK(k, rs) ==
    /\ k.fileRow # 0 => k.fileRow \in RowsIn(rs, "file", k.file)
    /\ k.at = "file" => k.meetingRow \in 1..Len(rs["meeting"])
    /\ k.at = "user" => k.user \in Users
    /\ k.at \in {"ask", "number"} => k.userRow \in 1..Len(rs["user"])

\* The files, and of the present one the participants, that k is through with.
FilesDone(k, fs, rs) ==
    /\ k.people = Attendees[k.meeting]
    /\ \A f \in fs : FileDone(rs, k.meeting, f)

PeopleDone(k, us, rs) ==
    /\ k.parts = Parts
    /\ RowsIn(rs, "meeting", k.meeting) # {}
    /\ HasFile(rs, k.file)
    /\ \A u \in us : PersonDone(rs, k.file, u)

WholeOK(k, rs) ==
    /\ FilesDone(k, k.all \ (k.files \cup {k.file}), rs)
    /\ k.at \in {"content", "meeting", "file"} => k.left = k.people
    /\ k.at \in {"meeting", "file"} => k.parts = Parts
    /\ k.at = "file" => RowsIn(rs, "meeting", k.meeting) # {}
    /\ k.at \in {"user", "ask", "number"} =>
          PeopleDone(k, k.people \ (k.left \cup {k.user}), rs)
    /\ k.at \in {"ask", "number"} => k.userRow \in RowsIn(rs, "user", k.user)

CompletedOK(k, rs) ==
    /\ k.kind = "completed" /\ k.meeting \in Meetings
    /\ \/ k.at = "people" /\ k.step = "none" /\ k.files = k.all
       \/ /\ k.file \in Files
          /\ \/ k.at \in {"content", "ask"} /\ k.step = "none"
             \/ k.at \in Tables /\ k.step \in UpsertSteps
          /\ SearchOK(k, rs) /\ HeldOK(k, rs)
          /\ k.whole => WholeOK(k, rs)

\* What findRecording saw, and what upsertMeetingRecording returned.
RecordingOK(k, recs) ==
    /\ k.at = "recording" => k.row = 0
    /\ k.at = "write" => /\ k.seen <= Len(recs)
                         /\ k.row # 0 => IsRecording(k.row, k.meeting, k.file, recs)
                         /\ k.row = 0 => \A i \in 1..Len(recs) :
                               IsRecording(i, k.meeting, k.file, recs) => k.seen < i
    /\ k.at \in {"fetch", "store"} => IsRecording(k.row, k.meeting, k.file, recs)

SummaryOK(k, recs, sums) ==
    /\ k.kind = "summary" /\ k.meeting \in Meetings /\ k.file \in Files
    /\ k.at \in {"find", "recording", "write", "fetch", "store"} /\ k.step = "none"
    /\ RecordingOK(k, recs)
    /\ k.whole => \A f \in k.all \ (k.files \cup {k.file} \cup k.early) :
                     SummaryDone(sums, k.meeting, f)

EndedOK(k, rs) ==
    /\ k.kind = "ended"
    /\ \/ /\ k.at \in {"enqueue", "queued"} /\ k.step = "none"
          /\ k.meeting \in LarkMeetings \cup {None}
       \/ /\ k.at = "meeting" /\ k.step \in UpsertSteps
          /\ k.meeting \in LarkMeetings /\ SearchOK(k, rs)

JobOK(k, rs, recs, sums) ==
    /\ k \in Job
    /\ k = NoJob \/ CompletedOK(k, rs) \/ SummaryOK(k, recs, sums) \/ EndedOK(k, rs)

\* k is what a delivery goes on as, which may be its end.
GoesOnOK(k, rs, recs, sums) ==
    IF k.at = "end"
    THEN k.whole => ThroughOK([kind |-> k.kind, meeting |-> k.meeting,
                               files |-> k.all, early |-> k.early], rs, sums)
    ELSE JobOK(k, rs, recs, sums)

RecordingsInv ==
    /\ RowsOK(rows)
    /\ PostgresOK(recordings, summaries)
    /\ job \in [Deliveries -> Job]
    /\ \A d \in Deliveries : JobOK(job[d], rows, recordings, summaries)
    /\ \A p \in through : ThroughOK(p, rows, summaries)
    /\ known \subseteq Meetings
    /\ delivered \in 0..MaxDeliveries
    /\ faults \in 0..MaxFaults /\ crashes \in 0..MaxCrashes

-----------------------------------------------------------------------------
(* The first of several hits *)

\* Of the intervals 1..i that end at a hit, one contains no other.
LEMMA FirstIsHit ==
  ASSUME NEW n \in Nat, NEW hits \in SUBSET (1..n), hits # {}
  PROVE  First(hits) \in hits
  <1> DEFINE ends == {1..i : i \in hits}
  <1>1. ends \subseteq FiniteSubsetsOf(Nat)
    <2> SUFFICES ASSUME NEW i \in hits PROVE 1..i \in FiniteSubsetsOf(Nat)
      OBVIOUS
    <2>1. i \in Int /\ 1..i \subseteq Nat
      OBVIOUS
    <2>2. IsFiniteSet(1..i)
      BY <2>1, FS_Interval
    <2> QED BY <2>1, <2>2 DEF FiniteSubsetsOf
  <1>2. PICK e \in ends : \A d \in ends : <<d, e>> \notin StrictSubsetOrdering(Nat)
    <2>1. ends # {}
      OBVIOUS
    <2> HIDE DEF ends
    <2> QED BY <1>1, <2>1, FS_StrictSubsetOrderingWellFounded, WFMin
  <1>3. PICK i \in hits : e = 1..i
    OBVIOUS
  <1>4. ASSUME NEW j \in hits PROVE i <= j
    <2> SUFFICES ASSUME j < i PROVE FALSE
      OBVIOUS
    <2>1. <<1..j, 1..i>> \notin StrictSubsetOrdering(Nat)
      BY <1>2, <1>3
    <2>2. 1..j \subseteq 1..i /\ i \in 1..i /\ i \notin 1..j
      OBVIOUS
    <2>3. 1..j \subseteq Nat /\ 1..i \subseteq Nat
      OBVIOUS
    <2> QED BY <2>1, <2>2, <2>3 DEF StrictSubsetOrdering
  <1> HIDE DEF ends
  <1> QED BY <1>4 DEF First

-----------------------------------------------------------------------------
(* Jobs *)

LEMMA NoJobIsJob == NoJob \in Job
  BY DEF NoJob, Job, Tables, AllMeetings

\* What the operators that change a job leave of it.
LEMMA HurtJob ==
  ASSUME NEW k \in Job
  PROVE  /\ Hurt(k) \in Job /\ ~Hurt(k).whole
         /\ Hurt(k).kind = k.kind /\ Hurt(k).at = k.at /\ Hurt(k).step = k.step
         /\ Hurt(k).meeting = k.meeting /\ Hurt(k).files = k.files
         /\ Hurt(k).file = k.file /\ Hurt(k).all = k.all /\ Hurt(k).early = k.early
         /\ Hurt(k).people = k.people /\ Hurt(k).left = k.left
         /\ Hurt(k).user = k.user /\ Hurt(k).parts = k.parts
         /\ Hurt(k).meetingRow = k.meetingRow /\ Hurt(k).fileRow = k.fileRow
         /\ Hurt(k).userRow = k.userRow /\ Hurt(k).row = k.row
         /\ Hurt(k).seen = k.seen
  BY DEF Hurt, Job

LEMMA UpsertJob ==
  ASSUME NEW k \in Job, NEW t \in Tables
  PROVE  LET n == Upsert(k, t)
         IN  /\ n \in Job /\ n.at = t /\ n.step = "search"
             /\ n.kind = k.kind /\ n.meeting = k.meeting /\ n.files = k.files
             /\ n.file = k.file /\ n.all = k.all
             /\ n.early = k.early /\ n.people = k.people
             /\ n.left = k.left /\ n.user = k.user /\ n.parts = k.parts
             /\ n.meetingRow = k.meetingRow /\ n.fileRow = k.fileRow
             /\ n.userRow = k.userRow /\ n.whole = k.whole
  BY DEF Upsert, Job

Points == {"people", "content", "ask", "find", "recording", "write", "fetch",
           "store", "enqueue", "queued"}

LEMMA PointJob ==
  ASSUME NEW k \in Job, NEW p \in Points
  PROVE  LET n == Point(k, p)
         IN  /\ n \in Job /\ n.at = p /\ n.step = "none" /\ n.row = 0
             /\ n.kind = k.kind /\ n.meeting = k.meeting /\ n.files = k.files
             /\ n.file = k.file /\ n.all = k.all
             /\ n.early = k.early /\ n.people = k.people
             /\ n.left = k.left /\ n.user = k.user /\ n.parts = k.parts
             /\ n.meetingRow = k.meetingRow /\ n.fileRow = k.fileRow
             /\ n.userRow = k.userRow /\ n.whole = k.whole
  <1> DEFINE places == Tables \cup {"idle", "people", "content", "ask", "find",
                 "recording", "write", "fetch", "store", "enqueue", "queued"}
             jobs(ps) == [kind: {"none", "completed", "summary", "ended"}, at: ps,
                 step: {"none", "search", "update", "create"},
                 meeting: AllMeetings \cup {None},
                 files: SUBSET Files, file: Files \cup {None}, all: SUBSET Files,
                 people: SUBSET Users, left: SUBSET Users, user: Users \cup {None},
                 parts: SUBSET Parts, meetingRow: Nat, fileRow: Nat, userRow: Nat,
                 row: Nat, seen: Nat, stalled: 0..1, early: SUBSET Files,
                 whole: BOOLEAN]
  <1>1. p \in places
    BY DEF Points
  <1>2. Job = jobs(places)
    BY DEF Job
  <1> HIDE DEF places
  <1> QED BY <1>1, <1>2 DEF Point

\* The job of the next file, and of the next participant.
LEMMA NextFileJob ==
  ASSUME NEW k \in Job, NEW n \in NextFile(k)
  PROVE  \/ /\ k.files = {} /\ n.at = "end"
            /\ n.kind = k.kind /\ n.meeting = k.meeting /\ n.all = k.all
            /\ n.early = k.early
            /\ n.whole = k.whole
         \/ /\ n \in Job /\ n.step = "none"
            /\ n.at = IF k.kind = "completed" THEN "content" ELSE "find"
            /\ n.file \in k.files /\ n.files = k.files \ {n.file}
            /\ n.left = k.people /\ n.fileRow = 0
            /\ n.kind = k.kind /\ n.meeting = k.meeting /\ n.all = k.all
            /\ n.early = k.early
            /\ n.people = k.people /\ n.whole = k.whole
  <1>1. CASE k.files = {}
    BY <1>1 DEF NextFile, End, Job
  <1>2. CASE k.files # {}
    <2> DEFINE p == IF k.kind = "completed" THEN "content" ELSE "find"
               q == Point(k, p)
    <2>1. p \in Points
      BY DEF Points
    <2>2. PICK f \in k.files :
             n = [q EXCEPT !.file = f, !.files = @ \ {f}, !.left = k.people,
                           !.user = None, !.parts = {}, !.meetingRow = 0,
                           !.fileRow = 0, !.userRow = 0]
      BY <1>2 DEF NextFile
    <2>3. /\ q \in Job /\ q.at = p /\ q.step = "none" /\ q.kind = k.kind
          /\ q.meeting = k.meeting /\ q.files = k.files /\ q.all = k.all
          /\ q.early = k.early
          /\ q.people = k.people /\ q.whole = k.whole
      BY <2>1, PointJob
    <2> HIDE DEF q
    <2>4. f \in Files /\ k.people \subseteq Users
      BY <2>2 DEF Job
    <2> QED BY <2>2, <2>3, <2>4 DEF Job
  <1> QED BY <1>1, <1>2

LEMMA NextPersonJob ==
  ASSUME NEW k \in Job, k.left # {}, NEW n \in NextPerson(k)
  PROVE  /\ n \in Job /\ n.at = "user" /\ n.step = "search"
         /\ n.user \in k.left /\ n.left = k.left \ {n.user}
         /\ n.kind = k.kind /\ n.meeting = k.meeting /\ n.files = k.files
         /\ n.file = k.file /\ n.all = k.all
         /\ n.early = k.early /\ n.people = k.people
         /\ n.parts = k.parts /\ n.fileRow = k.fileRow /\ n.whole = k.whole
  <1> DEFINE q == Upsert(k, "user")
  <1>1. PICK u \in k.left : n = [q EXCEPT !.user = u, !.left = @ \ {u}]
    BY DEF NextPerson
  <1>2. /\ q \in Job /\ q.at = "user" /\ q.step = "search" /\ q.left = k.left
        /\ q.kind = k.kind /\ q.meeting = k.meeting /\ q.files = k.files
        /\ q.file = k.file /\ q.all = k.all
        /\ q.early = k.early /\ q.people = k.people
        /\ q.parts = k.parts /\ q.fileRow = k.fileRow /\ q.whole = k.whole
    BY UpsertJob DEF Tables
  <1> HIDE DEF q
  <1>3. u \in Users
    BY <1>1 DEF Job
  <1> QED BY <1>1, <1>2, <1>3 DEF Job

-----------------------------------------------------------------------------
(* Tables that grow *)

LEMMA HitsAreRowsIn ==
  /\ \A t, k : RowsFor(t, k) = RowsIn(rows, t, k)
  /\ \A t, k : Hits(t, k) = IF Found(t, k) THEN RowsIn(rows, t, k) ELSE {}
  BY DEF Hits, RowsFor, RowsIn, Found, Fits

LEMMA TablesTyped ==
  ASSUME NEW rs, RowsOK(rs), NEW t \in Tables
  PROVE  /\ rs[t] \in Seq(Row(t)) /\ Len(rs[t]) \in Nat
         /\ \A i \in 1..Len(rs[t]) : rs[t][i] \in Row(t)
  <1>1. rs[t] \in Seq(Row(t))
    BY DEF RowsOK
  <1> QED BY <1>1

LEMMA RowsInGrow ==
  ASSUME NEW rs, NEW qs, RowsOK(rs), RowsOK(qs), Grown(rs, qs),
         NEW t \in Tables, NEW k
  PROVE  /\ RowsIn(rs, t, k) \subseteq RowsIn(qs, t, k)
         /\ \A i \in RowsIn(qs, t, k) : i <= Len(rs[t]) => i \in RowsIn(rs, t, k)
  <1>1. Len(rs[t]) \in Nat /\ Len(qs[t]) \in Nat
    BY TablesTyped
  <1>2. /\ Len(rs[t]) <= Len(qs[t])
        /\ \A i \in 1..Len(rs[t]) : qs[t][i].key = rs[t][i].key
    BY DEF Grown
  <1> QED BY <1>1, <1>2 DEF RowsIn

LEMMA GrownSame ==
  ASSUME NEW rs, RowsOK(rs)
  PROVE  Grown(rs, rs)
  BY TablesTyped DEF Grown

LEMMA LongerSame ==
  ASSUME NEW S, NEW s \in Seq(S)
  PROVE  Longer(s, s)
  BY DEF Longer

LEMMA DoneGrows ==
  ASSUME NEW rs, NEW qs, RowsOK(rs), RowsOK(qs), Grown(rs, qs)
  PROVE  /\ \A f : HasFile(rs, f) => HasFile(qs, f)
         /\ \A f, u : PersonDone(rs, f, u) => PersonDone(qs, f, u)
         /\ \A m, f : FileDone(rs, m, f) => FileDone(qs, m, f)
  <1>1. /\ "meeting" \in Tables /\ "user" \in Tables
        /\ "file" \in Tables /\ "number" \in Tables
    BY DEF Tables
  <1>2. ASSUME NEW f, HasFile(rs, f)
        PROVE  HasFile(qs, f)
    <2>1. PICK i \in RowsIn(rs, "file", f) : rs["file"][i].parts = Parts
      BY <1>2 DEF HasFile
    <2>2. i \in RowsIn(qs, "file", f) /\ i \in 1..Len(rs["file"]) /\ i \in 1..Len(qs["file"])
      BY <1>1, <2>1, RowsInGrow DEF RowsIn
    <2>3. qs["file"][i].parts \subseteq Parts
      BY <1>1, <2>2, TablesTyped DEF Row
    <2>4. Parts \subseteq qs["file"][i].parts
      BY <1>1, <2>1, <2>2 DEF Grown
    <2>5. qs["file"][i].parts = Parts
      BY <2>3, <2>4
    <2> QED BY <2>2, <2>5 DEF HasFile
  <1>3. ASSUME NEW f, NEW u, PersonDone(rs, f, u)
        PROVE  PersonDone(qs, f, u)
    BY <1>1, <1>3, RowsInGrow DEF PersonDone
  <1>4. ASSUME NEW m, NEW f, FileDone(rs, m, f)
        PROVE  FileDone(qs, m, f)
    BY <1>1, <1>2, <1>3, <1>4, RowsInGrow DEF FileDone
  <1> QED BY <1>2, <1>3, <1>4

LEMMA SummaryDoneGrows ==
  ASSUME NEW sums \in Seq(Summary), NEW tums \in Seq(Summary), Longer(sums, tums),
         NEW m, NEW f, SummaryDone(sums, m, f)
  PROVE  SummaryDone(tums, m, f)
  <1>1. PICK i \in 1..Len(sums) : sums[i].meeting = m /\ sums[i].file = f
    BY DEF SummaryDone
  <1>2. i \in 1..Len(tums) /\ tums[i] = sums[i]
    BY DEF Longer
  <1> QED BY <1>1, <1>2 DEF SummaryDone

LEMMA RecordingsGrow ==
  ASSUME NEW recs \in Seq(Recording), NEW qecs \in Seq(Recording), Longer(recs, qecs),
         NEW i, NEW m, NEW f
  PROVE  /\ IsRecording(i, m, f, recs) => IsRecording(i, m, f, qecs)
         /\ IsRecording(i, m, f, qecs) /\ i <= Len(recs) => IsRecording(i, m, f, recs)
  BY DEF IsRecording, Longer

LEMMA ThroughGrows ==
  ASSUME NEW rs, NEW qs, RowsOK(rs), RowsOK(qs), Grown(rs, qs),
         NEW sums \in Seq(Summary), NEW tums \in Seq(Summary), Longer(sums, tums),
         NEW p, ThroughOK(p, rs, sums)
  PROVE  ThroughOK(p, qs, tums)
  <1>1. p.kind = "completed" => \A f \in p.files : FileDone(qs, p.meeting, f)
    BY DoneGrows DEF ThroughOK
  <1>2. p.kind = "summary" => \A f \in p.files \ p.early : SummaryDone(tums, p.meeting, f)
    BY SummaryDoneGrows DEF ThroughOK
  <1>3. p.kind = "ended" /\ p.meeting # None => RowsIn(qs, "meeting", p.meeting) # {}
    BY RowsInGrow DEF ThroughOK, Tables
  <1> QED BY <1>1, <1>2, <1>3 DEF ThroughOK

\* A delivery in flight is not disturbed by what others write.
LEMMA SearchKept ==
  ASSUME NEW rs, NEW qs, RowsOK(rs), RowsOK(qs), Grown(rs, qs),
         NEW k \in Job, k.at \in Tables, SearchOK(k, rs)
  PROVE  SearchOK(k, qs)
  <1> DEFINE t == k.at
             key == KeyOf(k)
  <1>1. Len(rs[t]) \in Nat /\ Len(qs[t]) \in Nat /\ Len(rs[t]) <= Len(qs[t])
    BY TablesTyped DEF Grown
  <1>2. /\ RowsIn(rs, t, key) \subseteq RowsIn(qs, t, key)
        /\ \A i \in RowsIn(qs, t, key) : i <= Len(rs[t]) => i \in RowsIn(rs, t, key)
        /\ \A i \in RowsIn(qs, t, key) : i \in Nat
    <2> HIDE DEF t, key
    <2>1. t \in Tables
      BY DEF t
    <2>2. \A i \in RowsIn(qs, t, key) : i \in Nat
      BY DEF RowsIn
    <2> QED BY <2>1, <2>2, RowsInGrow
  <1>3. k.seen \in Nat
    BY DEF Job
  <1> HIDE DEF key
  <1>4. k.step = "update" => k.row \in RowsIn(qs, t, key)
    BY <1>2 DEF SearchOK, key
  <1>5. ASSUME k.step = "create"
        PROVE  /\ k.seen <= Len(qs[t])
               /\ Found(t, key) => \A i \in RowsIn(qs, t, key) : k.seen < i
    <2>1. /\ k.seen <= Len(rs[t])
          /\ Found(t, key) => \A i \in RowsIn(rs, t, key) : k.seen < i
      BY <1>5 DEF SearchOK, key
    <2> QED BY <1>1, <1>2, <1>3, <2>1
  <1> QED BY <1>4, <1>5 DEF SearchOK, key

LEMMA HeldKept ==
  ASSUME NEW rs, NEW qs, RowsOK(rs), RowsOK(qs), Grown(rs, qs),
         NEW k \in Job, HeldOK(k, rs)
  PROVE  HeldOK(k, qs)
  <1>1. /\ "meeting" \in Tables /\ "user" \in Tables /\ "file" \in Tables
    BY DEF Tables
  <1>2. \A t \in Tables : 1..Len(rs[t]) \subseteq 1..Len(qs[t])
    BY TablesTyped DEF Grown
  <1>3. k.fileRow # 0 => k.fileRow \in RowsIn(qs, "file", k.file)
    BY <1>1, RowsInGrow DEF HeldOK
  <1> QED BY <1>1, <1>2, <1>3 DEF HeldOK

LEMMA WholeKept ==
  ASSUME NEW rs, NEW qs, RowsOK(rs), RowsOK(qs), Grown(rs, qs),
         NEW k \in Job, WholeOK(k, rs)
  PROVE  WholeOK(k, qs)
  <1>1. /\ "meeting" \in Tables /\ "user" \in Tables /\ "file" \in Tables
    BY DEF Tables
  <1>2. \A t \in Tables : \A key : RowsIn(rs, t, key) \subseteq RowsIn(qs, t, key)
    BY RowsInGrow
  <1>3. /\ RowsIn(rs, "meeting", k.meeting) \subseteq RowsIn(qs, "meeting", k.meeting)
        /\ RowsIn(rs, "user", k.user) \subseteq RowsIn(qs, "user", k.user)
    BY <1>1, <1>2
  <1>4. FilesDone(k, k.all \ (k.files \cup {k.file}), qs)
    BY DoneGrows DEF WholeOK, FilesDone
  <1>5. ASSUME PeopleDone(k, k.people \ (k.left \cup {k.user}), rs)
        PROVE  PeopleDone(k, k.people \ (k.left \cup {k.user}), qs)
    BY <1>3, <1>5, DoneGrows DEF PeopleDone
  <1> QED BY <1>3, <1>4, <1>5 DEF WholeOK

LEMMA CompletedKept ==
  ASSUME NEW rs, NEW qs, RowsOK(rs), RowsOK(qs), Grown(rs, qs),
         NEW k \in Job, CompletedOK(k, rs)
  PROVE  CompletedOK(k, qs)
  <1>1. SearchOK(k, rs) => SearchOK(k, qs)
    <2>1. CASE k.at \in Tables
      BY <2>1, SearchKept
    <2>2. CASE k.at \notin Tables
      BY <2>2 DEF CompletedOK, SearchOK
    <2> QED BY <2>1, <2>2
  <1>2. HeldOK(k, rs) => HeldOK(k, qs)
    BY HeldKept
  <1>3. WholeOK(k, rs) => WholeOK(k, qs)
    BY WholeKept
  <1> QED BY <1>1, <1>2, <1>3 DEF CompletedOK

LEMMA SummaryKept ==
  ASSUME NEW recs \in Seq(Recording), NEW qecs \in Seq(Recording), Longer(recs, qecs),
         NEW sums \in Seq(Summary), NEW tums \in Seq(Summary), Longer(sums, tums),
         NEW k \in Job, SummaryOK(k, recs, sums)
  PROVE  SummaryOK(k, qecs, tums)
  <1>1. RecordingOK(k, qecs)
    <2>1. RecordingOK(k, recs)
      BY DEF SummaryOK
    <2>2. Len(recs) \in Nat /\ Len(qecs) \in Nat /\ Len(recs) <= Len(qecs) /\ k.seen \in Nat
      BY DEF Longer, Job
    <2>3. ASSUME k.at = "write", k.row = 0, NEW i \in 1..Len(qecs),
                 IsRecording(i, k.meeting, k.file, qecs)
          PROVE  k.seen < i
      <3>1. CASE i <= Len(recs)
        <4>1. IsRecording(i, k.meeting, k.file, recs)
          BY <2>3, <3>1, RecordingsGrow
        <4>2. i \in 1..Len(recs)
          BY <4>1 DEF IsRecording
        <4> QED BY <2>1, <2>3, <4>1, <4>2 DEF RecordingOK
      <3>2. CASE i > Len(recs)
        BY <2>1, <2>2, <2>3, <3>2 DEF RecordingOK
      <3> QED BY <2>2, <3>1, <3>2
    <2>4. k.at = "write" => k.seen <= Len(qecs)
      BY <2>1, <2>2 DEF RecordingOK
    <2>5. IsRecording(k.row, k.meeting, k.file, recs) =>
             IsRecording(k.row, k.meeting, k.file, qecs)
      BY RecordingsGrow
    <2> QED BY <2>1, <2>3, <2>4, <2>5 DEF RecordingOK
  <1>2. k.whole => \A f \in k.all \ (k.files \cup {k.file} \cup k.early) :
                      SummaryDone(tums, k.meeting, f)
    BY SummaryDoneGrows DEF SummaryOK
  <1> QED BY <1>1, <1>2 DEF SummaryOK

LEMMA JobKept ==
  ASSUME NEW rs, NEW qs, RowsOK(rs), RowsOK(qs), Grown(rs, qs),
         NEW recs \in Seq(Recording), NEW qecs \in Seq(Recording), Longer(recs, qecs),
         NEW sums \in Seq(Summary), NEW tums \in Seq(Summary), Longer(sums, tums),
         NEW k, JobOK(k, rs, recs, sums)
  PROVE  JobOK(k, qs, qecs, tums)
  <1>1. k \in Job
    BY DEF JobOK
  <1>2. CompletedOK(k, rs) => CompletedOK(k, qs)
    BY <1>1, CompletedKept
  <1>3. SummaryOK(k, recs, sums) => SummaryOK(k, qecs, tums)
    BY <1>1, SummaryKept
  <1>4. EndedOK(k, rs) => EndedOK(k, qs)
    BY <1>1, SearchKept DEF EndedOK, Tables
  <1> QED BY <1>1, <1>2, <1>3, <1>4 DEF JobOK

-----------------------------------------------------------------------------
(* How a delivery goes on *)

\* A job of recording.completed that has begun a file.
Begun(k, rs) ==
    /\ k \in Job /\ k.kind = "completed" /\ k.meeting \in Meetings /\ k.file \in Files
    /\ k.fileRow # 0 => k.fileRow \in RowsIn(rs, "file", k.file)
    /\ k.whole => FilesDone(k, k.all \ (k.files \cup {k.file}), rs)

LEMMA NextFileCompleted ==
  ASSUME NEW rs, NEW recs, NEW sums,
         NEW k \in Job, k.kind = "completed", k.meeting \in Meetings,
         k.whole => FilesDone(k, k.all \ k.files, rs),
         NEW n \in NextFile(k)
  PROVE  GoesOnOK(n, rs, recs, sums)
  <1>1. CASE k.files = {} /\ n.at = "end"
    <2>1. /\ n.kind = "completed" /\ n.meeting = k.meeting
          /\ n.all = k.all /\ n.early = k.early /\ n.whole = k.whole
      BY <1>1, NextFileJob
    <2>2. n.whole => \A f \in k.all : FileDone(rs, k.meeting, f)
      BY <1>1, <2>1 DEF FilesDone
    <2> QED BY <1>1, <2>1, <2>2 DEF GoesOnOK, ThroughOK
  <1>2. CASE ~(k.files = {} /\ n.at = "end")
    <2>1. /\ n \in Job /\ n.step = "none" /\ n.at = "content"
          /\ n.file \in k.files /\ n.files = k.files \ {n.file}
          /\ n.left = k.people /\ n.fileRow = 0
          /\ n.kind = k.kind /\ n.meeting = k.meeting /\ n.all = k.all
          /\ n.early = k.early
          /\ n.people = k.people /\ n.whole = k.whole
      BY <1>2, NextFileJob
    <2>2. n.file \in Files /\ n.files \cup {n.file} = k.files
      BY <2>1 DEF Job
    <2>3. SearchOK(n, rs) /\ HeldOK(n, rs)
      BY <2>1 DEF SearchOK, HeldOK
    <2>4. n.whole => WholeOK(n, rs)
      BY <2>1, <2>2 DEF WholeOK, FilesDone
    <2> QED BY <2>1, <2>2, <2>3, <2>4 DEF GoesOnOK, JobOK, CompletedOK
  <1> QED BY <1>1, <1>2

LEMMA NextFileSummary ==
  ASSUME NEW rs, NEW recs, NEW sums,
         NEW k \in Job, k.kind = "summary", k.meeting \in Meetings,
         k.whole => \A f \in k.all \ (k.files \cup k.early) :
                       SummaryDone(sums, k.meeting, f),
         NEW n \in NextFile(k)
  PROVE  GoesOnOK(n, rs, recs, sums)
  <1>1. CASE k.files = {} /\ n.at = "end"
    <2>1. /\ n.kind = "summary" /\ n.meeting = k.meeting
          /\ n.all = k.all /\ n.early = k.early /\ n.whole = k.whole
      BY <1>1, NextFileJob
    <2> QED BY <1>1, <2>1 DEF GoesOnOK, ThroughOK
  <1>2. CASE ~(k.files = {} /\ n.at = "end")
    <2>1. /\ n \in Job /\ n.step = "none" /\ n.at = "find"
          /\ n.file \in k.files /\ n.files = k.files \ {n.file}
          /\ n.kind = k.kind /\ n.meeting = k.meeting /\ n.all = k.all
          /\ n.early = k.early
          /\ n.whole = k.whole
      BY <1>2, NextFileJob
    <2>2. n.file \in Files /\ n.files \cup {n.file} = k.files
      BY <2>1 DEF Job
    <2>3. n.whole => \A f \in n.all \ (n.files \cup {n.file} \cup n.early) :
                        SummaryDone(sums, n.meeting, f)
      BY <2>1, <2>2
    <2> QED BY <2>1, <2>2, <2>3 DEF GoesOnOK, JobOK, SummaryOK, RecordingOK
  <1> QED BY <1>1, <1>2

LEMMA NextPersonOK ==
  ASSUME NEW rs, NEW recs, NEW sums, NEW k, Begun(k, rs),
         k.whole => PeopleDone(k, k.people \ k.left, rs),
         NEW n \in NextPerson(k)
  PROVE  GoesOnOK(n, rs, recs, sums)
  <1>1. CASE k.left = {}
    <2>1. n \in NextFile(k)
      BY <1>1 DEF NextPerson
    <2>2. ASSUME k.whole
          PROVE  FilesDone(k, k.all \ k.files, rs)
      <3>1. /\ k.people = Attendees[k.meeting] /\ PeopleDone(k, k.people, rs)
            /\ \A f \in k.all \ (k.files \cup {k.file}) : FileDone(rs, k.meeting, f)
        BY <1>1, <2>2 DEF Begun, FilesDone
      <3>2. FileDone(rs, k.meeting, k.file)
        BY <3>1 DEF FileDone, PeopleDone
      <3> QED BY <3>1, <3>2 DEF FilesDone
    <2> QED BY <2>1, <2>2, NextFileCompleted DEF Begun
  <1>2. CASE k.left # {}
    <2>1. /\ n \in Job /\ n.at = "user" /\ n.step = "search"
          /\ n.user \in k.left /\ n.left = k.left \ {n.user}
          /\ n.kind = k.kind /\ n.meeting = k.meeting /\ n.files = k.files
          /\ n.file = k.file /\ n.all = k.all
          /\ n.early = k.early /\ n.people = k.people
          /\ n.parts = k.parts /\ n.fileRow = k.fileRow /\ n.whole = k.whole
      BY <1>2, NextPersonJob DEF Begun
    <2>2. n.user \in Users /\ n.left \cup {n.user} = k.left
      BY <2>1 DEF Begun, Job
    <2>3. SearchOK(n, rs) /\ HeldOK(n, rs)
      BY <2>1, <2>2 DEF SearchOK, HeldOK, Begun
    <2>4. n.whole => WholeOK(n, rs)
      BY <2>1, <2>2 DEF WholeOK, FilesDone, PeopleDone, Begun
    <2> QED BY <2>1, <2>3, <2>4 DEF GoesOnOK, JobOK, CompletedOK, Begun, Tables, UpsertSteps
  <1> QED BY <1>1, <1>2

LEMMA CompletedBegun ==
  ASSUME NEW rs, NEW k \in Job, CompletedOK(k, rs), k.at # "people"
  PROVE  Begun(k, rs)
  BY DEF Begun, CompletedOK, HeldOK, WholeOK

\* What a request that throws does to a delivery.
LEMMA RaisedOK ==
  ASSUME NEW rs, NEW recs, NEW sums, NEW k, JobOK(k, rs, recs, sums),
         k # NoJob, k.at # "people", NEW n \in Raised(k)
  PROVE  GoesOnOK(n, rs, recs, sums)
  <1> DEFINE h == Hurt(k)
  <1>1. /\ k \in Job /\ h \in Job /\ ~h.whole
        /\ h.kind = k.kind /\ h.meeting = k.meeting /\ h.file = k.file
        /\ h.fileRow = k.fileRow
    BY HurtJob DEF JobOK
  <1> HIDE DEF h
  <1>2. CASE EndedOK(k, rs)
    <2>1. n = End(h)
      BY <1>2 DEF Raised, EndedOK, h
    <2>2. n.at = "end" /\ n.whole = h.whole
      BY <1>1, <2>1 DEF End, Job
    <2> QED BY <1>1, <2>2 DEF GoesOnOK
  <1>3. CASE SummaryOK(k, recs, sums)
    <2>1. n \in NextFile(h)
      BY <1>3 DEF Raised, SummaryOK, h
    <2> QED BY <1>1, <1>3, <2>1, NextFileSummary DEF SummaryOK
  <1>4. CASE CompletedOK(k, rs)
    <2>1. n \in NextPerson(h) \/ n \in NextFile(h)
      BY <1>4 DEF Raised, CompletedOK, h
    <2>2. Begun(k, rs)
      BY <1>1, <1>4, CompletedBegun
    <2>3. Begun(h, rs)
      BY <1>1, <2>2 DEF Begun
    <2> QED BY <1>1, <2>1, <2>3, NextPersonOK, NextFileCompleted DEF Begun
  <1> QED BY <1>2, <1>3, <1>4 DEF JobOK

\* After an upsert of k whose row is i.
LEMMA ReturnedMeeting ==
  ASSUME NEW rs, NEW recs, NEW sums, NEW k \in Job, CompletedOK(k, rs),
         k.at = "meeting", NEW i \in RowsIn(rs, "meeting", k.meeting),
         NEW n \in Returned(k, i)
  PROVE  GoesOnOK(n, rs, recs, sums)
  <1> DEFINE q == Upsert(k, "file")
  <1>1. n = [q EXCEPT !.meetingRow = i]
    BY DEF Returned, CompletedOK
  <1>2. /\ q \in Job /\ q.at = "file" /\ q.step = "search"
        /\ q.kind = k.kind /\ q.meeting = k.meeting /\ q.files = k.files
        /\ q.file = k.file /\ q.all = k.all
        /\ q.early = k.early /\ q.people = k.people
        /\ q.left = k.left /\ q.parts = k.parts
        /\ q.fileRow = k.fileRow /\ q.whole = k.whole
    BY UpsertJob DEF Tables
  <1> HIDE DEF q
  <1>3. i \in 1..Len(rs["meeting"]) /\ i \in Nat
    BY DEF RowsIn
  <1>4. /\ n \in Job /\ n.at = "file" /\ n.step = "search" /\ n.meetingRow = i
        /\ n.kind = k.kind /\ n.meeting = k.meeting /\ n.files = k.files
        /\ n.file = k.file /\ n.all = k.all
        /\ n.early = k.early /\ n.people = k.people
        /\ n.left = k.left /\ n.parts = k.parts
        /\ n.fileRow = k.fileRow /\ n.whole = k.whole
    BY <1>1, <1>2, <1>3 DEF Job
  <1>5. Begun(k, rs)
    BY CompletedBegun
  <1>6. SearchOK(n, rs) /\ HeldOK(n, rs)
    BY <1>3, <1>4, <1>5 DEF SearchOK, HeldOK, Begun
  <1>7. k.whole => k.left = k.people /\ k.parts = Parts
    BY DEF CompletedOK, WholeOK
  <1>8. n.whole => WholeOK(n, rs)
    BY <1>4, <1>5, <1>7 DEF WholeOK, FilesDone, Begun
  <1> QED BY <1>4, <1>5, <1>6, <1>8 DEF GoesOnOK, JobOK, CompletedOK, Begun, Tables, UpsertSteps

LEMMA ReturnedFile ==
  ASSUME NEW rs, RowsOK(rs), NEW recs, NEW sums, NEW k \in Job, CompletedOK(k, rs),
         k.at = "file", NEW i \in RowsIn(rs, "file", k.file),
         k.parts \subseteq rs["file"][i].parts,
         NEW n \in Returned(k, i)
  PROVE  GoesOnOK(n, rs, recs, sums)
  <1> DEFINE q == [k EXCEPT !.fileRow = i]
  <1>1. n \in NextPerson(q)
    BY DEF Returned, CompletedOK
  <1>2. i \in 1..Len(rs["file"]) /\ i \in Nat
    BY DEF RowsIn
  <1>3. /\ q \in Job /\ q.fileRow = i
        /\ q.kind = k.kind /\ q.meeting = k.meeting /\ q.files = k.files
        /\ q.file = k.file /\ q.all = k.all
        /\ q.early = k.early /\ q.people = k.people
        /\ q.left = k.left /\ q.parts = k.parts /\ q.whole = k.whole
    BY <1>2 DEF Job
  <1> HIDE DEF q
  <1>4. Begun(k, rs)
    BY CompletedBegun
  <1>5. Begun(q, rs)
    BY <1>3, <1>4 DEF Begun, FilesDone
  <1>6. ASSUME k.whole
        PROVE  PeopleDone(q, {}, rs) /\ q.people \ q.left = {}
    <2>1. WholeOK(k, rs)
      BY <1>6 DEF CompletedOK
    <2>2. k.left = k.people /\ k.parts = Parts /\ RowsIn(rs, "meeting", k.meeting) # {}
      BY <2>1 DEF WholeOK
    <2>3. rs["file"][i].parts \subseteq Parts
      BY <1>2, TablesTyped DEF Tables, Row
    <2>4. rs["file"][i].parts = Parts
      BY <2>2, <2>3
    <2>5. HasFile(rs, k.file)
      BY <2>4 DEF HasFile
    <2> QED BY <1>3, <2>2, <2>5 DEF PeopleDone
  <1> QED BY <1>1, <1>3, <1>5, <1>6, NextPersonOK

LEMMA ReturnedUser ==
  ASSUME NEW rs, NEW recs, NEW sums, NEW k \in Job, CompletedOK(k, rs),
         k.at = "user", NEW i \in RowsIn(rs, "user", k.user),
         NEW n \in Returned(k, i)
  PROVE  GoesOnOK(n, rs, recs, sums)
  <1>1. Begun(k, rs)
    BY CompletedBegun
  <1>2. i \in 1..Len(rs["user"]) /\ i \in Nat
    BY DEF RowsIn
  <1>3. k.whole => PeopleDone(k, k.people \ (k.left \cup {k.user}), rs)
    BY DEF CompletedOK, WholeOK
  <1>4. CASE k.user \in Names(k)
    <2> DEFINE q == Point(k, "ask")
    <2>1. n = [q EXCEPT !.userRow = i]
      BY <1>4 DEF Returned, CompletedOK
    <2>2. /\ q \in Job /\ q.at = "ask" /\ q.step = "none"
          /\ q.kind = k.kind /\ q.meeting = k.meeting /\ q.files = k.files
          /\ q.file = k.file /\ q.all = k.all
          /\ q.early = k.early /\ q.people = k.people
          /\ q.left = k.left /\ q.user = k.user /\ q.parts = k.parts
          /\ q.fileRow = k.fileRow /\ q.whole = k.whole
      BY PointJob DEF Points
    <2> HIDE DEF q
    <2>3. /\ n \in Job /\ n.at = "ask" /\ n.step = "none" /\ n.userRow = i
          /\ n.kind = k.kind /\ n.meeting = k.meeting /\ n.files = k.files
          /\ n.file = k.file /\ n.all = k.all
          /\ n.early = k.early /\ n.people = k.people
          /\ n.left = k.left /\ n.user = k.user /\ n.parts = k.parts
          /\ n.fileRow = k.fileRow /\ n.whole = k.whole
      BY <1>2, <2>1, <2>2 DEF Job
    <2>4. SearchOK(n, rs) /\ HeldOK(n, rs)
      BY <1>1, <1>2, <2>3 DEF SearchOK, HeldOK, Begun
    <2>5. n.whole => WholeOK(n, rs)
      BY <1>1, <1>3, <2>3 DEF WholeOK, FilesDone, PeopleDone, Begun
    <2> QED BY <1>1, <2>3, <2>4, <2>5 DEF GoesOnOK, JobOK, CompletedOK, Begun
  <1>5. CASE k.user \notin Names(k)
    <2>1. n \in NextPerson(k)
      BY <1>5 DEF Returned, CompletedOK
    <2>2. ASSUME k.whole
          PROVE  PeopleDone(k, k.people \ k.left, rs)
      <3>1. PersonDone(rs, k.file, k.user)
        BY <1>3, <1>5, <2>2 DEF PersonDone, PeopleDone, Names, Parts
      <3> QED BY <1>3, <2>2, <3>1 DEF PeopleDone
    <2> QED BY <1>1, <2>1, <2>2, NextPersonOK
  <1> QED BY <1>4, <1>5

LEMMA ReturnedNumber ==
  ASSUME NEW rs, NEW recs, NEW sums, NEW k \in Job, CompletedOK(k, rs),
         k.at = "number", NEW i \in RowsIn(rs, "number", k.userRow),
         NEW n \in Returned(k, i)
  PROVE  GoesOnOK(n, rs, recs, sums)
  <1>1. Begun(k, rs)
    BY CompletedBegun
  <1>2. n \in NextPerson(k)
    BY DEF Returned, CompletedOK
  <1>3. ASSUME k.whole
        PROVE  PeopleDone(k, k.people \ k.left, rs)
    <2>1. /\ PeopleDone(k, k.people \ (k.left \cup {k.user}), rs)
          /\ k.userRow \in RowsIn(rs, "user", k.user)
      BY <1>3 DEF CompletedOK, WholeOK
    <2>2. PersonDone(rs, k.file, k.user)
      BY <2>1 DEF PersonDone
    <2> QED BY <2>1, <2>2 DEF PeopleDone
  <1> QED BY <1>1, <1>2, <1>3, NextPersonOK

LEMMA ReturnedOK ==
  ASSUME NEW rs, RowsOK(rs), NEW recs, NEW sums, NEW k, JobOK(k, rs, recs, sums),
         k.step # "none", NEW i \in RowsIn(rs, k.at, KeyOf(k)),
         k.at = "file" => k.parts \subseteq rs["file"][i].parts,
         NEW n \in Returned(k, i)
  PROVE  GoesOnOK(n, rs, recs, sums)
  <1>1. k \in Job /\ k # NoJob
    BY DEF JobOK, NoJob
  <1>2. CASE EndedOK(k, rs)
    <2>1. n = End(k) /\ i \in RowsIn(rs, "meeting", k.meeting)
      BY <1>2 DEF EndedOK, Returned, KeyOf
    <2>2. /\ n.at = "end" /\ n.kind = "ended" /\ n.meeting = k.meeting
      BY <1>1, <1>2, <2>1 DEF End, Job, EndedOK
    <2> QED BY <2>1, <2>2 DEF GoesOnOK, ThroughOK
  <1>3. CASE SummaryOK(k, recs, sums)
    BY <1>3 DEF SummaryOK
  <1>4. CASE CompletedOK(k, rs)
    <2>1. k.at \in Tables
      BY <1>4 DEF CompletedOK
    <2>2. CASE k.at = "meeting"
      BY <1>1, <1>4, <2>2, ReturnedMeeting DEF KeyOf
    <2>3. CASE k.at = "file"
      BY <1>1, <1>4, <2>3, ReturnedFile DEF KeyOf
    <2>4. CASE k.at = "user"
      BY <1>1, <1>4, <2>4, ReturnedUser DEF KeyOf
    <2>5. CASE k.at = "number"
      BY <1>1, <1>4, <2>5, ReturnedNumber DEF KeyOf
    <2> QED BY <2>1, <2>2, <2>3, <2>4, <2>5 DEF Tables
  <1> QED BY <1>1, <1>2, <1>3, <1>4 DEF JobOK

-----------------------------------------------------------------------------
(* Writes *)

\* Row i of table t of qs is r, new or in the place of one of its key, and all
\* else is as in rs.
PutAt(rs, qs, t, i, r) ==
    /\ qs = [x \in Tables |-> qs[x]]
    /\ \A x \in Tables \ {t} : qs[x] = rs[x]
    /\ qs[t] \in Seq(Row(t)) /\ Len(rs[t]) <= Len(qs[t])
    /\ i \in 1..Len(qs[t]) /\ qs[t][i] = r
    /\ \A j \in 1..Len(qs[t]) : j # i => j \in 1..Len(rs[t]) /\ qs[t][j] = rs[t][j]
    /\ i \in 1..Len(rs[t]) => /\ r.key = rs[t][i].key /\ r.seen = rs[t][i].seen
                              /\ rs[t][i].parts \subseteq r.parts
    /\ i \notin 1..Len(rs[t]) /\ Found(t, r.key) =>
          \A j \in RowsIn(rs, t, r.key) : r.seen < j

LEMMA PutGrows ==
  ASSUME NEW rs, RowsOK(rs), NEW t \in Tables, NEW i, NEW r, NEW qs, PutAt(rs, qs, t, i, r)
  PROVE  Grown(rs, qs)
  <1> SUFFICES ASSUME NEW x \in Tables
               PROVE  /\ Len(rs[x]) <= Len(qs[x])
                      /\ \A j \in 1..Len(rs[x]) : /\ qs[x][j].key = rs[x][j].key
                                                  /\ rs[x][j].parts \subseteq qs[x][j].parts
    BY DEF Grown
  <1>1. CASE x # t
    <2>1. qs[x] = rs[x] /\ Len(rs[x]) \in Nat
      BY <1>1, TablesTyped DEF PutAt
    <2> QED BY <2>1
  <1>2. CASE x = t
    <2>1. Len(rs[t]) \in Nat /\ Len(qs[t]) \in Nat
      BY TablesTyped DEF PutAt
    <2>2. ASSUME NEW j \in 1..Len(rs[t])
          PROVE  qs[t][j].key = rs[t][j].key /\ rs[t][j].parts \subseteq qs[t][j].parts
      <3>1. j \in 1..Len(qs[t])
        BY <2>1 DEF PutAt
      <3>2. CASE j # i
        BY <3>1, <3>2 DEF PutAt
      <3>3. CASE j = i
        BY <3>3 DEF PutAt
      <3> QED BY <3>2, <3>3
    <2> QED BY <1>2, <2>2 DEF PutAt
  <1> QED BY <1>1, <1>2

LEMMA PutTwins ==
  ASSUME NEW rs, RowsOK(rs), NEW t \in Tables, NEW i, NEW r, NEW qs, PutAt(rs, qs, t, i, r)
  PROVE  TwinsIn(qs)
  <1> SUFFICES ASSUME NEW x \in Tables, NEW j \in 1..Len(qs[x]),
                      Found(x, qs[x][j].key), NEW h \in RowsIn(qs, x, qs[x][j].key), h < j
               PROVE  qs[x][j].seen < h
    BY DEF TwinsIn
  <1>1. CASE x # t
    <2>1. qs[x] = rs[x]
      BY <1>1 DEF PutAt
    <2>2. h \in RowsIn(rs, x, rs[x][j].key) /\ j \in 1..Len(rs[x])
      BY <2>1 DEF RowsIn
    <2> QED BY <2>1, <2>2 DEF RowsOK, TwinsIn
  <1>2. CASE x = t
    <2>1. /\ Len(rs[t]) \in Nat /\ Len(qs[t]) \in Nat /\ j \in Nat /\ i \in Nat /\ h \in Nat
          /\ h \in 1..Len(qs[t]) /\ Fits(t, qs[t][h].key, qs[t][j].key)
      BY <1>2, TablesTyped DEF PutAt, RowsIn
    <2>2. \A y \in 1..Len(rs[t]) :
             qs[t][y].key = rs[t][y].key /\ qs[t][y].seen = rs[t][y].seen
      <3> SUFFICES ASSUME NEW y \in 1..Len(rs[t])
                   PROVE  qs[t][y].key = rs[t][y].key /\ qs[t][y].seen = rs[t][y].seen
        OBVIOUS
      <3>1. y \in 1..Len(qs[t])
        BY <2>1 DEF PutAt
      <3>2. CASE y = i
        BY <3>2 DEF PutAt
      <3>3. CASE y # i
        BY <3>1, <3>3 DEF PutAt
      <3> QED BY <3>2, <3>3
    <2>3. CASE j \in 1..Len(rs[t])
      <3>1. h \in 1..Len(rs[t])
        BY <2>1, <2>3
      <3>2. h \in RowsIn(rs, t, rs[t][j].key)
        BY <2>1, <2>2, <2>3, <3>1 DEF RowsIn
      <3>3. rs[t][j].seen < h
        BY <1>2, <2>1, <2>2, <2>3, <3>2 DEF RowsOK, TwinsIn
      <3> QED BY <1>2, <2>2, <2>3, <3>3
    <2>4. CASE j \notin 1..Len(rs[t])
      <3>1. j = i /\ qs[t][j] = r /\ \A y \in RowsIn(rs, t, r.key) : r.seen < y
        BY <1>2, <2>4 DEF PutAt
      <3>2. h \in 1..Len(rs[t])
        BY <2>1, <3>1 DEF PutAt
      <3>3. h \in RowsIn(rs, t, r.key)
        BY <2>1, <2>2, <3>1, <3>2 DEF RowsIn
      <3> QED BY <1>2, <3>1, <3>3
    <2> QED BY <2>3, <2>4
  <1> QED BY <1>1, <1>2

LEMMA PutKeepsRows ==
  ASSUME NEW rs, RowsOK(rs), NEW t \in Tables, NEW i, NEW r, NEW qs, PutAt(rs, qs, t, i, r),
         t = "number" => NumberOK(r, rs),
         t = "file" => r.link \in 1..Len(rs["meeting"])
  PROVE  RowsOK(qs)
  <1>1. Grown(rs, qs) /\ TwinsIn(qs)
    BY PutGrows, PutTwins
  <1>2. \A x \in Tables : qs[x] \in Seq(Row(x))
    <2> SUFFICES ASSUME NEW x \in Tables PROVE qs[x] \in Seq(Row(x))
      OBVIOUS
    <2>1. CASE x = t
      BY <2>1 DEF PutAt
    <2>2. CASE x # t
      BY <2>2, TablesTyped DEF PutAt
    <2> QED BY <2>1, <2>2
  <1>3. /\ "meeting" \in Tables /\ "user" \in Tables
        /\ "file" \in Tables /\ "number" \in Tables
    BY DEF Tables
  <1>4. /\ \A x \in Tables : Len(rs[x]) \in Nat /\ Len(qs[x]) \in Nat
        /\ \A x \in Tables : 1..Len(rs[x]) \subseteq 1..Len(qs[x])
        /\ \A j \in 1..Len(rs["file"]) : qs["file"][j].key = rs["file"][j].key
    <2>1. \A x \in Tables : Len(rs[x]) \in Nat /\ Len(qs[x]) \in Nat
      BY <1>2, TablesTyped
    <2> QED BY <1>1, <1>3, <2>1 DEF Grown
  <1>5. ASSUME NEW j \in 1..Len(qs["number"])
        PROVE  NumberOK(qs["number"][j], qs)
    <2>1. NumberOK(qs["number"][j], rs)
      <3>1. CASE t = "number" /\ j = i
        BY <3>1 DEF PutAt
      <3>2. CASE t = "number" /\ j # i
        BY <1>3, <3>2 DEF PutAt, RowsOK
      <3>3. CASE t # "number"
        BY <1>3, <3>3 DEF PutAt, RowsOK
      <3> QED BY <3>1, <3>2, <3>3
    <2> QED BY <1>3, <1>4, <2>1 DEF NumberOK
  <1>6. ASSUME NEW j \in 1..Len(qs["file"])
        PROVE  qs["file"][j].link \in 1..Len(qs["meeting"])
    <2>1. qs["file"][j].link \in 1..Len(rs["meeting"])
      <3>1. CASE t = "file" /\ j = i
        BY <3>1 DEF PutAt
      <3>2. CASE t = "file" /\ j # i
        BY <1>3, <3>2 DEF PutAt, RowsOK
      <3>3. CASE t # "file"
        BY <1>3, <3>3 DEF PutAt, RowsOK
      <3> QED BY <3>1, <3>2, <3>3
    <2> QED BY <1>3, <1>4, <2>1
  <1> QED BY <1>1, <1>2, <1>5, <1>6 DEF RowsOK, PutAt

\* What the write of an upsert relies on.
Writing(k, rs) ==
    /\ k \in Job /\ k.at \in Tables /\ k.step \in {"update", "create"}
    /\ SearchOK(k, rs) /\ KeyOf(k) \in Keys[k.at]
    /\ k.at = "file" => k.meetingRow \in 1..Len(rs["meeting"])
    /\ k.at = "number" =>
          /\ k.userRow \in 1..Len(rs["user"])
          /\ k.fileRow # 0 => k.fileRow \in RowsIn(rs, "file", k.file)

LEMMA JobWrites ==
  ASSUME NEW rs, NEW recs, NEW sums, NEW k, JobOK(k, rs, recs, sums),
         k.step \in {"update", "create"}
  PROVE  Writing(k, rs)
  <1>1. k \in Job /\ k # NoJob
    BY DEF JobOK, NoJob
  <1>2. CASE EndedOK(k, rs)
    <2>1. k.at = "meeting" /\ SearchOK(k, rs) /\ k.meeting \in AllMeetings
      BY <1>2 DEF EndedOK, AllMeetings
    <2> QED BY <1>1, <2>1 DEF Writing, KeyOf, Keys, Tables
  <1>3. CASE SummaryOK(k, recs, sums)
    BY <1>3 DEF SummaryOK
  <1>4. CASE CompletedOK(k, rs)
    <2>1. /\ k.at \in Tables /\ SearchOK(k, rs) /\ HeldOK(k, rs)
          /\ k.meeting \in AllMeetings /\ k.file \in Files
      BY <1>4 DEF CompletedOK, AllMeetings
    <2>2. KeyOf(k) \in Keys[k.at]
      BY <1>1, <2>1 DEF KeyOf, Keys, HeldOK, Tables, Job
    <2> QED BY <1>1, <2>1, <2>2 DEF Writing, HeldOK
  <1> QED BY <1>1, <1>2, <1>3, <1>4 DEF JobOK

\* The key that an upsert writes is one that its search finds.
LEMMA KeyFits ==
  ASSUME NEW t, NEW k
  PROVE  Fits(t, k, k)
  BY DEF Fits

LEMMA FieldsOK ==
  ASSUME NEW rs, NEW k, Writing(k, rs), NEW r \in Row(k.at)
  PROVE  /\ Fields(r, k) \in Row(k.at)
         /\ Fields(r, k).key = r.key /\ Fields(r, k).seen = r.seen
         /\ r.parts \subseteq Fields(r, k).parts
         /\ k.at = "file" => /\ k.parts \subseteq Fields(r, k).parts
                             /\ Fields(r, k).link = k.meetingRow
         /\ k.at = "number" => Fields(r, k).of = k.file /\ Fields(r, k).link = k.fileRow
  <1>1. /\ k.parts \subseteq Parts /\ k.meetingRow \in Nat /\ k.fileRow \in Nat
        /\ k.file \in Files \cup {None}
    BY DEF Writing, Job
  <1>2. CASE k.at = "file"
    <2>1. Fields(r, k) = [r EXCEPT !.parts = @ \cup k.parts, !.link = k.meetingRow]
      BY <1>2 DEF Fields
    <2> QED BY <1>1, <1>2, <2>1 DEF Row
  <1>3. CASE k.at = "number"
    <2>1. Fields(r, k) = [r EXCEPT !.of = k.file, !.link = k.fileRow]
      BY <1>3 DEF Fields
    <2> QED BY <1>1, <1>3, <2>1 DEF Row
  <1>4. CASE k.at \notin {"file", "number"}
    <2>1. Fields(r, k) = r
      BY <1>4 DEF Fields
    <2> QED BY <1>4, <2>1
  <1> QED BY <1>2, <1>3, <1>4

LEMMA FieldsNumberOK ==
  ASSUME NEW rs, NEW k, Writing(k, rs), k.at = "number", NEW r,
         r.key \in 1..Len(rs["user"]), r.link = k.fileRow, r.of = k.file
  PROVE  NumberOK(r, rs)
  BY DEF Writing, NumberOK, RowsIn, Fits

LEMMA Replaced ==
  ASSUME NEW S, NEW s \in Seq(S), NEW i \in 1..Len(s), NEW r \in S,
         NEW q, q = [s EXCEPT ![i] = r]
  PROVE  /\ q \in Seq(S) /\ Len(q) = Len(s) /\ q[i] = r
         /\ \A j \in 1..Len(q) : j # i => j \in 1..Len(s) /\ q[j] = s[j]
  <1>1. s \in [1..Len(s) -> S] /\ Len(s) \in Nat
    OBVIOUS
  <1>2. q \in [1..Len(s) -> S]
    BY <1>1
  <1>3. q \in Seq(S) /\ Len(q) = Len(s)
    BY <1>1, <1>2
  <1>4. q[i] = r /\ \A j \in 1..Len(s) : j # i => q[j] = s[j]
    BY <1>1
  <1> QED BY <1>3, <1>4

LEMMA UpdatePuts ==
  ASSUME NEW rs, RowsOK(rs), NEW k, Writing(k, rs), k.step = "update",
         NEW qs, qs = [rs EXCEPT ![k.at][k.row] = Fields(@, k)]
  PROVE  /\ RowsOK(qs) /\ Grown(rs, qs)
         /\ k.row \in RowsIn(qs, k.at, KeyOf(k))
         /\ k.at = "file" => k.parts \subseteq qs["file"][k.row].parts
  <1> DEFINE t == k.at
             i == k.row
             r == Fields(rs[t][i], k)
  <1>1. /\ t \in Tables /\ i \in 1..Len(rs[t]) /\ Fits(t, rs[t][i].key, KeyOf(k))
        /\ rs[t] \in Seq(Row(t)) /\ rs[t][i] \in Row(t) /\ Len(rs[t]) \in Nat
    BY TablesTyped DEF Writing, SearchOK, RowsIn
  <1>2. rs = [x \in Tables |-> rs[x]]
    BY DEF RowsOK
  <1>3. /\ r \in Row(t) /\ r.key = rs[t][i].key /\ r.seen = rs[t][i].seen
        /\ rs[t][i].parts \subseteq r.parts
        /\ t = "file" => k.parts \subseteq r.parts /\ r.link = k.meetingRow
        /\ t = "number" => r.of = k.file /\ r.link = k.fileRow
    BY <1>1, FieldsOK
  <1> HIDE DEF r
  <1>4. /\ qs = [x \in Tables |-> qs[x]] /\ \A x \in Tables \ {t} : qs[x] = rs[x]
        /\ qs[t] = [rs[t] EXCEPT ![i] = r]
    BY <1>1, <1>2 DEF r
  <1> HIDE DEF t, i
  <1>5. /\ qs[t] \in Seq(Row(t)) /\ Len(qs[t]) = Len(rs[t]) /\ qs[t][i] = r
        /\ \A j \in 1..Len(qs[t]) : j # i => j \in 1..Len(rs[t]) /\ qs[t][j] = rs[t][j]
    <2> DEFINE s == rs[t]
               q == qs[t]
               S == Row(t)
    <2>1. s \in Seq(S) /\ i \in 1..Len(s) /\ r \in S
      BY <1>1, <1>3
    <2>2. q = [s EXCEPT ![i] = r]
      BY <1>4
    <2> HIDE DEF s, q, S
    <2>3. /\ q \in Seq(S) /\ Len(q) = Len(s) /\ q[i] = r
          /\ \A j \in 1..Len(q) : j # i => j \in 1..Len(s) /\ q[j] = s[j]
      BY <2>1, <2>2, Replaced
    <2> QED BY <2>3 DEF s, q, S
  <1>6. i \in 1..Len(qs[t]) /\ Len(rs[t]) <= Len(qs[t])
    BY <1>1, <1>5
  <1>12. PutAt(rs, qs, t, i, r)
    BY <1>1, <1>3, <1>4, <1>5, <1>6 DEF PutAt
  <1>7. t = "number" => NumberOK(r, rs)
    <2>1. t = "number" => rs[t][i].key \in 1..Len(rs["user"])
      BY <1>1 DEF RowsOK, NumberOK
    <2> QED BY <1>3, <2>1, FieldsNumberOK DEF t
  <1>8. t = "file" => r.link \in 1..Len(rs["meeting"])
    BY <1>3 DEF Writing, t
  <1>9. RowsOK(qs) /\ Grown(rs, qs)
    BY <1>1, <1>12, <1>7, <1>8, PutKeepsRows, PutGrows
  <1>10. i \in RowsIn(qs, t, KeyOf(k))
    BY <1>1, <1>3, <1>5 DEF RowsIn
  <1>11. t = "file" => k.parts \subseteq qs["file"][i].parts
    BY <1>3, <1>5
  <1> QED BY <1>9, <1>10, <1>11 DEF t, i

LEMMA CreatePuts ==
  ASSUME NEW rs, RowsOK(rs), NEW k, Writing(k, rs), k.step = "create",
         NEW qs,
         qs = [rs EXCEPT ![k.at] = Append(@,
                  Fields([key |-> KeyOf(k), parts |-> {}, link |-> 0,
                          of |-> None, seen |-> k.seen], k))]
  PROVE  /\ RowsOK(qs) /\ Grown(rs, qs)
         /\ Len(rs[k.at]) + 1 \in RowsIn(qs, k.at, KeyOf(k))
         /\ k.at = "file" => k.parts \subseteq qs["file"][Len(rs[k.at]) + 1].parts
  <1> DEFINE t == k.at
             key == KeyOf(k)
             empty == [key |-> key, parts |-> {}, link |-> 0, of |-> None, seen |-> k.seen]
             r == Fields(empty, k)
             i == Len(rs[t]) + 1
  <1>1. /\ t \in Tables /\ rs[t] \in Seq(Row(t)) /\ Len(rs[t]) \in Nat
        /\ key \in Keys[t] /\ k.seen \in Nat
        /\ Found(t, key) => \A j \in RowsIn(rs, t, key) : k.seen < j
    BY TablesTyped DEF Writing, SearchOK, Job
  <1>2. rs = [x \in Tables |-> rs[x]]
    BY DEF RowsOK
  <1> HIDE DEF key
  <1>3. empty \in Row(t)
    BY <1>1 DEF Row
  <1>4. empty.key = key /\ empty.seen = k.seen
    OBVIOUS
  <1> HIDE DEF empty
  <1>5. /\ r \in Row(t) /\ r.key = key /\ r.seen = k.seen
        /\ t = "file" => k.parts \subseteq r.parts /\ r.link = k.meetingRow
        /\ t = "number" => r.of = k.file /\ r.link = k.fileRow
    BY <1>3, <1>4, FieldsOK
  <1>6. qs = [rs EXCEPT ![t] = Append(@, r)]
    BY DEF r, empty, key
  <1> HIDE DEF r, t
  <1>7. /\ qs = [x \in Tables |-> qs[x]] /\ \A x \in Tables \ {t} : qs[x] = rs[x]
        /\ qs[t] = Append(rs[t], r)
    BY <1>1, <1>2, <1>6
  <1>8. /\ qs[t] \in Seq(Row(t)) /\ Len(qs[t]) = i /\ qs[t][i] = r
        /\ \A j \in 1..Len(qs[t]) : j # i => j \in 1..Len(rs[t]) /\ qs[t][j] = rs[t][j]
    BY <1>1, <1>5, <1>7
  <1>9. i \in 1..Len(qs[t]) /\ i \notin 1..Len(rs[t]) /\ Len(rs[t]) <= Len(qs[t])
    BY <1>1, <1>8
  <1>10. PutAt(rs, qs, t, i, r)
    BY <1>1, <1>5, <1>7, <1>8, <1>9 DEF PutAt
  <1>11. t = "number" => NumberOK(r, rs)
    <2>1. t = "number" => key = k.userRow /\ k.userRow \in 1..Len(rs["user"])
      BY DEF Writing, KeyOf, key, t
    <2> QED BY <1>5, <2>1, FieldsNumberOK DEF t
  <1>12. t = "file" => r.link \in 1..Len(rs["meeting"])
    BY <1>5 DEF Writing, t
  <1>13. RowsOK(qs) /\ Grown(rs, qs)
    BY <1>1, <1>10, <1>11, <1>12, PutKeepsRows, PutGrows
  <1>14. i \in RowsIn(qs, t, key)
    BY <1>5, <1>8, <1>9, KeyFits DEF RowsIn
  <1>15. t = "file" => k.parts \subseteq qs["file"][i].parts
    BY <1>5, <1>8
  <1> QED BY <1>13, <1>14, <1>15 DEF t, key

LEMMA WriteOK ==
  ASSUME RecordingsInv, NEW d \in Deliveries, Updated(job[d]) \/ Created(job[d])
  PROVE  /\ RowsOK(rows') /\ Grown(rows, rows')
         /\ RowOf(job[d]) \in RowsIn(rows', job[d].at, KeyOf(job[d]))
         /\ job[d].at = "file" =>
               job[d].parts \subseteq rows'["file"][RowOf(job[d])].parts
  <1> DEFINE k == job[d]
  <1>1. RowsOK(rows) /\ JobOK(k, rows, recordings, summaries)
    BY DEF RecordingsInv
  <1>2. CASE Updated(k)
    <2>1. k.step = "update" /\ rows' = [rows EXCEPT ![k.at][k.row] = Fields(@, k)]
      BY <1>2 DEF Updated
    <2> HIDE DEF k
    <2>2. Writing(k, rows) /\ RowOf(k) = k.row
      BY <1>1, <2>1, JobWrites DEF RowOf
    <2>3. /\ RowsOK(rows') /\ Grown(rows, rows')
          /\ k.row \in RowsIn(rows', k.at, KeyOf(k))
          /\ k.at = "file" => k.parts \subseteq rows'["file"][k.row].parts
      BY <1>1, <2>1, <2>2, UpdatePuts
    <2> QED BY <2>2, <2>3 DEF k
  <1>3. CASE Created(k)
    <2>1. /\ k.step = "create"
          /\ rows' = [rows EXCEPT ![k.at] = Append(@,
                        Fields([key |-> KeyOf(k), parts |-> {}, link |-> 0,
                                of |-> None, seen |-> k.seen], k))]
      BY <1>3 DEF Created
    <2> HIDE DEF k
    <2>2. Writing(k, rows) /\ RowOf(k) = Len(rows[k.at]) + 1
      BY <1>1, <2>1, JobWrites DEF RowOf
    <2>3. /\ RowsOK(rows') /\ Grown(rows, rows')
          /\ Len(rows[k.at]) + 1 \in RowsIn(rows', k.at, KeyOf(k))
          /\ k.at = "file" => k.parts \subseteq rows'["file"][Len(rows[k.at]) + 1].parts
      BY <1>1, <2>1, <2>2, CreatePuts
    <2> QED BY <2>2, <2>3 DEF k
  <1> QED BY <1>2, <1>3

-----------------------------------------------------------------------------
(* Steps *)

LEMMA OneJobMoves ==
  ASSUME RecordingsInv, NEW d \in Deliveries, NEW n, Goes(d, n),
         RowsOK(rows'), Grown(rows, rows'),
         PostgresOK(recordings', summaries'),
         Longer(recordings, recordings'), Longer(summaries, summaries'),
         GoesOnOK(n, rows', recordings', summaries'),
         Quiet, faults' \in 0..MaxFaults
  PROVE  RecordingsInv'
  <1>1. /\ RowsOK(rows) /\ job \in [Deliveries -> Job]
        /\ recordings \in Seq(Recording) /\ summaries \in Seq(Summary)
        /\ recordings' \in Seq(Recording) /\ summaries' \in Seq(Summary)
        /\ \A c \in Deliveries : JobOK(job[c], rows, recordings, summaries)
        /\ \A p \in through : ThroughOK(p, rows, summaries)
    BY DEF RecordingsInv, PostgresOK
  <1> DEFINE k == IF n.at = "end" THEN NoJob ELSE n
  <1>2. JobOK(k, rows', recordings', summaries')
    BY NoJobIsJob DEF GoesOnOK, JobOK
  <1>3. k \in Job
    BY <1>2 DEF JobOK
  <1>4. job' = [job EXCEPT ![d] = k]
    BY DEF Goes
  <1> HIDE DEF k
  <1>5. job' \in [Deliveries -> Job]
    BY <1>1, <1>3, <1>4
  <1>6. ASSUME NEW c \in Deliveries
        PROVE  JobOK(job'[c], rows', recordings', summaries')
    <2>1. CASE c = d
      BY <1>1, <1>2, <1>4, <2>1
    <2>2. CASE c # d
      <3>1. job'[c] = job[c]
        BY <1>1, <1>4, <2>2
      <3>2. JobOK(job[c], rows', recordings', summaries')
        BY <1>1, JobKept
      <3> QED BY <3>1, <3>2
    <2> QED BY <2>1, <2>2
  <1>7. ASSUME NEW p \in through'
        PROVE  ThroughOK(p, rows', summaries')
    <2>1. CASE p \in through
      BY <1>1, <2>1, ThroughGrows
    <2>2. CASE p \notin through
      <3>1. /\ n.at = "end" /\ n.whole
            /\ p = [kind |-> n.kind, meeting |-> n.meeting, files |-> n.all,
                    early |-> n.early]
        BY <2>2 DEF Goes
      <3> QED BY <3>1 DEF GoesOnOK
    <2> QED BY <2>1, <2>2
  <1>8. /\ known' \subseteq Meetings /\ delivered' \in 0..MaxDeliveries
        /\ crashes' \in 0..MaxCrashes
    BY DEF RecordingsInv, Quiet
  <1> QED BY <1>5, <1>6, <1>7, <1>8 DEF RecordingsInv

\* A step that leaves the tables alone.
LEMMA QuietMoves ==
  ASSUME RecordingsInv, NEW d \in Deliveries, NEW n, Goes(d, n),
         GoesOnOK(n, rows, recordings, summaries),
         TablesKept, Quiet, Fault \/ Unhurt
  PROVE  RecordingsInv'
  <1>1. /\ RowsOK(rows) /\ PostgresOK(recordings, summaries)
        /\ recordings \in Seq(Recording) /\ summaries \in Seq(Summary)
        /\ faults \in 0..MaxFaults
    BY DEF RecordingsInv, PostgresOK
  <1>2. rows' = rows /\ recordings' = recordings /\ summaries' = summaries
    BY DEF TablesKept, postgresVars
  <1>3. faults' \in 0..MaxFaults
    BY <1>1, RecordingsAssumption DEF Fault, Unhurt
  <1>4. /\ Grown(rows, rows') /\ Longer(recordings, recordings')
        /\ Longer(summaries, summaries')
    BY <1>1, <1>2, GrownSame, LongerSame
  <1> QED BY <1>1, <1>2, <1>3, <1>4, OneJobMoves

LEMMA JobsOK ==
  ASSUME RecordingsInv, NEW d \in Deliveries
  PROVE  /\ JobOK(job[d], rows, recordings, summaries) /\ job[d] \in Job
         /\ job[d].at # "end"
  <1>1. JobOK(job[d], rows, recordings, summaries) /\ job[d] \in Job
    BY DEF RecordingsInv, JobOK
  <1>2. job[d].at # "end"
    BY <1>1 DEF Job, Tables
  <1> QED BY <1>1, <1>2

LEMMA InUpsert ==
  ASSUME NEW rs, NEW recs, NEW sums, NEW k, JobOK(k, rs, recs, sums), k.step # "none"
  PROVE  /\ k \in Job /\ k # NoJob /\ k.at \in Tables /\ k.at # "people"
         /\ k.step \in UpsertSteps /\ SearchOK(k, rs)
  <1>1. k \in Job /\ k # NoJob
    BY DEF JobOK, NoJob
  <1>2. CompletedOK(k, rs) \/ EndedOK(k, rs)
    BY <1>1 DEF JobOK, SummaryOK
  <1>3. k.at \in Tables /\ k.step \in UpsertSteps /\ SearchOK(k, rs)
    BY <1>2 DEF CompletedOK, EndedOK, Tables
  <1> QED BY <1>1, <1>3 DEF Tables

\* An upsert that sends its next request.
LEMMA UpsertGoesOn ==
  ASSUME NEW rs, NEW recs, NEW sums, NEW k, JobOK(k, rs, recs, sums), k.step # "none",
         NEW n \in Job, n.step \in UpsertSteps, SearchOK(n, rs), n.whole => k.whole,
         n.kind = k.kind, n.at = k.at, n.meeting = k.meeting, n.files = k.files,
         n.file = k.file, n.all = k.all, n.early = k.early, n.people = k.people,
         n.left = k.left,
         n.user = k.user, n.parts = k.parts, n.meetingRow = k.meetingRow,
         n.fileRow = k.fileRow, n.userRow = k.userRow
  PROVE  GoesOnOK(n, rs, recs, sums)
  <1>1. /\ k \in Job /\ k # NoJob /\ k.at \in Tables
    BY InUpsert
  <1>2. n.at # "end"
    BY <1>1 DEF Tables
  <1>3. CASE CompletedOK(k, rs)
    <2>1. HeldOK(n, rs) /\ n.file \in Files /\ n.meeting \in Meetings
      BY <1>1, <1>3 DEF CompletedOK, HeldOK
    <2>2. n.whole => WholeOK(n, rs)
      BY <1>3, <1>1 DEF CompletedOK, WholeOK, FilesDone, PeopleDone
    <2> QED BY <1>1, <1>2, <1>3, <2>1, <2>2 DEF GoesOnOK, JobOK, CompletedOK
  <1>4. CASE EndedOK(k, rs)
    BY <1>1, <1>2, <1>4 DEF GoesOnOK, JobOK, EndedOK, Tables
  <1> QED BY <1>1, <1>3, <1>4 DEF JobOK, SummaryOK

LEMMA SearchStep ==
  ASSUME RecordingsInv, NEW d \in Deliveries, Search(d)
  PROVE  RecordingsInv'
  <1> DEFINE k == job[d]
             hits == Hits(k.at, KeyOf(k))
             found == [k EXCEPT !.step = "update", !.row = First(hits)]
             missed == [k EXCEPT !.step = "create", !.seen = Len(rows[k.at])]
  <1>1. /\ k.step = "search"
        /\ IF hits # {} THEN Goes(d, found) ELSE Goes(d, missed)
        /\ Unhurt /\ TablesKept /\ Quiet
    BY HitsAreRowsIn DEF Search
  <1>2. /\ JobOK(k, rows, recordings, summaries) /\ k \in Job /\ k.at \in Tables
        /\ RowsOK(rows)
    BY <1>1, JobsOK, InUpsert DEF RecordingsInv
  <1>3. Len(rows[k.at]) \in Nat
    BY <1>2, TablesTyped
  <1>4. CASE hits # {}
    <2>1. hits \in SUBSET RowsIn(rows, k.at, KeyOf(k))
      BY HitsAreRowsIn
    <2>2. hits \in SUBSET (1..Len(rows[k.at])) /\ \A i \in hits : i \in Nat
      BY <2>1 DEF RowsIn
    <2> HIDE DEF hits
    <2>3. First(hits) \in hits
      BY <1>3, <1>4, <2>2, FirstIsHit
    <2>4. First(hits) \in RowsIn(rows, k.at, KeyOf(k)) /\ First(hits) \in Nat
      BY <2>1, <2>3, <2>2
    <2>5. /\ found \in Job /\ found.step = "update" /\ found.row = First(hits)
          /\ found.kind = k.kind /\ found.at = k.at /\ found.meeting = k.meeting
          /\ found.files = k.files /\ found.file = k.file /\ found.all = k.all
          /\ found.early = k.early
          /\ found.people = k.people /\ found.left = k.left /\ found.user = k.user
          /\ found.parts = k.parts /\ found.meetingRow = k.meetingRow
          /\ found.fileRow = k.fileRow /\ found.userRow = k.userRow
          /\ found.whole = k.whole
      BY <1>2, <2>4 DEF Job
    <2> HIDE DEF found, k
    <2>6. KeyOf(found) = KeyOf(k)
      BY <2>5 DEF KeyOf
    <2>7. SearchOK(found, rows)
      BY <2>4, <2>5, <2>6 DEF SearchOK
    <2>8. GoesOnOK(found, rows, recordings, summaries)
      BY <1>1, <1>2, <2>5, <2>7, UpsertGoesOn DEF UpsertSteps
    <2> QED BY <1>1, <1>4, <2>8, QuietMoves
  <1>5. CASE hits = {}
    <2>1. /\ missed \in Job /\ missed.step = "create" /\ missed.seen = Len(rows[k.at])
          /\ missed.kind = k.kind /\ missed.at = k.at /\ missed.meeting = k.meeting
          /\ missed.files = k.files /\ missed.file = k.file /\ missed.all = k.all
          /\ missed.early = k.early
          /\ missed.people = k.people /\ missed.left = k.left /\ missed.user = k.user
          /\ missed.parts = k.parts /\ missed.meetingRow = k.meetingRow
          /\ missed.fileRow = k.fileRow /\ missed.userRow = k.userRow
          /\ missed.whole = k.whole
      BY <1>2, <1>3 DEF Job
    <2> HIDE DEF missed, k
    <2>2. KeyOf(missed) = KeyOf(k)
      BY <2>1 DEF KeyOf
    <2>3. SearchOK(missed, rows)
      BY <1>3, <1>5, <2>1, <2>2, HitsAreRowsIn DEF SearchOK
    <2>4. GoesOnOK(missed, rows, recordings, summaries)
      BY <1>1, <1>2, <2>1, <2>3, UpsertGoesOn DEF UpsertSteps
    <2> QED BY <1>1, <1>5, <2>4, QuietMoves
  <1> QED BY <1>4, <1>5

LEMMA WithoutDataStep ==
  ASSUME RecordingsInv, NEW d \in Deliveries, WithoutData(d)
  PROVE  RecordingsInv'
  <1> DEFINE k == job[d]
             q == [k EXCEPT !.step = "create", !.seen = 0]
             n == Hurt(q)
  <1>1. /\ JobOK(k, rows, recordings, summaries) /\ k.step # "none"
        /\ k \in Job /\ k.at \in Tables /\ k # NoJob /\ k.at # "people"
        /\ RowsOK(rows) /\ Fault /\ TablesKept /\ Quiet
    BY JobsOK, InUpsert DEF RecordingsInv, WithoutData
  <1>2. CASE k.step = "create"
    <2>1. PICK r \in Raised(k) : Goes(d, r)
      BY <1>2 DEF WithoutData
    <2>2. GoesOnOK(r, rows, recordings, summaries)
      BY <1>1, <2>1, RaisedOK
    <2> QED BY <1>1, <2>1, <2>2, QuietMoves
  <1>3. CASE k.step # "create"
    <2>1. Goes(d, n)
      BY <1>3 DEF WithoutData
    <2>2. /\ q \in Job /\ q.step = "create" /\ q.seen = 0
          /\ q.kind = k.kind /\ q.at = k.at /\ q.meeting = k.meeting
          /\ q.files = k.files /\ q.file = k.file /\ q.all = k.all
          /\ q.early = k.early
          /\ q.people = k.people /\ q.left = k.left /\ q.user = k.user
          /\ q.parts = k.parts /\ q.meetingRow = k.meetingRow
          /\ q.fileRow = k.fileRow /\ q.userRow = k.userRow
      BY <1>1 DEF Job
    <2> HIDE DEF q, k
    <2>3. /\ n \in Job /\ n.step = "create" /\ n.seen = 0 /\ ~n.whole
          /\ n.kind = k.kind /\ n.at = k.at /\ n.meeting = k.meeting
          /\ n.files = k.files /\ n.file = k.file /\ n.all = k.all
          /\ n.early = k.early
          /\ n.people = k.people /\ n.left = k.left /\ n.user = k.user
          /\ n.parts = k.parts /\ n.meetingRow = k.meetingRow
          /\ n.fileRow = k.fileRow /\ n.userRow = k.userRow
      BY <2>2, HurtJob
    <2> HIDE DEF n
    <2>4. SearchOK(n, rows)
      <3>1. Len(rows[k.at]) \in Nat
        BY <1>1, TablesTyped
      <3>2. \A i \in RowsIn(rows, k.at, KeyOf(n)) : 0 < i
        BY DEF RowsIn
      <3> QED BY <2>3, <3>1, <3>2 DEF SearchOK
    <2>5. GoesOnOK(n, rows, recordings, summaries)
      BY <1>1, <2>3, <2>4, UpsertGoesOn DEF UpsertSteps
    <2> QED BY <1>1, <2>1, <2>5, QuietMoves
  <1> QED BY <1>2, <1>3

LEMMA ThrowsStep ==
  ASSUME RecordingsInv, NEW d \in Deliveries, Throws(d)
  PROVE  RecordingsInv'
  <1>1. PICK n \in Raised(job[d]) : Goes(d, n)
    BY DEF Throws
  <1>2. GoesOnOK(n, rows, recordings, summaries)
    BY <1>1, JobsOK, InUpsert, RaisedOK DEF Throws
  <1> QED BY <1>1, <1>2, QuietMoves DEF Throws

\* What holds after a row is written, of a delivery that goes on as n.
LEMMA WriteMoves ==
  ASSUME RecordingsInv, NEW d \in Deliveries, Updated(job[d]) \/ Created(job[d]),
         NEW n, Goes(d, n), UNCHANGED postgresVars, Quiet, Fault \/ Unhurt,
         JobOK(job[d], rows', recordings', summaries') =>
             GoesOnOK(n, rows', recordings', summaries')
  PROVE  RecordingsInv'
  <1>1. /\ RowsOK(rows) /\ PostgresOK(recordings, summaries)
        /\ recordings \in Seq(Recording) /\ summaries \in Seq(Summary)
        /\ faults \in 0..MaxFaults
    BY DEF RecordingsInv, PostgresOK
  <1>2. RowsOK(rows') /\ Grown(rows, rows')
    BY WriteOK
  <1>3. recordings' = recordings /\ summaries' = summaries
    BY DEF postgresVars
  <1>4. Longer(recordings, recordings') /\ Longer(summaries, summaries')
    BY <1>1, <1>3, LongerSame
  <1>5. JobOK(job[d], rows', recordings', summaries')
    BY <1>1, <1>2, <1>3, <1>4, JobsOK, JobKept
  <1>6. faults' \in 0..MaxFaults
    BY <1>1, RecordingsAssumption DEF Fault, Unhurt
  <1> QED BY <1>1, <1>2, <1>3, <1>4, <1>5, <1>6, OneJobMoves

LEMMA WriteStep ==
  ASSUME RecordingsInv, NEW d \in Deliveries, Write(d)
  PROVE  RecordingsInv'
  <1>1. PICK n \in Returned(job[d], RowOf(job[d])) : Goes(d, n)
    BY DEF Write
  <1>2. /\ Updated(job[d]) \/ Created(job[d])
        /\ UNCHANGED postgresVars /\ Quiet /\ Unhurt
    BY DEF Write
  <1>3. job[d].step # "none"
    BY <1>2 DEF Updated, Created
  <1>4. JobOK(job[d], rows', recordings', summaries') =>
           GoesOnOK(n, rows', recordings', summaries')
    BY <1>1, <1>2, <1>3, WriteOK, ReturnedOK
  <1> QED BY <1>1, <1>2, <1>4, WriteMoves

LEMMA WriteUnansweredStep ==
  ASSUME RecordingsInv, NEW d \in Deliveries, WriteUnanswered(d)
  PROVE  RecordingsInv'
  <1>1. PICK n \in Raised(job[d]) : Goes(d, n)
    BY DEF WriteUnanswered
  <1>2. /\ Updated(job[d]) \/ Created(job[d])
        /\ UNCHANGED postgresVars /\ Quiet /\ Fault
    BY DEF WriteUnanswered
  <1>3. job[d].step # "none"
    BY <1>2 DEF Updated, Created
  <1>4. job[d] # NoJob /\ job[d].at # "people"
    BY <1>3, JobsOK, InUpsert
  <1>5. JobOK(job[d], rows', recordings', summaries') =>
           GoesOnOK(n, rows', recordings', summaries')
    BY <1>1, <1>4, RaisedOK
  <1> QED BY <1>1, <1>2, <1>5, WriteMoves

-----------------------------------------------------------------------------
(* Steps of recording.completed *)

LEMMA ArrivesOK ==
  ASSUME RecordingsInv, NEW d \in Deliveries, NEW k, Arrives(d, k),
         JobOK(k, rows, recordings, summaries)
  PROVE  RecordingsInv'
  <1>1. /\ rows' = rows /\ recordings' = recordings /\ summaries' = summaries
        /\ job' = [job EXCEPT ![d] = k] /\ through' = through /\ known' = known
        /\ faults' = faults /\ crashes' = crashes
        /\ delivered' = delivered + 1 /\ delivered < MaxDeliveries
    BY DEF Arrives, Idle, TablesKept, postgresVars
  <1>2. k \in Job /\ job \in [Deliveries -> Job] /\ delivered \in 0..MaxDeliveries
    BY DEF JobOK, RecordingsInv
  <1>3. delivered' \in 0..MaxDeliveries
    BY <1>1, <1>2, RecordingsAssumption
  <1>4. job' \in [Deliveries -> Job]
    BY <1>1, <1>2
  <1>5. ASSUME NEW c \in Deliveries
        PROVE  JobOK(job'[c], rows, recordings, summaries)
    BY <1>1, <1>2 DEF RecordingsInv
  <1> QED BY <1>1, <1>3, <1>4, <1>5 DEF RecordingsInv

LEMMA CompletedArrivesStep ==
  ASSUME RecordingsInv, NEW d \in Deliveries, CompletedArrives(d)
  PROVE  RecordingsInv'
  <1>1. PICK m \in Meetings, fs \in (SUBSET Files) \ {{}} :
           Arrives(d, [NoJob EXCEPT !.kind = "completed", !.at = "people",
                                    !.meeting = m, !.files = fs, !.all = fs])
    BY DEF CompletedArrives
  <1> DEFINE k == [NoJob EXCEPT !.kind = "completed", !.at = "people",
                                !.meeting = m, !.files = fs, !.all = fs]
  <1>2. /\ k.kind = "completed" /\ k.at = "people" /\ k.step = "none"
        /\ k.meeting = m /\ k.files = k.all
    BY DEF NoJob
  <1>3. k \in Job
    <2>1. NoJob \in Job /\ m \in AllMeetings
      BY NoJobIsJob DEF AllMeetings
    <2> QED BY <2>1 DEF Job
  <1> HIDE DEF k
  <1>4. JobOK(k, rows, recordings, summaries)
    BY <1>2, <1>3 DEF JobOK, CompletedOK
  <1> QED BY <1>1, <1>4, ArrivesOK DEF k

\* A delivery at a point of recording.completed.
LEMMA AtCompleted ==
  ASSUME RecordingsInv, NEW d \in Deliveries, NEW p \in {"people", "content", "ask"},
         At(d, p)
  PROVE  /\ job[d] \in Job /\ CompletedOK(job[d], rows) /\ job[d].at = p
         /\ job[d] # NoJob /\ JobOK(job[d], rows, recordings, summaries)
  <1>1. /\ job[d] \in Job /\ job[d].at = p
        /\ JobOK(job[d], rows, recordings, summaries)
    BY JobsOK DEF At
  <1>2. job[d] # NoJob
    BY <1>1 DEF NoJob
  <1> QED BY <1>1, <1>2 DEF JobOK, SummaryOK, EndedOK

LEMMA GetUniqueParticipantsStep ==
  ASSUME RecordingsInv, NEW d \in Deliveries, GetUniqueParticipants(d)
  PROVE  RecordingsInv'
  <1> DEFINE k == job[d]
             q == [k EXCEPT !.people = Attendees[k.meeting]]
             h == Hurt(k)
  <1>1. At(d, "people") /\ TablesKept /\ Quiet
    BY DEF GetUniqueParticipants
  <1>2. k \in Job /\ k.kind = "completed" /\ k.meeting \in Meetings /\ k.files = k.all
    BY <1>1, AtCompleted DEF CompletedOK, Tables
  <1>3. CASE (\E n \in NextFile(q) : Goes(d, n)) /\ Unhurt
    <2>1. PICK n \in NextFile(q) : Goes(d, n)
      BY <1>3
    <2>2. Attendees[k.meeting] \in SUBSET Users
      BY <1>2, RecordingsAssumption
    <2>3. /\ q \in Job /\ q.kind = "completed" /\ q.meeting = k.meeting
          /\ q.files = k.files /\ q.all = k.all
          /\ q.early = k.early /\ q.people = Attendees[k.meeting]
      BY <1>2, <2>2 DEF Job
    <2> HIDE DEF q, k
    <2>4. FilesDone(q, q.all \ q.files, rows)
      BY <1>2, <2>3 DEF FilesDone
    <2>5. GoesOnOK(n, rows, recordings, summaries)
      BY <1>2, <2>1, <2>3, <2>4, NextFileCompleted
    <2> QED BY <1>1, <1>3, <2>1, <2>5, QuietMoves
  <1>4. CASE (\E n \in NextFile(h) : Goes(d, n)) /\ Fault
    <2>1. PICK n \in NextFile(h) : Goes(d, n)
      BY <1>4
    <2>2. /\ h \in Job /\ h.kind = "completed" /\ h.meeting = k.meeting /\ ~h.whole
      BY <1>2, HurtJob
    <2> HIDE DEF h, k
    <2>3. GoesOnOK(n, rows, recordings, summaries)
      BY <1>2, <2>1, <2>2, NextFileCompleted
    <2> QED BY <1>1, <1>4, <2>1, <2>3, QuietMoves
  <1> QED BY <1>3, <1>4 DEF GetUniqueParticipants

\* The content of a file is had, all of it if the delivery met no fault.
LEMMA ContentGoesOn ==
  ASSUME NEW rs, NEW recs, NEW sums, NEW k \in Job, CompletedOK(k, rs), k.at = "content",
         NEW q \in Job, q.whole => k.whole /\ q.parts = Parts,
         q.kind = k.kind, q.meeting = k.meeting, q.files = k.files, q.file = k.file,
         q.all = k.all, q.early = k.early, q.people = k.people, q.left = k.left,
         q.fileRow = k.fileRow
  PROVE  GoesOnOK(Upsert(q, "meeting"), rs, recs, sums)
  <1> DEFINE n == Upsert(q, "meeting")
  <1>1. /\ n \in Job /\ n.at = "meeting" /\ n.step = "search"
        /\ n.kind = q.kind /\ n.meeting = q.meeting /\ n.files = q.files
        /\ n.file = q.file /\ n.all = q.all
        /\ n.early = q.early /\ n.people = q.people
        /\ n.left = q.left /\ n.parts = q.parts
        /\ n.fileRow = q.fileRow /\ n.whole = q.whole
    BY UpsertJob DEF Tables
  <1> HIDE DEF n
  <1>2. Begun(k, rs)
    BY CompletedBegun
  <1>3. SearchOK(n, rs) /\ HeldOK(n, rs)
    BY <1>1, <1>2 DEF SearchOK, HeldOK, Begun
  <1>4. k.whole => k.left = k.people
    BY DEF CompletedOK, WholeOK
  <1>5. n.whole => WholeOK(n, rs)
    BY <1>1, <1>2, <1>4 DEF WholeOK, FilesDone, Begun
  <1>6. GoesOnOK(n, rs, recs, sums)
    BY <1>1, <1>2, <1>3, <1>5 DEF GoesOnOK, JobOK, CompletedOK, Begun, Tables, UpsertSteps
  <1> QED BY <1>6 DEF n

LEMMA FetchContentStep ==
  ASSUME RecordingsInv, NEW d \in Deliveries, FetchContent(d)
  PROVE  RecordingsInv'
  <1> DEFINE k == job[d]
             got(ps) == [k EXCEPT !.parts = ps]
  <1>1. At(d, "content") /\ TablesKept /\ Quiet
    BY DEF FetchContent
  <1>2. k \in Job /\ CompletedOK(k, rows) /\ k.at = "content"
    BY <1>1, AtCompleted
  <1>3. \A ps \in SUBSET Parts :
           /\ got(ps) \in Job /\ got(ps).parts = ps /\ got(ps).whole = k.whole
           /\ got(ps).kind = k.kind /\ got(ps).meeting = k.meeting
           /\ got(ps).files = k.files /\ got(ps).file = k.file /\ got(ps).all = k.all
           /\ got(ps).early = k.early
           /\ got(ps).people = k.people /\ got(ps).left = k.left
           /\ got(ps).fileRow = k.fileRow
    BY <1>2 DEF Job
  <1>4. \/ Goes(d, Upsert(got(Parts), "meeting")) /\ Unhurt
        \/ /\ \E ps \in SUBSET Parts : Goes(d, Upsert(Hurt(got(ps)), "meeting"))
           /\ Fault
    BY DEF FetchContent
  <1> HIDE DEF got, k
  <1>5. CASE Goes(d, Upsert(got(Parts), "meeting")) /\ Unhurt
    <2>1. GoesOnOK(Upsert(got(Parts), "meeting"), rows, recordings, summaries)
      BY <1>2, <1>3, ContentGoesOn
    <2> QED BY <1>1, <1>5, <2>1, QuietMoves
  <1>6. CASE (\E ps \in SUBSET Parts : Goes(d, Upsert(Hurt(got(ps)), "meeting"))) /\ Fault
    <2>1. PICK ps \in SUBSET Parts : Goes(d, Upsert(Hurt(got(ps)), "meeting"))
      BY <1>6
    <2> DEFINE q == got(ps)
               h == Hurt(q)
    <2>2. /\ q \in Job
          /\ q.kind = k.kind /\ q.meeting = k.meeting /\ q.files = k.files
          /\ q.file = k.file /\ q.all = k.all
          /\ q.early = k.early /\ q.people = k.people
          /\ q.left = k.left /\ q.fileRow = k.fileRow
      BY <1>3
    <2> HIDE DEF q
    <2>3. /\ h \in Job /\ ~h.whole
          /\ h.kind = k.kind /\ h.meeting = k.meeting /\ h.files = k.files
          /\ h.file = k.file /\ h.all = k.all
          /\ h.early = k.early /\ h.people = k.people
          /\ h.left = k.left /\ h.fileRow = k.fileRow
      BY <2>2, HurtJob
    <2> HIDE DEF h
    <2>4. GoesOnOK(Upsert(h, "meeting"), rows, recordings, summaries)
      BY <1>2, <2>3, ContentGoesOn
    <2> QED BY <1>1, <1>6, <2>1, <2>4, QuietMoves DEF h, q
  <1> QED BY <1>4, <1>5, <1>6

LEMMA AskSummaryStep ==
  ASSUME RecordingsInv, NEW d \in Deliveries, AskSummary(d)
  PROVE  RecordingsInv'
  <1> DEFINE k == job[d]
             n == Upsert(k, "number")
  <1>1. At(d, "ask") /\ TablesKept /\ Quiet
    BY DEF AskSummary
  <1>2. /\ k \in Job /\ CompletedOK(k, rows) /\ k.at = "ask" /\ k # NoJob
        /\ JobOK(k, rows, recordings, summaries)
    BY <1>1, AtCompleted
  <1>3. CASE Goes(d, n) /\ Unhurt
    <2>1. /\ n \in Job /\ n.at = "number" /\ n.step = "search"
          /\ n.kind = k.kind /\ n.meeting = k.meeting /\ n.files = k.files
          /\ n.file = k.file /\ n.all = k.all
          /\ n.early = k.early /\ n.people = k.people
          /\ n.left = k.left /\ n.user = k.user /\ n.parts = k.parts
          /\ n.fileRow = k.fileRow /\ n.userRow = k.userRow /\ n.whole = k.whole
      BY <1>2, UpsertJob DEF Tables
    <2> HIDE DEF n, k
    <2>2. /\ k.kind = "completed" /\ k.meeting \in Meetings /\ k.file \in Files
          /\ HeldOK(k, rows)
          /\ k.whole => WholeOK(k, rows)
      BY <1>2 DEF CompletedOK
    <2>3. SearchOK(n, rows) /\ HeldOK(n, rows)
      BY <1>2, <2>1, <2>2 DEF SearchOK, HeldOK
    <2>4. n.whole => WholeOK(n, rows)
      BY <1>2, <2>1, <2>2 DEF WholeOK, FilesDone, PeopleDone
    <2>5. GoesOnOK(n, rows, recordings, summaries)
      BY <2>1, <2>2, <2>3, <2>4 DEF GoesOnOK, JobOK, CompletedOK, Tables, UpsertSteps
    <2> QED BY <1>1, <1>3, <2>5, QuietMoves
  <1>4. CASE (\E r \in Raised(k) : Goes(d, r)) /\ Fault
    <2>1. PICK r \in Raised(k) : Goes(d, r)
      BY <1>4
    <2>2. GoesOnOK(r, rows, recordings, summaries)
      BY <1>2, <2>1, RaisedOK
    <2> QED BY <1>1, <1>4, <2>1, <2>2, QuietMoves
  <1> QED BY <1>3, <1>4 DEF AskSummary

-----------------------------------------------------------------------------
(* Steps of smart.fullsummary *)

LEMMA SummaryArrivesStep ==
  ASSUME RecordingsInv, NEW d \in Deliveries, SummaryArrives(d)
  PROVE  RecordingsInv'
  <1>1. PICK m \in Meetings, fs \in (SUBSET Files) \ {{}} :
           \E n \in NextFile([NoJob EXCEPT !.kind = "summary", !.meeting = m,
                                           !.files = fs, !.all = fs]) : Arrives(d, n)
    BY DEF SummaryArrives
  <1> DEFINE k == [NoJob EXCEPT !.kind = "summary", !.meeting = m,
                                !.files = fs, !.all = fs]
  <1>2. PICK n \in NextFile(k) : Arrives(d, n)
    BY <1>1
  <1>3. k.kind = "summary" /\ k.meeting = m /\ k.files = fs /\ k.all = fs
    BY DEF NoJob
  <1>4. k \in Job
    <2>1. NoJob \in Job /\ m \in AllMeetings
      BY NoJobIsJob DEF AllMeetings
    <2> QED BY <2>1 DEF Job
  <1> HIDE DEF k
  <1>5. GoesOnOK(n, rows, recordings, summaries)
    BY <1>2, <1>3, <1>4, NextFileSummary
  <1>6. n.at = "find"
    <2>1. k.files # {} /\ k.kind # "completed"
      BY <1>3
    <2> QED BY <1>2, <1>4, <2>1, NextFileJob
  <1> QED BY <1>2, <1>5, <1>6, ArrivesOK DEF GoesOnOK

SummaryPoints == {"find", "recording", "write", "fetch", "store"}

LEMMA AtSummary ==
  ASSUME RecordingsInv, NEW d \in Deliveries, At(d, job[d].at),
         job[d].at \in SummaryPoints
  PROVE  /\ job[d] \in Job /\ SummaryOK(job[d], recordings, summaries)
         /\ job[d] # NoJob /\ JobOK(job[d], rows, recordings, summaries)
         /\ recordings \in Seq(Recording) /\ summaries \in Seq(Summary)
         /\ Len(recordings) \in Nat
  <1>1. /\ job[d] \in Job /\ JobOK(job[d], rows, recordings, summaries)
    BY JobsOK
  <1>2. job[d] # NoJob
    BY DEF NoJob, SummaryPoints
  <1>3. recordings \in Seq(Recording) /\ summaries \in Seq(Summary)
    BY DEF RecordingsInv, PostgresOK
  <1>4. ~CompletedOK(job[d], rows) /\ ~EndedOK(job[d], rows)
    BY DEF CompletedOK, EndedOK, SummaryPoints, Tables
  <1> QED BY <1>1, <1>2, <1>3, <1>4 DEF JobOK

\* A step of smart.fullsummary from one point to another.
LEMMA SummaryGoesOn ==
  ASSUME NEW rs, NEW recs, NEW sums, NEW k \in Job, SummaryOK(k, recs, sums),
         NEW n \in Job, n.at \in SummaryPoints, n.step = "none", n.kind = k.kind,
         n.meeting = k.meeting, n.file = k.file, n.files = k.files, n.all = k.all,
         n.early = k.early, n.whole = k.whole, RecordingOK(n, recs)
  PROVE  GoesOnOK(n, rs, recs, sums)
  BY DEF GoesOnOK, JobOK, SummaryOK, SummaryPoints

LEMMA FindMeetingStep ==
  ASSUME RecordingsInv, NEW d \in Deliveries, FindMeeting(d)
  PROVE  RecordingsInv'
  <1> DEFINE k == job[d]
             n == Point(k, "recording")
             h == [k EXCEPT !.early = @ \cup {k.file}]
  <1>1. At(d, "find") /\ TablesKept /\ Quiet /\ Unhurt
    BY DEF FindMeeting
  <1>2. k \in Job /\ SummaryOK(k, recordings, summaries)
    BY <1>1, AtSummary DEF At, SummaryPoints
  <1>3. CASE k.meeting \in known
    <2>1. Goes(d, n)
      BY <1>3 DEF FindMeeting
    <2>2. /\ n \in Job /\ n.at = "recording" /\ n.step = "none" /\ n.row = 0
          /\ n.kind = k.kind /\ n.meeting = k.meeting /\ n.files = k.files
          /\ n.file = k.file /\ n.all = k.all
          /\ n.early = k.early /\ n.whole = k.whole
      BY <1>2, PointJob DEF Points
    <2> HIDE DEF n, k
    <2>3. GoesOnOK(n, rows, recordings, summaries)
      BY <1>2, <2>2, SummaryGoesOn DEF RecordingOK, SummaryPoints
    <2> QED BY <1>1, <2>1, <2>3, QuietMoves
  <1>4. CASE k.meeting \notin known
    <2>1. PICK r \in NextFile(h) : Goes(d, r)
      BY <1>4 DEF FindMeeting
    <2>2. k.file \in Files /\ k.kind = "summary" /\ k.meeting \in Meetings
      BY <1>2 DEF SummaryOK
    <2>3. /\ h \in Job /\ h.kind = k.kind /\ h.meeting = k.meeting
          /\ h.all = k.all /\ h.files = k.files /\ h.whole = k.whole
          /\ h.early = k.early \cup {k.file}
      BY <1>2, <2>2 DEF Job
    <2> HIDE DEF h, k
    <2>4. h.whole => \A f \in h.all \ (h.files \cup h.early) :
                        SummaryDone(summaries, h.meeting, f)
      BY <1>2, <2>3 DEF SummaryOK
    <2>5. GoesOnOK(r, rows, recordings, summaries)
      BY <2>1, <2>2, <2>3, <2>4, NextFileSummary
    <2> QED BY <1>1, <2>1, <2>5, QuietMoves
  <1> QED BY <1>3, <1>4

LEMMA FindRecordingStep ==
  ASSUME RecordingsInv, NEW d \in Deliveries, FindRecording(d)
  PROVE  RecordingsInv'
  <1> DEFINE k == job[d]
             q == [k EXCEPT !.at = "write", !.seen = Len(recordings)]
             found(i) == [q EXCEPT !.row = i]
  <1>1. /\ At(d, "recording") /\ TablesKept /\ Quiet /\ Unhurt
        /\ IF RecordingsOf(q) = {} THEN Goes(d, q)
           ELSE \E i \in RecordingsOf(q) : Goes(d, found(i))
    BY DEF FindRecording
  <1>2. /\ k \in Job /\ SummaryOK(k, recordings, summaries) /\ k.at = "recording"
        /\ Len(recordings) \in Nat
    BY <1>1, AtSummary DEF At, SummaryPoints
  <1>3. k.row = 0
    BY <1>2 DEF SummaryOK, RecordingOK
  <1>4. /\ q \in Job /\ q.at = "write" /\ q.step = "none" /\ q.row = 0
        /\ q.seen = Len(recordings)
        /\ q.kind = k.kind /\ q.meeting = k.meeting /\ q.files = k.files
        /\ q.file = k.file /\ q.all = k.all /\ q.early = k.early /\ q.whole = k.whole
    <2>1. k \in Job /\ k.step = "none" /\ k.row = 0 /\ Len(recordings) \in Nat
      BY <1>1, <1>2, <1>3 DEF At
    <2> HIDE DEF k
    <2> DEFINE n == Point(k, "write")
    <2>2. /\ n \in Job /\ n.at = "write" /\ n.step = "none" /\ n.row = 0
          /\ n.kind = k.kind /\ n.meeting = k.meeting /\ n.files = k.files
          /\ n.file = k.file /\ n.all = k.all /\ n.early = k.early /\ n.whole = k.whole
      BY <2>1, PointJob DEF Points
    <2>3. q = [n EXCEPT !.seen = Len(recordings)]
      BY <2>1 DEF Point, Job
    <2> HIDE DEF n, q
    <2> QED BY <2>1, <2>2, <2>3 DEF Job
  <1>5. \A i \in Nat :
           /\ found(i) \in Job /\ found(i).at = "write" /\ found(i).step = "none"
           /\ found(i).row = i /\ found(i).seen = q.seen
           /\ found(i).kind = q.kind /\ found(i).meeting = q.meeting
           /\ found(i).files = q.files /\ found(i).file = q.file
           /\ found(i).all = q.all
           /\ found(i).early = q.early /\ found(i).whole = q.whole
    <2> HIDE DEF q
    <2> QED BY <1>4 DEF Job
  <1> HIDE DEF found, q, k
  <1>6. \A i : IsRecording(i, q.meeting, q.file, recordings) <=> i \in RecordingsOf(q)
    BY DEF IsRecording, RecordingsOf
  <1>7. CASE RecordingsOf(q) = {}
    <2>1. RecordingOK(q, recordings)
      BY <1>2, <1>4, <1>6, <1>7 DEF RecordingOK
    <2>2. GoesOnOK(q, rows, recordings, summaries)
      BY <1>2, <1>4, <2>1, SummaryGoesOn DEF SummaryPoints
    <2> QED BY <1>1, <1>7, <2>2, QuietMoves
  <1>8. CASE RecordingsOf(q) # {}
    <2>1. PICK i \in RecordingsOf(q) : Goes(d, found(i))
      BY <1>1, <1>8
    <2>2. i \in Nat /\ i # 0
      BY DEF RecordingsOf
    <2>3. RecordingOK(found(i), recordings)
      BY <1>2, <1>4, <1>5, <1>6, <2>1, <2>2 DEF RecordingOK
    <2>4. GoesOnOK(found(i), rows, recordings, summaries)
      BY <1>2, <1>4, <1>5, <2>2, <2>3, SummaryGoesOn DEF SummaryPoints
    <2> QED BY <1>1, <2>1, <2>4, QuietMoves
  <1> QED BY <1>7, <1>8

\* What holds after a table of Postgres is written, of a delivery that goes on
\* as n.
LEMMA PostgresMoves ==
  ASSUME RecordingsInv, NEW d \in Deliveries, NEW n, Goes(d, n),
         UNCHANGED rows, Quiet, Fault \/ Unhurt,
         PostgresOK(recordings', summaries'),
         Longer(recordings, recordings'), Longer(summaries, summaries'),
         GoesOnOK(n, rows, recordings', summaries')
  PROVE  RecordingsInv'
  <1>1. RowsOK(rows) /\ Grown(rows, rows') /\ rows' = rows
    BY GrownSame DEF RecordingsInv
  <1>2. faults' \in 0..MaxFaults
    BY RecordingsAssumption DEF Fault, Unhurt, RecordingsInv
  <1> QED BY <1>1, <1>2, OneJobMoves

LEMMA Appended ==
  ASSUME NEW S, NEW s \in Seq(S), NEW e \in S
  PROVE  /\ Append(s, e) \in Seq(S) /\ Len(Append(s, e)) = Len(s) + 1
         /\ Append(s, e)[Len(s) + 1] = e
         /\ \A i \in 1..Len(s) : Append(s, e)[i] = s[i]
         /\ Longer(s, Append(s, e))
  BY DEF Longer

\* A recording is created.
LEMMA RecordingCreated ==
  ASSUME NEW recs, NEW sums, PostgresOK(recs, sums), NEW r \in Recording,
         r.seen <= Len(recs),
         \A i \in 1..Len(recs) : IsRecording(i, r.meeting, r.file, recs) => r.seen < i
  PROVE  /\ PostgresOK(Append(recs, r), sums)
         /\ IsRecording(Len(recs) + 1, r.meeting, r.file, Append(recs, r))
  <1> DEFINE qecs == Append(recs, r)
             n == Len(recs) + 1
  <1>1. recs \in Seq(Recording) /\ sums \in Seq(Summary) /\ Len(recs) \in Nat
    BY DEF PostgresOK
  <1>2. /\ qecs \in Seq(Recording) /\ Len(qecs) = n /\ qecs[n] = r
        /\ \A i \in 1..Len(recs) : qecs[i] = recs[i]
        /\ Longer(recs, qecs)
    BY <1>1, Appended
  <1> HIDE DEF qecs
  <1>3. ASSUME NEW i \in 1..Len(qecs), NEW j \in 1..Len(qecs), i < j,
               qecs[i].meeting = qecs[j].meeting, qecs[i].file = qecs[j].file
        PROVE  qecs[j].seen < i
    <2>1. i \in 1..Len(recs) /\ qecs[i] = recs[i]
      BY <1>1, <1>2, <1>3
    <2>2. CASE j \in 1..Len(recs)
      BY <1>2, <1>3, <2>1, <2>2 DEF PostgresOK
    <2>3. CASE j \notin 1..Len(recs)
      <3>1. j = n
        BY <1>1, <1>2, <2>3
      <3> QED BY <1>2, <1>3, <2>1, <3>1 DEF IsRecording
    <2> QED BY <2>2, <2>3
  <1>4. \A i \in 1..Len(sums) :
           IsRecording(sums[i].recording, sums[i].meeting, sums[i].file, qecs)
    BY <1>1, <1>2, RecordingsGrow DEF PostgresOK
  <1>5. IsRecording(n, r.meeting, r.file, qecs)
    BY <1>1, <1>2 DEF IsRecording
  <1> QED BY <1>1, <1>2, <1>3, <1>4, <1>5 DEF PostgresOK, qecs

LEMMA WriteRecordingStep ==
  ASSUME RecordingsInv, NEW d \in Deliveries, WriteRecording(d)
  PROVE  RecordingsInv'
  <1> DEFINE k == job[d]
             i == IF k.row # 0 THEN k.row ELSE Len(recordings) + 1
             n == [k EXCEPT !.at = "fetch", !.row = i]
             r == [meeting |-> k.meeting, file |-> k.file, seen |-> k.seen]
  <1>1. /\ At(d, "write") /\ UNCHANGED <<rows, summaries>> /\ Quiet
        /\ recordings' = IF k.row # 0 THEN recordings ELSE Append(recordings, r)
        /\ \/ Goes(d, n) /\ Unhurt
           \/ (\E x \in Raised(k) : Goes(d, x)) /\ Fault
    BY DEF WriteRecording, RecordingWritten
  <1>2. /\ k \in Job /\ SummaryOK(k, recordings, summaries) /\ k.at = "write"
        /\ k # NoJob /\ JobOK(k, rows, recordings, summaries)
        /\ recordings \in Seq(Recording) /\ summaries \in Seq(Summary)
        /\ Len(recordings) \in Nat
    BY <1>1, AtSummary DEF At, SummaryPoints
  <1>3. /\ PostgresOK(recordings, summaries) /\ RowsOK(rows) /\ Grown(rows, rows)
        /\ Longer(summaries, summaries)
    BY <1>2, GrownSame, LongerSame DEF RecordingsInv
  <1>4. /\ k.seen <= Len(recordings) /\ k.seen \in Nat /\ k.row \in Nat
        /\ k.meeting \in Meetings /\ k.file \in Files
        /\ k.row # 0 => IsRecording(k.row, k.meeting, k.file, recordings)
        /\ k.row = 0 => \A j \in 1..Len(recordings) :
               IsRecording(j, k.meeting, k.file, recordings) => k.seen < j
    BY <1>2 DEF SummaryOK, RecordingOK, Job
  <1>5. /\ PostgresOK(recordings', summaries) /\ Longer(recordings, recordings')
        /\ recordings' \in Seq(Recording)
        /\ IsRecording(i, k.meeting, k.file, recordings')
    <2> HIDE DEF k
    <2>1. CASE k.row # 0
      BY <1>1, <1>2, <1>3, <1>4, <2>1, LongerSame
    <2>2. CASE k.row = 0
      <3>1. /\ r \in Recording /\ r.meeting = k.meeting /\ r.file = k.file
            /\ r.seen = k.seen
        BY <1>4 DEF Recording
      <3> HIDE DEF r
      <3>2. recordings' = Append(recordings, r) /\ i = Len(recordings) + 1
        BY <1>1, <2>2
      <3>3. \A j \in 1..Len(recordings) :
               IsRecording(j, r.meeting, r.file, recordings) => r.seen < j
        BY <1>4, <2>2, <3>1
      <3>4. /\ PostgresOK(recordings', summaries)
            /\ IsRecording(i, k.meeting, k.file, recordings')
        BY <1>3, <1>4, <3>1, <3>2, <3>3, RecordingCreated
      <3>5. recordings' \in Seq(Recording) /\ Longer(recordings, recordings')
        BY <1>2, <3>1, <3>2, Appended
      <3> QED BY <3>4, <3>5
    <2> QED BY <2>1, <2>2
  <1>6. JobOK(k, rows, recordings', summaries) /\ SummaryOK(k, recordings', summaries)
    BY <1>2, <1>3, <1>5, JobKept, SummaryKept
  <1>7. CASE Goes(d, n) /\ Unhurt
    <2>1. i \in Nat
      BY <1>2, <1>4
    <2>2. /\ n \in Job /\ n.at = "fetch" /\ n.step = "none" /\ n.row = i
          /\ n.kind = k.kind /\ n.meeting = k.meeting /\ n.files = k.files
          /\ n.file = k.file /\ n.all = k.all
          /\ n.early = k.early /\ n.whole = k.whole
      <3> HIDE DEF i
      <3> QED BY <1>1, <1>2, <2>1 DEF Job, At
    <2> HIDE DEF n, k, i
    <2>3. RecordingOK(n, recordings')
      BY <1>5, <2>2 DEF RecordingOK
    <2>4. GoesOnOK(n, rows, recordings', summaries)
      BY <1>2, <1>6, <2>2, <2>3, SummaryGoesOn DEF SummaryPoints
    <2> QED BY <1>1, <1>3, <1>5, <1>7, <2>4, PostgresMoves
  <1>8. CASE (\E x \in Raised(k) : Goes(d, x)) /\ Fault
    <2>1. PICK x \in Raised(k) : Goes(d, x)
      BY <1>8
    <2>2. k.at # "people"
      BY <1>2
    <2>3. GoesOnOK(x, rows, recordings', summaries)
      BY <1>2, <1>6, <2>1, <2>2, RaisedOK
    <2> QED BY <1>1, <1>3, <1>5, <1>8, <2>1, <2>3, PostgresMoves
  <1> QED BY <1>1, <1>7, <1>8

LEMMA FetchSummaryStep ==
  ASSUME RecordingsInv, NEW d \in Deliveries, FetchSummary(d)
  PROVE  RecordingsInv'
  <1> DEFINE k == job[d]
             n == [k EXCEPT !.at = "store"]
  <1>1. At(d, "fetch") /\ TablesKept /\ Quiet /\ Unhurt /\ Goes(d, n)
    BY DEF FetchSummary
  <1>2. k \in Job /\ SummaryOK(k, recordings, summaries) /\ k.at = "fetch"
    BY <1>1, AtSummary DEF At, SummaryPoints
  <1>3. /\ n \in Job /\ n.at = "store" /\ n.step = "none" /\ n.row = k.row
        /\ n.kind = k.kind /\ n.meeting = k.meeting /\ n.files = k.files
        /\ n.file = k.file /\ n.all = k.all /\ n.early = k.early /\ n.whole = k.whole
    BY <1>1, <1>2 DEF Job, At
  <1> HIDE DEF n, k
  <1>4. RecordingOK(n, recordings)
    BY <1>2, <1>3 DEF RecordingOK, SummaryOK
  <1>5. GoesOnOK(n, rows, recordings, summaries)
    BY <1>2, <1>3, <1>4, SummaryGoesOn DEF SummaryPoints
  <1> QED BY <1>1, <1>5, QuietMoves

LEMMA StoreSummaryStep ==
  ASSUME RecordingsInv, NEW d \in Deliveries, StoreSummary(d)
  PROVE  RecordingsInv'
  <1> DEFINE k == job[d]
             s == [meeting |-> k.meeting, file |-> k.file, recording |-> k.row]
  <1>1. /\ At(d, "store") /\ UNCHANGED <<rows, recordings>> /\ Quiet
        /\ summaries' = Append(summaries, s)
        /\ \/ (\E n \in NextFile(k) : Goes(d, n)) /\ Unhurt
           \/ (\E n \in Raised(k) : Goes(d, n)) /\ Fault
    BY DEF StoreSummary
  <1>2. /\ k \in Job /\ SummaryOK(k, recordings, summaries) /\ k.at = "store"
        /\ k # NoJob /\ JobOK(k, rows, recordings, summaries)
        /\ recordings \in Seq(Recording) /\ summaries \in Seq(Summary)
        /\ Len(summaries) \in Nat
    BY <1>1, AtSummary DEF At, SummaryPoints
  <1>3. /\ PostgresOK(recordings, summaries) /\ RowsOK(rows) /\ Grown(rows, rows)
        /\ Longer(recordings, recordings)
    BY <1>2, GrownSame, LongerSame DEF RecordingsInv
  <1>4. /\ k.meeting \in Meetings /\ k.file \in Files
        /\ IsRecording(k.row, k.meeting, k.file, recordings)
    BY <1>2 DEF SummaryOK, RecordingOK
  <1>5. /\ s \in Summary /\ s.meeting = k.meeting /\ s.file = k.file
        /\ s.recording = k.row
    BY <1>4 DEF Summary, IsRecording
  <1> HIDE DEF s, k
  <1> DEFINE l == Len(summaries)
  <1>6. /\ summaries' \in Seq(Summary) /\ Len(summaries') = l + 1
        /\ summaries'[l + 1] = s
        /\ \A i \in 1..l : summaries'[i] = summaries[i]
        /\ Longer(summaries, summaries')
    BY <1>1, <1>2, <1>5, Appended
  <1>7. PostgresOK(recordings, summaries')
    <2>1. ASSUME NEW i \in 1..Len(summaries')
          PROVE  IsRecording(summaries'[i].recording, summaries'[i].meeting,
                             summaries'[i].file, recordings)
      <3>1. CASE i \in 1..l
        BY <1>3, <1>6, <3>1 DEF PostgresOK
      <3>2. CASE i \notin 1..l
        <4>1. i = l + 1
          BY <1>2, <1>6, <3>2
        <4> QED BY <1>4, <1>5, <1>6, <4>1
      <3> QED BY <3>1, <3>2
    <2> QED BY <1>3, <1>6, <2>1 DEF PostgresOK
  <1>8. JobOK(k, rows, recordings, summaries') /\ SummaryOK(k, recordings, summaries')
    BY <1>2, <1>3, <1>6, JobKept, SummaryKept
  <1>9. SummaryDone(summaries', k.meeting, k.file)
    <2>1. l + 1 \in 1..Len(summaries')
      BY <1>2, <1>6
    <2> QED BY <1>5, <1>6, <2>1 DEF SummaryDone
  <1>10. CASE (\E n \in NextFile(k) : Goes(d, n)) /\ Unhurt
    <2>1. PICK n \in NextFile(k) : Goes(d, n)
      BY <1>10
    <2>2. k.whole => \A f \in k.all \ (k.files \cup k.early) :
                        SummaryDone(summaries', k.meeting, f)
      BY <1>8, <1>9 DEF SummaryOK
    <2>3. GoesOnOK(n, rows, recordings, summaries')
      BY <1>2, <2>1, <2>2, NextFileSummary DEF SummaryOK
    <2> QED BY <1>1, <1>3, <1>6, <1>7, <1>10, <2>1, <2>3, PostgresMoves
  <1>11. CASE (\E n \in Raised(k) : Goes(d, n)) /\ Fault
    <2>1. PICK n \in Raised(k) : Goes(d, n)
      BY <1>11
    <2>2. k.at # "people"
      BY <1>2
    <2>3. GoesOnOK(n, rows, recordings, summaries')
      BY <1>2, <1>8, <2>1, <2>2, RaisedOK
    <2> QED BY <1>1, <1>3, <1>6, <1>7, <1>11, <2>1, <2>3, PostgresMoves
  <1> QED BY <1>1, <1>10, <1>11

LEMMA SummaryThrowsStep ==
  ASSUME RecordingsInv, NEW d \in Deliveries, SummaryThrows(d)
  PROVE  RecordingsInv'
  <1>1. PICK n \in Raised(job[d]) : Goes(d, n)
    BY DEF SummaryThrows
  <1>2. job[d].kind = "summary" /\ Fault /\ TablesKept /\ Quiet
    BY DEF SummaryThrows
  <1>3. job[d] # NoJob /\ JobOK(job[d], rows, recordings, summaries)
    BY <1>2, JobsOK DEF NoJob
  <1>4. job[d].at # "people"
    BY <1>2, <1>3 DEF JobOK, SummaryOK, CompletedOK, EndedOK
  <1>5. GoesOnOK(n, rows, recordings, summaries)
    BY <1>1, <1>3, <1>4, RaisedOK
  <1> QED BY <1>1, <1>2, <1>5, QuietMoves

-----------------------------------------------------------------------------
(* Steps of Lark's event, and of the process *)

LEMMA EndedArrivesStep ==
  ASSUME RecordingsInv, NEW d \in Deliveries, EndedArrives(d)
  PROVE  RecordingsInv'
  <1>1. PICK m \in LarkMeetings \cup {None} :
           Arrives(d, [NoJob EXCEPT !.kind = "ended", !.at = "enqueue", !.meeting = m])
    BY DEF EndedArrives
  <1> DEFINE k == [NoJob EXCEPT !.kind = "ended", !.at = "enqueue", !.meeting = m]
  <1>2. k.kind = "ended" /\ k.at = "enqueue" /\ k.step = "none" /\ k.meeting = m
    BY DEF NoJob
  <1>3. k \in Job
    <2>1. NoJob \in Job /\ m \in AllMeetings \cup {None}
      BY NoJobIsJob DEF AllMeetings
    <2> QED BY <2>1 DEF Job
  <1> HIDE DEF k
  <1>4. JobOK(k, rows, recordings, summaries)
    BY <1>2, <1>3 DEF JobOK, EndedOK
  <1> QED BY <1>1, <1>4, ArrivesOK DEF k

LEMMA AtEnded ==
  ASSUME RecordingsInv, NEW d \in Deliveries, NEW p \in {"enqueue", "queued"}, At(d, p)
  PROVE  /\ job[d] \in Job /\ job[d].at = p /\ job[d].kind = "ended"
         /\ job[d].step = "none" /\ job[d].meeting \in LarkMeetings \cup {None}
  <1>1. /\ job[d] \in Job /\ job[d].at = p /\ job[d].step = "none"
        /\ JobOK(job[d], rows, recordings, summaries)
    BY JobsOK DEF At
  <1>2. job[d] # NoJob
    BY <1>1 DEF NoJob
  <1>3. EndedOK(job[d], rows)
    BY <1>1, <1>2 DEF JobOK, CompletedOK, SummaryOK, Tables
  <1> QED BY <1>1, <1>3 DEF EndedOK

LEMMA EnqueueMeetingEndedStep ==
  ASSUME RecordingsInv, NEW d \in Deliveries, EnqueueMeetingEnded(d)
  PROVE  RecordingsInv'
  <1> DEFINE k == job[d]
             n == [k EXCEPT !.at = "queued"]
             h == Hurt(k)
             e == End(h)
  <1>1. /\ At(d, "enqueue") /\ TablesKept /\ Quiet
        /\ (Goes(d, n) /\ Unhurt) \/ (Goes(d, e) /\ Fault)
    BY DEF EnqueueMeetingEnded
  <1>2. /\ k \in Job /\ k.kind = "ended" /\ k.step = "none"
        /\ k.meeting \in LarkMeetings \cup {None}
    BY <1>1, AtEnded
  <1>3. GoesOnOK(n, rows, recordings, summaries)
    <2>1. /\ n \in Job /\ n.at = "queued" /\ n.step = "none" /\ n.kind = "ended"
          /\ n.meeting = k.meeting
      BY <1>2 DEF Job
    <2> HIDE DEF n
    <2> QED BY <1>2, <2>1 DEF GoesOnOK, JobOK, EndedOK
  <1>4. GoesOnOK(e, rows, recordings, summaries)
    <2>1. h \in Job /\ ~h.whole
      BY <1>2, HurtJob
    <2> HIDE DEF h
    <2>2. e.at = "end" /\ ~e.whole
      BY <2>1 DEF End, Job
    <2> HIDE DEF e
    <2> QED BY <2>2 DEF GoesOnOK
  <1> HIDE DEF n, e
  <1> QED BY <1>1, <1>3, <1>4, QuietMoves

LEMMA HandleMeetingEndedStep ==
  ASSUME RecordingsInv, NEW d \in Deliveries, HandleMeetingEnded(d)
  PROVE  RecordingsInv'
  <1> DEFINE k == job[d]
             n == Upsert(k, "meeting")
             e == End(k)
  <1>1. /\ At(d, "queued") /\ TablesKept /\ Quiet /\ Unhurt
        /\ Goes(d, IF k.meeting = None THEN e ELSE n)
    BY DEF HandleMeetingEnded
  <1>2. /\ k \in Job /\ k.kind = "ended" /\ k.meeting \in LarkMeetings \cup {None}
    BY <1>1, AtEnded
  <1> HIDE DEF k
  <1>3. CASE k.meeting = None
    <2>1. e.at = "end" /\ e.kind = "ended" /\ e.meeting = None
      BY <1>2, <1>3 DEF End, Job
    <2> HIDE DEF e
    <2>2. GoesOnOK(e, rows, recordings, summaries)
      BY <2>1 DEF GoesOnOK, ThroughOK
    <2> QED BY <1>1, <1>3, <2>2, QuietMoves
  <1>4. CASE k.meeting # None
    <2>1. /\ n \in Job /\ n.at = "meeting" /\ n.step = "search"
          /\ n.kind = "ended" /\ n.meeting = k.meeting
      BY <1>2, UpsertJob DEF Tables
    <2> HIDE DEF n
    <2>2. GoesOnOK(n, rows, recordings, summaries)
      BY <1>2, <1>4, <2>1 DEF GoesOnOK, JobOK, EndedOK, SearchOK, UpsertSteps
    <2> QED BY <1>1, <1>4, <2>2, QuietMoves
  <1> QED BY <1>3, <1>4

LEMMA MeetingRecordedStep ==
  ASSUME RecordingsInv, MeetingRecorded
  PROVE  RecordingsInv'
  <1>1. /\ rows' = rows /\ recordings' = recordings /\ summaries' = summaries
        /\ job' = job /\ through' = through /\ delivered' = delivered
        /\ faults' = faults /\ crashes' = crashes
    BY DEF MeetingRecorded, TablesKept, postgresVars
  <1>2. known' \subseteq Meetings
    BY DEF MeetingRecorded, RecordingsInv
  <1> QED BY <1>1, <1>2 DEF RecordingsInv

LEMMA SurvivesOK ==
  ASSUME NEW rs, NEW recs, NEW sums, NEW k, JobOK(k, rs, recs, sums)
  PROVE  JobOK(Survives(k), rs, recs, sums)
  <1>1. k \in Job
    BY DEF JobOK
  <1>2. CASE k.at = "queued"
    BY <1>2 DEF Survives
  <1>3. CASE k.at # "queued" /\ k.kind = "ended" /\ k.at = "meeting" /\ k.stalled = 0
    <2> DEFINE q == Point(k, "queued")
               n == [q EXCEPT !.stalled = 1]
    <2>1. /\ q \in Job /\ q.at = "queued" /\ q.step = "none"
          /\ q.kind = k.kind /\ q.meeting = k.meeting
      BY <1>1, PointJob DEF Points
    <2> HIDE DEF q
    <2>2. /\ n \in Job /\ n.at = "queued" /\ n.step = "none"
          /\ n.kind = k.kind /\ n.meeting = k.meeting
      BY <2>1 DEF Job
    <2>3. k.meeting \in LarkMeetings
      BY <1>3 DEF JobOK, NoJob, CompletedOK, SummaryOK, EndedOK
    <2>4. Survives(k) = n
      BY <1>3 DEF Survives, q
    <2> HIDE DEF n
    <2> QED BY <1>3, <2>2, <2>3, <2>4 DEF JobOK, EndedOK
  <1>4. CASE k.at # "queued" /\ ~(k.kind = "ended" /\ k.at = "meeting" /\ k.stalled = 0)
    <2>1. Survives(k) = NoJob
      BY <1>4 DEF Survives
    <2> QED BY <2>1, NoJobIsJob DEF JobOK
  <1> QED BY <1>2, <1>3, <1>4

LEMMA CrashStep ==
  ASSUME RecordingsInv, Crash
  PROVE  RecordingsInv'
  <1>1. /\ rows' = rows /\ recordings' = recordings /\ summaries' = summaries
        /\ known' = known /\ through' = through /\ delivered' = delivered
        /\ faults' = faults /\ crashes < MaxCrashes /\ crashes' = crashes + 1
        /\ job' = [d \in Deliveries |-> Survives(job[d])]
    BY DEF Crash, TablesKept, postgresVars
  <1>2. crashes' \in 0..MaxCrashes
    BY <1>1, RecordingsAssumption DEF RecordingsInv
  <1>3. ASSUME NEW d \in Deliveries
        PROVE  JobOK(job'[d], rows, recordings, summaries) /\ job'[d] \in Job
    <2>1. JobOK(Survives(job[d]), rows, recordings, summaries)
      BY SurvivesOK DEF RecordingsInv
    <2> QED BY <1>1, <2>1 DEF JobOK
  <1>4. job' \in [Deliveries -> Job]
    BY <1>1, <1>3
  <1> QED BY <1>1, <1>2, <1>3, <1>4 DEF RecordingsInv

-----------------------------------------------------------------------------
(* The invariant *)

LEMMA UpsertStep ==
  ASSUME RecordingsInv, NEW d \in Deliveries, UpsertNext(d)
  PROVE  RecordingsInv'
  BY SearchStep, WithoutDataStep, ThrowsStep, WriteStep, WriteUnansweredStep
     DEF UpsertNext

LEMMA CompletedStep ==
  ASSUME RecordingsInv, NEW d \in Deliveries, CompletedNext(d)
  PROVE  RecordingsInv'
  BY CompletedArrivesStep, GetUniqueParticipantsStep, FetchContentStep, AskSummaryStep
     DEF CompletedNext

LEMMA SummaryStep ==
  ASSUME RecordingsInv, NEW d \in Deliveries, SummaryNext(d)
  PROVE  RecordingsInv'
  BY SummaryArrivesStep, FindMeetingStep, FindRecordingStep, WriteRecordingStep,
     FetchSummaryStep, StoreSummaryStep, SummaryThrowsStep
     DEF SummaryNext

LEMMA EndedStep ==
  ASSUME RecordingsInv, NEW d \in Deliveries, EndedNext(d)
  PROVE  RecordingsInv'
  BY EndedArrivesStep, EnqueueMeetingEndedStep, HandleMeetingEndedStep DEF EndedNext

LEMMA RecordingsStep ==
  ASSUME RecordingsInv, [RecordingsNext]_recordingVars
  PROVE  RecordingsInv'
  <1>1. CASE UNCHANGED recordingVars
    BY <1>1 DEF recordingVars, postgresVars, RecordingsInv
  <1>2. CASE RecordingsNext
    BY <1>2, UpsertStep, CompletedStep, SummaryStep, EndedStep, MeetingRecordedStep,
       CrashStep
       DEF RecordingsNext
  <1> QED BY <1>1, <1>2

LEMMA RecordingsStart == RecordingsInit => RecordingsInv
  <1> SUFFICES ASSUME RecordingsInit PROVE RecordingsInv
    OBVIOUS
  <1>1. /\ rows = [t \in Tables |-> << >>]
        /\ known = {} /\ recordings = << >> /\ summaries = << >>
        /\ job = [d \in Deliveries |-> NoJob]
        /\ delivered = 0 /\ faults = 0 /\ crashes = 0 /\ through = {}
    BY DEF RecordingsInit
  <1>2. RowsOK(rows)
    <2>1. \A t \in Tables : rows[t] = << >>
      BY <1>1
    <2>2. /\ "number" \in Tables /\ "file" \in Tables
      BY DEF Tables
    <2> QED BY <1>1, <2>1, <2>2 DEF RowsOK, TwinsIn
  <1>3. PostgresOK(recordings, summaries)
    BY <1>1 DEF PostgresOK
  <1>4. \A d \in Deliveries : JobOK(job[d], rows, recordings, summaries)
    BY <1>1, NoJobIsJob DEF JobOK
  <1> QED BY <1>1, <1>2, <1>3, <1>4, NoJobIsJob, RecordingsAssumption DEF RecordingsInv

LEMMA TablesGrow ==
  ASSUME RecordingsInv, [RecordingsNext]_recordingVars
  PROVE  Grown(rows, rows')
  <1>1. RowsOK(rows)
    BY DEF RecordingsInv
  <1>2. UNCHANGED rows => Grown(rows, rows')
    BY <1>1, GrownSame
  <1>3. ASSUME NEW d \in Deliveries, UpsertNext(d)
        PROVE  Grown(rows, rows')
    BY <1>2, <1>3, WriteOK
       DEF UpsertNext, Search, WithoutData, Throws, Write, WriteUnanswered, TablesKept
  <1>4. ASSUME NEW d \in Deliveries, CompletedNext(d) \/ EndedNext(d)
        PROVE  UNCHANGED rows
    BY <1>4 DEF CompletedNext, CompletedArrives, GetUniqueParticipants, FetchContent,
       AskSummary, EndedNext, EndedArrives, EnqueueMeetingEnded, HandleMeetingEnded,
       Arrives, TablesKept
  <1>5. ASSUME NEW d \in Deliveries, SummaryNext(d)
        PROVE  UNCHANGED rows
    <2>1. CASE SummaryArrives(d) \/ FindMeeting(d) \/ FindRecording(d)
                 \/ FetchSummary(d) \/ SummaryThrows(d)
      BY <2>1 DEF SummaryArrives, Arrives, FindMeeting, FindRecording, FetchSummary,
         SummaryThrows, TablesKept
    <2>2. CASE WriteRecording(d) \/ StoreSummary(d)
      BY <2>2 DEF WriteRecording, StoreSummary
    <2> QED BY <1>5, <2>1, <2>2 DEF SummaryNext
  <1>6. CASE UNCHANGED recordingVars \/ MeetingRecorded \/ Crash
    BY <1>2, <1>6 DEF recordingVars, MeetingRecorded, Crash, TablesKept
  <1> QED BY <1>2, <1>3, <1>4, <1>5, <1>6 DEF RecordingsNext

-----------------------------------------------------------------------------
(* Theorems *)

\* Whatever deliveries come and whichever of their requests fail, and through
\* crashes, what a delivery in flight holds of the tables stays true until it
\* writes (RecordingCompletedHandler, SmartFullsummaryHandler,
\* LarkMeetingService).
THEOREM RecordingsInvariant == RecordingsSpec => []RecordingsInv
  BY RecordingsStart, RecordingsStep, PTL DEF RecordingsSpec

\* The tables and the deliveries in flight have the shapes the code relies on
\* (BitableService.upsertRecord, TencentMeetingRepository).
THEOREM RecordingsKeepTypes == RecordingsSpec => []RecordingsTypeOK
  <1>1. RecordingsInv => RecordingsTypeOK
    BY DEF RecordingsInv, RowsOK, PostgresOK, RecordingsTypeOK
  <1> QED BY <1>1, RecordingsInvariant, PTL

\* In none of the tables, of Bitable or of Postgres, do deliveries in a row
\* make a second row for one key that the lower-cased search can find: its
\* upsert searched before the first row was there, or got no data
\* (BitableService.upsertRecord, buildSearchFilter, upsertMeetingRecording).
THEOREM RecordingTwinsOverlapped == RecordingsSpec => []TwinsOverlapped
  <1>1. RecordingsInv => TwinsOverlapped
    <2> SUFFICES ASSUME RecordingsInv PROVE TwinsOverlapped
      OBVIOUS
    <2>1. TwinsIn(rows) /\ PostgresOK(recordings, summaries)
      BY DEF RecordingsInv, RowsOK
    <2>2. \A t \in Tables : \A j \in 1..Len(rows[t]) :
             \A i \in Hits(t, rows[t][j].key) : i < j => rows[t][j].seen < i
      BY <2>1, HitsAreRowsIn DEF TwinsIn
    <2> QED BY <2>1, <2>2 DEF TwinsOverlapped, PostgresOK
  <1> QED BY <1>1, RecordingsInvariant, PTL

\* A participant's summary that names a row of the file table names the file
\* it was made from, a file names a row of the meetings, and a summary in
\* Postgres a recording of its file and meeting, whatever other deliveries
\* write between the requests that link them
\* (NumberRecordBitableRepository.upsertNumberRecord, createMeetingSummary).
THEOREM RecordingLinksAgree == RecordingsSpec => []LinksAgree
  <1>1. RecordingsInv => LinksAgree
    <2> SUFFICES ASSUME RecordingsInv PROVE LinksAgree
      OBVIOUS
    <2>1. \A i \in 1..Len(rows["number"]) : NumberOK(rows["number"][i], rows)
      BY DEF RecordingsInv, RowsOK
    <2>2. \A i \in 1..Len(rows["file"]) :
             rows["file"][i].link \in 1..Len(rows["meeting"])
      BY DEF RecordingsInv, RowsOK
    <2>3. \A i \in 1..Len(summaries) :
             IsRecording(summaries[i].recording, summaries[i].meeting,
                         summaries[i].file, recordings)
      BY DEF RecordingsInv, PostgresOK
    <2> QED BY <2>1, <2>2, <2>3 DEF LinksAgree, NumberOK, IsRecording
  <1> QED BY <1>1, RecordingsInvariant, PTL

\* A delivery that met no fault has left all its rows, of each of its files and
\* in it of each participant, though errors of a file or a participant are
\* caught and passed over on the way.  Without a fault nothing is lost but the
\* summaries that came before their meeting, which are dropped
\* (RecordingCompletedHandler.handle, SmartFullsummaryHandler.handle,
\* handleMeetingEnded).
THEOREM OnlyFaultsOrEarlinessLoseRows == RecordingsSpec => []ThroughIsWritten
  <1>1. RecordingsInv => ThroughIsWritten
    <2> SUFFICES ASSUME RecordingsInv, NEW p \in through
                 PROVE  /\ p.kind = "completed" =>
                              \A f \in p.files :
                                  /\ HasRow("meeting", p.meeting)
                                  /\ \E i \in RowsFor("file", f) : rows["file"][i].parts = Parts
                                  /\ \A u \in Attendees[p.meeting] :
                                        /\ HasRow("user", u)
                                        /\ u \in Speakers[f] =>
                                              \E i \in RowsFor("user", u) : HasRow("number", i)
                        /\ p.kind = "summary" =>
                              \A f \in p.files \ p.early : \E i \in 1..Len(summaries) :
                                  summaries[i].meeting = p.meeting /\ summaries[i].file = f
                        /\ p.kind = "ended" /\ p.meeting # None =>
                              HasRow("meeting", p.meeting)
      BY DEF ThroughIsWritten
    <2>1. ThroughOK(p, rows, summaries)
      BY DEF RecordingsInv
    <2>2. \A t, k : HasRow(t, k) <=> RowsIn(rows, t, k) # {}
      BY HitsAreRowsIn DEF HasRow
    <2> QED BY <2>1, <2>2, HitsAreRowsIn
       DEF ThroughOK, FileDone, HasFile, PersonDone, SummaryDone
  <1> QED BY <1>1, RecordingsInvariant, PTL

\* A row of Bitable keeps its place and its key whatever is written: the row
\* that a search found is the row of that key when the update comes
\* (BitableService.upsertRecord).
THEOREM RowsStay == RecordingsSpec => [][Grown(rows, rows')]_recordingVars
  BY TablesGrow, RecordingsInvariant, PTL DEF RecordingsSpec

\* A recording file keeps what a delivery brought of it, though a later one,
\* or one that is sent again, got less
\* (RecordingFileBitableRepository.upsertRecordingFileRecord).
THEOREM FilePartsAreKept == RecordingsSpec => PartsAreKept
  <1>1. ASSUME RecordingsInv, [RecordingsNext]_recordingVars
        PROVE  [\A i \in 1..Len(rows["file"]) :
                  rows["file"][i].parts \subseteq rows'["file"][i].parts]_recordingVars
    BY <1>1, TablesGrow DEF Grown, Tables
  <1> QED BY <1>1, RecordingsInvariant, PTL DEF RecordingsSpec, PartsAreKept
=============================================================================
