---------------------------- MODULE TencentEvents ----------------------------
(***************************************************************************)
(* The Tencent Meeting webhook: TencentWebhookController answers at once   *)
(* and leaves the event to TencentEventHandlerService, whose handler for   *)
(* the event starts its upserts on the Bitable tables and on the database  *)
(* all at the same time.  Nothing waits for them: an upsert that throws is *)
(* ignored, and what a dying process had not done is not done again.       *)
(*                                                                         *)
(* Tencent sends an event again when it has not had the answer within five *)
(* seconds, and does not keep events in order.  An event has one payload;  *)
(* one with several is several deliveries at once.                         *)
(*                                                                         *)
(* The two stores share nothing but the handler.  A behaviour may have one *)
(* of them down from the start: every upsert on it throws at once.         *)
(***************************************************************************)
EXTENDS Naturals, Sequences, FiniteSets

CONSTANTS
    Deliveries,     \* bound on the requests Tencent makes
    Events,         \* records [event, meeting, operator, creator]
    Attempts,       \* Attempts[e]: bound on the requests for one event
    Users, Meetings, None,
    Lower, IgnoresCase,     \* see MeetingTables
    Outages,        \* the sets of stores that may be down
    MaxTableFaults, MaxDbFaults,
    MaxCrashes      \* bound on the restarts of the process

VARIABLES
    userRows, meetingRows, call, tableFaults,
    platformUsers, records, dbCall, dbFaults,
    delivered,      \* delivered[d]: the event of request d, None before
    down,           \* the stores that are down
    crashes

Calls == Deliveries \X {"operator", "creator", "meeting"}
DbCalls == Deliveries \X {"platformUser", "record"}

Tables == INSTANCE MeetingTables
Database == INSTANCE MeetingDatabase

vars == <<userRows, meetingRows, call, tableFaults,
          platformUsers, records, dbCall, dbFaults, delivered, down, crashes>>

Supported == {"meeting.started", "meeting.end", "meeting.participant-joined"}

ASSUME EventsAssumption ==
    /\ None \notin Events
    /\ \A e \in Events : /\ e.event \in Supported \cup {"other"}
                         /\ e.meeting \in Meetings
                         /\ e.operator \in Users /\ e.creator \in Users

ASSUME TablesAssumption == Tables!TablesAssumptions

ASSUME DatabaseAssumption == Database!DatabaseAssumptions

ASSUME OutagesAssumption == Outages \subseteq SUBSET {"bitable", "postgres"}

ASSUME CrashesAssumption == MaxCrashes \in Nat

Init ==
    /\ Tables!TablesInit
    /\ Database!DatabaseInit
    /\ delivered = [d \in Deliveries |-> None]
    /\ down \in Outages
    /\ crashes = 0

-----------------------------------------------------------------------------
(* The upserts a handler starts: none where it returns NoCall *)

\* MeetingStartedHandler and MeetingEndedHandler leave out a creator who is
\* the operator; MeetingParticipantJoinedHandler does not.
TableCall(e, what) ==
    IF e.event \notin Supported \/ "bitable" \in down THEN Tables!NoCall
    ELSE CASE what = "operator" -> Tables!UserCall(e.operator)
           [] what = "creator" ->
                IF e.operator # e.creator \/ e.event = "meeting.participant-joined"
                THEN Tables!UserCall(e.creator) ELSE Tables!NoCall
           [] what = "meeting" ->
                Tables!PeopleCall(e.meeting, e.operator, e.creator)

\* Only MeetingStartedHandler and MeetingEndedHandler write the meeting, only
\* MeetingEndedHandler leaves the operator out.
DatabaseCall(e, what) ==
    CASE "postgres" \in down -> Database!NoDbCall
      [] what = "platformUser"
           /\ "postgres" \notin down
           /\ e.event \in {"meeting.started", "meeting.participant-joined"} ->
             Database!PlatformUserCall(e.operator)
      [] what = "record" /\ "postgres" \notin down
           /\ e.event \in {"meeting.started", "meeting.end"} ->
             Database!MeetingRecordCall(e.meeting, e.creator)
      [] OTHER -> Database!NoDbCall

\* Mutant: the handler, one object for all events, starts the upserts of the
\* others again.
DeliverStartsAll(d, e) ==
    /\ delivered[d] = None
    /\ Cardinality({b \in Deliveries : delivered[b] = e}) < Attempts[e]
    /\ delivered' = [delivered EXCEPT ![d] = e]
    /\ call' = [c \in Calls |-> TableCall(e, c[2])]
    /\ dbCall' = [c \in DbCalls |-> DatabaseCall(e, c[2])]
    /\ UNCHANGED <<userRows, meetingRows, tableFaults,
                   platformUsers, records, dbFaults, down, crashes>>

\* handleTencentWebhook, handleEvent, handle up to their first awaits.
Deliver(d, e) ==
    /\ delivered[d] = None
    /\ Cardinality({b \in Deliveries : delivered[b] = e}) < Attempts[e]
    /\ delivered' = [delivered EXCEPT ![d] = e]
    /\ call' = [c \in Calls |-> IF c[1] = d THEN TableCall(e, c[2]) ELSE call[c]]
    /\ dbCall' = [c \in DbCalls |->
                     IF c[1] = d THEN DatabaseCall(e, c[2]) ELSE dbCall[c]]
    /\ UNCHANGED <<userRows, meetingRows, tableFaults,
                   platformUsers, records, dbFaults, down, crashes>>

TableSteps ==
    /\ \E c \in {b \in Calls : call[b].at # "idle"} :
          Tables!TableStep(c) \/ Tables!RequestFails(c)
    /\ UNCHANGED <<platformUsers, records, dbCall, dbFaults, delivered, down, crashes>>

DatabaseSteps ==
    /\ \E c \in {b \in DbCalls : dbCall[b].at # "idle"} :
          Database!DbStep(c) \/ Database!StatementFails(c)
    /\ UNCHANGED <<userRows, meetingRows, call, tableFaults, delivered, down, crashes>>

\* Mutant: a transaction that was about to commit outlives the process.
CrashKeepsTransactions ==
    /\ crashes < MaxCrashes
    /\ crashes' = crashes + 1
    /\ Tables!LoseCalls
    /\ dbCall' = [c \in DbCalls |-> IF dbCall[c].at = "txCommit" THEN dbCall[c]
                                    ELSE Database!NoDbCall]
    /\ UNCHANGED <<platformUsers, records, dbFaults, delivered, down>>

Crash ==
    /\ crashes < MaxCrashes
    /\ crashes' = crashes + 1
    /\ Tables!LoseCalls
    /\ Database!LoseDbCalls
    /\ UNCHANGED <<delivered, down>>

Next ==
    \/ \E d \in Deliveries, e \in Events : Deliver(d, e)
    \/ TableSteps
    \/ DatabaseSteps
    \/ Crash

Spec == Init /\ [][Next]_vars

\* Bitable and Postgres answer at last, what waits for a lock gets on when it
\* is free, and Postgres aborts one of two transactions that block each other.
Fairness ==
    /\ \A c \in Calls : WF_vars(TableSteps /\ Tables!TableStep(c))
    /\ \A c \in DbCalls : WF_vars(DatabaseSteps /\ Database!DbStep(c))

FairSpec == Spec /\ Fairness

-----------------------------------------------------------------------------
(* Properties *)

Received == {delivered[d] : d \in Deliveries} \ {None}

\* An event may be about a row unless both name an occurrence and not the same.
MayBeAbout(e, row) ==
    /\ e.event \in Supported
    /\ e.meeting.id = row.meeting.id
    /\ row.meeting.sub # None => e.meeting.sub \in {None, row.meeting.sub}

\* Every participant of a meeting row is the operator or the creator of an
\* event that was received and may be about the row, and its creator is that
\* of an event whose search finds the row.  No occurrence of a meeting gets the
\* people of another one; the row of no occurrence may have those of any
\* (MeetingBitableService.updateMeetingParticipants, upsertMeetingRecord).
ParticipantsWereThere ==
    \A i \in 1..Len(meetingRows) :
        /\ \A p \in meetingRows[i].people : \E e \in Received :
              /\ MayBeAbout(e, meetingRows[i])
              /\ userRows[p].uuid \in {e.operator, e.creator}
        /\ meetingRows[i].version > 0 => \E e \in Received :
              /\ e.event \in Supported /\ Tables!Matches(meetingRows[i], e.meeting)
              /\ userRows[meetingRows[i].owner].uuid = e.creator

\* The creator and the host of a meeting in the database are committed rows,
\* though perhaps not one row, of the creator of an event of that meeting
\* (TencentMeetingRepository.upsertMeetingWithPlatformUsers).
RecordsHaveTheirCreator ==
    \A m \in Meetings : records[m] # Database!NoRecord =>
        /\ {records[m].creator, records[m].host} \subseteq 1..Len(platformUsers)
        /\ \E e \in Received :
              /\ e.event \in {"meeting.started", "meeting.end"} /\ e.meeting = m
              /\ platformUsers[records[m].creator].uuid = e.creator
              /\ platformUsers[records[m].host].uuid = e.creator

TablesTypeOK == Tables!TablesTypeOK
TwinsOverlap == Tables!TwinsOverlap
PeopleAreRows == Tables!PeopleAreRows
LostOnlyToStaleWrites == Tables!LostOnlyToStaleWrites
DatabaseTypeOK == Database!DatabaseTypeOK
PlatformTwinsOverlap == Database!PlatformTwinsOverlap

\* The handlers use the tables and the database as their modules have it: a
\* handler, a late answer or a crash leaves nothing half written in them.
ImplementsTables == Tables!TablesSpec
ImplementsDatabase == Database!DatabaseSpec

\* Whatever locks two deliveries of one event take, all upserts of a delivery
\* come to an end (TencentMeetingRepository.upsertMeetingWithPlatformUsers).
DeliveriesSettle ==
    \A d \in Deliveries : delivered[d] # None ~>
        /\ \A c \in Calls : c[1] = d => call[c] = Tables!NoCall
        /\ \A c \in DbCalls : c[1] = d => dbCall[c] = Database!NoDbCall
=============================================================================
