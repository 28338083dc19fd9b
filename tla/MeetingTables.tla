---------------------------- MODULE MeetingTables ----------------------------
(***************************************************************************)
(* The two Lark Bitable tables the meeting events are written to, the      *)
(* upsert of BitableService on them, and MeetingBitableService, which      *)
(* reads a meeting's participants, adds two and writes them back.          *)
(*                                                                         *)
(* Bitable is a remote service without transactions or unique keys.  One   *)
(* action per request to it.  A request may throw, or be answered without  *)
(* data: the code takes the second for "no such record".  Rows are never   *)
(* deleted, so that the identity of a row is its place in the table, and a *)
(* search returns rows in that order.                                      *)
(***************************************************************************)
EXTENDS Naturals, Sequences

CONSTANTS
    Calls,          \* slots for upserts in flight
    Users,          \* Tencent uuids
    Lower,          \* Lower[u]: u in lower case
    IgnoresCase,    \* whether the `is' of Bitable's search ignores case
    Meetings,       \* records [id, sub], sub = None for a meeting without one
    None,
    MaxTableFaults  \* bound on the failed requests of a behaviour

\* What the modules that use this one assume of its constants.  No user's
\* uuid differs from another's in case only.
TablesAssumptions ==
    /\ DOMAIN Lower = Users /\ IgnoresCase \in BOOLEAN
    /\ \A u, v \in Users : Lower[v] \in {u, Lower[u]} => u = v
    /\ \A m \in Meetings : DOMAIN m = {"id", "sub"}
    /\ None \notin Users /\ None \notin Meetings
    /\ MaxTableFaults \in Nat

VARIABLES
    userRows,       \* meeting user table
    meetingRows,    \* meeting table
    call,           \* call[c]: the upsert in slot c
    tableFaults

tableVars == <<userRows, meetingRows, call, tableFaults>>

(***************************************************************************)
(* History: `seen' is the length of the table when the request that led to *)
(* the creation of the row searched it, 0 if that search got no data.      *)
(* `version' counts the writes of `people'.                                *)
(***************************************************************************)
UserRow == [uuid: Users, seen: Nat]

MeetingRow == [meeting: Meetings, people: SUBSET Nat, owner: Nat,
               version: Nat, seen: Nat]

(***************************************************************************)
(* A call is at the operator's record, the creator's or the meeting's, and *)
(* about to send the request `step'.  A call of kind "user" has the user   *)
(* in `operator'; one of kind "bare" writes a meeting without its people.  *)
(* `base' is the version of the row that `people' was read from.           *)
(***************************************************************************)
NoCall == [kind |-> "none", at |-> "idle", step |-> "none",
           meeting |-> None, operator |-> None, creator |-> None,
           people |-> {}, owner |-> 0, base |-> 0, row |-> 0, seen |-> 0]

CallRecord == [kind: {"none", "user", "people", "bare"},
               at: {"idle", "operator", "creator", "meeting"},
               step: {"none", "read", "find", "search", "update", "create"},
               meeting: Meetings \cup {None}, operator: Users \cup {None},
               creator: Users \cup {None},
               people: SUBSET Nat, owner: Nat, base: Nat, row: Nat, seen: Nat]

TablesInit ==
    /\ userRows = << >>
    /\ meetingRows = << >>
    /\ call = [c \in Calls |-> NoCall]
    /\ tableFaults = 0

-----------------------------------------------------------------------------
(* Searching *)

\* The filter on meeting_id, with sub_meeting_id only where there is one.
Matches(row, m) ==
    /\ row.meeting.id = m.id
    /\ m.sub # None => row.meeting.sub = m.sub

UserOf(k) == IF k.at = "operator" THEN k.operator ELSE k.creator

\* The uuid a search for u is sent with: buildSearchFilter, the upsert's,
\* puts it in lower case, searchMeetingUserByUuid does not.
Sent(k, u) == IF k.step = "find" THEN u ELSE Lower[u]

\* Bitable's `is': the row of v, which has v as it came, is found for u.
Is(v, u, sent) == v = sent \/ (IgnoresCase /\ Lower[v] = Lower[u])

\* The user rows that k finds for u.
FoundUsers(k, u) == {i \in 1..Len(userRows) : Is(userRows[i].uuid, u, Sent(k, u))}

\* The ids of meetings are digits, and the same in lower case.
FoundMeetings(k) == {i \in 1..Len(meetingRows) : Matches(meetingRows[i], k.meeting)}

\* Mutant: the creator is looked up by the operator's uuid.
HitsOperator(k) ==
    IF k.at = "meeting" THEN FoundMeetings(k) ELSE FoundUsers(k, k.operator)

Hits(k) == IF k.at = "meeting" THEN FoundMeetings(k) ELSE FoundUsers(k, UserOf(k))

\* data.items[0]
First(hits) == CHOOSE i \in hits : \A j \in hits : i <= j

TableLength(k) ==
    IF k.at = "meeting" THEN Len(meetingRows) ELSE Len(userRows)

-----------------------------------------------------------------------------
(* Calls *)

\* upsertMeetingUserRecord
UserCall(u) ==
    [NoCall EXCEPT !.kind = "user", !.at = "operator", !.step = "search",
                   !.operator = u]

\* updateMeetingParticipants
PeopleCall(m, u, v) ==
    [NoCall EXCEPT !.kind = "people", !.at = "meeting", !.step = "read",
                   !.meeting = m, !.operator = u, !.creator = v]

\* upsertMeetingRecord of the repository, without participants
BareCall(m) ==
    [NoCall EXCEPT !.kind = "bare", !.at = "meeting", !.step = "search",
                   !.meeting = m]

FirstSteps ==
    {UserCall(u) : u \in Users} \cup {BareCall(m) : m \in Meetings}
        \cup {PeopleCall(m, u, v) : m \in Meetings, u \in Users, v \in Users}

\* Any number of calls start at once.
CallsStart ==
    /\ UNCHANGED <<userRows, meetingRows, tableFaults>>
    /\ \A c \in Calls : call'[c] # call[c] =>
           call[c] = NoCall /\ call'[c] \in FirstSteps
    /\ call' \in [Calls -> CallRecord]

Become(c, k) == call' = [call EXCEPT ![c] = k]

\* Mutant: the creator is kept as such and left out of the participants.
ResolvedWithoutCreator(k, id) ==
    IF k.kind = "user" \/ k.at = "meeting" THEN NoCall
    ELSE IF k.at = "operator"
    THEN [k EXCEPT !.people = @ \cup {id}, !.at = "creator", !.step = "find",
                   !.row = 0, !.seen = 0]
    ELSE [k EXCEPT !.owner = id, !.at = "meeting",
                   !.step = "search", !.row = 0, !.seen = 0]

\* What the call is after it has the record id it was after.
Resolved(k, id) ==
    IF k.kind = "user" \/ k.at = "meeting" THEN NoCall
    ELSE IF k.at = "operator"
    THEN [k EXCEPT !.people = @ \cup {id}, !.at = "creator", !.step = "find",
                   !.row = 0, !.seen = 0]
    ELSE [k EXCEPT !.people = @ \cup {id}, !.owner = id, !.at = "meeting",
                   !.step = "search", !.row = 0, !.seen = 0]

\* Mutant: the participants the meeting has are not read back.
SnapshotOfNone(k) ==
    IF Hits(k) = {} THEN [people |-> {}, version |-> 0]
    ELSE [people |-> {}, version |-> meetingRows[First(Hits(k))].version]

Snapshot(k) ==
    IF Hits(k) = {} THEN [people |-> {}, version |-> 0]
    ELSE [people |-> meetingRows[First(Hits(k))].people,
          version |-> meetingRows[First(Hits(k))].version]

\* updateMeetingParticipants: the participants the meeting has.
ReadMeeting(c) ==
    /\ call[c].step = "read"
    /\ Become(c, [call[c] EXCEPT !.people = Snapshot(call[c]).people,
                                 !.base = Snapshot(call[c]).version,
                                 !.at = "operator", !.step = "find"])
    /\ UNCHANGED <<userRows, meetingRows, tableFaults>>

\* findMeetingUserByUuid, and the upsert where it finds nobody.
FindUser(c) ==
    /\ call[c].step = "find"
    /\ IF Hits(call[c]) # {}
       THEN Become(c, Resolved(call[c], First(Hits(call[c]))))
       ELSE Become(c, [call[c] EXCEPT !.step = "search"])
    /\ UNCHANGED <<userRows, meetingRows, tableFaults>>

\* Mutant: an empty result is not told from one with items.
SearchTakesMiss(c) ==
    /\ call[c].step = "search"
    /\ Become(c, [call[c] EXCEPT !.step = "update",
                                 !.row = IF Hits(call[c]) = {} THEN 0
                                         ELSE First(Hits(call[c]))])
    /\ UNCHANGED <<userRows, meetingRows, tableFaults>>

\* Mutant: the filter matches nothing.
SearchMisses(c) ==
    /\ call[c].step = "search"
    /\ Become(c, [call[c] EXCEPT !.step = "create",
                                 !.seen = TableLength(call[c])])
    /\ UNCHANGED <<userRows, meetingRows, tableFaults>>

\* upsertRecord: the search.
SearchRecord(c) ==
    /\ call[c].step = "search"
    /\ IF Hits(call[c]) # {}
       THEN Become(c, [call[c] EXCEPT !.step = "update",
                                      !.row = First(Hits(call[c]))])
       ELSE Become(c, [call[c] EXCEPT !.step = "create",
                                      !.seen = TableLength(call[c])])
    /\ UNCHANGED <<userRows, meetingRows, tableFaults>>

\* Fields of the meeting record that a call of kind "bare" does not name stay.
Written(row, k) ==
    IF k.kind = "people"
    THEN [row EXCEPT !.people = k.people, !.owner = k.owner,
                     !.version = @ + 1]
    ELSE row

\* The row that the search found is written; a user's has the uuid already.
UpdatesRow(c) ==
    /\ call[c].step = "update"
    /\ meetingRows' = IF call[c].at = "meeting"
                      THEN [meetingRows EXCEPT ![call[c].row] = Written(@, call[c])]
                      ELSE meetingRows
    /\ UNCHANGED userRows

\* A new row is written.
CreatesRow(c) ==
    /\ call[c].step = "create"
    /\ IF call[c].at = "meeting"
       THEN /\ meetingRows' = Append(meetingRows,
                   Written([meeting |-> call[c].meeting, people |-> {},
                            owner |-> 0, version |-> 0, seen |-> call[c].seen],
                           call[c]))
            /\ UNCHANGED userRows
       ELSE /\ userRows' = Append(userRows, [uuid |-> UserOf(call[c]),
                                             seen |-> call[c].seen])
            /\ UNCHANGED meetingRows

\* upsertRecord: the update.
UpdateRecord(c) ==
    /\ UpdatesRow(c)
    /\ Become(c, Resolved(call[c], call[c].row))
    /\ UNCHANGED tableFaults

\* upsertRecord: the creation.
CreateRecord(c) ==
    /\ CreatesRow(c)
    /\ Become(c, Resolved(call[c], TableLength(call[c]) + 1))
    /\ UNCHANGED tableFaults

TableStep(c) ==
    \/ ReadMeeting(c) \/ FindUser(c)
    \/ SearchRecord(c) \/ UpdateRecord(c) \/ CreateRecord(c)

-----------------------------------------------------------------------------
(* Failures *)

\* The request throws: so does the call.
RequestThrows(c) ==
    /\ call[c].at # "idle"
    /\ Become(c, NoCall)

\* An answer without data is read as an empty one; an update without a record
\* is followed by a creation; a creation without a record throws.
RequestWithoutData(c) ==
    /\ \/ /\ call[c].step = "read"
          /\ Become(c, [call[c] EXCEPT !.at = "operator", !.step = "find"])
       \/ /\ call[c].step = "find"
          /\ Become(c, [call[c] EXCEPT !.step = "search"])
       \/ /\ call[c].step \in {"search", "update"}
          /\ Become(c, [call[c] EXCEPT !.step = "create", !.row = 0])
       \/ /\ call[c].step = "create"
          /\ Become(c, NoCall)

\* The row is written and the answer lost: the call throws.
AnswerLost(c) ==
    /\ UpdatesRow(c) \/ CreatesRow(c)
    /\ Become(c, NoCall)

RequestFails(c) ==
    /\ tableFaults < MaxTableFaults
    /\ tableFaults' = tableFaults + 1
    /\ \/ /\ RequestThrows(c) \/ RequestWithoutData(c)
          /\ UNCHANGED <<userRows, meetingRows>>
       \/ AnswerLost(c)

\* The process dies, and the calls with it.
LoseCalls ==
    /\ call' = [c \in Calls |-> NoCall]
    /\ UNCHANGED <<userRows, meetingRows, tableFaults>>

TablesNext ==
    \/ CallsStart
    \/ \E c \in Calls : TableStep(c) \/ RequestFails(c)
    \/ LoseCalls

TablesSpec == TablesInit /\ [][TablesNext]_tableVars

-----------------------------------------------------------------------------
(* Properties *)

\* Where a call is, and what it needs there.
CallOK(k) ==
    \/ k = NoCall
    \/ /\ k.kind = "user" /\ k.operator \in Users
       /\ k.at = "operator" /\ k.step \in {"search", "update", "create"}
       /\ k.people = {}
    \/ /\ k.kind = "people" /\ k.meeting \in Meetings
       /\ k.operator \in Users /\ k.creator \in Users
       /\ \/ k.at = "meeting" /\ k.step \in {"read", "search", "update", "create"}
          \/ k.at \in {"operator", "creator"}
                /\ k.step \in {"find", "search", "update", "create"}
    \/ /\ k.kind = "bare" /\ k.meeting \in Meetings
       /\ k.at = "meeting" /\ k.step \in {"search", "update", "create"}
       /\ k.people = {}

TablesTypeOK ==
    /\ userRows \in Seq(UserRow)
    /\ meetingRows \in Seq(MeetingRow)
    /\ call \in [Calls -> CallRecord]
    /\ \A c \in Calls :
          /\ CallOK(call[c])
          /\ call[c].step = "update" => call[c].row \in 1..TableLength(call[c])
    /\ tableFaults \in 0..MaxTableFaults

\* The upsert of u can find u's row.
Searchable(u) == IgnoresCase \/ Lower[u] = u

\* A second row for one user, or for one meeting, is made only by an upsert
\* whose search ran before the first row was there, or got no data
\* (BitableService.upsertRecord).  It is not so for a user whose uuid has
\* capitals, if Bitable minds case: no upsert finds that user's row, and each
\* makes another one.
TwinsOverlap ==
    /\ \A i, j \in 1..Len(userRows) :
          /\ i < j /\ userRows[i].uuid = userRows[j].uuid
          /\ Searchable(userRows[i].uuid)
          => userRows[j].seen < i
    /\ \A i, j \in 1..Len(meetingRows) :
          i < j /\ meetingRows[i].meeting = meetingRows[j].meeting =>
              meetingRows[j].seen < i

\* Every participant of a meeting is a row of the user table, its creator is
\* one of them, and so is every participant an update is about to write
\* (MeetingBitableService.updateMeetingParticipants).
PeopleAreRows ==
    /\ \A i \in 1..Len(meetingRows) :
          /\ meetingRows[i].people \subseteq 1..Len(userRows)
          /\ meetingRows[i].version > 0 =>
                meetingRows[i].owner \in meetingRows[i].people
    /\ \A c \in Calls : call[c].people \subseteq 1..Len(userRows)

\* The write of a call that read the participants of row i, and of the last
\* version of them, loses none; the others may
\* (MeetingBitableService.updateMeetingParticipants).
StaleWrite(i) ==
    \E c \in Calls : /\ call[c].at = "meeting" /\ call[c].step = "update"
                     /\ call[c].row = i /\ call[c].base # meetingRows[i].version
                     /\ call'[c] = NoCall

LostOnlyToStaleWrites ==
    [][\A i \in 1..Len(meetingRows) :
          meetingRows[i].people \subseteq meetingRows'[i].people \/ StaleWrite(i)
      ]_tableVars

\* The later of two rows for one meeting is dead: searches find the first,
\* and no step writes the later one again (BitableService.upsertRecord).
LaterTwinsNeverWritten ==
    [][\A i, j \in 1..Len(meetingRows) :
          i < j /\ meetingRows[i].meeting = meetingRows[j].meeting =>
              meetingRows'[j] = meetingRows[j]
      ]_tableVars
=============================================================================
