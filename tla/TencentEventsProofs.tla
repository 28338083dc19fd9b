------------------------ MODULE TencentEventsProofs ------------------------
(***************************************************************************)
(* The handlers of the Tencent events implement the specifications of the  *)
(* Bitable tables and of the database, for every set of deliveries, events *)
(* and users.  What MeetingTablesProofs shows of the tables, and the last  *)
(* sections here show of the database alone, holds under them.             *)
(*                                                                         *)
(* A delivery starts its upserts in slots of its own, once: the slots of a *)
(* delivery that has not come are free, which is all that the step of a    *)
(* delivery needs to be a step CallsStart of the tables.  Besides what is  *)
(* shown of the upserts alone, a transaction in the slot of a delivery has *)
(* the meeting and the creator of its event (CallsOfEvents), from its      *)
(* first statement to its commit.  Of DeliveriesSettle, which is about     *)
(* fairness, the last sections have what the steps themselves contribute:  *)
(* no set of upserts waits for good, and each step takes its upsert on.    *)
(***************************************************************************)
EXTENDS TencentEvents, FiniteSetTheorems, SequenceTheorems, TLAPS

TablesP == INSTANCE MeetingTablesProofs

\* The slots of a request that has not come are free.
SlotsFree == \A c \in Calls : delivered[c[1]] = None => call[c] = Tables!NoCall

EventsInv ==
    /\ TablesP!TablesInv
    /\ delivered \in [Deliveries -> Events \cup {None}]
    /\ SlotsFree

-----------------------------------------------------------------------------
(* The tables of TencentEvents are those of the proofs *)

LEMMA Assumed == TablesP!TablesAssumptions
  BY TablesAssumption DEF Tables!TablesAssumptions, TablesP!TablesAssumptions

LEMMA SameOperators ==
  /\ Tables!NoCall = TablesP!NoCall
  /\ Tables!CallRecord = TablesP!CallRecord
  /\ Tables!FirstSteps = TablesP!FirstSteps
  /\ \A k : Tables!Hits(k) = TablesP!Hits(k)
  /\ \A h : Tables!First(h) = TablesP!First(h)
  /\ \A k : Tables!TableLength(k) = TablesP!TableLength(k)
  /\ \A k, id : Tables!Resolved(k, id) = TablesP!Resolved(k, id)
  /\ \A k : Tables!Snapshot(k) = TablesP!Snapshot(k)
  /\ \A c, k : Tables!Become(c, k) <=> TablesP!Become(c, k)
  <1>1. Tables!NoCall = TablesP!NoCall
    BY DEF Tables!NoCall, TablesP!NoCall
  <1>2. Tables!CallRecord = TablesP!CallRecord
    BY DEF Tables!CallRecord, TablesP!CallRecord
  <1>3. Tables!FirstSteps = TablesP!FirstSteps
    BY DEF Tables!FirstSteps, Tables!UserCall, Tables!BareCall, Tables!PeopleCall,
           Tables!NoCall, TablesP!FirstSteps, TablesP!UserCall, TablesP!BareCall,
           TablesP!PeopleCall, TablesP!NoCall
  <1>4. \A k : Tables!Hits(k) = TablesP!Hits(k)
    <2>1. \A k : Tables!FoundMeetings(k) = TablesP!FoundMeetings(k)
      BY DEF Tables!FoundMeetings, Tables!Matches,
             TablesP!FoundMeetings, TablesP!Matches
    <2>2. \A k, u : Tables!FoundUsers(k, u) = TablesP!FoundUsers(k, u)
      BY DEF Tables!FoundUsers, Tables!Is, Tables!Sent,
             TablesP!FoundUsers, TablesP!Is, TablesP!Sent
    <2>3. \A k : Tables!UserOf(k) = TablesP!UserOf(k)
      BY DEF Tables!UserOf, TablesP!UserOf
    <2> QED BY <2>1, <2>2, <2>3 DEF Tables!Hits, TablesP!Hits
  <1>5. \A h : Tables!First(h) = TablesP!First(h)
    BY DEF Tables!First, TablesP!First
  <1>6. \A k : Tables!TableLength(k) = TablesP!TableLength(k)
    BY DEF Tables!TableLength, TablesP!TableLength
  <1>7. \A k, id : Tables!Resolved(k, id) = TablesP!Resolved(k, id)
    BY DEF Tables!Resolved, Tables!NoCall, TablesP!Resolved, TablesP!NoCall
  <1>8. \A k : Tables!Snapshot(k) = TablesP!Snapshot(k)
    BY <1>4, <1>5 DEF Tables!Snapshot, TablesP!Snapshot
  <1>9. \A c, k : Tables!Become(c, k) <=> TablesP!Become(c, k)
    BY DEF Tables!Become, TablesP!Become
  <1> QED BY <1>1, <1>2, <1>3, <1>4, <1>5, <1>6, <1>7, <1>8, <1>9

LEMMA SameSteps ==
  /\ \A c : Tables!TableStep(c) <=> TablesP!TableStep(c)
  /\ \A c : Tables!RequestFails(c) <=> TablesP!RequestFails(c)
  <1>1. \A c : Tables!ReadMeeting(c) <=> TablesP!ReadMeeting(c)
    BY SameOperators DEF Tables!ReadMeeting, TablesP!ReadMeeting
  <1>2. \A c : Tables!FindUser(c) <=> TablesP!FindUser(c)
    BY SameOperators DEF Tables!FindUser, TablesP!FindUser
  <1>3. \A c : Tables!SearchRecord(c) <=> TablesP!SearchRecord(c)
    BY SameOperators DEF Tables!SearchRecord, TablesP!SearchRecord
  <1>4. \A c : Tables!UpdatesRow(c) <=> TablesP!UpdatesRow(c)
    BY DEF Tables!UpdatesRow, Tables!Written, TablesP!UpdatesRow, TablesP!Written
  <1>5. \A c : Tables!CreatesRow(c) <=> TablesP!CreatesRow(c)
    BY DEF Tables!CreatesRow, Tables!Written, Tables!UserOf,
           TablesP!CreatesRow, TablesP!Written, TablesP!UserOf
  <1>6. \A c : Tables!UpdateRecord(c) <=> TablesP!UpdateRecord(c)
    BY <1>4, SameOperators DEF Tables!UpdateRecord, TablesP!UpdateRecord
  <1>7. \A c : Tables!CreateRecord(c) <=> TablesP!CreateRecord(c)
    BY <1>5, SameOperators DEF Tables!CreateRecord, TablesP!CreateRecord
  <1>8. \A c : Tables!RequestThrows(c) <=> TablesP!RequestThrows(c)
    BY SameOperators DEF Tables!RequestThrows, TablesP!RequestThrows
  <1>9. \A c : Tables!RequestWithoutData(c) <=> TablesP!RequestWithoutData(c)
    BY SameOperators DEF Tables!RequestWithoutData, TablesP!RequestWithoutData
  <1>10. \A c : Tables!AnswerLost(c) <=> TablesP!AnswerLost(c)
    BY <1>4, <1>5, SameOperators DEF Tables!AnswerLost, TablesP!AnswerLost
  <1>11. \A c : Tables!TableStep(c) <=> TablesP!TableStep(c)
    BY <1>1, <1>2, <1>3, <1>6, <1>7 DEF Tables!TableStep, TablesP!TableStep
  <1>12. \A c : Tables!RequestFails(c) <=> TablesP!RequestFails(c)
    BY <1>8, <1>9, <1>10 DEF Tables!RequestFails, TablesP!RequestFails
  <1> QED BY <1>11, <1>12

LEMMA SameNext ==
  [Tables!TablesNext]_(Tables!tableVars) => [TablesP!TablesNext]_(TablesP!tableVars)
  <1>1. Tables!CallsStart <=> TablesP!CallsStart
    BY SameOperators DEF Tables!CallsStart, TablesP!CallsStart
  <1>2. Tables!LoseCalls <=> TablesP!LoseCalls
    BY SameOperators DEF Tables!LoseCalls, TablesP!LoseCalls
  <1>3. Tables!TablesNext <=> TablesP!TablesNext
    BY <1>1, <1>2, SameSteps DEF Tables!TablesNext, TablesP!TablesNext
  <1> QED BY <1>3 DEF Tables!tableVars, TablesP!tableVars

-----------------------------------------------------------------------------
(* Steps *)

LEMMA TableCallStarts ==
  ASSUME NEW e \in Events, NEW what \in {"operator", "creator", "meeting"}
  PROVE  TableCall(e, what) = Tables!NoCall \/ TableCall(e, what) \in Tables!FirstSteps
  <1>1. e.meeting \in Meetings /\ e.operator \in Users /\ e.creator \in Users
    BY EventsAssumption
  <1>2. /\ Tables!UserCall(e.operator) \in Tables!FirstSteps
        /\ Tables!UserCall(e.creator) \in Tables!FirstSteps
        /\ Tables!PeopleCall(e.meeting, e.operator, e.creator) \in Tables!FirstSteps
    BY <1>1 DEF Tables!FirstSteps
  <1> QED BY <1>2 DEF TableCall

LEMMA FirstStepsAreCalls ==
  /\ Tables!NoCall \in Tables!CallRecord
  /\ Tables!FirstSteps \subseteq Tables!CallRecord
  <1>1. Tables!NoCall \in Tables!CallRecord
    BY DEF Tables!NoCall, Tables!CallRecord
  <1>2. ASSUME NEW k \in Tables!FirstSteps
        PROVE  k \in Tables!CallRecord
    <2>1. CASE \E u \in Users : k = Tables!UserCall(u)
      BY <1>1, <2>1 DEF Tables!UserCall, Tables!CallRecord
    <2>2. CASE \E m \in Meetings : k = Tables!BareCall(m)
      BY <1>1, <2>2 DEF Tables!BareCall, Tables!CallRecord
    <2>3. CASE \E m \in Meetings, u \in Users, v \in Users : k = Tables!PeopleCall(m, u, v)
      BY <1>1, <2>3 DEF Tables!PeopleCall, Tables!CallRecord
    <2> QED BY <2>1, <2>2, <2>3 DEF Tables!FirstSteps
  <1> QED BY <1>1, <1>2

\* A delivery starts calls in slots that are free.
LEMMA DeliverStarts ==
  ASSUME EventsInv, NEW d \in Deliveries, NEW e \in Events, Deliver(d, e)
  PROVE  Tables!CallsStart /\ SlotsFree' /\ delivered' \in [Deliveries -> Events \cup {None}]
  <1>1. call \in [Calls -> Tables!CallRecord]
    BY SameOperators DEF EventsInv, TablesP!TablesInv
  <1>2. /\ delivered[d] = None /\ delivered' = [delivered EXCEPT ![d] = e]
        /\ call' = [c \in Calls |-> IF c[1] = d THEN TableCall(e, c[2]) ELSE call[c]]
        /\ UNCHANGED <<userRows, meetingRows, tableFaults>>
    BY DEF Deliver
  <1>3. \A c \in Calls : c[1] \in Deliveries /\ c[2] \in {"operator", "creator", "meeting"}
    BY DEF Calls
  <1>4. ASSUME NEW c \in Calls
        PROVE  /\ call'[c] \in Tables!CallRecord
               /\ call'[c] # call[c] =>
                     call[c] = Tables!NoCall /\ call'[c] \in Tables!FirstSteps
    <2>1. CASE c[1] # d
      BY <1>1, <1>2, <2>1
    <2>2. CASE c[1] = d
      <3>1. call'[c] = TableCall(e, c[2]) /\ call[c] = Tables!NoCall
        BY <1>2, <2>2 DEF EventsInv, SlotsFree
      <3>2. TableCall(e, c[2]) = Tables!NoCall \/ TableCall(e, c[2]) \in Tables!FirstSteps
        BY <1>3, TableCallStarts
      <3> QED BY <3>1, <3>2, FirstStepsAreCalls
    <2> QED BY <2>1, <2>2
  <1>5. Tables!CallsStart
    BY <1>2, <1>4 DEF Tables!CallsStart
  <1>6. e # None
    BY EventsAssumption
  <1>7. SlotsFree'
    <2> SUFFICES ASSUME NEW c \in Calls, delivered'[c[1]] = None
                 PROVE  call'[c] = Tables!NoCall
      BY DEF SlotsFree, Calls, Tables!NoCall
    <2>1. c[1] # d /\ delivered[c[1]] = None
      BY <1>2, <1>3, <1>6 DEF EventsInv
    <2> QED BY <1>2, <2>1 DEF EventsInv, SlotsFree
  <1> QED BY <1>2, <1>5, <1>7 DEF EventsInv

\* A call that makes a step was started.
LEMMA StepsAreDelivered ==
  ASSUME EventsInv, NEW c \in Calls, Tables!TableStep(c) \/ Tables!RequestFails(c)
  PROVE  delivered[c[1]] # None /\ \E k : Tables!Become(c, k)
  <1>1. call[c] # Tables!NoCall /\ \E k : Tables!Become(c, k)
    <2>1. CASE Tables!TableStep(c)
      BY <2>1 DEF Tables!TableStep, Tables!ReadMeeting, Tables!FindUser,
         Tables!SearchRecord, Tables!UpdateRecord, Tables!CreateRecord,
         Tables!UpdatesRow, Tables!CreatesRow, Tables!NoCall
    <2>2. CASE Tables!RequestFails(c)
      BY <2>2 DEF Tables!RequestFails, Tables!RequestThrows, Tables!RequestWithoutData,
         Tables!AnswerLost, Tables!UpdatesRow, Tables!CreatesRow, Tables!NoCall
    <2> QED BY <2>1, <2>2
  <1> QED BY <1>1 DEF EventsInv, SlotsFree

LEMMA EventsStep ==
  ASSUME EventsInv, [Next]_vars
  PROVE  EventsInv' /\ [Tables!TablesNext]_(Tables!tableVars)
  <1>1. TablesP!TablesInv /\ delivered \in [Deliveries -> Events \cup {None}] /\ SlotsFree
    BY DEF EventsInv
  <1>2. TablesP!TablesAssumptions
    BY Assumed
  <1>3. call \in [Calls -> Tables!CallRecord]
    BY <1>1, SameOperators DEF TablesP!TablesInv
  <1>4. SlotsFree' /\ delivered' \in [Deliveries -> Events \cup {None}]
          /\ [Tables!TablesNext]_(Tables!tableVars)
    <2>1. CASE \E d \in Deliveries, e \in Events : Deliver(d, e)
      BY <2>1, DeliverStarts DEF Tables!TablesNext
    <2>2. CASE TableSteps
      <3>1. PICK c \in Calls : Tables!TableStep(c) \/ Tables!RequestFails(c)
        BY <2>2 DEF TableSteps
      <3>2. delivered' = delivered
        BY <2>2 DEF TableSteps
      <3>3. delivered[c[1]] # None /\ \E k : Tables!Become(c, k)
        BY <3>1, StepsAreDelivered
      <3>4. SlotsFree'
        <4> SUFFICES ASSUME NEW b \in Calls, delivered'[b[1]] = None
                     PROVE  call'[b] = Tables!NoCall
          BY DEF SlotsFree, Calls, Tables!NoCall
        <4>1. b # c /\ call[b] = Tables!NoCall
          BY <1>1, <3>2, <3>3 DEF SlotsFree
        <4> QED BY <1>3, <3>3, <4>1 DEF Tables!Become
      <3> QED BY <1>1, <3>1, <3>2, <3>4 DEF Tables!TablesNext
    <2>3. CASE DatabaseSteps \/ UNCHANGED vars
      BY <1>1, <2>3 DEF DatabaseSteps, vars, Tables!tableVars, SlotsFree, Calls, Tables!NoCall
    <2>4. CASE Crash
      BY <1>1, <2>4 DEF Crash, Tables!LoseCalls, Tables!TablesNext, SlotsFree, Calls, Tables!NoCall
    <2> QED BY <2>1, <2>2, <2>3, <2>4 DEF Next
  <1>5. [TablesP!TablesNext]_(TablesP!tableVars)
    BY <1>4, SameNext
  <1>6. TablesP!TablesInv'
    BY <1>1, <1>2, <1>5, TablesP!StepInv
  <1> QED BY <1>4, <1>6 DEF EventsInv

LEMMA EventsStart == Init => EventsInv /\ Tables!TablesInit
  <1> SUFFICES ASSUME Init PROVE EventsInv /\ Tables!TablesInit
    OBVIOUS
  <1>1. Tables!TablesInit /\ delivered = [d \in Deliveries |-> None]
    BY DEF Init
  <1>2. TablesP!TablesInit
    BY <1>1, SameOperators DEF Tables!TablesInit, TablesP!TablesInit
  <1>3. TablesP!TablesAssumptions
    BY Assumed
  <1>4. TablesP!TablesInv
    BY <1>2, <1>3, TablesP!InitInv
  <1>5. SlotsFree
    BY <1>1 DEF SlotsFree, Tables!TablesInit
  <1> QED BY <1>1, <1>4, <1>5 DEF EventsInv

-----------------------------------------------------------------------------
(* Theorems *)

\* The upserts that the handlers start on Bitable keep the invariant of the
\* tables, and run in slots of their own delivery
\* (TencentEventHandlerService.handleEvent).
THEOREM EventsInvariant == Spec => []EventsInv
  BY EventsStart, EventsStep, PTL DEF Spec

\* The handlers implement the specification of the tables: a step of theirs is
\* a step of the tables or leaves them alone (MeetingBitableService).
THEOREM HandlersUseTables == Spec => ImplementsTables
  <1>1. EventsInv /\ [Next]_vars => [Tables!TablesNext]_(Tables!tableVars)
    BY EventsStep
  <1> QED
    BY <1>1, EventsStart, EventsInvariant, PTL DEF Spec, ImplementsTables, Tables!TablesSpec

\* Under the handlers, as in the tables alone: the rows and the calls in
\* flight have the shapes the code relies on (BitableService.upsertRecord).
THEOREM HandlersKeepTypes == Spec => []TablesTypeOK
  <1>1. TablesP!TablesInv => TablesP!TablesTypeOK
    BY Assumed, TablesP!InvTypeOK
  <1>2. TablesP!TablesTypeOK => TablesTypeOK
    BY SameOperators
       DEF TablesP!TablesTypeOK, TablesP!CallOK, TablesP!UserRow, TablesP!MeetingRow,
           TablesTypeOK, Tables!TablesTypeOK, Tables!CallOK, Tables!UserRow,
           Tables!MeetingRow
  <1> QED BY <1>1, <1>2, EventsInvariant, PTL DEF EventsInv

\* Of two rows for a user or a meeting, the search behind the later preceded
\* the first or got no data, whatever events come, again or out of order; of
\* users, those that the upsert's lower-cased search can find: all of them if
\* Bitable ignores case, else those whose uuid has no capitals
\* (BitableService.upsertRecord, buildSearchFilter).
THEOREM HandlersMakeTwinsByOverlap == Spec => []TwinsOverlap
  <1>1. TablesP!TablesInv => TwinsOverlap
    BY DEF TablesP!TablesInv, TablesP!RowsOK, TablesP!TwinsIn,
           TablesP!Searchable, TwinsOverlap, Tables!TwinsOverlap, Tables!Searchable
  <1> QED BY <1>1, EventsInvariant, PTL DEF EventsInv

\* The participants of a meeting are rows of the user table, those that an
\* update is about to write among them
\* (MeetingBitableService.updateMeetingParticipants).
THEOREM HandlersLinkToRows == Spec => []PeopleAreRows
  <1>1. TablesP!TablesInv => PeopleAreRows
    BY DEF TablesP!TablesInv, TablesP!RowsOK, TablesP!CallInv, TablesP!PeopleOK,
           PeopleAreRows, Tables!PeopleAreRows
  <1> QED BY <1>1, EventsInvariant, PTL DEF EventsInv

\* A participant is lost only to the write of a call that read an earlier
\* version of the row (MeetingBitableService.updateMeetingParticipants).
THEOREM HandlersLoseOnlyToStaleWrites == Spec => LostOnlyToStaleWrites
  <1>1. TablesP!TablesSpec => TablesP!LostOnlyToStaleWrites
    BY Assumed, TablesP!NoLossWithoutStaleness
  <1>2. Tables!TablesInit => TablesP!TablesInit
    BY SameOperators DEF Tables!TablesInit, TablesP!TablesInit
  <1>3. Tables!TablesSpec => TablesP!TablesSpec
    BY <1>2, SameNext, PTL DEF Tables!TablesSpec, TablesP!TablesSpec
  <1>4. ASSUME [\A i \in 1..Len(meetingRows) :
                  meetingRows[i].people \subseteq meetingRows'[i].people
                     \/ TablesP!StaleWrite(i)]_(TablesP!tableVars)
        PROVE  [\A i \in 1..Len(meetingRows) :
                  meetingRows[i].people \subseteq meetingRows'[i].people
                     \/ Tables!StaleWrite(i)]_(Tables!tableVars)
    BY <1>4, SameOperators DEF TablesP!StaleWrite, Tables!StaleWrite,
       TablesP!tableVars, Tables!tableVars
  <1>5. TablesP!LostOnlyToStaleWrites => LostOnlyToStaleWrites
    BY <1>4, PTL DEF TablesP!LostOnlyToStaleWrites, LostOnlyToStaleWrites,
       Tables!LostOnlyToStaleWrites
  <1> QED BY <1>1, <1>3, <1>5, HandlersUseTables, PTL DEF ImplementsTables

-----------------------------------------------------------------------------
(* Whose people a meeting has *)

\* User u is the operator or the creator of an event that may be about a row.
WasThere(row, u, dels) ==
    \E d \in Deliveries : /\ dels[d] \in Events /\ MayBeAbout(dels[d], row)
                          /\ u \in {dels[d].operator, dels[d].creator}

IsCreator(row, u, dels) ==
    \E d \in Deliveries : /\ dels[d] \in Events /\ dels[d].event \in Supported
                          /\ TablesP!Matches(row, dels[d].meeting)
                          /\ u = dels[d].creator

RowsOf(us, ms, dels) ==
    \A i \in 1..Len(ms) :
        /\ \A p \in ms[i].people : WasThere(ms[i], us[p].uuid, dels)
        /\ ms[i].version > 0 => IsCreator(ms[i], us[ms[i].owner].uuid, dels)

\* The row that the searches of a call find, if any, and find ever after.
Found(k, j, ms) ==
    j \in 1..Len(ms) /\ TablesP!Least(j, TablesP!MeetingHits(k.meeting, ms))

\* A call in the slot of delivery d is about the event of d; the people it has
\* are those of the event, or were there in the row that it has found.
CallOf(k, d, us, ms, dels) ==
    k.kind = "people" =>
        /\ dels[d] \in Events /\ dels[d].event \in Supported
        /\ k.meeting = dels[d].meeting
        /\ k.operator = dels[d].operator /\ k.creator = dels[d].creator
        /\ \A p \in k.people :
              \/ us[p].uuid \in {k.operator, k.creator}
              \/ \E j : Found(k, j, ms) /\ WasThere(ms[j], us[p].uuid, dels)
        /\ k.at = "meeting" /\ k.step # "read" => us[k.owner].uuid = k.creator

PeopleInv ==
    /\ RowsOf(userRows, meetingRows, delivered)
    /\ \A c \in Calls : CallOf(call[c], c[1], userRows, meetingRows, delivered)

LEMMA WasThereKept ==
  ASSUME NEW row, NEW row2, row2.meeting = row.meeting, NEW u, NEW dels, NEW dels2,
         \A d \in Deliveries : dels[d] \in Events => dels2[d] = dels[d]
  PROVE  /\ WasThere(row, u, dels) => WasThere(row2, u, dels2)
         /\ IsCreator(row, u, dels) => IsCreator(row2, u, dels2)
  BY DEF WasThere, IsCreator, MayBeAbout, TablesP!Matches

\* What holds of a call that waits holds after a request of another one.
LEMMA CallOfKept ==
  ASSUME NEW us, NEW ms, NEW us2, NEW ms2, NEW k, NEW d \in Deliveries, NEW dels, NEW dels2,
         TablesP!RowsOK(us, ms), TablesP!RowsOK(us2, ms2), TablesP!Grown(us, ms, us2, ms2),
         TablesP!CallInv(k, us, ms),
         \A b \in Deliveries : dels[b] \in Events => dels2[b] = dels[b],
         CallOf(k, d, us, ms, dels)
  PROVE  CallOf(k, d, us2, ms2, dels2)
  <1> SUFFICES ASSUME k.kind = "people" PROVE CallOf(k, d, us2, ms2, dels2)
    BY DEF CallOf
  <1>1. /\ k.people \subseteq 1..Len(us)
        /\ k.at = "meeting" /\ k.step # "read" => k.owner \in k.people
    BY DEF TablesP!CallInv, TablesP!PeopleOK
  <1>2. \A p \in 1..Len(us) : us2[p] = us[p]
    BY DEF TablesP!Grown
  <1>3. Len(ms) \in Nat /\ Len(ms2) \in Nat /\ Len(ms) <= Len(ms2)
    BY TablesP!Lengths DEF TablesP!Grown
  <1>4. ASSUME NEW j, Found(k, j, ms)
        PROVE  Found(k, j, ms2) /\ ms2[j].meeting = ms[j].meeting
    <2>1. TablesP!Least(j, TablesP!MeetingHits(k.meeting, ms2))
      BY <1>4, TablesP!LeastStays DEF Found
    <2> QED BY <1>3, <1>4, <2>1 DEF Found, TablesP!Grown
  <1>5. ASSUME NEW p \in k.people
        PROVE  \/ us2[p].uuid \in {k.operator, k.creator}
               \/ \E j : Found(k, j, ms2) /\ WasThere(ms2[j], us2[p].uuid, dels2)
    <2>1. us2[p] = us[p]
      BY <1>1, <1>2
    <2>2. CASE us[p].uuid \in {k.operator, k.creator}
      BY <2>1, <2>2
    <2>3. CASE \E j : Found(k, j, ms) /\ WasThere(ms[j], us[p].uuid, dels)
      <3>1. PICK j : Found(k, j, ms) /\ WasThere(ms[j], us[p].uuid, dels)
        BY <2>3
      <3>2. Found(k, j, ms2) /\ WasThere(ms2[j], us[p].uuid, dels2)
        BY <1>4, <3>1, WasThereKept
      <3> QED BY <2>1, <3>2
    <2> QED BY <2>2, <2>3 DEF CallOf
  <1>6. k.at = "meeting" /\ k.step # "read" => us2[k.owner].uuid = k.creator
    BY <1>1, <1>2 DEF CallOf
  <1>7. dels2[d] = dels[d]
    BY DEF CallOf
  <1> QED BY <1>5, <1>6, <1>7 DEF CallOf

\* The call that sends the request.
LEMMA CallOfMoves ==
  ASSUME NEW us, NEW ms, NEW us2, NEW ms2, NEW k, NEW n, NEW d \in Deliveries, NEW dels,
         TablesP!RowsOK(us, ms), TablesP!RowsOK(us2, ms2), TablesP!Grown(us, ms, us2, ms2),
         TablesP!CallInv(k, us, ms), TablesP!Carries(k, n, us2, ms),
         CallOf(k, d, us, ms, dels), RowsOf(us, ms, dels)
  PROVE  CallOf(n, d, us2, ms2, dels)
  <1> SUFFICES ASSUME n.kind = "people" PROVE CallOf(n, d, us2, ms2, dels)
    BY DEF CallOf
  <1>1. /\ k.kind = "people" /\ n.meeting = k.meeting
        /\ n.operator = k.operator /\ n.creator = k.creator
    BY DEF TablesP!Carries
  <1>2. /\ CallOf(k, d, us2, ms2, dels)
        /\ TablesP!CallInv(k, us2, ms2)
    BY CallOfKept, TablesP!CallKept
  <1>3. /\ dels[d] \in Events /\ dels[d].event \in Supported
        /\ n.meeting = dels[d].meeting
        /\ n.operator = dels[d].operator /\ n.creator = dels[d].creator
    BY <1>1 DEF CallOf
  <1>4. \A j : Found(k, j, ms2) <=> Found(n, j, ms2)
    BY <1>1 DEF Found
  <1>5. ASSUME NEW p \in k.people
        PROVE  \/ us2[p].uuid \in {n.operator, n.creator}
               \/ \E j : Found(n, j, ms2) /\ WasThere(ms2[j], us2[p].uuid, dels)
    BY <1>1, <1>2, <1>4 DEF CallOf
  <1>6. CASE TablesP!ReadsPeople(k, n, ms)
    <2>1. n.at = "operator"
      BY <1>6 DEF TablesP!ReadsPeople
    <2>2. CASE n.people \subseteq k.people
      BY <1>3, <1>5, <2>1, <2>2 DEF CallOf
    <2>3. CASE \E j \in 1..Len(ms) : /\ TablesP!Least(j, TablesP!MeetingHits(k.meeting, ms))
                                     /\ n.people = ms[j].people
      <3>1. PICK j \in 1..Len(ms) : /\ TablesP!Least(j, TablesP!MeetingHits(k.meeting, ms))
                                    /\ n.people = ms[j].people
        BY <2>3
      <3>2. /\ TablesP!Least(j, TablesP!MeetingHits(n.meeting, ms2))
            /\ j \in 1..Len(ms2) /\ ms2[j].meeting = ms[j].meeting
        <4>1. Len(ms) \in Nat /\ Len(ms2) \in Nat /\ Len(ms) <= Len(ms2)
          BY TablesP!Lengths DEF TablesP!Grown
        <4>2. TablesP!Least(j, TablesP!MeetingHits(k.meeting, ms2))
          BY <3>1, TablesP!LeastStays
        <4> QED BY <1>1, <4>1, <4>2 DEF TablesP!Grown
      <3>3. ASSUME NEW p \in n.people
            PROVE  Found(n, j, ms2) /\ WasThere(ms2[j], us2[p].uuid, dels)
        <4>1. p \in 1..Len(us) /\ us2[p] = us[p]
          BY <3>1 DEF TablesP!RowsOK, TablesP!Grown
        <4>2. WasThere(ms[j], us[p].uuid, dels)
          BY <3>1 DEF RowsOf
        <4>3. WasThere(ms2[j], us[p].uuid, dels)
          BY <3>2, <4>2, WasThereKept
        <4> QED BY <3>2, <4>1, <4>3 DEF Found
      <3> QED BY <1>3, <2>1, <3>3 DEF CallOf
    <2> QED BY <1>6, <2>2, <2>3 DEF TablesP!ReadsPeople
  <1>7. CASE TablesP!AddsUser(k, n, us2)
    <2>1. PICK id \in 1..Len(us2) :
             /\ us2[id].uuid = TablesP!UserOf(k) /\ n.people = k.people \cup {id}
             /\ \/ k.at = "operator" /\ n.at = "creator"
                \/ k.at = "creator" /\ n.at = "meeting" /\ n.owner = id
      BY <1>7 DEF TablesP!AddsUser
    <2>2. us2[id].uuid \in {n.operator, n.creator}
      BY <1>1, <2>1 DEF TablesP!UserOf
    <2>3. n.at = "meeting" => us2[n.owner].uuid = n.creator
      BY <1>1, <2>1 DEF TablesP!UserOf
    <2> QED BY <1>3, <1>5, <2>1, <2>2, <2>3 DEF CallOf
  <1>8. CASE TablesP!KeepsPeople(k, n)
    <2>1. /\ k.step # "read" /\ n.at = k.at
          /\ n.people = k.people /\ n.owner = k.owner
      BY <1>8 DEF TablesP!KeepsPeople
    <2>2. n.at = "meeting" => us2[n.owner].uuid = n.creator
      BY <1>1, <1>2, <2>1 DEF CallOf
    <2> QED BY <1>3, <1>5, <2>1, <2>2 DEF CallOf
  <1> QED BY <1>6, <1>7, <1>8 DEF TablesP!Carries

\* The row that it writes.
LEMMA RowsOfMove ==
  ASSUME NEW us, NEW ms, NEW us2, NEW ms2, NEW k, NEW d \in Deliveries, NEW dels,
         TablesP!RowsOK(us, ms), TablesP!RowsOK(us2, ms2), TablesP!Grown(us, ms, us2, ms2),
         TablesP!CallInv(k, us, ms),
         \A i \in 1..Len(ms2) : TablesP!RowCarries(i, k, ms, ms2),
         CallOf(k, d, us, ms, dels), RowsOf(us, ms, dels)
  PROVE  RowsOf(us2, ms2, dels)
  <1> SUFFICES ASSUME NEW i \in 1..Len(ms2)
               PROVE  /\ \A p \in ms2[i].people : WasThere(ms2[i], us2[p].uuid, dels)
                      /\ ms2[i].version > 0 =>
                            IsCreator(ms2[i], us2[ms2[i].owner].uuid, dels)
    BY DEF RowsOf
  <1>1. /\ \A p \in 1..Len(us) : us2[p] = us[p]
        /\ \A j \in 1..Len(ms) : ms2[j].meeting = ms[j].meeting
        /\ Len(ms) \in Nat
    BY TablesP!Lengths DEF TablesP!Grown
  <1>2. CASE /\ i \in 1..Len(ms) /\ ms2[i].people = ms[i].people
             /\ ms2[i].owner = ms[i].owner /\ ms2[i].version = ms[i].version
    <2>1. /\ ms[i].people \subseteq 1..Len(us)
          /\ ms[i].version > 0 => ms[i].owner \in ms[i].people
      BY <1>2 DEF TablesP!RowsOK
    <2>2. /\ \A p \in ms[i].people : WasThere(ms[i], us[p].uuid, dels)
          /\ ms[i].version > 0 => IsCreator(ms[i], us[ms[i].owner].uuid, dels)
      BY <1>2 DEF RowsOf
    <2>3. \A u : /\ WasThere(ms[i], u, dels) => WasThere(ms2[i], u, dels)
                 /\ IsCreator(ms[i], u, dels) => IsCreator(ms2[i], u, dels)
      BY <1>1, <1>2, WasThereKept
    <2>4. ASSUME NEW p \in ms2[i].people
          PROVE  WasThere(ms2[i], us2[p].uuid, dels)
      <3>1. us2[p] = us[p] /\ WasThere(ms[i], us[p].uuid, dels)
        BY <1>1, <1>2, <2>1, <2>2
      <3> QED BY <2>3, <3>1
    <2>5. ASSUME ms2[i].version > 0
          PROVE  IsCreator(ms2[i], us2[ms2[i].owner].uuid, dels)
      <3>1. us2[ms2[i].owner] = us[ms[i].owner]
        BY <1>1, <1>2, <2>1, <2>5
      <3>2. IsCreator(ms[i], us[ms[i].owner].uuid, dels)
        BY <1>2, <2>2, <2>5
      <3> QED BY <2>3, <3>1, <3>2
    <2> QED BY <2>4, <2>5
  <1>3. CASE ms2[i].people = {} /\ ms2[i].version = 0
    BY <1>3
  <1>4. CASE /\ k.kind = "people" /\ k.at = "meeting" /\ k.step # "read"
             /\ ms2[i].people = k.people /\ ms2[i].owner = k.owner
             /\ \/ i \in 1..Len(ms)
                      /\ TablesP!Least(i, TablesP!MeetingHits(k.meeting, ms))
                \/ ms2[i].meeting = k.meeting
    <2>1. /\ k.people \subseteq 1..Len(us) /\ k.owner \in k.people
      BY <1>4 DEF TablesP!CallInv, TablesP!PeopleOK
    <2>2. /\ dels[d] \in Events /\ dels[d].event \in Supported
          /\ k.meeting = dels[d].meeting
          /\ k.operator = dels[d].operator /\ k.creator = dels[d].creator
          /\ us[k.owner].uuid = k.creator
      BY <1>4 DEF CallOf
    <2>3. TablesP!Matches(ms2[i], k.meeting)
      <3>1. CASE i \in 1..Len(ms) /\ TablesP!Least(i, TablesP!MeetingHits(k.meeting, ms))
        BY <1>1, <3>1 DEF TablesP!Least, TablesP!MeetingHits, TablesP!Matches
      <3>2. CASE ms2[i].meeting = k.meeting
        BY <3>2 DEF TablesP!Matches
      <3> QED BY <1>4, <3>1, <3>2
    <2>4. MayBeAbout(dels[d], ms2[i])
      BY <2>2, <2>3 DEF MayBeAbout, TablesP!Matches
    <2>5. ASSUME NEW p \in k.people
          PROVE  WasThere(ms2[i], us[p].uuid, dels)
      <3>1. CASE us[p].uuid \in {k.operator, k.creator}
        BY <2>2, <2>4, <3>1 DEF WasThere
      <3>2. CASE \E j : Found(k, j, ms) /\ WasThere(ms[j], us[p].uuid, dels)
        <4>1. PICK j : Found(k, j, ms) /\ WasThere(ms[j], us[p].uuid, dels)
          BY <3>2
        <4>2. CASE i \in 1..Len(ms) /\ TablesP!Least(i, TablesP!MeetingHits(k.meeting, ms))
          <5>1. i = j
            BY <1>1, <4>1, <4>2 DEF Found, TablesP!Least
          <5> QED BY <1>1, <4>1, <4>2, <5>1, WasThereKept
        <4>3. CASE ms2[i].meeting = k.meeting
          <5>1. TablesP!Matches(ms[j], k.meeting)
            BY <4>1 DEF Found, TablesP!Least, TablesP!MeetingHits
          <5>2. ASSUME NEW e, MayBeAbout(e, ms[j])
                PROVE  MayBeAbout(e, ms2[i])
            BY <4>3, <5>1, <5>2 DEF MayBeAbout, TablesP!Matches
          <5> QED BY <4>1, <5>2 DEF WasThere
        <4> QED BY <1>4, <4>2, <4>3
      <3> QED BY <1>4, <3>1, <3>2 DEF CallOf
    <2>6. IsCreator(ms2[i], us[k.owner].uuid, dels)
      BY <2>2, <2>3 DEF IsCreator
    <2> QED BY <1>1, <1>4, <2>1, <2>5, <2>6
  <1> QED BY <1>2, <1>3, <1>4 DEF TablesP!RowCarries

\* The first step of a call is about the event that starts it.
LEMMA StartOf ==
  ASSUME NEW e \in Events, NEW what \in {"operator", "creator", "meeting"},
         NEW d, NEW us, NEW ms, NEW dels, dels[d] = e
  PROVE  CallOf(TableCall(e, what), d, us, ms, dels)
  <1> DEFINE k == TableCall(e, what)
  <1> SUFFICES ASSUME k.kind = "people" PROVE CallOf(k, d, us, ms, dels)
    BY DEF CallOf
  <1>1. e.event \in Supported /\ k = Tables!PeopleCall(e.meeting, e.operator, e.creator)
    BY DEF TableCall, Tables!UserCall, Tables!NoCall
  <1>2. /\ k.meeting = e.meeting /\ k.operator = e.operator /\ k.creator = e.creator
        /\ k.people = {} /\ k.step = "read"
    BY <1>1 DEF Tables!PeopleCall, Tables!NoCall
  <1> HIDE DEF k
  <1> QED BY <1>1, <1>2 DEF CallOf

LEMMA PeopleStep ==
  ASSUME EventsInv, EventsInv', PeopleInv, [Next]_vars
  PROVE  PeopleInv'
  <1>1. /\ RowsOf(userRows, meetingRows, delivered)
        /\ \A c \in Calls : CallOf(call[c], c[1], userRows, meetingRows, delivered)
        /\ TablesP!RowsOK(userRows, meetingRows)
        /\ TablesP!RowsOK(userRows', meetingRows')
        /\ call \in [Calls -> TablesP!CallRecord]
        /\ \A c \in Calls : TablesP!CallInv(call[c], userRows, meetingRows)
        /\ \A c \in Calls : c[1] \in Deliveries /\ c[2] \in {"operator", "creator", "meeting"}
    BY DEF PeopleInv, EventsInv, TablesP!TablesInv, Calls
  <1> SUFFICES /\ RowsOf(userRows', meetingRows', delivered')
               /\ \A c \in Calls :
                     CallOf(call'[c], c[1], userRows', meetingRows', delivered')
    BY DEF PeopleInv, RowsOf, CallOf, Found, WasThere, IsCreator, MayBeAbout, Supported,
           Calls, TablesP!Matches, TablesP!Least, TablesP!MeetingHits
  <1>2. CASE \E d \in Deliveries, e \in Events : Deliver(d, e)
    <2>1. PICK d \in Deliveries, e \in Events : Deliver(d, e)
      BY <1>2
    <2>2. /\ delivered[d] = None /\ delivered' = [delivered EXCEPT ![d] = e]
          /\ call' = [c \in Calls |-> IF c[1] = d THEN TableCall(e, c[2]) ELSE call[c]]
          /\ userRows' = userRows /\ meetingRows' = meetingRows
      BY <2>1 DEF Deliver
    <2>3. /\ delivered'[d] = e
          /\ \A b \in Deliveries : delivered[b] \in Events => delivered'[b] = delivered[b]
      BY <2>2, EventsAssumption DEF EventsInv
    <2>4. RowsOf(userRows, meetingRows, delivered')
      BY <1>1, <2>3, WasThereKept DEF RowsOf
    <2>5. ASSUME NEW c \in Calls
          PROVE  CallOf(call'[c], c[1], userRows, meetingRows, delivered')
      <3>1. CASE c[1] = d
        <4>1. call'[c] = TableCall(e, c[2])
          BY <2>2, <3>1
        <4> QED BY <1>1, <2>3, <3>1, <4>1, StartOf
      <3>2. CASE c[1] # d
        <4>1. call'[c] = call[c]
          BY <2>2, <3>2
        <4>2. TablesP!Grown(userRows, meetingRows, userRows, meetingRows)
          BY <1>1, <2>2, TablesP!NothingGrown
        <4> QED BY <1>1, <2>3, <4>1, <4>2, CallOfKept
      <3> QED BY <3>1, <3>2
    <2> QED BY <2>2, <2>4, <2>5
  <1>3. CASE TableSteps
    <2>1. PICK c \in Calls : Tables!TableStep(c) \/ Tables!RequestFails(c)
      BY <1>3 DEF TableSteps
    <2>2. delivered' = delivered /\ (TablesP!TableStep(c) \/ TablesP!RequestFails(c))
      BY <1>3, <2>1, SameSteps DEF TableSteps
    <2>3. TablesP!TablesInv
      BY DEF EventsInv
    <2>4. PICK n : /\ TablesP!Become(c, n)
                   /\ \/ n = TablesP!NoCall
                      \/ TablesP!Carries(call[c], n, userRows', meetingRows)
      BY <2>2, <2>3, Assumed, TablesP!CallCarries
    <2>5. call'[c] = n /\ \A b \in Calls : b # c => call'[b] = call[b]
      BY <1>1, <2>4 DEF TablesP!Become
    <2>6. TablesP!Grown(userRows, meetingRows, userRows', meetingRows')
      BY <2>2, <2>3, TablesP!StepGrows
    <2>7. \A i \in 1..Len(meetingRows') :
             TablesP!RowCarries(i, call[c], meetingRows, meetingRows')
      BY <2>2, <2>3, TablesP!RowsCarry
    <2>8. RowsOf(userRows', meetingRows', delivered)
      BY <1>1, <2>6, <2>7, RowsOfMove
    <2>9. ASSUME NEW b \in Calls
          PROVE  CallOf(call'[b], b[1], userRows', meetingRows', delivered)
      <3>1. CASE b # c
        BY <1>1, <2>5, <2>6, <3>1, CallOfKept
      <3>2. CASE b = c /\ n = TablesP!NoCall
        BY <2>5, <3>2 DEF CallOf, TablesP!NoCall
      <3>3. CASE b = c /\ TablesP!Carries(call[c], n, userRows', meetingRows)
        BY <1>1, <2>5, <2>6, <3>3, CallOfMoves
      <3> QED BY <2>4, <3>1, <3>2, <3>3
    <2> QED BY <2>2, <2>8, <2>9
  <1>4. CASE DatabaseSteps \/ UNCHANGED vars
    <2>1. UNCHANGED <<userRows, meetingRows, call, delivered>>
      BY <1>4 DEF DatabaseSteps, vars
    <2> QED BY <1>1, <2>1
  <1>5. CASE Crash
    <2>1. /\ UNCHANGED <<userRows, meetingRows, delivered>>
          /\ call' = [c \in Calls |-> Tables!NoCall]
      BY <1>5 DEF Crash, Tables!LoseCalls
    <2>2. ASSUME NEW c \in Calls
          PROVE  CallOf(call'[c], c[1], userRows, meetingRows, delivered)
      BY <2>1 DEF CallOf, Tables!NoCall
    <2> QED BY <1>1, <2>1, <2>2
  <1> QED BY <1>2, <1>3, <1>4, <1>5 DEF Next

LEMMA PeopleStart == Init => PeopleInv
  <1> SUFFICES ASSUME Init PROVE PeopleInv
    OBVIOUS
  <1>1. /\ meetingRows = << >> /\ call = [c \in Calls |-> Tables!NoCall]
    BY DEF Init, Tables!TablesInit
  <1>2. RowsOf(userRows, meetingRows, delivered)
    BY <1>1 DEF RowsOf
  <1>3. \A c \in Calls : CallOf(call[c], c[1], userRows, meetingRows, delivered)
    BY <1>1 DEF CallOf, Tables!NoCall
  <1> QED BY <1>2, <1>3 DEF PeopleInv

\* Every participant and every creator of a meeting row is there because of an
\* event that was received and may be about that row, through stale reads,
\* lost answers and searches by the meeting alone
\* (MeetingBitableService.updateMeetingParticipants, upsertMeetingRecord).
THEOREM HandlersWriteWhoWasThere == Spec => []ParticipantsWereThere
  <1>1. ASSUME PeopleInv
        PROVE  ParticipantsWereThere
    <2>1. \A d \in Deliveries : delivered[d] \in Events => delivered[d] \in Received
      BY EventsAssumption DEF Received
    <2> SUFFICES ASSUME NEW i \in 1..Len(meetingRows)
                 PROVE  /\ \A p \in meetingRows[i].people : \E e \in Received :
                              /\ MayBeAbout(e, meetingRows[i])
                              /\ userRows[p].uuid \in {e.operator, e.creator}
                        /\ meetingRows[i].version > 0 => \E e \in Received :
                              /\ e.event \in Supported
                              /\ Tables!Matches(meetingRows[i], e.meeting)
                              /\ userRows[meetingRows[i].owner].uuid = e.creator
      BY DEF ParticipantsWereThere
    <2>2. /\ \A p \in meetingRows[i].people :
                WasThere(meetingRows[i], userRows[p].uuid, delivered)
          /\ meetingRows[i].version > 0 =>
                IsCreator(meetingRows[i], userRows[meetingRows[i].owner].uuid, delivered)
      BY <1>1 DEF PeopleInv, RowsOf
    <2> QED BY <2>1, <2>2
            DEF WasThere, IsCreator, Tables!Matches, TablesP!Matches
  <1>2. PeopleInv /\ EventsInv /\ EventsInv' /\ [Next]_vars => PeopleInv'
    BY PeopleStep
  <1>3. Spec => []PeopleInv
    BY <1>2, PeopleStart, EventsInvariant, PTL DEF Spec
  <1> QED BY <1>1, <1>3, PTL

-----------------------------------------------------------------------------
(* The database: its upserts alone *)
(*                                                                         *)
(* DatabaseInv says of an upsert in flight what it may rely on although    *)
(* others commit: the rows it has found are rows of its user (CallOK), and *)
(* a row of the user that its findFirst did not see has a later place than *)
(* it saw.  The lemmas are stated of any two tables pu and qu, of which    *)
(* qu has grown from pu, so that they concern constants.                   *)

RowsIn(pu, u) == {i \in 1..Len(pu) : pu[i].uuid = u}

\* What an upsert in flight knows of the table.
AfterCreator == {"txHost", "txHostUpdate", "txMeeting", "txCommit"}
AfterHost == AfterCreator \ {"txHost"}
TxPoints == {"txCreator", "txCreatorUpdate", "txCreatorCreate"} \cup AfterCreator

CallOK(pu, k) ==
    /\ k.at # "idle" => k.user \in Users
    /\ k.at \in TxPoints => k.meeting \in Meetings
    /\ k.at \in {"puFind", "puCreate", "txCreator", "txCreatorCreate"} => k.creator = 0
    /\ k.at \in {"puUpdate", "txCreatorUpdate"} => k.creator \in RowsIn(pu, k.user)
    /\ k.own => k.at \in AfterCreator
    /\ k.at \in AfterCreator =>
          k.creator \in (IF k.own THEN {0} ELSE RowsIn(pu, k.user))
    /\ k.at \in AfterHost =>
          k.host \in RowsIn(pu, k.user) \cup (IF k.own THEN {0} ELSE {})
    /\ k.seen <= Len(pu)
    /\ (k.at \in {"puCreate", "txCreatorCreate"} \/ k.own) =>
          \A i \in RowsIn(pu, k.user) : k.seen < i

TwinsIn(pu) ==
    \A i, j \in 1..Len(pu) : i < j /\ pu[i].uuid = pu[j].uuid => pu[j].seen < i

\* The creator and the host of a meeting are rows of one user.
RecordsIn(pu, recs) ==
    \A m \in Meetings : recs[m] # Database!NoRecord =>
        \E u \in Users : recs[m].creator \in RowsIn(pu, u) /\ recs[m].host \in RowsIn(pu, u)

DatabaseInv ==
    /\ platformUsers \in Seq(Database!PlatformUser)
    /\ records \in [Meetings -> Database!MeetingRecord]
    /\ dbCall \in [DbCalls -> Database!DbCallRecord]
    /\ dbFaults \in 0..MaxDbFaults
    /\ \A c \in DbCalls : CallOK(platformUsers, dbCall[c])
    /\ TwinsIn(platformUsers)
    /\ RecordsIn(platformUsers, records)

-----------------------------------------------------------------------------
(* Tables that grow *)

Grown(pu, qu) ==
    /\ Len(pu) <= Len(qu)
    /\ \A i \in 1..Len(pu) : qu[i] = pu[i]
    /\ \A i \in 1..Len(qu) : i > Len(pu) => i = Len(pu) + 1

LEMMA GrownRows ==
  ASSUME NEW pu \in Seq(Database!PlatformUser), NEW qu \in Seq(Database!PlatformUser), Grown(pu, qu), NEW u
  PROVE  /\ RowsIn(pu, u) \subseteq RowsIn(qu, u)
         /\ RowsIn(qu, u) \subseteq RowsIn(pu, u) \cup {Len(pu) + 1}
         /\ RowsIn(pu, u) \subseteq Nat \ {0}
  <1>1. Len(pu) \in Nat /\ Len(qu) \in Nat
    OBVIOUS
  <1> QED BY <1>1 DEF Grown, RowsIn

\* An upsert's knowledge outlives what others write.
LEMMA CallKept ==
  ASSUME NEW pu \in Seq(Database!PlatformUser), NEW qu \in Seq(Database!PlatformUser), Grown(pu, qu),
         NEW k \in Database!DbCallRecord, CallOK(pu, k)
  PROVE  CallOK(qu, k)
  <1>1. Len(pu) \in Nat /\ Len(qu) \in Nat /\ k.seen \in Nat /\ Len(pu) <= Len(qu)
    BY DEF Database!DbCallRecord, Grown
  <1>2. /\ RowsIn(pu, k.user) \subseteq RowsIn(qu, k.user)
        /\ RowsIn(qu, k.user) \subseteq RowsIn(pu, k.user) \cup {Len(pu) + 1}
    BY GrownRows
  <1>3. (k.at \in {"puCreate", "txCreatorCreate"} \/ k.own) =>
            \A i \in RowsIn(qu, k.user) : k.seen < i
    BY <1>1, <1>2 DEF CallOK
  <1>4. k.at \in AfterCreator =>
            k.creator \in (IF k.own THEN {0} ELSE RowsIn(qu, k.user))
    BY <1>2 DEF CallOK
  <1>5. k.at \in AfterHost =>
            k.host \in RowsIn(qu, k.user) \cup (IF k.own THEN {0} ELSE {})
    BY <1>2 DEF CallOK
  <1>6. k.at \in {"puUpdate", "txCreatorUpdate"} => k.creator \in RowsIn(qu, k.user)
    BY <1>2 DEF CallOK
  <1>7. k.seen <= Len(qu)
    BY <1>1 DEF CallOK
  <1> QED BY <1>3, <1>4, <1>5, <1>6, <1>7 DEF CallOK

LEMMA RecordRowsKept ==
  ASSUME NEW pu \in Seq(Database!PlatformUser), NEW qu \in Seq(Database!PlatformUser), Grown(pu, qu),
         NEW recs, RecordsIn(pu, recs)
  PROVE  RecordsIn(qu, recs)
  BY GrownRows DEF RecordsIn

\* A new row, of a user none of whose rows was seen before it.
LEMMA RowAppended ==
  ASSUME NEW pu \in Seq(Database!PlatformUser), TwinsIn(pu), NEW u \in Users, NEW s \in Nat,
         s <= Len(pu), \A i \in RowsIn(pu, u) : s < i,
         NEW qu, qu = Append(pu, [uuid |-> u, seen |-> s])
  PROVE  /\ qu \in Seq(Database!PlatformUser) /\ Grown(pu, qu) /\ TwinsIn(qu)
         /\ Len(pu) + 1 \in RowsIn(qu, u)
  <1> DEFINE row == [uuid |-> u, seen |-> s]
  <1>1. row \in Database!PlatformUser /\ row.uuid = u /\ row.seen = s
    BY DEF Database!PlatformUser
  <1> HIDE DEF row
  <1>2. /\ qu \in Seq(Database!PlatformUser) /\ Len(qu) = Len(pu) + 1 /\ Len(pu) \in Nat
        /\ qu[Len(pu) + 1] = row /\ \A i \in 1..Len(pu) : qu[i] = pu[i]
    BY <1>1, AppendProperties DEF row
  <1>3. Grown(pu, qu)
    BY <1>2 DEF Grown
  <1>4. TwinsIn(qu)
    <2> SUFFICES ASSUME NEW i \in 1..Len(qu), NEW j \in 1..Len(qu), i < j,
                        qu[i].uuid = qu[j].uuid
                 PROVE  qu[j].seen < i
      BY DEF TwinsIn
    <2>1. i \in 1..Len(pu) /\ qu[i] = pu[i]
      BY <1>2
    <2>2. CASE j \in 1..Len(pu)
      BY <1>2, <2>1, <2>2 DEF TwinsIn
    <2>3. CASE j = Len(pu) + 1
      BY <1>1, <1>2, <2>1, <2>3 DEF RowsIn
    <2> QED BY <1>2, <2>2, <2>3
  <1> QED BY <1>1, <1>2, <1>3, <1>4 DEF RowsIn

-----------------------------------------------------------------------------
(* Steps *)

LEMMA NoDbCallOK ==
  ASSUME NEW pu \in Seq(Database!PlatformUser)
  PROVE  Database!NoDbCall \in Database!DbCallRecord /\ CallOK(pu, Database!NoDbCall)
  <1>1. Database!NoDbCall \in Database!DbCallRecord
    BY DEF Database!NoDbCall, Database!DbCallRecord, Database!Points
  <1>2. Len(pu) \in Nat
    OBVIOUS
  <1> QED BY <1>1, <1>2
     DEF Database!NoDbCall, CallOK, TxPoints, AfterCreator, AfterHost

LEMMA FirstStatementsOK ==
  ASSUME NEW k \in Database!FirstStatements, NEW pu \in Seq(Database!PlatformUser)
  PROVE  k \in Database!DbCallRecord /\ CallOK(pu, k)
  <1>0. Len(pu) \in Nat
    OBVIOUS
  <1>1. CASE \E u \in Users : k = Database!PlatformUserCall(u)
    <2>1. PICK u \in Users : k = Database!PlatformUserCall(u)
      BY <1>1
    <2>2. k \in Database!DbCallRecord
      BY <2>1
         DEF Database!PlatformUserCall, Database!NoDbCall, Database!DbCallRecord,
             Database!Points
    <2>3. k.at = "puFind" /\ k.user = u /\ k.creator = 0 /\ k.own = FALSE /\ k.seen = 0
      BY <2>1 DEF Database!PlatformUserCall, Database!NoDbCall
    <2> QED BY <1>0, <2>2, <2>3 DEF CallOK, TxPoints, AfterCreator, AfterHost
  <1>2. CASE \E m \in Meetings, u \in Users : k = Database!MeetingRecordCall(m, u)
    <2>1. PICK m \in Meetings, u \in Users : k = Database!MeetingRecordCall(m, u)
      BY <1>2
    <2>2. k \in Database!DbCallRecord
      BY <2>1
         DEF Database!MeetingRecordCall, Database!NoDbCall, Database!DbCallRecord,
             Database!Points
    <2>3. /\ k.at = "txCreator" /\ k.user = u /\ k.meeting = m
          /\ k.creator = 0 /\ k.own = FALSE /\ k.seen = 0
      BY <2>1 DEF Database!MeetingRecordCall, Database!NoDbCall
    <2> QED BY <1>0, <2>2, <2>3 DEF CallOK, TxPoints, AfterCreator, AfterHost
  <1> QED BY <1>1, <1>2 DEF Database!FirstStatements

\* One upsert takes a step and the table may grow.
LEMMA OneStep ==
  ASSUME DatabaseInv, NEW c \in DbCalls, NEW k \in Database!DbCallRecord, Database!DbBecome(c, k),
         platformUsers' \in Seq(Database!PlatformUser), Grown(platformUsers, platformUsers'),
         CallOK(platformUsers', k), TwinsIn(platformUsers'),
         records' \in [Meetings -> Database!MeetingRecord], RecordsIn(platformUsers', records'),
         dbFaults' \in 0..MaxDbFaults
  PROVE  DatabaseInv'
  <1>1. dbCall' \in [DbCalls -> Database!DbCallRecord]
    BY DEF DatabaseInv, Database!DbBecome
  <1>2. ASSUME NEW d \in DbCalls PROVE CallOK(platformUsers', dbCall'[d])
    <2>1. CASE d = c
      BY <2>1 DEF DatabaseInv, Database!DbBecome
    <2>2. CASE d # c
      <3>1. dbCall'[d] = dbCall[d]
        BY <2>2 DEF DatabaseInv, Database!DbBecome
      <3>2. /\ platformUsers \in Seq(Database!PlatformUser) /\ dbCall[d] \in Database!DbCallRecord
            /\ CallOK(platformUsers, dbCall[d])
        BY DEF DatabaseInv
      <3> QED BY <3>1, <3>2, CallKept
    <2> QED BY <2>1, <2>2
  <1> QED BY <1>1, <1>2 DEF DatabaseInv

\* A step of one upsert that leaves the tables.
LEMMA QuietStep ==
  ASSUME DatabaseInv, NEW c \in DbCalls, NEW k \in Database!DbCallRecord, Database!DbBecome(c, k),
         CallOK(platformUsers, k), UNCHANGED <<platformUsers, records>>,
         dbFaults' \in 0..MaxDbFaults
  PROVE  DatabaseInv'
  <1>1. platformUsers \in Seq(Database!PlatformUser) /\ Len(platformUsers) \in Nat
    BY DEF DatabaseInv
  <1>2. Grown(platformUsers, platformUsers')
    BY <1>1 DEF Grown
  <1>3. TwinsIn(platformUsers') /\ RecordsIn(platformUsers', records')
    BY DEF DatabaseInv
  <1> QED BY <1>1, <1>2, <1>3, OneStep DEF DatabaseInv

\* The upsert of a slot, as a constant.
LEMMA CallAt ==
  ASSUME DatabaseInv, NEW c \in DbCalls
  PROVE  \E k \in Database!DbCallRecord : k = dbCall[c] /\ CallOK(platformUsers, k)
  BY DEF DatabaseInv

LEMMA EndStep ==
  ASSUME DatabaseInv, NEW c \in DbCalls, Database!DbBecome(c, Database!NoDbCall),
         UNCHANGED <<platformUsers, records>>, dbFaults' \in 0..MaxDbFaults
  PROVE  DatabaseInv'
  <1>1. platformUsers \in Seq(Database!PlatformUser)
    BY DEF DatabaseInv
  <1> QED BY <1>1, NoDbCallOK, QuietStep

LEMMA RowsAreNat ==
  ASSUME DatabaseInv, NEW u
  PROVE  RowsIn(platformUsers, u) \subseteq Nat \ {0} /\ Len(platformUsers) \in Nat
         /\ Database!RowsOf(u) = RowsIn(platformUsers, u)
         /\ \A i \in RowsIn(platformUsers, u) : i <= Len(platformUsers)
  BY DEF DatabaseInv, RowsIn, Database!RowsOf

LEMMA FindPlatformUserInv ==
  ASSUME DatabaseInv, NEW c \in DbCalls, Database!FindPlatformUser(c)
  PROVE  DatabaseInv'
  <1>1. PICK k \in Database!DbCallRecord : k = dbCall[c] /\ CallOK(platformUsers, k)
    BY CallAt
  <1> DEFINE found(i) == [dbCall[c] EXCEPT !.at = "puUpdate", !.creator = i]
             made == [dbCall[c] EXCEPT !.at = "puCreate", !.seen = Len(platformUsers)]
  <1>2. k.at = "puFind" /\ UNCHANGED <<platformUsers, records, dbFaults>>
    <2>1. dbCall[c].at = "puFind" /\ UNCHANGED <<platformUsers, records, dbFaults>>
      BY Zenon DEF Database!FindPlatformUser
    <2> QED BY <1>1, <2>1
  <1>3. \/ \E i \in Database!RowsOf(dbCall[c].user) : Database!DbBecome(c, found(i))
        \/ Database!RowsOf(dbCall[c].user) = {} /\ Database!DbBecome(c, made)
    BY Zenon DEF Database!FindPlatformUser
  <1> HIDE DEF found, made
  <1>4. dbFaults' \in 0..MaxDbFaults
    BY <1>2 DEF DatabaseInv
  <1>5. /\ k.user \in Users /\ k.creator = 0 /\ k.own = FALSE
        /\ k.at \in TxPoints => k.meeting \in Meetings
    BY <1>1, <1>2 DEF CallOK, AfterCreator, Database!DbCallRecord
  <1>6. ASSUME NEW i \in Database!RowsOf(dbCall[c].user), Database!DbBecome(c, found(i))
        PROVE  DatabaseInv'
    <2>1. i \in Nat /\ i \in RowsIn(platformUsers, k.user)
      BY <1>1, RowsAreNat
    <2>2. PICK n : n = [k EXCEPT !.at = "puUpdate", !.creator = i]
      OBVIOUS
    <2>3. n = found(i)
      BY <1>1, <2>2 DEF found
    <2>4. /\ n \in Database!DbCallRecord /\ n.at = "puUpdate" /\ n.creator = i
          /\ n.user = k.user /\ n.meeting = k.meeting /\ n.own = k.own /\ n.seen = k.seen
      BY <2>1, <2>2 DEF Database!DbCallRecord, Database!Points
    <2>5. CallOK(platformUsers, n)
      BY <1>1, <1>2, <1>5, <2>1, <2>4 DEF CallOK, TxPoints, AfterCreator, AfterHost
    <2> QED BY <1>2, <1>4, <1>6, <2>3, <2>4, <2>5, QuietStep
  <1>7. ASSUME Database!RowsOf(dbCall[c].user) = {}, Database!DbBecome(c, made)
        PROVE  DatabaseInv'
    <2>1. Len(platformUsers) \in Nat /\ RowsIn(platformUsers, k.user) = {}
      BY <1>1, <1>7, RowsAreNat
    <2>2. PICK n : n = [k EXCEPT !.at = "puCreate", !.seen = Len(platformUsers)]
      OBVIOUS
    <2>3. n = made
      BY <1>1, <2>2 DEF made
    <2>4. /\ n \in Database!DbCallRecord /\ n.at = "puCreate" /\ n.seen = Len(platformUsers)
          /\ n.user = k.user /\ n.meeting = k.meeting /\ n.own = k.own
          /\ n.creator = k.creator
      BY <2>1, <2>2 DEF Database!DbCallRecord, Database!Points
    <2>5. CallOK(platformUsers, n)
      BY <1>1, <1>2, <1>5, <2>1, <2>4 DEF CallOK, TxPoints, AfterCreator, AfterHost
    <2> QED BY <1>2, <1>4, <1>7, <2>3, <2>4, <2>5, QuietStep
  <1> QED BY <1>3, <1>6, <1>7

LEMMA TxFindsCreatorInv ==
  ASSUME DatabaseInv, NEW c \in DbCalls, Database!TxFindsCreator(c)
  PROVE  DatabaseInv'
  <1>1. PICK k \in Database!DbCallRecord : k = dbCall[c] /\ CallOK(platformUsers, k)
    BY CallAt
  <1> DEFINE found(i) == [dbCall[c] EXCEPT !.at = "txCreatorUpdate", !.creator = i]
             made == [dbCall[c] EXCEPT !.at = "txCreatorCreate", !.seen = Len(platformUsers)]
  <1>2. k.at = "txCreator" /\ UNCHANGED <<platformUsers, records, dbFaults>>
    <2>1. dbCall[c].at = "txCreator" /\ UNCHANGED <<platformUsers, records, dbFaults>>
      BY Zenon DEF Database!TxFindsCreator
    <2> QED BY <1>1, <2>1
  <1>3. \/ \E i \in Database!RowsOf(dbCall[c].user) : Database!DbBecome(c, found(i))
        \/ Database!RowsOf(dbCall[c].user) = {} /\ Database!DbBecome(c, made)
    BY Zenon DEF Database!TxFindsCreator
  <1> HIDE DEF found, made
  <1>4. dbFaults' \in 0..MaxDbFaults
    BY <1>2 DEF DatabaseInv
  <1>5. /\ k.user \in Users /\ k.creator = 0 /\ k.own = FALSE
        /\ k.at \in TxPoints => k.meeting \in Meetings
    BY <1>1, <1>2 DEF CallOK, AfterCreator, Database!DbCallRecord
  <1>6. ASSUME NEW i \in Database!RowsOf(dbCall[c].user), Database!DbBecome(c, found(i))
        PROVE  DatabaseInv'
    <2>1. i \in Nat /\ i \in RowsIn(platformUsers, k.user)
      BY <1>1, RowsAreNat
    <2>2. PICK n : n = [k EXCEPT !.at = "txCreatorUpdate", !.creator = i]
      OBVIOUS
    <2>3. n = found(i)
      BY <1>1, <2>2 DEF found
    <2>4. /\ n \in Database!DbCallRecord /\ n.at = "txCreatorUpdate" /\ n.creator = i
          /\ n.user = k.user /\ n.meeting = k.meeting /\ n.own = k.own /\ n.seen = k.seen
      BY <2>1, <2>2 DEF Database!DbCallRecord, Database!Points
    <2>5. CallOK(platformUsers, n)
      BY <1>1, <1>2, <1>5, <2>1, <2>4 DEF CallOK, TxPoints, AfterCreator, AfterHost
    <2> QED BY <1>2, <1>4, <1>6, <2>3, <2>4, <2>5, QuietStep
  <1>7. ASSUME Database!RowsOf(dbCall[c].user) = {}, Database!DbBecome(c, made)
        PROVE  DatabaseInv'
    <2>1. Len(platformUsers) \in Nat /\ RowsIn(platformUsers, k.user) = {}
      BY <1>1, <1>7, RowsAreNat
    <2>2. PICK n : n = [k EXCEPT !.at = "txCreatorCreate", !.seen = Len(platformUsers)]
      OBVIOUS
    <2>3. n = made
      BY <1>1, <2>2 DEF made
    <2>4. /\ n \in Database!DbCallRecord /\ n.at = "txCreatorCreate" /\ n.seen = Len(platformUsers)
          /\ n.user = k.user /\ n.meeting = k.meeting /\ n.own = k.own
          /\ n.creator = k.creator
      BY <2>1, <2>2 DEF Database!DbCallRecord, Database!Points
    <2>5. CallOK(platformUsers, n)
      BY <1>1, <1>2, <1>5, <2>1, <2>4 DEF CallOK, TxPoints, AfterCreator, AfterHost
    <2> QED BY <1>2, <1>4, <1>7, <2>3, <2>4, <2>5, QuietStep
  <1> QED BY <1>3, <1>6, <1>7

LEMMA TxWritesCreatorInv ==
  ASSUME DatabaseInv, NEW c \in DbCalls, Database!TxWritesCreator(c)
  PROVE  DatabaseInv'
  <1>1. PICK k \in Database!DbCallRecord : k = dbCall[c] /\ CallOK(platformUsers, k)
    BY CallAt
  <1> DEFINE own == k.at = "txCreatorCreate"
             n == [k EXCEPT !.at = "txHost", !.own = own]
  <1>2. /\ k.at \in {"txCreatorUpdate", "txCreatorCreate"} /\ Database!DbBecome(c, n)
        /\ UNCHANGED <<platformUsers, records>> /\ dbFaults' \in 0..MaxDbFaults
    BY <1>1 DEF Database!TxWritesCreator, DatabaseInv
  <1>3. own \in BOOLEAN
    OBVIOUS
  <1>4. /\ n \in Database!DbCallRecord /\ n.at = "txHost" /\ n.own = own /\ n.user = k.user
        /\ n.meeting = k.meeting /\ n.creator = k.creator /\ n.seen = k.seen
    <2> HIDE DEF own
    <2> QED BY <1>3 DEF Database!DbCallRecord, Database!Points
  <1> HIDE DEF n
  <1>5. CallOK(platformUsers, n)
    BY <1>1, <1>2, <1>4 DEF CallOK, TxPoints, AfterCreator, AfterHost
  <1> QED BY <1>2, <1>4, <1>5, QuietStep

LEMMA TxFindsHostInv ==
  ASSUME DatabaseInv, NEW c \in DbCalls, Database!TxFindsHost(c)
  PROVE  DatabaseInv'
  <1>1. PICK k \in Database!DbCallRecord : k = dbCall[c] /\ CallOK(platformUsers, k)
    BY CallAt
  <1> DEFINE mayBe == Database!RowsOf(dbCall[c].user) \cup (IF dbCall[c].own THEN {0} ELSE {})
             found(i) == [dbCall[c] EXCEPT !.at = "txHostUpdate", !.host = i]
  <1>2. k.at = "txHost" /\ UNCHANGED <<platformUsers, records, dbFaults>>
    BY <1>1 DEF Database!TxFindsHost
  <1>3. PICK i \in mayBe : Database!DbBecome(c, found(i))
    BY Zenon DEF Database!TxFindsHost
  <1> HIDE DEF found
  <1>4. dbFaults' \in 0..MaxDbFaults
    BY <1>2 DEF DatabaseInv
  <1>5. i \in Nat /\ i \in RowsIn(platformUsers, k.user) \cup (IF k.own THEN {0} ELSE {})
    BY <1>1, RowsAreNat
  <1>6. PICK n : n = [k EXCEPT !.at = "txHostUpdate", !.host = i]
    OBVIOUS
  <1>7. n = found(i)
    BY <1>1, <1>6 DEF found
  <1>8. /\ n \in Database!DbCallRecord /\ n.at = "txHostUpdate" /\ n.host = i /\ n.user = k.user
        /\ n.meeting = k.meeting /\ n.creator = k.creator /\ n.seen = k.seen
        /\ n.own = k.own
    BY <1>5, <1>6 DEF Database!DbCallRecord, Database!Points
  <1>9. CallOK(platformUsers, n)
    BY <1>1, <1>2, <1>5, <1>8 DEF CallOK, TxPoints, AfterCreator, AfterHost
  <1> QED BY <1>2, <1>3, <1>4, <1>7, <1>8, <1>9, QuietStep

\* The statements that take a lock and go on.
LEMMA TxMovesInv ==
  ASSUME DatabaseInv, NEW c \in DbCalls, Database!TxWritesHost(c) \/ Database!TxWritesMeeting(c)
  PROVE  DatabaseInv'
  <1>1. PICK k \in Database!DbCallRecord : k = dbCall[c] /\ CallOK(platformUsers, k)
    BY CallAt
  <1>2. PICK p \in {"txMeeting", "txCommit"} : Database!DbBecome(c, [k EXCEPT !.at = p])
    BY <1>1 DEF Database!TxWritesHost, Database!TxWritesMeeting
  <1>3. /\ k.at \in {"txHostUpdate", "txMeeting"}
        /\ UNCHANGED <<platformUsers, records>> /\ dbFaults' \in 0..MaxDbFaults
    BY <1>1 DEF Database!TxWritesHost, Database!TxWritesMeeting, DatabaseInv
  <1> DEFINE n == [k EXCEPT !.at = p]
  <1>4. /\ n \in Database!DbCallRecord /\ n.at = p /\ n.host = k.host /\ n.user = k.user
        /\ n.meeting = k.meeting /\ n.creator = k.creator /\ n.seen = k.seen
        /\ n.own = k.own
    BY DEF Database!DbCallRecord, Database!Points
  <1> HIDE DEF n
  <1>5. CallOK(platformUsers, n)
    BY <1>1, <1>2, <1>3, <1>4 DEF CallOK, TxPoints, AfterCreator, AfterHost
  <1> QED BY <1>2, <1>3, <1>4, <1>5, QuietStep DEF n

LEMMA CreatePlatformUserInv ==
  ASSUME DatabaseInv, NEW c \in DbCalls, Database!CreatePlatformUser(c)
  PROVE  DatabaseInv' /\ Grown(platformUsers, platformUsers')
  <1>1. PICK k \in Database!DbCallRecord : k = dbCall[c] /\ CallOK(platformUsers, k)
    BY CallAt
  <1>2. /\ k.at = "puCreate" /\ Database!DbBecome(c, Database!NoDbCall) /\ UNCHANGED records
        /\ platformUsers' = Append(platformUsers, [uuid |-> k.user, seen |-> k.seen])
        /\ dbFaults' \in 0..MaxDbFaults
    BY <1>1 DEF Database!CreatePlatformUser, DatabaseInv
  <1>3. /\ k.user \in Users /\ k.seen \in Nat /\ k.seen <= Len(platformUsers)
        /\ \A i \in RowsIn(platformUsers, k.user) : k.seen < i
    BY <1>1, <1>2 DEF CallOK, Database!DbCallRecord
  <1>4. /\ platformUsers \in Seq(Database!PlatformUser) /\ TwinsIn(platformUsers)
        /\ RecordsIn(platformUsers, records) /\ records \in [Meetings -> Database!MeetingRecord]
    BY DEF DatabaseInv
  <1>5. /\ platformUsers' \in Seq(Database!PlatformUser) /\ Grown(platformUsers, platformUsers')
        /\ TwinsIn(platformUsers')
    BY <1>2, <1>3, <1>4, RowAppended
  <1>6. RecordsIn(platformUsers', records')
    BY <1>2, <1>4, <1>5, RecordRowsKept
  <1> QED BY <1>2, <1>4, <1>5, <1>6, NoDbCallOK, OneStep

LEMMA TxCommitsInv ==
  ASSUME DatabaseInv, NEW c \in DbCalls, Database!TxCommits(c)
  PROVE  /\ DatabaseInv' /\ Grown(platformUsers, platformUsers')
         /\ records' = [records EXCEPT ![dbCall[c].meeting] = records'[dbCall[c].meeting]]
         /\ records'[dbCall[c].meeting].creator \in RowsIn(platformUsers', dbCall[c].user)
         /\ records'[dbCall[c].meeting].host \in RowsIn(platformUsers', dbCall[c].user)
  <1>1. PICK k \in Database!DbCallRecord : k = dbCall[c] /\ CallOK(platformUsers, k)
    BY CallAt
  <1> DEFINE row == [creator |-> Database!Placed(k.creator), host |-> Database!Placed(k.host)]
  <1>2. /\ k.at = "txCommit" /\ Database!DbBecome(c, Database!NoDbCall) /\ dbFaults' \in 0..MaxDbFaults
        /\ platformUsers' = IF k.own
                            THEN Append(platformUsers, [uuid |-> k.user, seen |-> k.seen])
                            ELSE platformUsers
        /\ records' = [records EXCEPT ![k.meeting] = row]
    BY <1>1 DEF Database!TxCommits, DatabaseInv
  <1>3. /\ k.user \in Users /\ k.meeting \in Meetings /\ k.seen \in Nat
        /\ k.seen <= Len(platformUsers)
        /\ k.creator \in (IF k.own THEN {0} ELSE RowsIn(platformUsers, k.user))
        /\ k.host \in RowsIn(platformUsers, k.user) \cup (IF k.own THEN {0} ELSE {})
        /\ k.own => \A i \in RowsIn(platformUsers, k.user) : k.seen < i
    BY <1>1, <1>2
       DEF CallOK, Database!DbCallRecord, TxPoints, AfterCreator, AfterHost
  <1>4. /\ platformUsers \in Seq(Database!PlatformUser) /\ TwinsIn(platformUsers)
        /\ RecordsIn(platformUsers, records) /\ records \in [Meetings -> Database!MeetingRecord]
        /\ Len(platformUsers) \in Nat
    BY DEF DatabaseInv
  <1>5. /\ platformUsers' \in Seq(Database!PlatformUser) /\ Grown(platformUsers, platformUsers')
        /\ TwinsIn(platformUsers')
        /\ k.own => Len(platformUsers) + 1 \in RowsIn(platformUsers', k.user)
    <2>1. CASE k.own
      BY <1>2, <1>3, <1>4, <2>1, RowAppended
    <2>2. CASE ~k.own
      BY <1>2, <1>4, <2>2 DEF Grown
    <2> QED BY <2>1, <2>2
  <1>6. /\ RowsIn(platformUsers, k.user) \subseteq RowsIn(platformUsers', k.user)
        /\ RowsIn(platformUsers, k.user) \subseteq Nat \ {0}
    BY <1>4, <1>5, GrownRows
  <1>7. /\ Database!Placed(k.creator) \in RowsIn(platformUsers', k.user)
        /\ Database!Placed(k.host) \in RowsIn(platformUsers', k.user)
    BY <1>3, <1>5, <1>6 DEF Database!Placed
  <1>8. RowsIn(platformUsers', k.user) \subseteq Nat
    BY <1>5 DEF RowsIn
  <1>9. /\ row \in Database!MeetingRecord /\ row.creator \in RowsIn(platformUsers', k.user)
        /\ row.host \in RowsIn(platformUsers', k.user)
    BY <1>7, <1>8 DEF Database!MeetingRecord
  <1> HIDE DEF row
  <1>10. records' \in [Meetings -> Database!MeetingRecord] /\ records'[k.meeting] = row
    BY <1>2, <1>3, <1>4, <1>9
  <1>11. RecordsIn(platformUsers', records')
    <2> SUFFICES ASSUME NEW m \in Meetings, records'[m] # Database!NoRecord
                 PROVE  \E u \in Users : /\ records'[m].creator \in RowsIn(platformUsers', u)
                                        /\ records'[m].host \in RowsIn(platformUsers', u)
      BY DEF RecordsIn
    <2>1. CASE m = k.meeting
      BY <1>3, <1>9, <1>10, <2>1
    <2>2. CASE m # k.meeting
      <3>1. records'[m] = records[m]
        BY <1>2, <1>4, <2>2
      <3>2. RecordsIn(platformUsers', records)
        BY <1>4, <1>5, RecordRowsKept
      <3> QED BY <3>1, <3>2 DEF RecordsIn
    <2> QED BY <2>1, <2>2
  <1>12. DatabaseInv'
    BY <1>2, <1>5, <1>10, <1>11, NoDbCallOK, OneStep
  <1> QED BY <1>1, <1>2, <1>5, <1>9, <1>10, <1>12

-----------------------------------------------------------------------------
(* The invariant *)

LEMMA DbStepInv ==
  ASSUME DatabaseInv, NEW c \in DbCalls, Database!DbStep(c)
  PROVE  DatabaseInv'
  <1>1. CASE Database!UpdatePlatformUser(c) \/ Database!TxDeadlocks(c)
    BY <1>1, EndStep
       DEF Database!UpdatePlatformUser, Database!TxDeadlocks, DatabaseInv
  <1> QED BY <1>1, FindPlatformUserInv, TxFindsCreatorInv, TxWritesCreatorInv, TxFindsHostInv,
             TxMovesInv, CreatePlatformUserInv, TxCommitsInv DEF Database!DbStep

LEMMA StatementFailsInv ==
  ASSUME Database!DatabaseAssumptions, DatabaseInv, NEW c \in DbCalls, Database!StatementFails(c)
  PROVE  DatabaseInv'
  <1>1. dbFaults' \in 0..MaxDbFaults
    BY DEF Database!StatementFails, DatabaseInv, Database!DatabaseAssumptions
  <1> QED BY <1>1, EndStep DEF Database!StatementFails

LEMMA DatabaseInitInv ==
  Database!DatabaseAssumptions /\ Database!DatabaseInit => DatabaseInv
  <1> SUFFICES ASSUME Database!DatabaseAssumptions, Database!DatabaseInit PROVE DatabaseInv
    OBVIOUS
  <1>1. platformUsers = << >> /\ platformUsers \in Seq(Database!PlatformUser) /\ Len(platformUsers) = 0
    BY DEF Database!DatabaseInit
  <1>2. TwinsIn(platformUsers)
    BY <1>1 DEF TwinsIn
  <1>3. RecordsIn(platformUsers, records) /\ records \in [Meetings -> Database!MeetingRecord]
    BY DEF Database!DatabaseInit, RecordsIn, Database!NoRecord,
           Database!MeetingRecord
  <1>4. ASSUME NEW c \in DbCalls PROVE CallOK(platformUsers, dbCall[c])
    BY <1>1, NoDbCallOK DEF Database!DatabaseInit
  <1>5. dbCall \in [DbCalls -> Database!DbCallRecord]
    BY <1>1, NoDbCallOK DEF Database!DatabaseInit
  <1>6. dbFaults \in 0..MaxDbFaults
    BY DEF Database!DatabaseInit, Database!DatabaseAssumptions
  <1> QED BY <1>1, <1>2, <1>3, <1>4, <1>5, <1>6 DEF DatabaseInv

LEMMA DatabaseStepInv ==
  Database!DatabaseAssumptions /\ DatabaseInv /\ [Database!DatabaseNext]_(Database!dbVars) => DatabaseInv'
  <1> SUFFICES ASSUME Database!DatabaseAssumptions, DatabaseInv, [Database!DatabaseNext]_(Database!dbVars)
               PROVE  DatabaseInv'
    OBVIOUS
  <1>1. platformUsers \in Seq(Database!PlatformUser)
    BY DEF DatabaseInv
  <1>2. CASE Database!DbCallsStart
    <2>1. ASSUME NEW c \in DbCalls PROVE CallOK(platformUsers, dbCall'[c])
      <3>1. CASE dbCall'[c] = dbCall[c]
        BY <3>1 DEF DatabaseInv
      <3>2. CASE dbCall'[c] # dbCall[c]
        BY <1>1, <1>2, <3>2, FirstStatementsOK DEF Database!DbCallsStart
      <3> QED BY <3>1, <3>2
    <2> QED BY <1>2, <2>1 DEF Database!DbCallsStart, DatabaseInv
  <1>3. CASE \E c \in DbCalls : Database!DbStep(c) \/ Database!StatementFails(c)
    BY <1>3, DbStepInv, StatementFailsInv
  <1>4. CASE Database!LoseDbCalls
    <2>1. ASSUME NEW c \in DbCalls
          PROVE  dbCall'[c] \in Database!DbCallRecord /\ CallOK(platformUsers, dbCall'[c])
      BY <1>1, <1>4, NoDbCallOK DEF Database!LoseDbCalls
    <2> QED BY <1>4, <2>1, NoDbCallOK DEF Database!LoseDbCalls, DatabaseInv
  <1>5. CASE UNCHANGED Database!dbVars
    BY <1>5 DEF Database!dbVars, DatabaseInv
  <1> QED BY <1>2, <1>3, <1>4, <1>5 DEF Database!DatabaseNext

LEMMA InvTypeOK == DatabaseInv => Database!DatabaseTypeOK
  BY DEF DatabaseInv, Database!DatabaseTypeOK, CallOK

LEMMA InvTwins == DatabaseInv => Database!PlatformTwinsOverlap
  BY DEF DatabaseInv, TwinsIn, Database!PlatformTwinsOverlap

-----------------------------------------------------------------------------
(* What an upsert passes on, from its first statement to its commit *)

\* A later statement n of the transaction k.
Continues(k, n) == k.at \in TxPoints /\ n.meeting = k.meeting /\ n.user = k.user

LEMMA FindsTraced ==
  ASSUME DatabaseInv, NEW c \in DbCalls,
         Database!FindPlatformUser(c) \/ Database!TxFindsCreator(c) \/ Database!TxFindsHost(c)
  PROVE  \E n \in Database!DbCallRecord :
            Database!DbBecome(c, n) /\ (n.at \in TxPoints => Continues(dbCall[c], n))
  <1>1. PICK k \in Database!DbCallRecord : k = dbCall[c] /\ CallOK(platformUsers, k)
    BY CallAt
  <1> DEFINE chosen(p, i) == [k EXCEPT !.at = p, !.creator = i]
             absent(p) == [k EXCEPT !.at = p, !.seen = Len(platformUsers)]
             host(i) == [k EXCEPT !.at = "txHostUpdate", !.host = i]
  <1>2. Database!RowsOf(k.user) \subseteq Nat /\ Len(platformUsers) \in Nat
    BY RowsAreNat
  <1>3. CASE Database!FindPlatformUser(c)
    <2>1. \/ \E i \in Database!RowsOf(k.user) : Database!DbBecome(c, chosen("puUpdate", i))
          \/ Database!DbBecome(c, absent("puCreate"))
      BY <1>1, <1>3, Zenon DEF Database!FindPlatformUser
    <2>2. \A i \in Nat : /\ chosen("puUpdate", i) \in Database!DbCallRecord
                         /\ chosen("puUpdate", i).at = "puUpdate"
      BY DEF Database!DbCallRecord, Database!Points
    <2>3. absent("puCreate") \in Database!DbCallRecord /\ absent("puCreate").at = "puCreate"
      BY <1>2 DEF Database!DbCallRecord, Database!Points
    <2> HIDE DEF chosen, absent
    <2> QED BY <1>2, <2>1, <2>2, <2>3 DEF TxPoints, AfterCreator
  <1>4. CASE Database!TxFindsCreator(c)
    <2>1. /\ k.at = "txCreator"
          /\ \/ \E i \in Database!RowsOf(k.user) : Database!DbBecome(c, chosen("txCreatorUpdate", i))
             \/ Database!DbBecome(c, absent("txCreatorCreate"))
      BY <1>1, <1>4, Zenon DEF Database!TxFindsCreator
    <2>2. \A i \in Nat : /\ chosen("txCreatorUpdate", i) \in Database!DbCallRecord
                         /\ chosen("txCreatorUpdate", i).meeting = k.meeting
                         /\ chosen("txCreatorUpdate", i).user = k.user
      BY DEF Database!DbCallRecord, Database!Points
    <2>3. /\ absent("txCreatorCreate") \in Database!DbCallRecord
          /\ absent("txCreatorCreate").meeting = k.meeting
          /\ absent("txCreatorCreate").user = k.user
      BY <1>2 DEF Database!DbCallRecord, Database!Points
    <2> HIDE DEF chosen, absent
    <2> QED BY <1>1, <1>2, <2>1, <2>2, <2>3 DEF TxPoints, Continues
  <1>5. CASE Database!TxFindsHost(c)
    <2>1. /\ k.at = "txHost"
          /\ \E i \in Database!RowsOf(k.user) \cup (IF k.own THEN {0} ELSE {}) : Database!DbBecome(c, host(i))
      BY <1>1, <1>5, Zenon DEF Database!TxFindsHost
    <2>2. \A i \in Nat : /\ host(i) \in Database!DbCallRecord
                         /\ host(i).meeting = k.meeting /\ host(i).user = k.user
      BY DEF Database!DbCallRecord, Database!Points
    <2> HIDE DEF host
    <2> QED BY <1>1, <1>2, <2>1, <2>2 DEF TxPoints, AfterCreator, Continues
  <1> QED BY <1>3, <1>4, <1>5

LEMMA CallTraced ==
  ASSUME DatabaseInv, NEW c \in DbCalls, Database!DbStep(c) \/ Database!StatementFails(c)
  PROVE  \E n \in Database!DbCallRecord :
            Database!DbBecome(c, n) /\ (n.at \in TxPoints => Continues(dbCall[c], n))
  <1>1. PICK k \in Database!DbCallRecord : k = dbCall[c] /\ CallOK(platformUsers, k)
    BY CallAt
  <1>2. CASE Database!DbBecome(c, Database!NoDbCall)
    <2>1. Database!NoDbCall \in Database!DbCallRecord /\ Database!NoDbCall.at = "idle"
      BY DEF Database!NoDbCall, Database!DbCallRecord, Database!Points
    <2> QED BY <1>2, <2>1 DEF TxPoints, AfterCreator
  <1>3. CASE Database!TxWritesCreator(c)
    <2> DEFINE own == k.at = "txCreatorCreate"
               n == [k EXCEPT !.at = "txHost", !.own = own]
    <2>1. k.at \in {"txCreatorUpdate", "txCreatorCreate"} /\ Database!DbBecome(c, n)
      BY <1>1, <1>3 DEF Database!TxWritesCreator
    <2>2. own \in BOOLEAN
      OBVIOUS
    <2>3. n \in Database!DbCallRecord /\ n.meeting = k.meeting /\ n.user = k.user
      <3> HIDE DEF own
      <3> QED BY <2>2 DEF Database!DbCallRecord, Database!Points
    <2> HIDE DEF n
    <2> QED BY <1>1, <2>1, <2>3 DEF TxPoints, Continues
  <1>4. CASE Database!TxWritesHost(c) \/ Database!TxWritesMeeting(c)
    <2>1. k.at \in {"txHostUpdate", "txMeeting"}
      BY <1>1, <1>4 DEF Database!TxWritesHost, Database!TxWritesMeeting
    <2>2. PICK p \in {"txMeeting", "txCommit"} : Database!DbBecome(c, [k EXCEPT !.at = p])
      BY <1>1, <1>4 DEF Database!TxWritesHost, Database!TxWritesMeeting
    <2> DEFINE n == [k EXCEPT !.at = p]
    <2>3. n \in Database!DbCallRecord /\ n.meeting = k.meeting /\ n.user = k.user
      BY DEF Database!DbCallRecord, Database!Points
    <2>4. Database!DbBecome(c, n)
      BY <2>2
    <2> HIDE DEF n
    <2> QED BY <1>1, <2>1, <2>3, <2>4 DEF TxPoints, AfterCreator, Continues
  <1>5. CASE Database!UpdatePlatformUser(c) \/ Database!CreatePlatformUser(c) \/ Database!TxCommits(c)
               \/ Database!TxDeadlocks(c) \/ Database!StatementFails(c)
    BY <1>2, <1>5
       DEF Database!UpdatePlatformUser, Database!CreatePlatformUser,
           Database!TxCommits, Database!TxDeadlocks,
       Database!StatementFails
  <1> QED BY <1>3, <1>4, <1>5, FindsTraced DEF Database!DbStep

\* Only a commit writes a meeting; it links it to rows of the upsert's user.
LEMMA RecordTraced ==
  ASSUME DatabaseInv, NEW c \in DbCalls, Database!DbStep(c) \/ Database!StatementFails(c)
  PROVE  /\ Grown(platformUsers, platformUsers')
         /\ \/ UNCHANGED records
            \/ /\ dbCall[c].at = "txCommit"
               /\ records' = [records EXCEPT ![dbCall[c].meeting] =
                                 records'[dbCall[c].meeting]]
               /\ records'[dbCall[c].meeting].creator
                     \in RowsIn(platformUsers', dbCall[c].user)
               /\ records'[dbCall[c].meeting].host
                     \in RowsIn(platformUsers', dbCall[c].user)
  <1>1. CASE Database!TxCommits(c)
    <2>1. dbCall[c].at = "txCommit"
      BY <1>1 DEF Database!TxCommits
    <2> QED BY <1>1, <2>1, TxCommitsInv
  <1>2. CASE Database!CreatePlatformUser(c)
    <2>1. UNCHANGED records
      BY <1>2 DEF Database!CreatePlatformUser
    <2> QED BY <1>2, <2>1, CreatePlatformUserInv
  <1>3. CASE UNCHANGED <<platformUsers, records>>
    <2>1. Len(platformUsers) \in Nat
      BY DEF DatabaseInv
    <2> QED BY <1>3, <2>1 DEF Grown
  <1>4. CASE Database!FindPlatformUser(c)
    <2>1. UNCHANGED <<platformUsers, records>>
      BY <1>4, Zenon DEF Database!FindPlatformUser
    <2> QED BY <1>3, <2>1
  <1>5. CASE Database!TxFindsCreator(c)
    <2>1. UNCHANGED <<platformUsers, records>>
      BY <1>5, Zenon DEF Database!TxFindsCreator
    <2> QED BY <1>3, <2>1
  <1>6. CASE Database!UpdatePlatformUser(c) \/ Database!TxWritesCreator(c) \/ Database!TxFindsHost(c)
               \/ Database!TxWritesHost(c) \/ Database!TxWritesMeeting(c) \/ Database!TxDeadlocks(c)
               \/ Database!StatementFails(c)
    <2>1. UNCHANGED <<platformUsers, records>>
      BY <1>6, Zenon
         DEF Database!UpdatePlatformUser, Database!TxWritesCreator,
             Database!TxFindsHost, Database!TxWritesHost,
         Database!TxWritesMeeting, Database!TxDeadlocks, Database!StatementFails
    <2> QED BY <1>3, <2>1
  <1> QED BY <1>1, <1>2, <1>4, <1>5, <1>6 DEF Database!DbStep

-----------------------------------------------------------------------------
(* The database under the handlers *)

\* The slots of a request that has not come are free.
DbSlotsFree ==
    \A c \in DbCalls : delivered[c[1]] = None => dbCall[c] = Database!NoDbCall

Recorded(e, m) ==
    /\ e.event \in {"meeting.started", "meeting.end"} /\ e.meeting = m

CallsOfEvents ==
    \A c \in DbCalls : dbCall[c].at \in TxPoints =>
        /\ delivered[c[1]] \in Events /\ Recorded(delivered[c[1]], dbCall[c].meeting)
        /\ dbCall[c].user = delivered[c[1]].creator

\* RecordsHaveTheirCreator, of tables and deliveries that are given.
RecordsOf(pu, recs, dels) ==
    \A m \in Meetings : recs[m] # Database!NoRecord =>
        \E d \in Deliveries :
            /\ dels[d] \in Events /\ Recorded(dels[d], m)
            /\ recs[m].creator \in RowsIn(pu, dels[d].creator)
            /\ recs[m].host \in RowsIn(pu, dels[d].creator)

HandlersInv ==
    /\ DatabaseInv
    /\ delivered \in [Deliveries -> Events \cup {None}]
    /\ DbSlotsFree
    /\ CallsOfEvents
    /\ RecordsOf(platformUsers, records, delivered)

-----------------------------------------------------------------------------

-----------------------------------------------------------------------------
(* Deliveries *)

LEMMA DatabaseCallStarts ==
  ASSUME NEW e \in Events, NEW what \in {"platformUser", "record"}
  PROVE  /\ \/ DatabaseCall(e, what) = Database!NoDbCall
            \/ DatabaseCall(e, what) \in Database!FirstStatements
         /\ DatabaseCall(e, what).at \in TxPoints =>
               /\ Recorded(e, DatabaseCall(e, what).meeting)
               /\ DatabaseCall(e, what).user = e.creator
  <1>1. e.meeting \in Meetings /\ e.operator \in Users /\ e.creator \in Users
    BY EventsAssumption
  <1> DEFINE none == Database!NoDbCall
             user == Database!PlatformUserCall(e.operator)
             record == Database!MeetingRecordCall(e.meeting, e.creator)
  <1>2. user \in Database!FirstStatements /\ record \in Database!FirstStatements
    BY <1>1 DEF Database!FirstStatements
  <1>3. /\ none.at = "idle" /\ user.at = "puFind"
        /\ record.meeting = e.meeting /\ record.user = e.creator
    BY DEF Database!NoDbCall, Database!PlatformUserCall, Database!MeetingRecordCall
  <1> DEFINE k == DatabaseCall(e, what)
  <1> HIDE DEF none, user, record
  <1>4. \/ k = none
        \/ k = user
        \/ k = record /\ e.event \in {"meeting.started", "meeting.end"}
    BY DEF DatabaseCall, none, user, record
  <1> HIDE DEF k
  <1>5. /\ k = none \/ k \in Database!FirstStatements
        /\ k.at \in TxPoints => Recorded(e, k.meeting) /\ k.user = e.creator
    BY <1>2, <1>3, <1>4 DEF Recorded, TxPoints, AfterCreator
  <1> QED BY <1>5 DEF k, none

LEMMA FirstStatementsAreCalls ==
  /\ Database!NoDbCall \in Database!DbCallRecord
  /\ Database!FirstStatements \subseteq Database!DbCallRecord
  <1>1. Database!NoDbCall \in Database!DbCallRecord
    BY DEF Database!NoDbCall, Database!DbCallRecord, Database!Points
  <1>2. ASSUME NEW k \in Database!FirstStatements
        PROVE  k \in Database!DbCallRecord
    <2>1. CASE \E u \in Users : k = Database!PlatformUserCall(u)
      BY <1>1, <2>1
         DEF Database!PlatformUserCall, Database!DbCallRecord, Database!Points
    <2>2. CASE \E m \in Meetings, u \in Users : k = Database!MeetingRecordCall(m, u)
      BY <1>1, <2>2
         DEF Database!MeetingRecordCall, Database!DbCallRecord, Database!Points
    <2> QED BY <2>1, <2>2 DEF Database!FirstStatements
  <1> QED BY <1>1, <1>2

\* Events once received stay received, and rows stay.
LEMMA RecordsKept ==
  ASSUME NEW pu, NEW qu, NEW recs, NEW dels, NEW nels,
         \A u : RowsIn(pu, u) \subseteq RowsIn(qu, u),
         \A d \in Deliveries : dels[d] \in Events => nels[d] = dels[d],
         RecordsOf(pu, recs, dels)
  PROVE  RecordsOf(qu, recs, nels)
  BY DEF RecordsOf

LEMMA DeliverStartsDb ==
  ASSUME HandlersInv, NEW d \in Deliveries, NEW e \in Events, Deliver(d, e)
  PROVE  /\ Database!DbCallsStart
         /\ delivered' \in [Deliveries -> Events \cup {None}]
         /\ DbSlotsFree' /\ CallsOfEvents' /\ RecordsOf(platformUsers, records, delivered)'
  <1>1. dbCall \in [DbCalls -> Database!DbCallRecord]
    BY DEF HandlersInv, DatabaseInv
  <1>2. /\ delivered[d] = None /\ delivered' = [delivered EXCEPT ![d] = e]
        /\ dbCall' = [c \in DbCalls |->
                        IF c[1] = d THEN DatabaseCall(e, c[2]) ELSE dbCall[c]]
        /\ UNCHANGED <<platformUsers, records, dbFaults>>
    BY DEF Deliver
  <1>3. \A c \in DbCalls : c[1] \in Deliveries /\ c[2] \in {"platformUser", "record"}
    BY DEF DbCalls
  <1>4. /\ delivered' \in [Deliveries -> Events \cup {None}] /\ e # None
        /\ delivered'[d] = e /\ \A b \in Deliveries : b # d => delivered'[b] = delivered[b]
        /\ None \notin Events
    BY <1>2, EventsAssumption DEF HandlersInv
  <1>5. ASSUME NEW c \in DbCalls, c[1] = d
        PROVE  /\ dbCall'[c] = DatabaseCall(e, c[2]) /\ dbCall[c] = Database!NoDbCall
               /\ \/ DatabaseCall(e, c[2]) = Database!NoDbCall
                  \/ DatabaseCall(e, c[2]) \in Database!FirstStatements
               /\ dbCall'[c].at \in TxPoints =>
                     Recorded(e, dbCall'[c].meeting) /\ dbCall'[c].user = e.creator
    <2>1. dbCall'[c] = DatabaseCall(e, c[2]) /\ dbCall[c] = Database!NoDbCall
      BY <1>2, <1>5 DEF HandlersInv, DbSlotsFree
    <2> QED BY <1>3, <2>1, DatabaseCallStarts
  <1>6. ASSUME NEW c \in DbCalls, c[1] # d
        PROVE  dbCall'[c] = dbCall[c] /\ delivered'[c[1]] = delivered[c[1]]
    BY <1>2, <1>3, <1>4, <1>6
  <1>7. Database!DbCallsStart
    <2>1. ASSUME NEW c \in DbCalls
          PROVE  /\ dbCall'[c] \in Database!DbCallRecord
                 /\ dbCall'[c] # dbCall[c] =>
                       /\ dbCall[c] = Database!NoDbCall
                       /\ dbCall'[c] \in Database!FirstStatements
      BY <1>1, <1>5, <1>6, FirstStatementsAreCalls
    <2> QED BY <1>2, <2>1 DEF Database!DbCallsStart
  <1>8. DbSlotsFree'
    <2> SUFFICES ASSUME NEW c \in DbCalls, delivered'[c[1]] = None
                 PROVE  dbCall'[c] = Database!NoDbCall
      BY DEF DbSlotsFree, DbCalls, Database!NoDbCall
    <2>1. c[1] # d
      BY <1>4
    <2> QED BY <1>6, <2>1 DEF HandlersInv, DbSlotsFree
  <1>9. CallsOfEvents'
    <2> SUFFICES ASSUME NEW c \in DbCalls, dbCall'[c].at \in TxPoints
                 PROVE  /\ delivered'[c[1]] \in Events
                        /\ Recorded(delivered'[c[1]], dbCall'[c].meeting)
                        /\ dbCall'[c].user = delivered'[c[1]].creator
      BY DEF CallsOfEvents, DbCalls, Recorded, TxPoints, AfterCreator
    <2>1. CASE c[1] = d
      BY <1>4, <1>5, <2>1
    <2>2. CASE c[1] # d
      BY <1>6, <2>2 DEF HandlersInv, CallsOfEvents
    <2> QED BY <2>1, <2>2
  <1>10. RecordsOf(platformUsers', records', delivered')
    <2>1. \A b \in Deliveries : delivered[b] \in Events => delivered'[b] = delivered[b]
      BY <1>2, <1>4
    <2> QED BY <1>2, <2>1, RecordsKept DEF HandlersInv
  <1>11. RecordsOf(platformUsers, records, delivered)'
    BY <1>10 DEF RecordsOf, Recorded, Database!NoRecord, RowsIn
  <1> QED BY <1>4, <1>7, <1>8, <1>9, <1>11

-----------------------------------------------------------------------------
(* Statements *)

\* The upsert of slot c makes a step: it passes on its meeting and its user,
\* and writes the meeting, if any, of the event of its delivery.
LEMMA StatementTraced ==
  ASSUME HandlersInv, NEW c \in DbCalls, dbCall[c].at # "idle",
         Database!DbStep(c) \/ Database!StatementFails(c), delivered' = delivered
  PROVE  /\ DbSlotsFree' /\ CallsOfEvents'
         /\ RecordsOf(platformUsers, records, delivered)'
  <1>1. /\ DatabaseInv /\ DbSlotsFree /\ CallsOfEvents
        /\ RecordsOf(platformUsers, records, delivered)
        /\ dbCall \in [DbCalls -> Database!DbCallRecord]
        /\ records \in [Meetings -> Database!MeetingRecord]
        /\ platformUsers \in Seq(Database!PlatformUser)
        /\ c[1] \in Deliveries
    BY DEF HandlersInv, DatabaseInv, DbCalls
  <1>2. Database!DbStep(c) \/ Database!StatementFails(c)
    OBVIOUS
  <1>3. PICK n \in Database!DbCallRecord :
           /\ Database!DbBecome(c, n)
           /\ n.at \in TxPoints => Continues(dbCall[c], n)
    BY <1>1, <1>2, CallTraced
  <1>4. /\ dbCall'[c] = n
        /\ \A b \in DbCalls : b # c => dbCall'[b] = dbCall[b]
    BY <1>1, <1>3 DEF Database!DbBecome
  <1>5. DbSlotsFree'
    <2> SUFFICES ASSUME NEW b \in DbCalls, delivered'[b[1]] = None
                 PROVE  dbCall'[b] = Database!NoDbCall
      BY DEF DbSlotsFree, DbCalls, Database!NoDbCall
    <2>1. dbCall[b] = Database!NoDbCall
      BY <1>1 DEF DbSlotsFree
    <2>2. b # c
      BY <2>1 DEF Database!NoDbCall
    <2> QED BY <1>4, <2>1, <2>2
  <1>6. CallsOfEvents'
    <2> SUFFICES ASSUME NEW b \in DbCalls, dbCall'[b].at \in TxPoints
                 PROVE  /\ delivered[b[1]] \in Events
                        /\ Recorded(delivered[b[1]], dbCall'[b].meeting)
                        /\ dbCall'[b].user = delivered[b[1]].creator
      BY DEF CallsOfEvents, DbCalls, Recorded, TxPoints, AfterCreator
    <2>1. CASE b = c
      BY <1>1, <1>3, <1>4, <2>1 DEF CallsOfEvents, Continues
    <2>2. CASE b # c
      BY <1>1, <1>4, <2>2 DEF CallsOfEvents
    <2> QED BY <2>1, <2>2
  <1>7. Grown(platformUsers, platformUsers')
    BY <1>1, <1>2, RecordTraced
  <1>8. \A u : RowsIn(platformUsers, u) \subseteq RowsIn(platformUsers', u)
    <2>1. DatabaseInv'
      BY <1>1, <1>2, DbStepInv, StatementFailsInv, DatabaseAssumption
    <2>2. platformUsers' \in Seq(Database!PlatformUser)
      BY <2>1 DEF DatabaseInv
    <2> QED BY <1>1, <1>7, <2>2, GrownRows
  <1>9. RecordsOf(platformUsers', records, delivered)
    BY <1>1, <1>8, RecordsKept
  <1>10. RecordsOf(platformUsers', records', delivered)
    <2>1. CASE UNCHANGED records
      BY <1>9, <2>1
    <2>2. CASE ~ UNCHANGED records
      <3> DEFINE mt == dbCall[c].meeting
      <3>1. /\ dbCall[c].at = "txCommit"
            /\ records' = [records EXCEPT ![mt] = records'[mt]]
            /\ records'[mt].creator \in RowsIn(platformUsers', dbCall[c].user)
            /\ records'[mt].host \in RowsIn(platformUsers', dbCall[c].user)
        BY <1>1, <1>2, <2>2, RecordTraced
      <3>2. /\ delivered[c[1]] \in Events /\ Recorded(delivered[c[1]], mt)
            /\ dbCall[c].user = delivered[c[1]].creator
        BY <1>1, <3>1 DEF CallsOfEvents, TxPoints, AfterCreator
      <3> HIDE DEF mt
      <3> SUFFICES ASSUME NEW m \in Meetings, records'[m] # Database!NoRecord
                   PROVE  \E d \in Deliveries :
                            /\ delivered[d] \in Events /\ Recorded(delivered[d], m)
                            /\ records'[m].creator
                                  \in RowsIn(platformUsers', delivered[d].creator)
                            /\ records'[m].host
                                  \in RowsIn(platformUsers', delivered[d].creator)
        BY DEF RecordsOf
      <3>3. CASE m = mt
        BY <1>1, <3>1, <3>2, <3>3
      <3>4. CASE m # mt
        <4>1. records'[m] = records[m]
          BY <1>1, <3>1, <3>4
        <4> QED BY <1>9, <4>1 DEF RecordsOf
      <3> QED BY <3>3, <3>4
    <2> QED BY <2>1, <2>2
  <1>11. RecordsOf(platformUsers, records, delivered)'
    BY <1>10 DEF RecordsOf, Recorded, Database!NoRecord, RowsIn
  <1> QED BY <1>5, <1>6, <1>11

LEMMA HandlersStep ==
  ASSUME HandlersInv, [Next]_vars
  PROVE  HandlersInv' /\ [Database!DatabaseNext]_(Database!dbVars)
  <1>1. /\ DatabaseInv /\ delivered \in [Deliveries -> Events \cup {None}]
        /\ DbSlotsFree /\ CallsOfEvents /\ RecordsOf(platformUsers, records, delivered)
    BY DEF HandlersInv
  <1>2. Database!DatabaseAssumptions
    BY DatabaseAssumption
  <1>3. /\ delivered' \in [Deliveries -> Events \cup {None}]
        /\ DbSlotsFree' /\ CallsOfEvents' /\ RecordsOf(platformUsers, records, delivered)'
        /\ [Database!DatabaseNext]_(Database!dbVars)
    <2>1. CASE \E d \in Deliveries, e \in Events : Deliver(d, e)
      BY <2>1, DeliverStartsDb DEF Database!DatabaseNext
    <2>2. CASE DatabaseSteps
      <3>1. PICK c \in DbCalls : /\ dbCall[c].at # "idle"
                                 /\ Database!DbStep(c) \/ Database!StatementFails(c)
        BY <2>2 DEF DatabaseSteps
      <3>2. delivered' = delivered
        BY <2>2 DEF DatabaseSteps
      <3> QED BY <1>1, <3>1, <3>2, StatementTraced DEF Database!DatabaseNext
    <2>3. CASE TableSteps \/ UNCHANGED vars
      <3>1. UNCHANGED <<platformUsers, records, dbCall, dbFaults, delivered>>
        BY <2>3 DEF TableSteps, vars
      <3>2. DbSlotsFree'
        BY <1>1, <3>1 DEF DbSlotsFree, DbCalls, Database!NoDbCall
      <3>3. CallsOfEvents'
        BY <1>1, <3>1
           DEF CallsOfEvents, Recorded, DbCalls, TxPoints, AfterCreator
      <3>4. RecordsOf(platformUsers, records, delivered)'
        BY <1>1, <3>1 DEF RecordsOf, Recorded, Database!NoRecord, RowsIn
      <3> QED BY <1>1, <3>1, <3>2, <3>3, <3>4 DEF Database!dbVars
    <2>4. CASE Crash
      <3>1. /\ UNCHANGED <<platformUsers, records, delivered>> /\ Database!LoseDbCalls
            /\ dbCall' = [c \in DbCalls |-> Database!NoDbCall]
        BY <2>4 DEF Crash, Database!LoseDbCalls
      <3>2. \A c \in DbCalls : dbCall'[c].at \notin TxPoints
        BY <3>1 DEF Database!NoDbCall, TxPoints, AfterCreator
      <3>3. DbSlotsFree'
        BY <3>1 DEF DbSlotsFree, DbCalls, Database!NoDbCall
      <3>4. CallsOfEvents'
        BY <3>2 DEF CallsOfEvents, DbCalls, Recorded, TxPoints,
                    AfterCreator
      <3>5. RecordsOf(platformUsers, records, delivered)'
        BY <1>1, <3>1 DEF RecordsOf, Recorded, Database!NoRecord, RowsIn
      <3> QED BY <1>1, <3>1, <3>3, <3>4, <3>5 DEF Database!DatabaseNext
    <2> QED BY <2>1, <2>2, <2>3, <2>4 DEF Next
  <1>4. DatabaseInv'
    BY <1>1, <1>2, <1>3, DatabaseStepInv
  <1> QED BY <1>3, <1>4 DEF HandlersInv

LEMMA HandlersStart == Init => HandlersInv /\ Database!DatabaseInit
  <1> SUFFICES ASSUME Init PROVE HandlersInv /\ Database!DatabaseInit
    OBVIOUS
  <1>1. Database!DatabaseInit /\ delivered = [d \in Deliveries |-> None]
    BY DEF Init
  <1>3. DatabaseInv
    BY <1>1, DatabaseAssumption, DatabaseInitInv
  <1>4. DbSlotsFree /\ RecordsOf(platformUsers, records, delivered)
    BY <1>1 DEF DbSlotsFree, RecordsOf, Database!DatabaseInit
  <1>5. CallsOfEvents
    BY <1>1 DEF CallsOfEvents, Database!DatabaseInit, Database!NoDbCall,
       TxPoints, AfterCreator
  <1> QED BY <1>1, <1>3, <1>4, <1>5 DEF HandlersInv

-----------------------------------------------------------------------------
(* Waiting for locks *)

\* Among finitely many of whom each waits for another one, some wait in a
\* circle: a smallest such set has nobody that no other one waits for.
LEMMA CircleWithin ==
  ASSUME NEW S, IsFiniteSet(S), S # {}, NEW R,
         \A d \in S : \E b \in S \ {d} : <<d, b>> \in R
  PROVE  \E T \in SUBSET S : /\ T # {}
                             /\ \A d \in T : \E b \in T : <<d, b>> \in R
                             /\ \A d \in T : \E b \in T : <<b, d>> \in R
  <1> DEFINE Stuck == {T \in SUBSET S : T # {} /\ \A d \in T : \E b \in T \ {d} : <<d, b>> \in R}
  <1>1. IsWellFoundedOn(StrictSubsetOrdering(S), SUBSET S)
    BY FS_StrictSubsetOrderingWellFounded, FS_FiniteSubsetsOfFinite
  <1>2. S \in Stuck /\ Stuck \subseteq SUBSET S
    OBVIOUS
  <1> HIDE DEF Stuck
  <1>3. Stuck # {}
    BY <1>2
  <1>4. PICK T \in Stuck : \A U \in Stuck : <<U, T>> \notin StrictSubsetOrdering(S)
    <2>1. \E T \in Stuck : \A U \in Stuck : ~ (<<U, T>> \in StrictSubsetOrdering(S))
      BY <1>1, <1>2, <1>3, WFMin
    <2> QED BY <2>1
  <1>5. T \in SUBSET S /\ T # {} /\ \A d \in T : \E b \in T \ {d} : <<d, b>> \in R
    BY DEF Stuck
  <1>6. ASSUME NEW c \in T, \A b \in T : <<b, c>> \notin R PROVE FALSE
    <2>1. PICK U : U = T \ {c}
      OBVIOUS
    <2>2. U # {}
      BY <1>5, <2>1
    <2>3. \A d \in U : \E b \in U \ {d} : <<d, b>> \in R
      BY <1>5, <1>6, <2>1
    <2>4. U \in Stuck
      BY <1>5, <2>1, <2>2, <2>3 DEF Stuck
    <2>5. <<U, T>> \in StrictSubsetOrdering(S)
      BY <1>5, <2>1 DEF StrictSubsetOrdering
    <2> QED BY <1>4, <2>4, <2>5
  <1> QED BY <1>5, <1>6

\* What the next statement of an upsert needs to run: the lock of its row,
\* and, to find the host, a row of the user.
CanRun(c) ==
    \/ dbCall[c].at \in {"puFind", "puCreate", "txCreator", "txCreatorCreate", "txCommit"}
    \/ /\ dbCall[c].at \in {"puUpdate", "txCreatorUpdate", "txHostUpdate", "txMeeting"}
       /\ Database!Unlocked(c)
    \/ /\ dbCall[c].at = "txHost"
       /\ Database!RowsOf(dbCall[c].user) \cup (IF dbCall[c].own THEN {0} ELSE {}) # {}

\* The transaction that Postgres may abort, as TxDeadlocks has it.
InCircle(c) ==
    \E blocked \in SUBSET DbCalls :
        /\ c \in blocked
        /\ \A d \in blocked : (\E b \in blocked : Database!WaitsFor(d, b))
        /\ \A d \in blocked : (\E b \in blocked : Database!WaitsFor(b, d))

\* Upserts in flight that wait for none but each other.
Closed(S) ==
    /\ S # {}
    /\ \A c \in S : dbCall[c].at # "idle"
    /\ \A c \in S, d \in DbCalls : Database!WaitsFor(c, d) => d \in S

NoWedge ==
    \A S \in SUBSET DbCalls : Closed(S) => \E c \in S : CanRun(c) \/ InCircle(c)

\* An upsert that is not blocked can run its next statement.
LEMMA UnblockedRun ==
  ASSUME DatabaseInv, NEW c \in DbCalls, dbCall[c].at # "idle", Database!Unlocked(c)
  PROVE  CanRun(c)
  <1>1. PICK k \in Database!DbCallRecord : k = dbCall[c] /\ CallOK(platformUsers, k)
    BY CallAt
  <1>2. k.at \in Database!Points /\ k.at # "idle" /\ k.own \in BOOLEAN
    BY <1>1 DEF Database!DbCallRecord
  <1>3. CASE k.at = "txHost"
    <2>1. k.creator \in (IF k.own THEN {0} ELSE RowsIn(platformUsers, k.user))
      BY <1>1, <1>3 DEF CallOK, AfterCreator
    <2>2. Database!RowsOf(k.user) = RowsIn(platformUsers, k.user)
      BY RowsAreNat
    <2> QED BY <1>1, <1>3, <2>1, <2>2 DEF CanRun
  <1>4. CASE k.at # "txHost"
    BY <1>1, <1>2, <1>4 DEF CanRun, Database!Points
  <1> QED BY <1>3, <1>4

LEMMA WaitersSettle == IsFiniteSet(DbCalls) /\ DatabaseInv => NoWedge
  <1> SUFFICES ASSUME IsFiniteSet(DbCalls), DatabaseInv, NEW S \in SUBSET DbCalls, Closed(S),
                      \A c \in S : ~CanRun(c)
               PROVE  \E c \in S : InCircle(c)
    BY DEF NoWedge
  <1> DEFINE R == {p \in DbCalls \X DbCalls : Database!WaitsFor(p[1], p[2])}
  <1>1. \A c, d \in DbCalls : <<c, d>> \in R <=> Database!WaitsFor(c, d)
    OBVIOUS
  <1>2. ASSUME NEW c \in S PROVE \E d \in S \ {c} : <<c, d>> \in R
    <2>1. ~Database!Unlocked(c)
      BY UnblockedRun DEF Closed
    <2>2. PICK d \in DbCalls : Database!WaitsFor(c, d)
      BY <2>1 DEF Database!Unlocked
    <2>3. c # d
      BY <2>2 DEF Database!WaitsFor
    <2> QED BY <1>1, <2>2, <2>3 DEF Closed
  <1> HIDE DEF R
  <1>3. IsFiniteSet(S) /\ S # {}
    BY FS_Subset DEF Closed
  <1>4. PICK T \in SUBSET S : /\ T # {}
                              /\ \A d \in T : \E b \in T : <<d, b>> \in R
                              /\ \A d \in T : \E b \in T : <<b, d>> \in R
    BY <1>2, <1>3, CircleWithin
  <1>5. PICK c \in T : TRUE
    BY <1>4
  <1>6. InCircle(c)
    BY <1>1, <1>4, <1>5 DEF InCircle
  <1> QED BY <1>5, <1>6

-----------------------------------------------------------------------------
(* Upserts only get on *)

\* Where an upsert is: each statement has a lower rank than those before it.
StepRank(s) ==
    CASE s = "find" -> 4 [] s = "search" -> 3 [] s = "update" -> 2 [] s = "create" -> 1
      [] OTHER -> 0

TableRank(k) ==
    CASE k.at = "idle" -> 0
      [] k.at = "meeting" /\ k.step = "read" -> 15
      [] k.at = "meeting" /\ k.step # "read" -> StepRank(k.step)
      [] k.at = "creator" -> 5 + StepRank(k.step)
      [] OTHER -> 10 + StepRank(k.step)

DbRank(k) ==
    CASE k.at \in {"puFind", "txCreator"} -> 6
      [] k.at \in {"puUpdate", "puCreate", "txCreatorUpdate", "txCreatorCreate"} -> 5
      [] k.at = "txHost" -> 4
      [] k.at = "txHostUpdate" -> 3
      [] k.at = "txMeeting" -> 2
      [] k.at = "txCommit" -> 1
      [] OTHER -> 0

GoesOn ==
    /\ \A c \in Calls : call'[c] # call[c] /\ call[c].at # "idle"
                           => TableRank(call'[c]) < TableRank(call[c])
    /\ \A c \in DbCalls : dbCall'[c] # dbCall[c] /\ dbCall[c].at # "idle"
                           => DbRank(dbCall'[c]) < DbRank(dbCall[c])

LEMMA RankOfNone ==
  /\ \A k \in Tables!CallRecord : k.at # "idle" => TableRank(k) > 0 \/ k.step = "none"
  /\ \A k \in Database!DbCallRecord : k.at # "idle" => DbRank(k) > 0
  /\ TableRank(Tables!NoCall) = 0 /\ DbRank(Database!NoDbCall) = 0
  BY DEF TableRank, StepRank, DbRank, Tables!CallRecord, Tables!NoCall,
         Database!DbCallRecord, Database!Points, Database!NoDbCall

\* Where the calls on the tables may be, and how far that is from the end.
LEMMA TableRanks ==
  ASSUME NEW k \in Tables!CallRecord, Tables!CallOK(k), k.at # "idle"
  PROVE  /\ TableRank(k) \in Nat \ {0}
         /\ k.kind \in {"user", "people", "bare"}
         /\ k.kind # "people" => k.at \in {"operator", "meeting"} /\ k.step \in {"search", "update", "create"}
         /\ k.step \in {"read", "find", "search", "update", "create"}
         /\ k.step = "read" => k.at = "meeting" /\ TableRank(k) = 15
         /\ k.at = "operator" => TableRank(k) = 10 + StepRank(k.step)
         /\ k.at = "creator" => TableRank(k) = 5 + StepRank(k.step)
         /\ k.at = "meeting" /\ k.step # "read" => TableRank(k) = StepRank(k.step)
         /\ k.step = "find" => k.at \in {"operator", "creator"}
         /\ k.at \in {"operator", "creator"} => k.step # "read"
  BY DEF Tables!CallOK, Tables!NoCall, TableRank, StepRank

\* A call that has its record id goes on at a lower rank.
LEMMA ResolvedRank ==
  ASSUME NEW k \in Tables!CallRecord, Tables!CallOK(k), k.at # "idle",
         k.step \in {"find", "search", "update", "create"}, NEW id
  PROVE  TableRank(Tables!Resolved(k, id)) < TableRank(k)
  <1>0. TableRank(k) \in Nat \ {0}
    BY TableRanks
  <1>1. CASE k.kind = "user" \/ k.at = "meeting"
    BY <1>0, <1>1, RankOfNone DEF Tables!Resolved
  <1>2. CASE ~(k.kind = "user" \/ k.at = "meeting") /\ k.at = "operator"
    <2>1. PICK n : n = Tables!Resolved(k, id)
      OBVIOUS
    <2>2. n.at = "creator" /\ n.step = "find"
      BY <1>2, <2>1 DEF Tables!Resolved, Tables!CallRecord
    <2>3. TableRank(n) = 9
      BY <2>2 DEF TableRank, StepRank
    <2>4. TableRank(k) > 10
      BY <1>2, TableRanks DEF StepRank
    <2> QED BY <1>0, <2>1, <2>3, <2>4
  <1>3. CASE ~(k.kind = "user" \/ k.at = "meeting") /\ k.at # "operator"
    <2>1. PICK n : n = Tables!Resolved(k, id)
      OBVIOUS
    <2>2. n.at = "meeting" /\ n.step = "search" /\ k.at = "creator"
      BY <1>3, <2>1 DEF Tables!Resolved, Tables!CallRecord
    <2>3. TableRank(n) = 3
      BY <2>2 DEF TableRank, StepRank
    <2>4. TableRank(k) > 5
      BY <2>2, TableRanks DEF StepRank
    <2> QED BY <1>0, <2>1, <2>3, <2>4
  <1> QED BY <1>1, <1>2, <1>3

\* A request to Bitable, answered or failed, takes its call on.
LEMMA TableCallGoesOn ==
  ASSUME Tables!TablesTypeOK, NEW c \in Calls, call[c].at # "idle",
         Tables!TableStep(c) \/ Tables!RequestFails(c)
  PROVE  \E n : Tables!Become(c, n) /\ TableRank(n) < TableRank(call[c])
  <1>1. PICK k \in Tables!CallRecord : k = call[c] /\ Tables!CallOK(k)
    BY DEF Tables!TablesTypeOK
  <1>2. k.at # "idle" /\ TableRank(k) \in Nat \ {0}
    BY <1>1, TableRanks
  <1> DEFINE On == \E n : Tables!Become(c, n) /\ TableRank(n) < TableRank(k)
  <1>3. ASSUME NEW id, Tables!Become(c, Tables!Resolved(k, id)),
               k.step \in {"find", "search", "update", "create"}
        PROVE  On
    BY <1>1, <1>2, <1>3, ResolvedRank
  <1>4. ASSUME Tables!Become(c, Tables!NoCall) PROVE On
    BY <1>2, <1>4, RankOfNone
  <1>5. ASSUME NEW n, Tables!Become(c, n), k.step = "read", n.at = "operator", n.step = "find"
        PROVE  On
    <2>1. TableRank(n) = 14 /\ TableRank(k) = 15
      BY <1>1, <1>2, <1>5, TableRanks DEF TableRank, StepRank
    <2> QED BY <1>5, <2>1
  <1>6. ASSUME NEW n, Tables!Become(c, n), n.at = k.at, n.step \in {"search", "update", "create"},
               k.step # "read", StepRank(n.step) < StepRank(k.step)
        PROVE  On
    <2>1. n.step # "read" /\ k.at \in {"operator", "creator", "meeting"}
      BY <1>1, <1>2, <1>6 DEF Tables!CallRecord
    <2>2. /\ k.at = "operator" => TableRank(n) = 10 + StepRank(n.step)
          /\ k.at = "creator" => TableRank(n) = 5 + StepRank(n.step)
          /\ k.at = "meeting" => TableRank(n) = StepRank(n.step)
      BY <1>6, <2>1 DEF TableRank
    <2>3. StepRank(n.step) \in Nat /\ StepRank(k.step) \in Nat
      BY DEF StepRank
    <2> QED BY <1>1, <1>2, <1>6, <2>1, <2>2, <2>3, TableRanks
  <1> HIDE DEF On
  <1> SUFFICES On
    BY <1>1 DEF On
  <1>7. CASE Tables!ReadMeeting(c)
    <2>1. PICK n : n = [k EXCEPT !.people = Tables!Snapshot(k).people,
                                 !.base = Tables!Snapshot(k).version,
                                 !.at = "operator", !.step = "find"]
      OBVIOUS
    <2>2. n.at = "operator" /\ n.step = "find" /\ Tables!Become(c, n) /\ k.step = "read"
      BY <1>1, <1>7, <2>1 DEF Tables!ReadMeeting, Tables!CallRecord
    <2> QED BY <1>5, <2>2
  <1>8. CASE Tables!FindUser(c) \/ Tables!SearchRecord(c)
    <2>1. k.step \in {"find", "search"}
      BY <1>1, <1>8 DEF Tables!FindUser, Tables!SearchRecord
    <2>2. CASE \E id : Tables!Become(c, Tables!Resolved(k, id))
      BY <1>3, <2>1, <2>2
    <2>3. CASE ~\E id : Tables!Become(c, Tables!Resolved(k, id))
      <3>1. \/ k.step = "find" /\ Tables!Become(c, [k EXCEPT !.step = "search"])
            \/ /\ k.step = "search"
               /\ \/ Tables!Become(c, [k EXCEPT !.step = "update", !.row = Tables!First(Tables!Hits(k))])
                  \/ Tables!Become(c, [k EXCEPT !.step = "create", !.seen = Tables!TableLength(k)])
        BY <1>1, <1>8, <2>3 DEF Tables!FindUser, Tables!SearchRecord
      <3>2. PICK n : /\ Tables!Become(c, n) /\ n.at = k.at
                     /\ \/ k.step = "find" /\ n.step = "search"
                        \/ k.step = "search" /\ n.step \in {"update", "create"}
        <4>1. PICK n : /\ Tables!Become(c, n)
                       /\ \/ k.step = "find" /\ n = [k EXCEPT !.step = "search"]
                          \/ /\ k.step = "search"
                             /\ \/ n = [k EXCEPT !.step = "update", !.row = Tables!First(Tables!Hits(k))]
                                \/ n = [k EXCEPT !.step = "create", !.seen = Tables!TableLength(k)]
          BY <3>1
        <4>2. /\ n.at = k.at
              /\ \/ k.step = "find" /\ n.step = "search"
                 \/ k.step = "search" /\ n.step \in {"update", "create"}
          BY <4>1 DEF Tables!CallRecord
        <4> QED BY <4>1, <4>2
      <3>3. StepRank(n.step) < StepRank(k.step)
        BY <3>2 DEF StepRank
      <3> QED BY <1>6, <3>2, <3>3
    <2> QED BY <2>2, <2>3
  <1>9. CASE Tables!UpdateRecord(c) \/ Tables!CreateRecord(c)
    <2>1. k.step \in {"update", "create"} /\ \E id : Tables!Become(c, Tables!Resolved(k, id))
      BY <1>1, <1>9 DEF Tables!UpdateRecord, Tables!UpdatesRow, Tables!CreateRecord,
                        Tables!CreatesRow
    <2> QED BY <1>3, <2>1
  <1>10. CASE Tables!RequestFails(c)
    <2>1. CASE Tables!RequestThrows(c) \/ Tables!AnswerLost(c)
      BY <1>4, <2>1 DEF Tables!RequestThrows, Tables!AnswerLost
    <2>2. CASE Tables!RequestWithoutData(c)
      <3>1. CASE Tables!Become(c, Tables!NoCall)
        BY <1>4, <3>1
      <3>2. CASE k.step = "read" /\ Tables!Become(c, [k EXCEPT !.at = "operator", !.step = "find"])
        <4>1. PICK n : n = [k EXCEPT !.at = "operator", !.step = "find"]
          OBVIOUS
        <4>2. n.at = "operator" /\ n.step = "find"
          BY <4>1 DEF Tables!CallRecord
        <4> QED BY <1>5, <3>2, <4>1, <4>2
      <3>3. CASE k.step = "find" /\ Tables!Become(c, [k EXCEPT !.step = "search"])
        <4>1. PICK n : n = [k EXCEPT !.step = "search"]
          OBVIOUS
        <4>2. n.at = k.at /\ n.step = "search" /\ StepRank(n.step) < StepRank(k.step)
          BY <3>3, <4>1 DEF Tables!CallRecord, StepRank
        <4> QED BY <1>6, <3>3, <4>1, <4>2
      <3>4. CASE /\ k.step \in {"search", "update"}
                 /\ Tables!Become(c, [k EXCEPT !.step = "create", !.row = 0])
        <4>1. PICK n : n = [k EXCEPT !.step = "create", !.row = 0]
          OBVIOUS
        <4>2. n.at = k.at /\ n.step = "create" /\ StepRank(n.step) < StepRank(k.step)
          BY <3>4, <4>1 DEF Tables!CallRecord, StepRank
        <4> QED BY <1>6, <3>4, <4>1, <4>2
      <3> QED BY <1>1, <2>2, <3>1, <3>2, <3>3, <3>4 DEF Tables!RequestWithoutData
    <2> QED BY <1>10, <2>1, <2>2 DEF Tables!RequestFails
  <1> QED BY <1>7, <1>8, <1>9, <1>10 DEF Tables!TableStep

\* A statement, run or failed, takes its upsert on, and so does the abort.
LEMMA DbCallGoesOn ==
  ASSUME DatabaseInv, NEW c \in DbCalls, dbCall[c].at # "idle",
         Database!DbStep(c) \/ Database!StatementFails(c)
  PROVE  \E n : Database!DbBecome(c, n) /\ DbRank(n) < DbRank(dbCall[c])
  <1>1. PICK k \in Database!DbCallRecord : k = dbCall[c] /\ k.at # "idle"
    BY CallAt
  <1>2. DbRank(k) \in Nat \ {0}
    BY <1>1 DEF DbRank, Database!DbCallRecord, Database!Points
  <1> DEFINE On == \E n : Database!DbBecome(c, n) /\ DbRank(n) < DbRank(k)
  <1>3. ASSUME Database!DbBecome(c, Database!NoDbCall) PROVE On
    BY <1>2, <1>3, RankOfNone
  <1> SUFFICES On
    BY <1>1
  <1>4. CASE Database!FindPlatformUser(c) \/ Database!TxFindsCreator(c)
    <2>1. PICK n : /\ Database!DbBecome(c, n) /\ k.at \in {"puFind", "txCreator"}
                   /\ n.at \in {"puUpdate", "puCreate", "txCreatorUpdate", "txCreatorCreate"}
      <3>1. ASSUME NEW p \in {"puUpdate", "puCreate", "txCreatorUpdate", "txCreatorCreate"}, NEW i
            PROVE  [k EXCEPT !.at = p, !.creator = i].at = p /\ [k EXCEPT !.at = p, !.seen = i].at = p
        BY DEF Database!DbCallRecord
      <3>2. CASE Database!FindPlatformUser(c)
        <4>1. k.at = "puFind"
          BY <1>1, <3>2 DEF Database!FindPlatformUser
        <4>2. PICK i : \/ Database!DbBecome(c, [k EXCEPT !.at = "puUpdate", !.creator = i])
                       \/ Database!DbBecome(c, [k EXCEPT !.at = "puCreate", !.seen = i])
          BY <1>1, <3>2 DEF Database!FindPlatformUser
        <4>3. PICK n : n = [k EXCEPT !.at = "puUpdate", !.creator = i]
          OBVIOUS
        <4>4. PICK m : m = [k EXCEPT !.at = "puCreate", !.seen = i]
          OBVIOUS
        <4>5. Database!DbBecome(c, n) \/ Database!DbBecome(c, m)
          BY <4>2, <4>3, <4>4
        <4>6. n.at = "puUpdate" /\ m.at = "puCreate"
          BY <3>1, <4>3, <4>4
        <4> QED BY <4>1, <4>5, <4>6
      <3>3. CASE Database!TxFindsCreator(c)
        <4>1. k.at = "txCreator"
          BY <1>1, <3>3 DEF Database!TxFindsCreator
        <4>2. PICK i : \/ Database!DbBecome(c, [k EXCEPT !.at = "txCreatorUpdate", !.creator = i])
                       \/ Database!DbBecome(c, [k EXCEPT !.at = "txCreatorCreate", !.seen = i])
          BY <1>1, <3>3 DEF Database!TxFindsCreator
        <4>3. PICK n : n = [k EXCEPT !.at = "txCreatorUpdate", !.creator = i]
          OBVIOUS
        <4>4. PICK m : m = [k EXCEPT !.at = "txCreatorCreate", !.seen = i]
          OBVIOUS
        <4>5. Database!DbBecome(c, n) \/ Database!DbBecome(c, m)
          BY <4>2, <4>3, <4>4
        <4>6. n.at = "txCreatorUpdate" /\ m.at = "txCreatorCreate"
          BY <3>1, <4>3, <4>4
        <4> QED BY <4>1, <4>5, <4>6
      <3> QED BY <1>4, <3>2, <3>3
    <2>2. DbRank(n) < DbRank(k)
      BY <2>1 DEF DbRank
    <2> QED BY <2>1, <2>2
  <1>5. CASE Database!TxWritesCreator(c)
    <2>1. PICK n : n = [dbCall[c] EXCEPT !.at = "txHost", !.own = dbCall[c].at = "txCreatorCreate"]
      OBVIOUS
    <2>2. k.at \in {"txCreatorUpdate", "txCreatorCreate"} /\ Database!DbBecome(c, n)
      BY <1>1, <1>5, <2>1 DEF Database!TxWritesCreator
    <2>3. n.at = "txHost"
      BY <1>1, <2>1 DEF Database!DbCallRecord
    <2>4. DbRank(n) < DbRank(k)
      BY <2>2, <2>3 DEF DbRank
    <2> QED BY <2>2, <2>4
  <1>6. CASE Database!TxFindsHost(c)
    <2>1. PICK i : k.at = "txHost" /\ Database!DbBecome(c, [k EXCEPT !.at = "txHostUpdate", !.host = i])
      BY <1>1, <1>6 DEF Database!TxFindsHost
    <2>2. PICK n : n = [k EXCEPT !.at = "txHostUpdate", !.host = i]
      OBVIOUS
    <2>3. n.at = "txHostUpdate"
      BY <2>2 DEF Database!DbCallRecord
    <2>4. DbRank(n) < DbRank(k)
      BY <2>1, <2>3 DEF DbRank
    <2> QED BY <2>1, <2>2, <2>4
  <1>7. CASE Database!TxWritesHost(c) \/ Database!TxWritesMeeting(c)
    <2>1. PICK p : /\ \/ k.at = "txHostUpdate" /\ p = "txMeeting"
                      \/ k.at = "txMeeting" /\ p = "txCommit"
                   /\ Database!DbBecome(c, [k EXCEPT !.at = p])
      BY <1>1, <1>7 DEF Database!TxWritesHost, Database!TxWritesMeeting
    <2>2. PICK n : n = [k EXCEPT !.at = p]
      OBVIOUS
    <2>3. n.at = p
      BY <2>2 DEF Database!DbCallRecord
    <2>4. DbRank(n) < DbRank(k)
      BY <2>1, <2>3 DEF DbRank
    <2> QED BY <2>1, <2>2, <2>4
  <1>8. CASE Database!UpdatePlatformUser(c) \/ Database!CreatePlatformUser(c) \/ Database!TxCommits(c)
               \/ Database!TxDeadlocks(c) \/ Database!StatementFails(c)
    BY <1>3, <1>8 DEF Database!UpdatePlatformUser, Database!CreatePlatformUser,
                      Database!TxCommits, Database!TxDeadlocks, Database!StatementFails
  <1> QED BY <1>4, <1>5, <1>6, <1>7, <1>8 DEF Database!DbStep

LEMMA StepsGoOn ==
  EventsInv /\ HandlersInv /\ Tables!TablesTypeOK /\ [Next]_vars => [GoesOn]_vars
  <1> SUFFICES ASSUME EventsInv, HandlersInv, Tables!TablesTypeOK, Next PROVE GoesOn
    OBVIOUS
  <1>0. /\ call \in [Calls -> Tables!CallRecord] /\ dbCall \in [DbCalls -> Database!DbCallRecord]
        /\ \A c \in Calls : Tables!CallOK(call[c])
    BY DEF Tables!TablesTypeOK, HandlersInv, DatabaseInv
  <1>1. ASSUME NEW d \in Deliveries, NEW e \in Events, Deliver(d, e) PROVE GoesOn
    <2>1. \A c \in Calls : call'[c] # call[c] => call[c] = Tables!NoCall
      BY <1>1, DeliverStarts DEF Tables!CallsStart
    <2>2. \A c \in DbCalls : dbCall'[c] # dbCall[c] => dbCall[c] = Database!NoDbCall
      BY <1>1, DeliverStartsDb DEF Database!DbCallsStart
    <2>3. Tables!NoCall.at = "idle" /\ Database!NoDbCall.at = "idle"
      BY DEF Tables!NoCall, Database!NoDbCall
    <2> QED BY <2>1, <2>2, <2>3 DEF GoesOn
  <1>2. CASE TableSteps
    <2>1. PICK c \in Calls : /\ call[c].at # "idle"
                             /\ Tables!TableStep(c) \/ Tables!RequestFails(c)
      BY <1>2 DEF TableSteps
    <2>2. PICK n : call' = [call EXCEPT ![c] = n] /\ TableRank(n) < TableRank(call[c])
      BY <2>1, TableCallGoesOn DEF Tables!Become
    <2>3. dbCall' = dbCall
      BY <1>2 DEF TableSteps
    <2> QED BY <1>0, <2>2, <2>3 DEF GoesOn
  <1>3. CASE DatabaseSteps
    <2>1. PICK c \in DbCalls : /\ dbCall[c].at # "idle"
                               /\ Database!DbStep(c) \/ Database!StatementFails(c)
      BY <1>3 DEF DatabaseSteps
    <2>2. PICK n : dbCall' = [dbCall EXCEPT ![c] = n] /\ DbRank(n) < DbRank(dbCall[c])
      BY <2>1, DbCallGoesOn DEF Database!DbBecome, HandlersInv
    <2>3. call' = call
      BY <1>3 DEF DatabaseSteps
    <2> QED BY <1>0, <2>2, <2>3 DEF GoesOn
  <1>4. CASE Crash
    <2>1. /\ \A c \in Calls : call'[c] = Tables!NoCall
          /\ \A c \in DbCalls : dbCall'[c] = Database!NoDbCall
      BY <1>4 DEF Crash, Tables!LoseCalls, Database!LoseDbCalls
    <2>2. \A c \in Calls : call[c].at # "idle" => TableRank(call[c]) \in Nat \ {0}
      BY <1>0, TableRanks
    <2>3. \A c \in DbCalls : dbCall[c].at # "idle" => DbRank(dbCall[c]) > 0
      BY <1>0, RankOfNone
    <2> QED BY <2>1, <2>2, <2>3, RankOfNone DEF GoesOn
  <1> QED BY <1>1, <1>2, <1>3, <1>4 DEF Next

-----------------------------------------------------------------------------
(* Theorems *)

\* A transaction works for the meeting and the creator of its event from its
\* first statement to its commit (MeetingDatabaseService, upsertMeetingRecord).
THEOREM HandlersInvariant == Spec => []HandlersInv
  BY HandlersStart, HandlersStep, PTL DEF Spec

\* The handlers implement the specification of the database: a step of theirs
\* is a step of the database or leaves it alone (MeetingDatabaseService).
THEOREM HandlersUseDatabase == Spec => ImplementsDatabase
  <1>1. HandlersInv /\ [Next]_vars => [Database!DatabaseNext]_(Database!dbVars)
    BY HandlersStep
  <1> QED
    BY <1>1, HandlersStart, HandlersInvariant, PTL
       DEF Spec, ImplementsDatabase, Database!DatabaseSpec

\* Under the handlers, as in the database alone: the tables and the upserts in
\* flight have the shapes the code relies on.
THEOREM HandlersKeepDatabaseTypes == Spec => []DatabaseTypeOK
  <1>1. HandlersInv => DatabaseTypeOK
    BY InvTypeOK DEF HandlersInv, DatabaseTypeOK
  <1> QED BY <1>1, HandlersInvariant, PTL

\* Of two platform users with one uuid, the findFirst behind the second ran
\* before the first was visible, whatever events come, again or out of order
\* (PlatformUserRepository.upsertPlatformUser).
THEOREM HandlersMakePlatformTwinsByOverlap == Spec => []PlatformTwinsOverlap
  <1>1. DatabaseInv => PlatformTwinsOverlap
    BY DEF DatabaseInv, TwinsIn,
           PlatformTwinsOverlap, Database!PlatformTwinsOverlap
  <1> QED BY <1>1, HandlersInvariant, PTL DEF HandlersInv

\* The creator and the host of a meeting are rows of the creator of an event
\* of that meeting that was received, through failures, deadlocks and crashes
\* (TencentMeetingRepository.upsertMeetingWithPlatformUsers).
THEOREM HandlersRecordTheirCreator == Spec => []RecordsHaveTheirCreator
  <1>1. HandlersInv => RecordsHaveTheirCreator
    <2> SUFFICES ASSUME HandlersInv, NEW m \in Meetings, records[m] # Database!NoRecord
                 PROVE  /\ {records[m].creator, records[m].host} \subseteq
                              1..Len(platformUsers)
                        /\ \E e \in Received :
                              /\ e.event \in {"meeting.started", "meeting.end"}
                              /\ e.meeting = m
                              /\ platformUsers[records[m].creator].uuid = e.creator
                              /\ platformUsers[records[m].host].uuid = e.creator
      BY DEF RecordsHaveTheirCreator
    <2>1. PICK d \in Deliveries :
             /\ delivered[d] \in Events /\ Recorded(delivered[d], m)
             /\ records[m].creator \in RowsIn(platformUsers, delivered[d].creator)
             /\ records[m].host \in RowsIn(platformUsers, delivered[d].creator)
      BY DEF HandlersInv, RecordsOf
    <2>2. delivered[d] \in Received
      BY <2>1, EventsAssumption DEF Received
    <2> QED BY <2>1, <2>2 DEF Recorded, RowsIn
  <1> QED BY <1>1, HandlersInvariant, PTL

\* The upserts in flight never all wait for one another for good, however many
\* events are handled at once: of any that wait for nobody else, one can run
\* its next statement, or it lies in a circle that Postgres breaks by aborting
\* one (TencentMeetingRepository.upsertMeetingWithPlatformUsers).
THEOREM UpsertsNeverWedge == IsFiniteSet(Deliveries) => (Spec => []NoWedge)
  <1>1. ASSUME IsFiniteSet(Deliveries) PROVE IsFiniteSet(DbCalls)
    <2>1. IsFiniteSet({"platformUser"} \cup {"record"})
      BY FS_Singleton, FS_Union
    <2>2. DbCalls = Deliveries \X ({"platformUser"} \cup {"record"})
      BY DEF DbCalls
    <2> QED BY <1>1, <2>1, <2>2, FS_Product
  <1>2. ASSUME IsFiniteSet(Deliveries) PROVE HandlersInv => NoWedge
    BY <1>1, <1>2, WaitersSettle DEF HandlersInv
  <1>3. ASSUME IsFiniteSet(Deliveries) PROVE Spec => []NoWedge
    <2>1. HandlersInv => NoWedge
      BY <1>2, <1>3
    <2> QED BY <2>1, HandlersInvariant, PTL
  <1> QED BY <1>3

\* Each request and each statement, answered or failed, takes its upsert to a
\* later step and none takes it back, so that an upsert ends after so many
\* (MeetingUserRepository.upsertMeetingUserRecord, upsertMeetingRecord,
\* TencentMeetingRepository.upsertMeetingWithPlatformUsers).
THEOREM UpsertsGoOn == Spec => [][GoesOn]_vars
  <1>1. EventsInv /\ HandlersInv /\ Tables!TablesTypeOK /\ [Next]_vars => [GoesOn]_vars
    BY StepsGoOn
  <1> QED
    BY <1>1, EventsInvariant, HandlersInvariant, HandlersKeepTypes, PTL DEF Spec, TablesTypeOK
=============================================================================
