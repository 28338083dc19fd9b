--------------------------- MODULE MeetingDatabase ---------------------------
(***************************************************************************)
(* The Postgres tables the meeting events are written to: platform users,  *)
(* which have no unique key over (platform, platformUuid), and meetings,   *)
(* which have one over (platform, meetingId, subMeetingId).  The upsert of *)
(* PlatformUserRepository reads and writes outside a transaction; that of  *)
(* TencentMeetingRepository writes the creator, the host and the meeting   *)
(* in one, at the isolation level read committed: what it writes is seen   *)
(* when it commits, and a row it updated is locked until then.             *)
(*                                                                         *)
(* Rows are never deleted.  findFirst has no order, so that it may return  *)
(* any of several rows.                                                    *)
(***************************************************************************)
EXTENDS Naturals, Sequences

CONSTANTS
    DbCalls,        \* slots for upserts in flight
    Users,          \* Tencent uuids
    Meetings,
    None,
    MaxDbFaults     \* bound on the failed statements of a behaviour

\* What the modules that use this one assume of its constants.
DatabaseAssumptions ==
    /\ None \notin Users /\ None \notin Meetings
    /\ MaxDbFaults \in Nat

VARIABLES
    platformUsers,  \* user_platforms, in the order rows became visible
    records,        \* meetings
    dbCall,         \* dbCall[c]: the upsert in slot c
    dbFaults

dbVars == <<platformUsers, records, dbCall, dbFaults>>

\* History: `seen' is the number of rows when the findFirst ran that led to
\* the creation of this one.
PlatformUser == [uuid: Users, seen: Nat]

MeetingRecord == [creator: Nat, host: Nat]

NoRecord == [creator |-> 0, host |-> 0]

(***************************************************************************)
(* The statements of a call.  Those of the transaction begin with "tx".    *)
(* `own' says that the transaction inserted the creator itself; such a row *)
(* has no place in the table before the commit, and stands as 0.           *)
(***************************************************************************)
NoDbCall == [at |-> "idle", user |-> None, meeting |-> None,
             creator |-> 0, host |-> 0, own |-> FALSE, seen |-> 0]

Points == {"idle", "puFind", "puUpdate", "puCreate", "txCreator",
           "txCreatorUpdate", "txCreatorCreate", "txHost", "txHostUpdate",
           "txMeeting", "txCommit"}

DbCallRecord == [at: Points, user: Users \cup {None},
                 meeting: Meetings \cup {None},
                 creator: Nat, host: Nat, own: BOOLEAN, seen: Nat]

DatabaseInit ==
    /\ platformUsers = << >>
    /\ records = [m \in Meetings |-> NoRecord]
    /\ dbCall = [c \in DbCalls |-> NoDbCall]
    /\ dbFaults = 0

\* MeetingDatabaseService.upsertPlatformUser
PlatformUserCall(u) == [NoDbCall EXCEPT !.at = "puFind", !.user = u]

\* Mutant: the uuid of the creator is not passed on.
MeetingRecordCallAnonymous(m, u) ==
    [NoDbCall EXCEPT !.at = "txCreator", !.meeting = m]

\* MeetingDatabaseService.upsertMeetingRecord: the creator is the host too.
MeetingRecordCall(m, u) ==
    [NoDbCall EXCEPT !.at = "txCreator", !.user = u, !.meeting = m]

FirstStatements ==
    {PlatformUserCall(u) : u \in Users}
        \cup {MeetingRecordCall(m, u) : m \in Meetings, u \in Users}

\* Any number of calls start at once.
DbCallsStart ==
    /\ dbCall' \in [DbCalls -> DbCallRecord]
    /\ \A c \in DbCalls : dbCall'[c] # dbCall[c] =>
           dbCall[c] = NoDbCall /\ dbCall'[c] \in FirstStatements
    /\ UNCHANGED <<platformUsers, records, dbFaults>>

DbBecome(c, k) == dbCall' = [dbCall EXCEPT ![c] = k]

RowsOf(u) == {i \in 1..Len(platformUsers) : platformUsers[i].uuid = u}

-----------------------------------------------------------------------------
(* Locks *)

\* The rows of platformUsers that the transaction in slot c has updated.
HoldsUsers(c) ==
    (IF dbCall[c].at \in {"txHost", "txHostUpdate", "txMeeting", "txCommit"}
     THEN {dbCall[c].creator} ELSE {})
        \cup (IF dbCall[c].at \in {"txMeeting", "txCommit"}
              THEN {dbCall[c].host} ELSE {})

HoldsMeeting(c, m) == dbCall[c].at = "txCommit" /\ dbCall[c].meeting = m

\* The row the next statement of c updates, 0 for none or for one of its own.
WantsUser(c) ==
    CASE dbCall[c].at \in {"puUpdate", "txCreatorUpdate"} -> dbCall[c].creator
      [] dbCall[c].at = "txHostUpdate" -> dbCall[c].host
      [] OTHER -> 0

WaitsFor(c, d) ==
    /\ c # d
    /\ \/ WantsUser(c) # 0 /\ WantsUser(c) \in HoldsUsers(d)
       \/ dbCall[c].at = "txMeeting" /\ HoldsMeeting(d, dbCall[c].meeting)

Unlocked(c) == \A d \in DbCalls : ~ WaitsFor(c, d)

-----------------------------------------------------------------------------
(* PlatformUserRepository.upsertPlatformUser *)

\* Mutant: the row is looked up by another column than it is written with.
FindsNoPlatformUser(c) ==
    /\ dbCall[c].at = "puFind"
    /\ DbBecome(c, [dbCall[c] EXCEPT !.at = "puCreate",
                                     !.seen = Len(platformUsers)])
    /\ UNCHANGED <<platformUsers, records, dbFaults>>

FindPlatformUser(c) ==
    /\ dbCall[c].at = "puFind"
    /\ \/ \E i \in RowsOf(dbCall[c].user) :
             DbBecome(c, [dbCall[c] EXCEPT !.at = "puUpdate", !.creator = i])
       \/ /\ RowsOf(dbCall[c].user) = {}
          /\ DbBecome(c, [dbCall[c] EXCEPT !.at = "puCreate",
                                           !.seen = Len(platformUsers)])
    /\ UNCHANGED <<platformUsers, records, dbFaults>>

UpdatePlatformUser(c) ==
    /\ dbCall[c].at = "puUpdate" /\ Unlocked(c)
    /\ DbBecome(c, NoDbCall)
    /\ UNCHANGED <<platformUsers, records, dbFaults>>

CreatePlatformUser(c) ==
    /\ dbCall[c].at = "puCreate"
    /\ platformUsers' = Append(platformUsers, [uuid |-> dbCall[c].user,
                                               seen |-> dbCall[c].seen])
    /\ DbBecome(c, NoDbCall)
    /\ UNCHANGED <<records, dbFaults>>

-----------------------------------------------------------------------------
(* TencentMeetingRepository.upsertMeetingWithPlatformUsers *)

\* Mutant: any platform user will do.
TxFindsAnyCreator(c) ==
    /\ dbCall[c].at = "txCreator"
    /\ \/ \E i \in 1..Len(platformUsers) :
             DbBecome(c, [dbCall[c] EXCEPT !.at = "txCreatorUpdate", !.creator = i])
       \/ /\ RowsOf(dbCall[c].user) = {}
          /\ DbBecome(c, [dbCall[c] EXCEPT !.at = "txCreatorCreate",
                                           !.seen = Len(platformUsers)])
    /\ UNCHANGED <<platformUsers, records, dbFaults>>

TxFindsCreator(c) ==
    /\ dbCall[c].at = "txCreator"
    /\ \/ \E i \in RowsOf(dbCall[c].user) :
             DbBecome(c, [dbCall[c] EXCEPT !.at = "txCreatorUpdate", !.creator = i])
       \/ /\ RowsOf(dbCall[c].user) = {}
          /\ DbBecome(c, [dbCall[c] EXCEPT !.at = "txCreatorCreate",
                                           !.seen = Len(platformUsers)])
    /\ UNCHANGED <<platformUsers, records, dbFaults>>

TxWritesCreator(c) ==
    /\ \/ dbCall[c].at = "txCreatorUpdate" /\ Unlocked(c)
       \/ dbCall[c].at = "txCreatorCreate"
    /\ DbBecome(c, [dbCall[c] EXCEPT !.at = "txHost",
                                     !.own = dbCall[c].at = "txCreatorCreate"])
    /\ UNCHANGED <<platformUsers, records, dbFaults>>

\* The transaction sees its own row, and the rows committed since.
TxFindsHost(c) ==
    /\ dbCall[c].at = "txHost"
    /\ \E i \in RowsOf(dbCall[c].user) \cup (IF dbCall[c].own THEN {0} ELSE {}) :
          DbBecome(c, [dbCall[c] EXCEPT !.at = "txHostUpdate", !.host = i])
    /\ UNCHANGED <<platformUsers, records, dbFaults>>

TxWritesHost(c) ==
    /\ dbCall[c].at = "txHostUpdate" /\ Unlocked(c)
    /\ DbBecome(c, [dbCall[c] EXCEPT !.at = "txMeeting"])
    /\ UNCHANGED <<platformUsers, records, dbFaults>>

TxWritesMeeting(c) ==
    /\ dbCall[c].at = "txMeeting" /\ Unlocked(c)
    /\ DbBecome(c, [dbCall[c] EXCEPT !.at = "txCommit"])
    /\ UNCHANGED <<platformUsers, records, dbFaults>>

\* The place in the table of a row the transaction refers to.
Placed(i) == IF i = 0 THEN Len(platformUsers) + 1 ELSE i

TxCommits(c) ==
    /\ dbCall[c].at = "txCommit"
    /\ platformUsers' = IF dbCall[c].own
                        THEN Append(platformUsers, [uuid |-> dbCall[c].user,
                                                    seen |-> dbCall[c].seen])
                        ELSE platformUsers
    /\ records' = [records EXCEPT ![dbCall[c].meeting] =
                      [creator |-> Placed(dbCall[c].creator),
                       host |-> Placed(dbCall[c].host)]]
    /\ DbBecome(c, NoDbCall)
    /\ UNCHANGED dbFaults

\* Transactions that wait for each other in a circle: Postgres aborts one.
TxDeadlocks(c) ==
    /\ \E blocked \in SUBSET DbCalls :
          /\ c \in blocked
          /\ \A d \in blocked : (\E b \in blocked : WaitsFor(d, b))
          /\ \A d \in blocked : (\E b \in blocked : WaitsFor(b, d))
    /\ DbBecome(c, NoDbCall)
    /\ UNCHANGED <<platformUsers, records, dbFaults>>

\* Mutant: nobody is aborted.
DbStepOrWait(c) ==
    \/ FindPlatformUser(c) \/ UpdatePlatformUser(c) \/ CreatePlatformUser(c)
    \/ TxFindsCreator(c) \/ TxWritesCreator(c)
    \/ TxFindsHost(c) \/ TxWritesHost(c)
    \/ TxWritesMeeting(c) \/ TxCommits(c)

DbStep(c) ==
    \/ FindPlatformUser(c) \/ UpdatePlatformUser(c) \/ CreatePlatformUser(c)
    \/ TxFindsCreator(c) \/ TxWritesCreator(c)
    \/ TxFindsHost(c) \/ TxWritesHost(c)
    \/ TxWritesMeeting(c) \/ TxCommits(c) \/ TxDeadlocks(c)

-----------------------------------------------------------------------------
(* Failures *)

\* A statement fails; a transaction is rolled back.
StatementFails(c) ==
    /\ dbFaults < MaxDbFaults
    /\ dbFaults' = dbFaults + 1
    /\ dbCall[c].at # "idle"
    /\ DbBecome(c, NoDbCall)
    /\ UNCHANGED <<platformUsers, records>>

\* The process dies; its transactions are rolled back.
LoseDbCalls ==
    /\ dbCall' = [c \in DbCalls |-> NoDbCall]
    /\ UNCHANGED <<platformUsers, records, dbFaults>>

DatabaseNext ==
    \/ DbCallsStart
    \/ \E c \in DbCalls : DbStep(c) \/ StatementFails(c)
    \/ LoseDbCalls

DatabaseSpec == DatabaseInit /\ [][DatabaseNext]_dbVars

-----------------------------------------------------------------------------
(* Properties *)

DatabaseTypeOK ==
    /\ platformUsers \in Seq(PlatformUser)
    /\ records \in [Meetings -> MeetingRecord]
    /\ dbCall \in [DbCalls -> DbCallRecord]
    /\ \A c \in DbCalls : dbCall[c].at # "idle" => dbCall[c].user \in Users
    /\ dbFaults \in 0..MaxDbFaults

\* A second platform user for one uuid is made only by an upsert whose
\* findFirst ran before the first was committed
\* (PlatformUserRepository.upsertPlatformUser, upsertPlatformUserByUuid).
PlatformTwinsOverlap ==
    \A i, j \in 1..Len(platformUsers) :
        i < j /\ platformUsers[i].uuid = platformUsers[j].uuid =>
            platformUsers[j].seen < i
=============================================================================
