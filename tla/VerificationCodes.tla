------------------------- MODULE VerificationCodes -------------------------
(***************************************************************************)
(* VerificationService over the verification_codes table: sendCode with    *)
(* its two send limits, and verifyCode.  One action per await, so that the *)
(* count a limit is checked against, and the row a verification found, may *)
(* be stale when they are used.                                            *)
(*                                                                         *)
(* Rows are kept in the order of createdAt and never deleted (nothing in   *)
(* the repository calls cleanExpiredCodes).  Time is three cuts in that    *)
(* order: rows up to `expired' are older than five minutes, up to `hour'   *)
(* than an hour, up to `day' than a day.  The result of a call stays in    *)
(* its slot until the caller takes it, so that another service can call.   *)
(***************************************************************************)
EXTENDS Integers, Sequences, FiniteSets

CONSTANTS
    Requests,       \* slots for calls in flight
    Targets,        \* email addresses and phone numbers
    Ips,
    Types,          \* "REGISTER", "LOGIN", "RESET_PASSWORD"
    Codes,          \* six-digit codes; two rows may have the same
    None,
    MaxPerTarget,   \* sends to one target in an hour, 5 in the code
    MaxPerIp,       \* sends from one address in a day, 20 in the code
    MaxRows,        \* bound on the codes sent in a behaviour
    MaxFaults       \* bound on the failed calls of a behaviour

ASSUME LimitsAssumption == MaxPerTarget \in Nat \ {0} /\ MaxPerIp \in Nat \ {0}

ASSUME NoneAssumption == None \notin Targets \cup Ips \cup Types \cup Codes

ASSUME RequestsAssumption == IsFiniteSet(Requests)

ASSUME BoundsAssumption == MaxRows \in Nat /\ MaxFaults \in Nat

VARIABLES
    rows,           \* verification_codes
    expired, hour, day,
    sendLimits,     \* sendCount of code_send_limits, a table nobody reads
    delivered,      \* rows whose code a mail or a short message carried
    vpc,            \* vpc[r]: the await point of the call in slot r
    vreq,           \* vreq[r]: its arguments, and the row it found or made
    codeFaults,
    accepts         \* history: accepts[i]: how often row i was accepted

codeTableVars == <<rows, expired, hour, day, sendLimits>>
codeVars == <<codeTableVars, delivered, vpc, vreq, codeFaults, accepts>>

Row == [target: Targets, ip: Ips, type: Types, code: Codes, used: BOOLEAN]

Call == [target: Targets \cup {None}, ip: Ips \cup {None},
         type: Types \cup {None}, row: Nat]

NoCall == [target |-> None, ip |-> None, type |-> None, row |-> 0]

SendPoints == {"sdIp", "sdCreate", "sdDeliver", "sdLimit"}
Results == {"sent", "refused", "valid", "invalid", "error"}

CodesTypeOK ==
    /\ rows \in Seq(Row)
    /\ expired \in 0..Len(rows) /\ hour \in 0..expired /\ day \in 0..hour
    /\ sendLimits \in [Targets \X Ips -> Nat]
    /\ delivered \subseteq 1..Len(rows)
    /\ vpc \in [Requests -> {"idle", "vfMark"} \cup SendPoints \cup Results]
    /\ vreq \in [Requests -> Call]
    /\ \A r \in Requests :
          /\ vpc[r] \in {"vfMark", "sdDeliver"} => vreq[r].row \in 1..Len(rows)
          /\ vpc[r] \in SendPoints => vreq[r].target # None /\ vreq[r].ip # None
                                        /\ vreq[r].type # None
    /\ codeFaults \in 0..MaxFaults
    /\ accepts \in Seq(Nat) /\ Len(accepts) = Len(rows)

CodesInit ==
    /\ rows = << >>
    /\ expired = 0 /\ hour = 0 /\ day = 0
    /\ sendLimits = [k \in Targets \X Ips |-> 0]
    /\ delivered = {}
    /\ vpc = [r \in Requests |-> "idle"]
    /\ vreq = [r \in Requests |-> NoCall]
    /\ codeFaults = 0
    /\ accepts = << >>

\* countSentToTargetSince, countSentFromIpSince
SentTo(t) == {i \in 1..Len(rows) : i > hour /\ rows[i].target = t}
SentFrom(a) == {i \in 1..Len(rows) : i > day /\ rows[i].ip = a}

-----------------------------------------------------------------------------
(* Call plumbing *)

SetCall(r, point, call) ==
    /\ vpc' = [vpc EXCEPT ![r] = point]
    /\ vreq' = [vreq EXCEPT ![r] = call]

Await(r, point) == SetCall(r, point, vreq[r])

\* The call ends; its arguments are forgotten.
Result(r, result) == SetCall(r, result, NoCall)

\* The caller goes on with the result.
Take(r, result) ==
    /\ vpc[r] = result
    /\ vpc' = [vpc EXCEPT ![r] = "idle"]
    /\ UNCHANGED <<codeTableVars, delivered, vreq, codeFaults, accepts>>

-----------------------------------------------------------------------------
(* sendCode *)

\* Mutant: the limit is off by one.
SendChecksTargetLate(r, t, a, type) ==
    /\ vpc[r] = "idle"
    /\ IF Cardinality(SentTo(t)) <= MaxPerTarget
       THEN SetCall(r, "sdIp", [NoCall EXCEPT !.target = t, !.ip = a, !.type = type])
       ELSE Result(r, "refused")
    /\ UNCHANGED <<codeTableVars, delivered, codeFaults, accepts>>

\* checkSendLimit: the count for the target.
SendChecksTarget(r, t, a, type) ==
    /\ vpc[r] = "idle"
    /\ IF Cardinality(SentTo(t)) < MaxPerTarget
       THEN SetCall(r, "sdIp", [NoCall EXCEPT !.target = t, !.ip = a, !.type = type])
       ELSE Result(r, "refused")
    /\ UNCHANGED <<codeTableVars, delivered, codeFaults, accepts>>

\* Mutant: the count for the address is of one target, as sendLimits has it.
SendChecksPair(r) ==
    /\ vpc[r] = "sdIp"
    /\ IF Cardinality(SentFrom(vreq[r].ip) \cap SentTo(vreq[r].target)) < MaxPerIp
       THEN Await(r, "sdCreate") ELSE Result(r, "refused")
    /\ UNCHANGED <<codeTableVars, delivered, codeFaults, accepts>>

\* checkSendLimit: the count for the address.
SendChecksIp(r) ==
    /\ vpc[r] = "sdIp"
    /\ IF Cardinality(SentFrom(vreq[r].ip)) < MaxPerIp
       THEN Await(r, "sdCreate") ELSE Result(r, "refused")
    /\ UNCHANGED <<codeTableVars, delivered, codeFaults, accepts>>

\* Mutant: a row without the address it was sent from.
SendCreatesAnonymous(r, code) ==
    /\ vpc[r] = "sdCreate"
    /\ Len(rows) < MaxRows
    /\ rows' = Append(rows, [target |-> vreq[r].target, ip |-> None,
                             type |-> vreq[r].type, code |-> code, used |-> FALSE])
    /\ accepts' = Append(accepts, 0)
    /\ SetCall(r, "sdDeliver", [vreq[r] EXCEPT !.row = Len(rows) + 1])
    /\ UNCHANGED <<expired, hour, day, sendLimits, delivered, codeFaults>>

\* generateNumericCode and createVerificationCode
SendCreates(r, code) ==
    /\ vpc[r] = "sdCreate"
    /\ Len(rows) < MaxRows
    /\ rows' = Append(rows, [target |-> vreq[r].target, ip |-> vreq[r].ip,
                             type |-> vreq[r].type, code |-> code, used |-> FALSE])
    /\ accepts' = Append(accepts, 0)
    /\ SetCall(r, "sdDeliver", [vreq[r] EXCEPT !.row = Len(rows) + 1])
    /\ UNCHANGED <<expired, hour, day, sendLimits, delivered, codeFaults>>

\* sendEmailCode or sendSmsCode; when it throws the row stays.
SendDelivers(r) ==
    /\ vpc[r] = "sdDeliver"
    /\ delivered' = delivered \cup {vreq[r].row}
    /\ Await(r, "sdLimit")
    /\ UNCHANGED <<codeTableVars, codeFaults, accepts>>

\* updateSendLimit
SendCounts(r) ==
    /\ vpc[r] = "sdLimit"
    /\ sendLimits' = [sendLimits EXCEPT ![<<vreq[r].target, vreq[r].ip>>] = @ + 1]
    /\ Result(r, "sent")
    /\ UNCHANGED <<rows, expired, hour, day, delivered, codeFaults, accepts>>

-----------------------------------------------------------------------------
(* verifyCode *)

\* Mutant: used rows are selected too.
ValidOrUsed(t, type, code) ==
    {i \in 1..Len(rows) : /\ i > expired
                          /\ rows[i].target = t
                          /\ rows[i].type = type
                          /\ code \in {None, rows[i].code}}

\* What findValidVerificationCode selects from.  A code that is not given is
\* undefined, and Prisma drops the condition: any code will do.
Valid(t, type, code) ==
    {i \in 1..Len(rows) : /\ i > expired
                          /\ rows[i].target = t
                          /\ rows[i].type = type
                          /\ code \in {None, rows[i].code}
                          /\ ~rows[i].used}

\* verifyCode's find, the newest row first.
VerifyFinds(r, t, type, code) ==
    LET valid == Valid(t, type, code)
    IN  /\ vpc[r] = "idle"
        /\ IF valid = {} THEN Result(r, "invalid")
           ELSE \E i \in valid :
                   /\ \A k \in valid : k <= i
                   /\ SetCall(r, "vfMark", [NoCall EXCEPT !.target = t, !.type = type,
                                                        !.row = i])
        /\ UNCHANGED <<codeTableVars, delivered, codeFaults, accepts>>

\* markVerificationCodeUsed, whoever marked it meanwhile.
VerifyMarks(r) ==
    /\ vpc[r] = "vfMark"
    /\ rows' = [rows EXCEPT ![vreq[r].row].used = TRUE]
    /\ accepts' = [accepts EXCEPT ![vreq[r].row] = @ + 1]
    /\ Result(r, "valid")
    /\ UNCHANGED <<expired, hour, day, sendLimits, delivered, codeFaults>>

-----------------------------------------------------------------------------
(* Failures, time *)

\* A call to the database, to the mail server or to the SMS gateway fails.
CallFails(r) ==
    /\ vpc[r] \in SendPoints \cup {"vfMark"}
    /\ codeFaults < MaxFaults
    /\ codeFaults' = codeFaults + 1
    /\ Result(r, "error")
    /\ UNCHANGED <<codeTableVars, delivered, accepts>>

\* The process restarts: the table is all that is left.
LoseCalls ==
    /\ vpc' = [r \in Requests |-> "idle"]
    /\ vreq' = [r \in Requests |-> NoCall]
    /\ UNCHANGED <<codeTableVars, delivered, accepts>>

CodesCrash ==
    /\ codeFaults < MaxFaults
    /\ codeFaults' = codeFaults + 1
    /\ LoseCalls

\* The next row in order passes one of the three ages.
TimePasses ==
    /\ \/ /\ expired < Len(rows)
          /\ expired' = expired + 1
          /\ UNCHANGED <<hour, day>>
       \/ /\ hour < expired
          /\ hour' = hour + 1
          /\ UNCHANGED <<expired, day>>
       \/ /\ day < hour
          /\ day' = day + 1
          /\ UNCHANGED <<expired, hour>>
    /\ UNCHANGED <<rows, sendLimits, delivered, vpc, vreq, codeFaults, accepts>>

-----------------------------------------------------------------------------
(* VerificationController on its own: POST send and POST verify *)

CallStep(r) ==
    \/ SendChecksIp(r)
    \/ \E code \in Codes : SendCreates(r, code)
    \/ SendDelivers(r)
    \/ SendCounts(r)
    \/ VerifyMarks(r)

\* Whether a code must be given is left to the callers: login's is optional.
Given(type) == IF type = "LOGIN" THEN Codes \cup {None} ELSE Codes

CallArrives(r) ==
    \/ \E t \in Targets, a \in Ips, type \in Types : SendChecksTarget(r, t, a, type)
    \/ \E t \in Targets, type \in Types : \E code \in Given(type) :
          VerifyFinds(r, t, type, code)

CodesNext ==
    \/ \E r \in Requests :
          \/ CallArrives(r)
          \/ CallStep(r)
          \/ CallFails(r)
          \/ \E result \in Results : Take(r, result)
    \/ CodesCrash
    \/ TimePasses

CodesSpec == CodesInit /\ [][CodesNext]_codeVars

-----------------------------------------------------------------------------
(* Properties *)

\* Calls that passed the check of a limit and have not made their row yet.
SendersTo(t) == {r \in Requests : vpc[r] \in {"sdIp", "sdCreate"} /\ vreq[r].target = t}
SendersFrom(a) == {r \in Requests : vpc[r] = "sdCreate" /\ vreq[r].ip = a}

\* checkSendLimit counts before the row is made, so calls in flight together
\* may all pass; yet within the hour a target is never sent more than
\* one less than the limit and one code for each call that was in flight.
TargetOverrunBounded ==
    \A t \in Targets :
        Cardinality(SentTo(t)) + Cardinality(SendersTo(t))
            <= MaxPerTarget - 1 + Cardinality(Requests)

\* The same of an address within the day.
IpOverrunBounded ==
    \A a \in Ips :
        Cardinality(SentFrom(a)) + Cardinality(SendersFrom(a))
            <= MaxPerIp - 1 + Cardinality(Requests)

\* Calls that found row i and are about to accept it.
Accepting(i) == {r \in Requests : vpc[r] = "vfMark" /\ vreq[r].row = i}

\* verifyCode finds an unused row and marks it later, so one code may be
\* accepted by several calls; but once a call has accepted it no later call
\* finds it: all acceptances are of calls that were in flight together.
OverlappingAcceptsOnly ==
    \A i \in 1..Len(rows) :
        accepts[i] + Cardinality(Accepting(i)) <= Cardinality(Requests)

\* What the callers of verifyCode rely on: a row is a code that is open while
\* it is unused and not older than five minutes, and a call that has found it
\* has claimed it (VerificationService.verifyCode, sendCode).
OneTime == INSTANCE OneTimeCodes WITH
    Callers <- Requests,
    Purposes <- [target: Targets, type: Types],
    issued <- [i \in 1..Len(rows) |-> [target |-> rows[i].target,
                                       type |-> rows[i].type]],
    open <- {i \in 1..Len(rows) : i > expired /\ ~rows[i].used},
    claim <- [r \in Requests |-> IF vpc[r] = "vfMark" THEN vreq[r].row ELSE 0],
    accepts <- accepts

ImplementsOneTimeCodes == OneTime!OneTimeSpec
=============================================================================
