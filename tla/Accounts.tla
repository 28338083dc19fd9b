------------------------------ MODULE Accounts ------------------------------
(***************************************************************************)
(* Accounts over the tables users and login_logs: LoginService with the    *)
(* lockout of AuthPolicyService, RegisterService, PasswordService and      *)
(* ProfileService.  They get their codes from VerificationService, of      *)
(* which they rely on no more than OneTimeCodes states.                    *)
(*                                                                         *)
(* One action per await that reads or writes a modelled column; awaits     *)
(* that do neither (bcrypt, lastLoginAt, mails whose failure is caught)    *)
(* belong to the step before the next one.  Users and logs are never       *)
(* deleted, so that a row is its place in the table.  Time is one cut:     *)
(* logs up to `aged' are older than the fifteen minutes of the lockout.    *)
(***************************************************************************)
EXTENDS Integers, Sequences, FiniteSets

CONSTANTS
    Requests,       \* slots for calls in flight
    Usernames, Emails, Phones, Countries, Passwords, Ips, None,
    WeakPasswords,  \* those that validatePassword refuses
    SeedUsers,      \* the rows of users at the start
    Registrations, Updates,     \* the columns that requests name
    MaxLoginAttempts,                   \* 5 in the code
    MaxArrivals, MaxCodes, MaxFaults    \* bounds on a behaviour

Targets == Usernames \cup Emails \cup Phones

Purposes == [target: Targets, type: {"REGISTER", "LOGIN", "RESET_PASSWORD"}]

\* The columns that a registration or an update names, None where it does not.
Columns == [username: Usernames \cup {None}, email: Emails \cup {None},
            country: Countries \cup {None}, phone: Phones \cup {None}]

NoColumns == [username |-> None, email |-> None, country |-> None, phone |-> None]

\* A row of users: the columns, nullable, with a password and the marks of
\* emailVerifiedAt and phoneVerifiedAt.
User == [columns: Columns, password: Passwords \cup {None},
         emailVerified: BOOLEAN, phoneVerified: BOOLEAN]

LoginTypes == {"PASSWORD", "CODE", "PASSWORD_RESET"}

\* A row of login_logs; user 0 is none.
Log == [user: Nat, target: Targets, type: LoginTypes, success: BOOLEAN, ip: Ips]

ASSUME AttemptsAssumption == MaxLoginAttempts \in Nat \ {0}

ASSUME AccountsRequestsAssumption == IsFiniteSet(Requests)

ASSUME AccountsNoneAssumption ==
    None \notin Targets \cup Countries \cup Passwords \cup Ips

ASSUME SeedsAssumption == SeedUsers \in Seq(User)

ASSUME InputsAssumption == Registrations \subseteq Columns /\ Updates \subseteq Columns

ASSUME AccountsBoundsAssumption ==
    MaxArrivals \in Nat /\ MaxCodes \in Nat /\ MaxFaults \in Nat

VARIABLES
    users, logs, aged,
    issued, open, claim, accepts,   \* the codes, see OneTimeCodes
    apc,            \* apc[r]: the await point of the call in slot r
    areq,           \* areq[r]: its local variables
    arrivals, faults,
    effects         \* history: what accepted codes brought about

Codes == INSTANCE OneTimeCodes WITH Callers <- Requests

tableVars == <<users, logs, aged>>
codeVars == <<issued, open, claim, accepts>>
accountVars == <<tableVars, codeVars, apc, areq, arrivals, faults, effects>>

(***************************************************************************)
(* A call: `user' is the row it works for, `code' the code that was        *)
(* accepted for it and has had no effect yet, `over' that its target has   *)
(* failed too often, `check' the columns whose new value is to be looked   *)
(* up before an update.                                                    *)
(***************************************************************************)
Call == [target: Targets \cup {None}, ip: Ips \cup {None},
         country: Countries \cup {None}, password: Passwords \cup {None},
         type: LoginTypes \cup {None}, user: Nat, code: Nat, over: BOOLEAN,
         columns: Columns, check: SUBSET {"username", "email", "phone"}]

NoCall == [target |-> None, ip |-> None, country |-> None, password |-> None,
           type |-> None, user |-> 0, code |-> 0, over |-> FALSE,
           columns |-> NoColumns, check |-> {}]

\* Inside the try block of login, and before it.
TryPoints == {"lgVerify", "lgMark", "lgSuccess", "lgTokens"}
LoginPoints == TryPoints \cup {"lgIp", "lgFind", "lgUnknown", "lgFailure"}

OtherPoints == {"rgVerify", "rgMark", "rgCreate", "rgLog", "rgTokens",
                "rsMark", "rsFind", "rsUpdate", "rsLog", "upCheck", "upWrite"}

AccountsTypeOK ==
    /\ users \in Seq(User)
    /\ logs \in Seq(Log) /\ aged \in 0..Len(logs)
    /\ Codes!OneTimeTypeOK
    /\ apc \in [Requests -> {"idle"} \cup LoginPoints \cup OtherPoints]
    /\ areq \in [Requests -> Call]
    /\ \A r \in Requests : areq[r].user \in 0..Len(users)
    /\ arrivals \in 0..MaxArrivals /\ faults \in 0..MaxFaults

AccountsInit ==
    /\ users = SeedUsers
    /\ logs = << >> /\ aged = 0
    /\ Codes!OneTimeInit
    /\ apc = [r \in Requests |-> "idle"]
    /\ areq = [r \in Requests |-> NoCall]
    /\ arrivals = 0 /\ faults = 0
    /\ effects = {}

-----------------------------------------------------------------------------
(* Plumbing *)

SetCall(r, point, k) ==
    /\ apc' = [apc EXCEPT ![r] = point]
    /\ areq' = [areq EXCEPT ![r] = k]

Await(r, point) == SetCall(r, point, areq[r])

\* The response is sent, or the exception.
Done(r) == SetCall(r, "idle", NoCall)

Arrives(r) ==
    /\ apc[r] = "idle"
    /\ arrivals < MaxArrivals
    /\ arrivals' = arrivals + 1
    /\ UNCHANGED faults

At(r, point) == apc[r] = point /\ UNCHANGED <<arrivals, faults>>

\* verifyCode's find.  Other digits than those sent find nothing; a login
\* that gives none finds a code to the target whatever its digits.
FindsCode(r, t, type, found, notFound) ==
    /\ \/ /\ \E i \in open : /\ issued[i] = [target |-> t, type |-> type]
                             /\ Codes!Claim(r, i)
          /\ found
       \/ notFound /\ UNCHANGED codeVars
    /\ UNCHANGED <<tableVars, effects>>

\* verifyCode's mark: the call goes on with a code that was accepted.
MarksCode(r, point) ==
    /\ Codes!Accept(r)
    /\ SetCall(r, point, [areq[r] EXCEPT !.code = claim[r]])
    /\ UNCHANGED <<tableVars, effects>>

\* The accepted code has brought about what it was for.
TakesEffect(r, what, target) ==
    effects' = effects \cup
        {[code |-> areq[r].code, what |-> what, target |-> target,
          nth |-> Cardinality({e \in effects : e.code = areq[r].code})]}

CreateLog(k, t, success) ==
    logs' = Append(logs, [user |-> k.user, target |-> t, type |-> k.type,
                          success |-> success, ip |-> k.ip])

\* findUserByTarget, with the columns searched; findFirst takes any.
UsersOf(t) ==
    {u \in 1..Len(users) :
        t \in {users[u].columns.username, users[u].columns.email,
               users[u].columns.phone}}

\* The unique columns of users.  A phone number is unique with its country
\* code only, and PostgreSQL takes two rows without one for different.
Conflicts(c, u) ==
    \E v \in 1..Len(users) \ {u} :
        \/ c.username # None /\ users[v].columns.username = c.username
        \/ c.email # None /\ users[v].columns.email = c.email
        \/ /\ c.country # None /\ c.phone # None
           /\ users[v].columns.country = c.country
           /\ users[v].columns.phone = c.phone

-----------------------------------------------------------------------------
(* LoginService.login *)

\* countLoginFailuresByTargetSince, countLoginFailuresByIpSince
FailuresOf(t) == {i \in 1..Len(logs) : i > aged /\ logs[i].target = t /\ ~logs[i].success}
FailuresFrom(a) == {i \in 1..Len(logs) : i > aged /\ logs[i].ip = a /\ ~logs[i].success}

\* Mutant: the limit is off by one.
LoginChecksTargetLate(r, t, a, country, type, password) ==
    /\ Arrives(r)
    /\ SetCall(r, "lgIp",
               [NoCall EXCEPT !.target = t, !.ip = a, !.country = country,
                              !.type = type, !.password = password,
                              !.over = Cardinality(FailuresOf(t)) > MaxLoginAttempts])
    /\ UNCHANGED <<tableVars, codeVars, effects>>

\* checkLoginLockout: the count for the target.
LoginChecksTarget(r, t, a, country, type, password) ==
    /\ Arrives(r)
    /\ SetCall(r, "lgIp",
               [NoCall EXCEPT !.target = t, !.ip = a, !.country = country,
                              !.type = type, !.password = password,
                              !.over = Cardinality(FailuresOf(t)) >= MaxLoginAttempts])
    /\ UNCHANGED <<tableVars, codeVars, effects>>

\* checkLoginLockout: the count for the address, and the verdict on both.
LoginChecksIp(r) ==
    /\ At(r, "lgIp")
    /\ IF \/ areq[r].over
          \/ Cardinality(FailuresFrom(areq[r].ip)) >= 2 * MaxLoginAttempts
       THEN Done(r) ELSE Await(r, "lgFind")
    /\ UNCHANGED <<tableVars, codeVars, effects>>

\* findUserByTarget, and the comparison with the password that was read.
\* With a country code the query names a compound key, which findFirst does
\* not take: Prisma throws, before the try block.
LoginFinds(r) ==
    /\ At(r, "lgFind")
    /\ IF areq[r].country # None THEN Done(r)
       ELSE IF UsersOf(areq[r].target) = {} THEN Await(r, "lgUnknown")
       ELSE \E u \in UsersOf(areq[r].target) :
               SetCall(r, IF areq[r].type = "CODE" THEN "lgVerify"
                          ELSE IF /\ areq[r].password # None
                                  /\ areq[r].password = users[u].password
                          THEN "lgSuccess" ELSE "lgFailure",
                       [areq[r] EXCEPT !.user = u])
    /\ UNCHANGED <<tableVars, codeVars, effects>>

\* The log of a target nobody has.
LoginLogsUnknown(r) ==
    /\ At(r, "lgUnknown")
    /\ CreateLog(areq[r], areq[r].target, FALSE)
    /\ Done(r)
    /\ UNCHANGED <<users, aged, codeVars, effects>>

LoginFindsCode(r) ==
    /\ At(r, "lgVerify")
    /\ FindsCode(r, areq[r].target, "LOGIN", Await(r, "lgMark"), Await(r, "lgFailure"))

LoginMarksCode(r) ==
    /\ At(r, "lgMark")
    /\ MarksCode(r, "lgSuccess")

\* updateUserLastLoginAt, and the log of the success.
LoginLogsSuccess(r) ==
    /\ At(r, "lgSuccess")
    /\ CreateLog(areq[r], areq[r].target, TRUE)
    /\ Await(r, "lgTokens")
    /\ UNCHANGED <<users, aged, codeVars, effects>>

\* generateTokens
LoginGrants(r) ==
    /\ At(r, "lgTokens")
    /\ IF areq[r].type = "CODE" THEN TakesEffect(r, "LOGIN", areq[r].target)
       ELSE UNCHANGED effects
    /\ Done(r)
    /\ UNCHANGED <<tableVars, codeVars>>

\* The catch block.
LoginLogsFailure(r) ==
    /\ At(r, "lgFailure")
    /\ CreateLog(areq[r], areq[r].target, FALSE)
    /\ Done(r)
    /\ UNCHANGED <<users, aged, codeVars, effects>>

-----------------------------------------------------------------------------
(* RegisterService.register.  validateRegisterType throws before the first *)
(* await for every type but the two with a code, and for these if there is *)
(* no address to send one to: what is left has a code for `t'.             *)

\* checkUserExists.  A phone number with its country code makes a query that
\* Prisma refuses; without, the number is not looked up.
RegisterChecks(r, a, c, t, password) ==
    /\ t # None /\ t \in {c.email, c.phone}
    /\ Arrives(r)
    /\ IF \/ c.phone # None /\ c.country # None
          \/ \E u \in 1..Len(users) :
                \/ c.username # None /\ users[u].columns.username = c.username
                \/ c.email # None /\ users[u].columns.email = c.email
       THEN Done(r)
       ELSE SetCall(r, "rgVerify",
                    [NoCall EXCEPT !.target = t, !.ip = a, !.type = "CODE",
                                   !.columns = c, !.password = password])
    /\ UNCHANGED <<tableVars, codeVars, effects>>

RegisterFindsCode(r) ==
    /\ At(r, "rgVerify")
    /\ FindsCode(r, areq[r].target, "REGISTER", Await(r, "rgMark"), Done(r))

RegisterMarksCode(r) ==
    /\ At(r, "rgMark")
    /\ MarksCode(r, "rgCreate")

\* Mutant: an address that another registration took meanwhile is reported
\* only in the log.
RegisterCreatesAnyway(r) ==
    /\ At(r, "rgCreate")
    /\ IF Conflicts(areq[r].columns, 0)
       THEN /\ UNCHANGED <<users, effects>>
            /\ SetCall(r, "rgLog", [areq[r] EXCEPT !.user = Len(users) + 1])
       ELSE /\ users' = Append(users,
                   [columns |-> areq[r].columns, password |-> areq[r].password,
                    emailVerified |-> areq[r].target = areq[r].columns.email,
                    phoneVerified |-> areq[r].target # areq[r].columns.email])
            /\ TakesEffect(r, "REGISTER", areq[r].target)
            /\ SetCall(r, "rgLog",
                       [areq[r] EXCEPT !.user = Len(users) + 1, !.code = 0])
    /\ UNCHANGED <<logs, aged, codeVars>>

\* createUserWithProfile: refused, or the address of the code is verified.
RegisterCreates(r) ==
    /\ At(r, "rgCreate")
    /\ IF Conflicts(areq[r].columns, 0)
       THEN Done(r) /\ UNCHANGED <<users, effects>>
       ELSE /\ users' = Append(users,
                   [columns |-> areq[r].columns, password |-> areq[r].password,
                    emailVerified |-> areq[r].target = areq[r].columns.email,
                    phoneVerified |-> areq[r].target # areq[r].columns.email])
            /\ TakesEffect(r, "REGISTER", areq[r].target)
            /\ SetCall(r, "rgLog",
                       [areq[r] EXCEPT !.user = Len(users) + 1, !.code = 0])
    /\ UNCHANGED <<logs, aged, codeVars>>

\* The log of the success; the mail that follows may fail.
RegisterLogs(r) ==
    LET c == areq[r].columns
    IN  /\ At(r, "rgLog")
        /\ CreateLog(areq[r], IF c.email # None THEN c.email ELSE c.phone, TRUE)
        /\ Await(r, "rgTokens")
        /\ UNCHANGED <<users, aged, codeVars, effects>>

\* generateTokens
RegisterGrants(r) ==
    /\ At(r, "rgTokens")
    /\ Done(r)
    /\ UNCHANGED <<tableVars, codeVars, effects>>

-----------------------------------------------------------------------------
(* PasswordService.resetPassword *)

ResetFindsCode(r, t, a, password) ==
    /\ Arrives(r)
    /\ FindsCode(r, t, "RESET_PASSWORD",
                 SetCall(r, "rsMark", [NoCall EXCEPT !.target = t, !.ip = a,
                                       !.type = "PASSWORD_RESET",
                                       !.password = password]),
                 Done(r))

ResetMarksCode(r) ==
    /\ At(r, "rsMark")
    /\ MarksCode(r, "rsFind")

\* findUserByTarget and validatePassword
ResetFinds(r) ==
    /\ At(r, "rsFind")
    /\ IF UsersOf(areq[r].target) = {} \/ areq[r].password \in WeakPasswords
       THEN Done(r)
       ELSE \E u \in UsersOf(areq[r].target) :
               SetCall(r, "rsUpdate", [areq[r] EXCEPT !.user = u])
    /\ UNCHANGED <<tableVars, codeVars, effects>>

\* Mutant: the code stays with the call, so that a retry uses it once more.
ResetUpdatesAgain(r) ==
    /\ At(r, "rsUpdate")
    /\ users' = [users EXCEPT ![areq[r].user].password = areq[r].password]
    /\ TakesEffect(r, "RESET_PASSWORD", areq[r].target)
    /\ UNCHANGED <<apc, areq>>
    /\ UNCHANGED <<logs, aged, codeVars>>

\* updateUserPassword
ResetUpdates(r) ==
    /\ At(r, "rsUpdate")
    /\ users' = [users EXCEPT ![areq[r].user].password = areq[r].password]
    /\ TakesEffect(r, "RESET_PASSWORD", areq[r].target)
    /\ SetCall(r, "rsLog", [areq[r] EXCEPT !.code = 0])
    /\ UNCHANGED <<logs, aged, codeVars>>

\* The log; the mail that follows may fail.
ResetLogs(r) ==
    /\ At(r, "rsLog")
    /\ CreateLog(areq[r], areq[r].target, TRUE)
    /\ Done(r)
    /\ UNCHANGED <<users, aged, codeVars, effects>>

-----------------------------------------------------------------------------
(* ProfileService.updateProfile, by user u *)

\* getUserByIdWithProfile: which of the new values are to be looked up.  The
\* country code of the look-up is the new one, or else the one that was read.
UpdateReads(r, u, c) ==
    LET old == users[u].columns
        new == [username |-> c.username \notin {None, old.username},
                email |-> c.email \notin {None, old.email},
                phone |-> /\ c.phone # None
                          /\ c.phone # old.phone \/ c.country # old.country]
    IN  /\ Arrives(r)
        /\ SetCall(r, "upCheck",
                   [NoCall EXCEPT !.user = u, !.columns = c,
                       !.check = {column \in DOMAIN new : new[column]},
                       !.country = IF c.country # None THEN c.country
                                   ELSE old.country])
        /\ UNCHANGED <<tableVars, codeVars, effects>>

\* findUserByUsername, findUserByEmail, findUserByPhoneCombination
Taken(k, column) ==
    \E v \in 1..Len(users) :
        /\ users[v].columns[column] = k.columns[column]
        /\ column = "phone" => k.country # None /\ users[v].columns.country = k.country

\* The look-ups follow each other in this order.
NextCheck(columns) ==
    IF "username" \in columns THEN "username"
    ELSE IF "email" \in columns THEN "email" ELSE "phone"

UpdateChecks(r) ==
    LET column == NextCheck(areq[r].check)
    IN  /\ At(r, "upCheck")
        /\ IF areq[r].check = {} THEN Await(r, "upWrite")
           ELSE IF Taken(areq[r], column) THEN Done(r)
           ELSE SetCall(r, "upCheck", [areq[r] EXCEPT !.check = @ \ {column}])
        /\ UNCHANGED <<tableVars, codeVars, effects>>

\* The row with the columns that the request names.
Merged(old, c) ==
    [name \in DOMAIN old |-> IF c[name] # None THEN c[name] ELSE old[name]]

\* Mutant: the row is written back as it was at the start.
UpdateWritesSeed(r) ==
    LET u == areq[r].user
        c == Merged(users[u].columns, areq[r].columns)
    IN  /\ At(r, "upWrite")
        /\ users' = IF Conflicts(c, u) THEN users
                    ELSE [users EXCEPT ![u] = [SeedUsers[1] EXCEPT !.columns = c]]
        /\ Done(r)
        /\ UNCHANGED <<logs, aged, codeVars, effects>>

\* updateUserWithProfileUpsert: refused, or the columns are written.  The
\* marks of verification stay.
UpdateWrites(r) ==
    LET u == areq[r].user
        c == Merged(users[u].columns, areq[r].columns)
    IN  /\ At(r, "upWrite")
        /\ users' = IF Conflicts(c, u) THEN users
                    ELSE [users EXCEPT ![u].columns = c]
        /\ Done(r)
        /\ UNCHANGED <<logs, aged, codeVars, effects>>

-----------------------------------------------------------------------------
(* Failures, time, codes *)

\* A query fails: in the try block of login the failure is logged.
QueryFails(r) ==
    /\ apc[r] # "idle" /\ UNCHANGED arrivals
    /\ faults < MaxFaults
    /\ faults' = faults + 1
    /\ IF apc[r] \in TryPoints THEN Await(r, "lgFailure") ELSE Done(r)
    /\ Codes!GiveUp({r})
    /\ UNCHANGED <<tableVars, effects>>

\* The process restarts: the tables are all that is left.
AccountsCrash ==
    /\ faults < MaxFaults
    /\ faults' = faults + 1
    /\ apc' = [r \in Requests |-> "idle"]
    /\ areq' = [r \in Requests |-> NoCall]
    /\ Codes!GiveUp(Requests)
    /\ UNCHANGED <<tableVars, arrivals, effects>>

\* The oldest log that counts passes fifteen minutes.
LogAges ==
    /\ aged < Len(logs)
    /\ aged' = aged + 1
    /\ UNCHANGED <<users, logs, codeVars, apc, areq, arrivals, faults, effects>>

\* sendCode creates a row; a code runs out.
CodeIssued(p) ==
    /\ Len(issued) < MaxCodes
    /\ Codes!Issue(p)
    /\ UNCHANGED <<tableVars, apc, areq, arrivals, faults, effects>>

CodeExpires(i) ==
    /\ i \in open
    /\ Codes!Close(i)
    /\ UNCHANGED <<tableVars, apc, areq, arrivals, faults, effects>>

-----------------------------------------------------------------------------
LoginStep(r) ==
    \/ LoginChecksIp(r) \/ LoginFinds(r) \/ LoginLogsUnknown(r)
    \/ LoginFindsCode(r) \/ LoginMarksCode(r)
    \/ LoginLogsSuccess(r) \/ LoginGrants(r) \/ LoginLogsFailure(r)

RegisterStep(r) ==
    \/ RegisterFindsCode(r) \/ RegisterMarksCode(r)
    \/ RegisterCreates(r) \/ RegisterLogs(r) \/ RegisterGrants(r)

ResetStep(r) ==
    ResetMarksCode(r) \/ ResetFinds(r) \/ ResetUpdates(r) \/ ResetLogs(r)

UpdateStep(r) == UpdateChecks(r) \/ UpdateWrites(r)

\* AuthController and UserController
CallArrives(r) ==
    \/ \E t \in Targets, a \in Ips, country \in Countries \cup {None},
          type \in {"PASSWORD", "CODE"}, password \in Passwords \cup {None} :
             LoginChecksTarget(r, t, a, country, type, password)
    \/ \E a \in Ips, c \in Registrations, password \in Passwords \cup {None} :
          \E t \in {c.email, c.phone} : RegisterChecks(r, a, c, t, password)
    \/ \E t \in Targets, a \in Ips, password \in Passwords :
          ResetFindsCode(r, t, a, password)
    \/ \E u \in 1..Len(users), c \in Updates : UpdateReads(r, u, c)

AccountsNext ==
    \/ \E r \in Requests :
          \/ CallArrives(r)
          \/ LoginStep(r) \/ RegisterStep(r) \/ ResetStep(r) \/ UpdateStep(r)
          \/ QueryFails(r)
    \/ AccountsCrash
    \/ LogAges
    \/ \E p \in Purposes : CodeIssued(p)
    \/ \E i \in 1..Len(issued) : CodeExpires(i)

AccountsSpec == AccountsInit /\ [][AccountsNext]_accountVars

-----------------------------------------------------------------------------
(* Properties *)

\* Login attempts that passed the count for their target, and for their
\* address, and may yet log a failure.
AttemptsOn(t) ==
    {r \in Requests : apc[r] \in LoginPoints /\ areq[r].target = t /\ ~areq[r].over}
AttemptsFrom(a) ==
    {r \in Requests : apc[r] \in LoginPoints \ {"lgIp"} /\ areq[r].ip = a}

\* checkLoginLockout counts failures that are logged only after the password
\* or the code was checked, so attempts in flight together may pass the limit;
\* but they are the only ones that do, however logins, failed queries and
\* restarts interleave: within fifteen minutes a target fails less than the
\* limit and once for each call in flight, an address less than twice the
\* limit and the same.
FailuresBounded ==
    /\ \A t \in Targets :
          Cardinality(FailuresOf(t)) + Cardinality(AttemptsOn(t))
              <= MaxLoginAttempts - 1 + Cardinality(Requests)
    /\ \A a \in Ips :
          Cardinality(FailuresFrom(a)) + Cardinality(AttemptsFrom(a))
              <= 2 * MaxLoginAttempts - 1 + Cardinality(Requests)

\* A code is spent before what it is for is done, and the rest may fail.  It
\* never does more than it was accepted for: each user that was created, each
\* password that was reset and each login by code has an acceptance of its
\* own, of a code sent for that purpose to that address
\* (register, resetPassword, login).
EffectsSpendCodes ==
    /\ \A i \in 1..Len(issued) :
          Cardinality({e \in effects : e.code = i})
            + Cardinality({r \in Requests : areq[r].code = i}) <= accepts[i]
    /\ \A e \in effects :
          /\ e.code \in 1..Len(issued)
          /\ issued[e.code] = [target |-> e.target, type |-> e.what]

\* A password and the marks of verification of a user outlive every update of
\* the profile that overlaps with a reset: only a reset changes the password,
\* to the one that came with its code, and nothing changes the marks
\* (updateUserPassword, updateUserWithProfileUpsert).
OnlyResetsSetPasswords ==
    [][\A u \in 1..Len(users) :
          /\ users'[u].emailVerified = users[u].emailVerified
          /\ users'[u].phoneVerified = users[u].phoneVerified
          /\ users'[u].password # users[u].password =>
                \E r \in Requests :
                    /\ apc[r] = "rsUpdate" /\ areq[r].user = u
                    /\ areq[r].password = users'[u].password
                    /\ areq[r].code # 0
                    /\ issued[areq[r].code].type = "RESET_PASSWORD"
      ]_accountVars
=============================================================================
