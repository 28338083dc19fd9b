---------------------------- MODULE AccountsProofs ----------------------------
(***************************************************************************)
(* Proofs about Accounts, for every number of calls in flight, every limit *)
(* and every set of users, codes and inputs.                               *)
(*                                                                         *)
(* CallOK says what a call may rely on at each of its awaits: whom it is   *)
(* for, that it has passed the lockout, and that the code it has claimed,  *)
(* or was accepted with, was sent for its purpose to its address.  It is   *)
(* stated of values, so that the lemmas about it concern constants.        *)
(***************************************************************************)
EXTENDS Accounts, FiniteSetTheorems, SequenceTheorems, TLAPS

RegisterPoints == {"rgVerify", "rgMark", "rgCreate", "rgLog", "rgTokens"}
ResetPoints == {"rsMark", "rsFind", "rsUpdate", "rsLog"}
MarkPoints == {"lgMark", "rgMark", "rsMark"}
CallPoints == {"idle"} \cup LoginPoints \cup OtherPoints

\* The points of a call that was accepted with a code, which is to have an
\* effect yet.
Holds(p, k) ==
    \/ p \in {"rgCreate", "rsFind", "rsUpdate"}
    \/ p \in {"lgSuccess", "lgTokens"} /\ k.type = "CODE"

PurposeOf(p, k) ==
    [target |-> k.target,
     type |-> IF p \in LoginPoints THEN "LOGIN"
              ELSE IF p \in RegisterPoints THEN "REGISTER" ELSE "RESET_PASSWORD"]

\* A call k at point p that has claimed code cl, of the codes iss, with n users.
CallOK(p, k, cl, iss, n) ==
    /\ k.user <= n /\ k.code <= Len(iss)
    /\ p \in LoginPoints \cup RegisterPoints \cup ResetPoints =>
          k.target \in Targets /\ k.ip \in Ips /\ k.type \in LoginTypes
    /\ p \in LoginPoints \ {"lgIp"} => ~k.over
    /\ p \in {"rsUpdate", "upCheck", "upWrite"} => k.user # 0
    /\ p \in RegisterPoints => k.target \in {k.columns.email, k.columns.phone}
    /\ p \in MarkPoints /\ cl # 0 => iss[cl] = PurposeOf(p, k)
    /\ Holds(p, k) => k.code # 0 /\ iss[k.code] = PurposeOf(p, k)

AccountsInv ==
    /\ users \in Seq(User)
    /\ logs \in Seq(Log) /\ aged \in 0..Len(logs)
    /\ Codes!OneTimeTypeOK
    /\ apc \in [Requests -> CallPoints]
    /\ areq \in [Requests -> Call]
    /\ \A r \in Requests : CallOK(apc[r], areq[r], claim[r], issued, Len(users))
    /\ arrivals \in 0..MaxArrivals /\ faults \in 0..MaxFaults

-----------------------------------------------------------------------------
(* Steps in general *)

LEMMA NoCallOK ==
  ASSUME NEW n \in Nat, NEW cl, NEW iss \in Seq(Purposes)
  PROVE  NoCall \in Call /\ NoCall.code = 0 /\ CallOK("idle", NoCall, cl, iss, n)
  <1>1. NoCall \in Call /\ NoCall.user = 0 /\ NoCall.code = 0
    BY DEF NoCall, Call, NoColumns, Columns
  <1>2. Len(iss) \in Nat
    OBVIOUS
  <1> QED
    BY <1>1, <1>2 DEF CallOK, LoginPoints, TryPoints, RegisterPoints, ResetPoints,
       MarkPoints, Holds

LEMMA CallTyped ==
  ASSUME NEW k \in Call
  PROVE  /\ k.user \in Nat /\ k.code \in Nat /\ k.over \in BOOLEAN /\ k.columns \in Columns
         /\ k.target \in Targets \cup {None} /\ k.ip \in Ips \cup {None}
         /\ k.password \in Passwords \cup {None} /\ k.type \in LoginTypes \cup {None}
         /\ k.country \in Countries \cup {None}
         /\ k.check \subseteq {"username", "email", "phone"}
  BY DEF Call

\* The call in a slot, its point and its code, as constants.
LEMMA SlotAt ==
  ASSUME AccountsInv, NEW r \in Requests
  PROVE  \E k \in Call, p \in CallPoints, cl \in 0..Len(issued) :
            /\ k = areq[r] /\ p = apc[r] /\ cl = claim[r]
            /\ CallOK(p, k, cl, issued, Len(users))
  BY DEF AccountsInv, Codes!OneTimeTypeOK

LEMMA Lengths ==
  ASSUME AccountsInv
  PROVE  /\ Len(users) \in Nat /\ Len(logs) \in Nat /\ Len(issued) \in Nat
         /\ issued \in Seq(Purposes)
  BY DEF AccountsInv, Codes!OneTimeTypeOK

\* One call goes on; the others keep what they have.
LEMMA SlotStep ==
  ASSUME AccountsInv, NEW r \in Requests, NEW p \in CallPoints, NEW k \in Call,
         SetCall(r, p, k),
         users' \in Seq(User), Len(users) <= Len(users'),
         logs' \in Seq(Log), aged' \in 0..Len(logs'),
         Codes!OneTimeTypeOK', issued' = issued,
         \A q \in Requests : q # r => claim'[q] = claim[q],
         CallOK(p, k, claim'[r], issued, Len(users')),
         arrivals' \in 0..MaxArrivals, faults' \in 0..MaxFaults
  PROVE  AccountsInv'
  <1>1. apc' \in [Requests -> CallPoints] /\ areq' \in [Requests -> Call]
    BY DEF AccountsInv, SetCall
  <1>2. ASSUME NEW q \in Requests
        PROVE  CallOK(apc'[q], areq'[q], claim'[q], issued', Len(users'))
    <2>1. CASE q = r
      BY <2>1 DEF AccountsInv, SetCall
    <2>2. CASE q # r
      <3>1. apc'[q] = apc[q] /\ areq'[q] = areq[q] /\ claim'[q] = claim[q]
        BY <2>2 DEF AccountsInv, SetCall
      <3>2. /\ areq[q].user \in Nat /\ Len(users) \in Nat /\ Len(users') \in Nat
            /\ CallOK(apc[q], areq[q], claim[q], issued, Len(users))
        BY CallTyped DEF AccountsInv
      <3> QED BY <3>1, <3>2 DEF CallOK
    <2> QED BY <2>1, <2>2
  <1> QED BY <1>1, <1>2 DEF AccountsInv

\* One call goes on and writes nothing.
LEMMA QuietStep ==
  ASSUME AccountsInv, NEW r \in Requests, NEW p \in CallPoints, NEW k \in Call,
         SetCall(r, p, k), UNCHANGED <<tableVars, codeVars>>,
         CallOK(p, k, claim[r], issued, Len(users)),
         arrivals' \in 0..MaxArrivals, faults' \in 0..MaxFaults
  PROVE  AccountsInv'
  <1>1. Codes!OneTimeTypeOK'
    BY DEF AccountsInv, codeVars, Codes!OneTimeTypeOK
  <1>2. Len(users) \in Nat
    BY Lengths
  <1> QED BY <1>1, <1>2, SlotStep DEF AccountsInv, tableVars, codeVars

\* One call ends and writes nothing.
LEMMA QuietEnd ==
  ASSUME AccountsInv, NEW r \in Requests, Done(r), UNCHANGED <<tableVars, codeVars>>,
         arrivals' \in 0..MaxArrivals, faults' \in 0..MaxFaults
  PROVE  AccountsInv'
  <1>1. "idle" \in CallPoints
    BY DEF CallPoints
  <1> QED BY <1>1, Lengths, NoCallOK, QuietStep DEF Done

LEMMA Counts ==
  ASSUME AccountsInv, NEW r \in Requests
  PROVE  /\ Arrives(r) => arrivals' \in 0..MaxArrivals /\ faults' \in 0..MaxFaults
         /\ \A p : At(r, p) => arrivals' \in 0..MaxArrivals /\ faults' \in 0..MaxFaults
  BY AccountsBoundsAssumption DEF AccountsInv, Arrives, At

-----------------------------------------------------------------------------
(* Calls that arrive, and those that only read *)

LoginOf(t, a, country, type, password, over) ==
    [NoCall EXCEPT !.target = t, !.ip = a, !.country = country, !.type = type,
                   !.password = password, !.over = over]

LEMMA LoginCall ==
  ASSUME AccountsInv, NEW t \in Targets, NEW a \in Ips, NEW country \in Countries \cup {None},
         NEW type \in {"PASSWORD", "CODE"}, NEW password \in Passwords \cup {None},
         NEW over \in BOOLEAN
  PROVE  LET k == LoginOf(t, a, country, type, password, over)
         IN  /\ k \in Call /\ k.target = t /\ k.ip = a /\ k.over = over /\ k.code = 0
             /\ \A cl : CallOK("lgIp", k, cl, issued, Len(users))
  <1> DEFINE k == LoginOf(t, a, country, type, password, over)
  <1>1. NoCall \in Call /\ NoCall.user = 0 /\ NoCall.code = 0
    BY Lengths, NoCallOK DEF NoCall
  <1>2. /\ k \in Call /\ k.target = t /\ k.ip = a /\ k.over = over /\ k.type = type
        /\ k.user = 0 /\ k.code = 0
    BY <1>1 DEF Call, LoginTypes, LoginOf
  <1>3. type \in LoginTypes
    BY DEF LoginTypes
  <1> HIDE DEF k
  <1>4. \A cl : CallOK("lgIp", k, cl, issued, Len(users))
    BY <1>2, <1>3, Lengths
       DEF CallOK, LoginPoints, TryPoints, RegisterPoints, MarkPoints, Holds
  <1> QED BY <1>2, <1>4 DEF k

LEMMA LoginArrives ==
  ASSUME AccountsInv, NEW r \in Requests, NEW t \in Targets, NEW a \in Ips,
         NEW country \in Countries \cup {None}, NEW type \in {"PASSWORD", "CODE"},
         NEW password \in Passwords \cup {None},
         LoginChecksTarget(r, t, a, country, type, password)
  PROVE  AccountsInv'
  <1> DEFINE over == Cardinality(FailuresOf(t)) >= MaxLoginAttempts
  <1>1. PICK k : k = LoginOf(t, a, country, type, password, over)
    OBVIOUS
  <1>2. /\ Arrives(r) /\ SetCall(r, "lgIp", k) /\ UNCHANGED <<tableVars, codeVars>>
    BY <1>1, Zenon DEF LoginChecksTarget, LoginOf
  <1>3. over \in BOOLEAN
    OBVIOUS
  <1> HIDE DEF over
  <1>4. k \in Call /\ CallOK("lgIp", k, claim[r], issued, Len(users))
    BY <1>1, <1>3, LoginCall
  <1>5. "lgIp" \in CallPoints
    BY DEF CallPoints, LoginPoints
  <1> QED BY <1>2, <1>4, <1>5, Counts, QuietStep

\* A call moves on without a claim and without a new code.
LEMMA MovesOK ==
  ASSUME NEW k \in Call, NEW cl, NEW iss, NEW n, NEW p \in CallPoints, NEW q \in CallPoints,
         CallOK(p, k, cl, iss, n),
         \/ p = "lgIp" /\ ~k.over /\ q = "lgFind"
         \/ p = "lgFind" /\ q = "lgUnknown"
         \/ p = "lgSuccess" /\ q = "lgTokens"
         \/ p \in LoginPoints \ {"lgIp"} /\ q = "lgFailure"
         \/ p = "rgLog" /\ q = "rgTokens"
         \/ p = "upCheck" /\ q = "upWrite"
  PROVE  CallOK(q, k, cl, iss, n)
  BY DEF CallOK, LoginPoints, TryPoints, RegisterPoints, ResetPoints, MarkPoints, Holds,
         PurposeOf

LEMMA LoginChecksIpInv ==
  ASSUME AccountsInv, NEW r \in Requests, LoginChecksIp(r)
  PROVE  AccountsInv'
  <1>1. PICK k \in Call, p \in CallPoints, cl \in 0..Len(issued) :
           /\ k = areq[r] /\ p = apc[r] /\ cl = claim[r]
           /\ CallOK(p, k, cl, issued, Len(users))
    BY SlotAt
  <1>2. /\ At(r, "lgIp") /\ UNCHANGED <<tableVars, codeVars>> /\ p = "lgIp"
        /\ Done(r) \/ (~k.over /\ SetCall(r, "lgFind", k))
    BY <1>1 DEF LoginChecksIp, Await, At
  <1>3. "lgFind" \in CallPoints
    BY DEF CallPoints, LoginPoints
  <1>4. ~k.over => CallOK("lgFind", k, cl, issued, Len(users))
    BY <1>1, <1>2, <1>3, MovesOK
  <1> QED BY <1>1, <1>2, <1>3, <1>4, Counts, QuietStep, QuietEnd

LEMMA LoginFindsInv ==
  ASSUME AccountsInv, NEW r \in Requests, LoginFinds(r)
  PROVE  AccountsInv'
  <1>1. PICK k \in Call, p \in CallPoints, cl \in 0..Len(issued) :
           /\ k = areq[r] /\ p = apc[r] /\ cl = claim[r]
           /\ CallOK(p, k, cl, issued, Len(users))
    BY SlotAt
  <1> DEFINE found(u) == [areq[r] EXCEPT !.user = u]
             next(u) == IF areq[r].type = "CODE" THEN "lgVerify"
                        ELSE IF /\ areq[r].password # None
                                /\ areq[r].password = users[u].password
                        THEN "lgSuccess" ELSE "lgFailure"
  <1>2. At(r, "lgFind") /\ UNCHANGED <<tableVars, codeVars>> /\ p = "lgFind"
    <2>1. At(r, "lgFind") /\ UNCHANGED <<tableVars, codeVars>>
      BY Zenon DEF LoginFinds
    <2> QED BY <1>1, <2>1 DEF At
  <1>3. \/ Done(r)
        \/ Await(r, "lgUnknown")
        \/ \E u \in UsersOf(areq[r].target) : SetCall(r, next(u), found(u))
    BY Zenon DEF LoginFinds
  <1>4. CASE Done(r)
    BY <1>2, <1>4, Counts, QuietEnd
  <1>5. CASE Await(r, "lgUnknown")
    <2>1. "lgUnknown" \in CallPoints
      BY DEF CallPoints, LoginPoints
    <2> QED BY <1>1, <1>2, <1>5, <2>1, MovesOK, Counts, QuietStep DEF Await
  <1>6. ASSUME NEW u \in UsersOf(areq[r].target), SetCall(r, next(u), found(u))
        PROVE  AccountsInv'
    <2>1. PICK n : n = [k EXCEPT !.user = u]
      OBVIOUS
    <2>2. PICK q : q = next(u)
      OBVIOUS
    <2>3. u \in 1..Len(users) /\ Len(users) \in Nat
      BY <1>6, Lengths DEF UsersOf
    <2>4. /\ n \in Call /\ n.user = u /\ n.type = k.type /\ n.target = k.target
          /\ n.ip = k.ip /\ n.over = k.over /\ n.code = k.code
      BY <2>1, <2>3 DEF Call
    <2>5. /\ q \in {"lgVerify", "lgSuccess", "lgFailure"}
          /\ q = "lgSuccess" => k.type # "CODE"
      BY <1>1, <2>2
    <2>6. q \in CallPoints
      BY <2>5 DEF CallPoints, LoginPoints, TryPoints
    <2>7. SetCall(r, q, n)
      BY <1>1, <1>6, <2>1, <2>2
    <2>8. CallOK(q, n, cl, issued, Len(users))
      BY <1>1, <1>2, <2>3, <2>4, <2>5
         DEF CallOK, LoginPoints, TryPoints, RegisterPoints, ResetPoints, MarkPoints, Holds
    <2> QED BY <1>1, <1>2, <2>4, <2>6, <2>7, <2>8, Counts, QuietStep
  <1> QED BY <1>3, <1>4, <1>5, <1>6

\* A call that is done and leaves the tables and the codes.
LEMMA GrantsInv ==
  ASSUME AccountsInv, NEW r \in Requests, LoginGrants(r) \/ RegisterGrants(r)
  PROVE  AccountsInv'
  <1>1. Done(r) /\ UNCHANGED <<tableVars, codeVars>> /\ \E p : At(r, p)
    BY DEF LoginGrants, RegisterGrants
  <1> QED BY <1>1, Counts, QuietEnd

RegisterOf(t, a, c, password) ==
    [NoCall EXCEPT !.target = t, !.ip = a, !.type = "CODE",
                   !.columns = c, !.password = password]

LEMMA RegisterChecksInv ==
  ASSUME AccountsInv, NEW r \in Requests, NEW a \in Ips, NEW c \in Registrations, NEW t,
         NEW password \in Passwords \cup {None}, RegisterChecks(r, a, c, t, password)
  PROVE  AccountsInv'
  <1>1. /\ Arrives(r) /\ UNCHANGED <<tableVars, codeVars>>
        /\ t # None /\ t \in {c.email, c.phone}
        /\ Done(r) \/ SetCall(r, "rgVerify", RegisterOf(t, a, c, password))
    BY Zenon DEF RegisterChecks, RegisterOf
  <1>2. PICK k : k = RegisterOf(t, a, c, password)
    OBVIOUS
  <1>3. c \in Columns /\ t \in Targets
    BY <1>1, InputsAssumption DEF Columns, Targets
  <1>4. NoCall \in Call /\ NoCall.user = 0 /\ NoCall.code = 0
    BY Lengths, NoCallOK DEF NoCall
  <1>5. /\ k \in Call /\ k.target = t /\ k.ip = a /\ k.type = "CODE" /\ k.columns = c
        /\ k.user = 0 /\ k.code = 0
    BY <1>2, <1>3, <1>4 DEF RegisterOf, Call, LoginTypes
  <1>6. CallOK("rgVerify", k, claim[r], issued, Len(users))
    BY <1>1, <1>3, <1>5, Lengths
       DEF CallOK, LoginPoints, TryPoints, RegisterPoints, MarkPoints, Holds, LoginTypes
  <1>7. "rgVerify" \in CallPoints
    BY DEF CallPoints, OtherPoints
  <1> QED BY <1>1, <1>2, <1>5, <1>6, <1>7, Counts, QuietStep, QuietEnd

LEMMA ResetFindsInv ==
  ASSUME AccountsInv, NEW r \in Requests, ResetFinds(r)
  PROVE  AccountsInv'
  <1>1. PICK k \in Call, p \in CallPoints, cl \in 0..Len(issued) :
           /\ k = areq[r] /\ p = apc[r] /\ cl = claim[r]
           /\ CallOK(p, k, cl, issued, Len(users))
    BY SlotAt
  <1> DEFINE found(u) == [areq[r] EXCEPT !.user = u]
  <1>2. At(r, "rsFind") /\ UNCHANGED <<tableVars, codeVars>> /\ p = "rsFind"
    <2>1. At(r, "rsFind") /\ UNCHANGED <<tableVars, codeVars>>
      BY Zenon DEF ResetFinds
    <2> QED BY <1>1, <2>1 DEF At
  <1>3. \/ Done(r)
        \/ \E u \in UsersOf(areq[r].target) : SetCall(r, "rsUpdate", found(u))
    BY Zenon DEF ResetFinds
  <1>4. ASSUME NEW u \in UsersOf(areq[r].target), SetCall(r, "rsUpdate", found(u))
        PROVE  AccountsInv'
    <2>1. PICK n : n = [k EXCEPT !.user = u]
      OBVIOUS
    <2>2. u \in 1..Len(users) /\ Len(users) \in Nat
      BY <1>4, Lengths DEF UsersOf
    <2>3. /\ n \in Call /\ n.user = u /\ n.type = k.type /\ n.target = k.target
          /\ n.ip = k.ip /\ n.code = k.code
      BY <2>1, <2>2 DEF Call
    <2>4. "rsUpdate" \in CallPoints
      BY DEF CallPoints, OtherPoints
    <2>5. SetCall(r, "rsUpdate", n)
      BY <1>1, <1>4, <2>1
    <2>6. CallOK("rsUpdate", n, cl, issued, Len(users))
      BY <1>1, <1>2, <2>2, <2>3
         DEF CallOK, LoginPoints, TryPoints, RegisterPoints, ResetPoints, MarkPoints, Holds,
             PurposeOf
    <2> QED BY <1>1, <1>2, <2>3, <2>4, <2>5, <2>6, Counts, QuietStep
  <1> QED BY <1>2, <1>3, <1>4, Counts, QuietEnd

UpdateOf(u, c, check, country) ==
    [NoCall EXCEPT !.user = u, !.columns = c, !.check = check, !.country = country]

LEMMA UpdateReadsInv ==
  ASSUME AccountsInv, NEW r \in Requests, NEW u \in 1..Len(users), NEW c \in Updates,
         UpdateReads(r, u, c)
  PROVE  AccountsInv'
  <1> DEFINE old == users[u].columns
             new == [username |-> c.username \notin {None, old.username},
                     email |-> c.email \notin {None, old.email},
                     phone |-> /\ c.phone # None
                               /\ c.phone # old.phone \/ c.country # old.country]
  <1>1. PICK check : check = {column \in DOMAIN new : new[column]}
    OBVIOUS
  <1>2. PICK country : country = IF c.country # None THEN c.country ELSE old.country
    OBVIOUS
  <1>3. /\ Arrives(r) /\ UNCHANGED <<tableVars, codeVars>>
        /\ SetCall(r, "upCheck", UpdateOf(u, c, check, country))
    BY <1>1, <1>2, Zenon DEF UpdateReads, UpdateOf
  <1>4. c \in Columns /\ users[u] \in User
    BY InputsAssumption DEF AccountsInv
  <1>5. country \in Countries \cup {None}
    BY <1>2, <1>4 DEF User, Columns
  <1>6. check \subseteq {"username", "email", "phone"}
    BY <1>1
  <1> HIDE DEF old, new
  <1>7. PICK k : k = UpdateOf(u, c, check, country)
    OBVIOUS
  <1>8. NoCall \in Call /\ NoCall.code = 0 /\ Len(users) \in Nat /\ Len(issued) \in Nat
    BY Lengths, NoCallOK
  <1>9. k \in Call /\ k.user = u /\ k.code = 0
    <2>1. u \in Nat /\ check \in SUBSET {"username", "email", "phone"}
      BY <1>6, <1>8
    <2>2. NoCall \in Call /\ NoCall.code = 0
      BY <1>8
    <2>3. c \in Columns
      BY <1>4
    <2>4. PICK n1 : n1 = [NoCall EXCEPT !.user = u]
      OBVIOUS
    <2>5. n1 \in Call /\ n1.user = u /\ n1.code = 0
      BY <2>1, <2>2, <2>4 DEF Call
    <2>6. PICK n2 : n2 = [n1 EXCEPT !.columns = c]
      OBVIOUS
    <2>7. n2 \in Call /\ n2.user = u /\ n2.code = 0
      BY <2>3, <2>5, <2>6 DEF Call
    <2>8. PICK n3 : n3 = [n2 EXCEPT !.check = check]
      OBVIOUS
    <2>9. n3 \in Call /\ n3.user = u /\ n3.code = 0
      BY <2>1, <2>7, <2>8 DEF Call
    <2>10. k = [n3 EXCEPT !.country = country]
      BY <1>7, <2>4, <2>6, <2>8, Zenon DEF UpdateOf
    <2> QED BY <1>5, <2>9, <2>10 DEF Call
  <1>10. CallOK("upCheck", k, claim[r], issued, Len(users))
    BY <1>8, <1>9
       DEF CallOK, LoginPoints, TryPoints, RegisterPoints, ResetPoints, MarkPoints, Holds
  <1>11. "upCheck" \in CallPoints
    BY DEF CallPoints, OtherPoints
  <1> QED BY <1>3, <1>7, <1>9, <1>10, <1>11, Counts, QuietStep

LEMMA UpdateChecksInv ==
  ASSUME AccountsInv, NEW r \in Requests, UpdateChecks(r)
  PROVE  AccountsInv'
  <1>1. PICK k \in Call, p \in CallPoints, cl \in 0..Len(issued) :
           /\ k = areq[r] /\ p = apc[r] /\ cl = claim[r]
           /\ CallOK(p, k, cl, issued, Len(users))
    BY SlotAt
  <1> DEFINE rest == k.check \ {NextCheck(k.check)}
  <1>2. PICK n : n = [k EXCEPT !.check = rest]
    OBVIOUS
  <1>3. /\ At(r, "upCheck") /\ UNCHANGED <<tableVars, codeVars>>
        /\ \/ SetCall(r, "upWrite", k)
           \/ Done(r)
           \/ SetCall(r, "upCheck", n)
    BY <1>1, <1>2, Zenon DEF UpdateChecks, Await
  <1>4. p = "upCheck" /\ "upWrite" \in CallPoints /\ "upCheck" \in CallPoints
    BY <1>1, <1>3 DEF At, CallPoints, OtherPoints
  <1>5. CASE SetCall(r, "upWrite", k)
    BY <1>1, <1>3, <1>4, <1>5, MovesOK, Counts, QuietStep
  <1>6. CASE SetCall(r, "upCheck", n)
    <2>1. rest \subseteq {"username", "email", "phone"}
      BY CallTyped
    <2> HIDE DEF rest
    <2>2. n \in Call /\ n.user = k.user /\ n.code = k.code
      BY <1>2, <2>1 DEF Call
    <2>3. CallOK("upCheck", n, cl, issued, Len(users))
      BY <1>1, <1>4, <2>2
         DEF CallOK, LoginPoints, TryPoints, RegisterPoints, ResetPoints, MarkPoints, Holds
    <2> QED BY <1>1, <1>3, <1>4, <1>6, <2>2, <2>3, Counts, QuietStep
  <1> QED BY <1>3, <1>5, <1>6, Counts, QuietEnd

-----------------------------------------------------------------------------
(* Calls that write a log *)

LEMMA LogAppended ==
  ASSUME AccountsInv, NEW k \in Call, NEW t \in Targets, NEW success \in BOOLEAN,
         k.ip \in Ips, k.type \in LoginTypes, CreateLog(k, t, success)
  PROVE  /\ logs' \in Seq(Log) /\ Len(logs') = Len(logs) + 1
         /\ \A i \in 1..Len(logs) : logs'[i] = logs[i]
         /\ logs'[Len(logs) + 1].target = t /\ logs'[Len(logs) + 1].success = success
         /\ logs'[Len(logs) + 1].ip = k.ip
  <1>1. PICK log : log = [user |-> k.user, target |-> t, type |-> k.type,
                          success |-> success, ip |-> k.ip]
    OBVIOUS
  <1>2. log \in Log /\ log.target = t /\ log.success = success /\ log.ip = k.ip
    BY <1>1, CallTyped DEF Log
  <1>3. logs' = Append(logs, log) /\ logs \in Seq(Log)
    BY <1>1 DEF CreateLog, AccountsInv
  <1> QED BY <1>2, <1>3, AppendProperties

LEMMA LogStep ==
  ASSUME AccountsInv, NEW r \in Requests, NEW k \in Call, NEW n \in Call,
         NEW p \in CallPoints, SetCall(r, p, n), NEW t \in Targets, NEW success \in BOOLEAN,
         k.ip \in Ips, k.type \in LoginTypes, CreateLog(k, t, success),
         UNCHANGED <<users, aged, codeVars>>,
         CallOK(p, n, claim[r], issued, Len(users)),
         arrivals' \in 0..MaxArrivals, faults' \in 0..MaxFaults
  PROVE  AccountsInv'
  <1>1. logs' \in Seq(Log) /\ Len(logs') = Len(logs) + 1
    BY LogAppended
  <1>2. aged' \in 0..Len(logs')
    BY <1>1 DEF AccountsInv
  <1>3. Codes!OneTimeTypeOK' /\ issued' = issued /\ claim' = claim
    BY DEF AccountsInv, codeVars, Codes!OneTimeTypeOK
  <1>4. users' \in Seq(User) /\ Len(users') = Len(users) /\ Len(users) \in Nat
    BY DEF AccountsInv
  <1> QED BY <1>1, <1>2, <1>3, <1>4, SlotStep

LEMMA LogEnd ==
  ASSUME AccountsInv, NEW r \in Requests, NEW k \in Call, Done(r),
         NEW t \in Targets, NEW success \in BOOLEAN,
         k.ip \in Ips, k.type \in LoginTypes, CreateLog(k, t, success),
         UNCHANGED <<users, aged, codeVars>>,
         arrivals' \in 0..MaxArrivals, faults' \in 0..MaxFaults
  PROVE  AccountsInv'
  <1>1. "idle" \in CallPoints
    BY DEF CallPoints
  <1> QED BY <1>1, Lengths, NoCallOK, LogStep DEF Done

\* A call that logs for its target.
LEMMA LogsInv ==
  ASSUME AccountsInv, NEW r \in Requests,
         LoginLogsUnknown(r) \/ LoginLogsFailure(r) \/ LoginLogsSuccess(r) \/ ResetLogs(r)
  PROVE  AccountsInv'
  <1>1. PICK k \in Call, p \in CallPoints, cl \in 0..Len(issued) :
           /\ k = areq[r] /\ p = apc[r] /\ cl = claim[r]
           /\ CallOK(p, k, cl, issued, Len(users))
    BY SlotAt
  <1>2. PICK success \in BOOLEAN : CreateLog(k, k.target, success)
    BY <1>1 DEF LoginLogsUnknown, LoginLogsFailure, LoginLogsSuccess, ResetLogs
  <1>3. /\ UNCHANGED <<users, aged, codeVars>>
        /\ p \in {"lgUnknown", "lgFailure", "lgSuccess", "rsLog"}
        /\ Done(r) \/ (p = "lgSuccess" /\ SetCall(r, "lgTokens", k))
        /\ arrivals' \in 0..MaxArrivals /\ faults' \in 0..MaxFaults
    BY <1>1, Counts
       DEF LoginLogsUnknown, LoginLogsFailure, LoginLogsSuccess, ResetLogs, Await, At
  <1>4. k.target \in Targets /\ k.ip \in Ips /\ k.type \in LoginTypes
    BY <1>1, <1>3 DEF CallOK, LoginPoints, TryPoints, ResetPoints
  <1>5. "lgTokens" \in CallPoints
    BY DEF CallPoints, LoginPoints, TryPoints
  <1>6. p = "lgSuccess" => CallOK("lgTokens", k, cl, issued, Len(users))
    BY <1>1, <1>5, MovesOK
  <1> QED BY <1>1, <1>2, <1>3, <1>4, <1>5, <1>6, LogStep, LogEnd

LEMMA RegisterLogsInv ==
  ASSUME AccountsInv, NEW r \in Requests, RegisterLogs(r)
  PROVE  AccountsInv' /\ \E t \in Targets : CreateLog(areq[r], t, TRUE)
  <1>1. PICK k \in Call, p \in CallPoints, cl \in 0..Len(issued) :
           /\ k = areq[r] /\ p = apc[r] /\ cl = claim[r]
           /\ CallOK(p, k, cl, issued, Len(users))
    BY SlotAt
  <1>2. PICK t : t = IF k.columns.email # None THEN k.columns.email ELSE k.columns.phone
    OBVIOUS
  <1>3. /\ UNCHANGED <<users, aged, codeVars>> /\ p = "rgLog"
        /\ CreateLog(k, t, TRUE) /\ SetCall(r, "rgTokens", k)
        /\ arrivals' \in 0..MaxArrivals /\ faults' \in 0..MaxFaults
    BY <1>1, <1>2, Counts DEF RegisterLogs, Await, At
  <1>4. /\ k.target \in Targets /\ k.ip \in Ips /\ k.type \in LoginTypes
        /\ k.target \in {k.columns.email, k.columns.phone}
    BY <1>1, <1>3 DEF CallOK, RegisterPoints
  <1>5. t \in Targets
    <2>1. k.columns.email \in Emails \cup {None} /\ None \notin Targets
      BY AccountsNoneAssumption, CallTyped DEF Columns
    <2> QED BY <1>2, <1>4, <2>1 DEF Targets
  <1>6. "rgTokens" \in CallPoints
    BY DEF CallPoints, OtherPoints
  <1>7. CallOK("rgTokens", k, cl, issued, Len(users))
    BY <1>1, <1>3, <1>6, MovesOK
  <1> QED BY <1>1, <1>3, <1>4, <1>5, <1>6, <1>7, LogStep

-----------------------------------------------------------------------------
(* Codes *)

LEMMA ClaimKeepsTypes ==
  ASSUME AccountsInv, NEW r \in Requests, NEW i, Codes!Claim(r, i)
  PROVE  /\ Codes!OneTimeTypeOK' /\ issued' = issued /\ claim'[r] = i
         /\ i \in 1..Len(issued) /\ accepts' = accepts
         /\ \A q \in Requests : q # r => claim'[q] = claim[q]
  BY DEF AccountsInv, Codes!OneTimeTypeOK, Codes!Claim

LEMMA AcceptKeepsTypes ==
  ASSUME AccountsInv, NEW r \in Requests, Codes!Accept(r)
  PROVE  /\ Codes!OneTimeTypeOK' /\ issued' = issued
         /\ claim[r] \in 1..Len(issued) /\ claim'[r] = 0
         /\ \A q \in Requests : q # r => claim'[q] = claim[q]
         /\ \A i \in 1..Len(issued) :
               accepts'[i] = IF i = claim[r] THEN accepts[i] + 1 ELSE accepts[i]
  <1>1. /\ accepts \in Seq(Nat) /\ Len(accepts) = Len(issued) /\ Len(issued) \in Nat
        /\ claim \in [Requests -> 0..Len(issued)] /\ claim[r] # 0
        /\ open \subseteq 1..Len(issued) /\ issued \in Seq(Purposes)
    BY DEF AccountsInv, Codes!OneTimeTypeOK, Codes!Accept
  <1>2. PICK c \in 1..Len(issued) : c = claim[r]
    BY <1>1
  <1>3. /\ accepts' = [accepts EXCEPT ![c] = accepts[c] + 1]
        /\ open' = open \ {c} /\ issued' = issued
        /\ claim' = [claim EXCEPT ![r] = 0]
    BY <1>2 DEF Codes!Accept
  <1>4. accepts' \in Seq(Nat) /\ Len(accepts') = Len(issued)
    <2>1. accepts[c] + 1 \in Nat
      BY <1>1, <1>2
    <2> QED BY <1>1, <1>2, <1>3, <2>1
  <1>5. Codes!OneTimeTypeOK'
    BY <1>1, <1>3, <1>4 DEF Codes!OneTimeTypeOK
  <1> QED BY <1>1, <1>2, <1>3, <1>5

LEMMA GiveUpKeepsTypes ==
  ASSUME AccountsInv, NEW S, Codes!GiveUp(S)
  PROVE  /\ Codes!OneTimeTypeOK' /\ issued' = issued /\ accepts' = accepts
         /\ \A q \in Requests : claim'[q] = IF q \in S THEN 0 ELSE claim[q]
  BY DEF AccountsInv, Codes!OneTimeTypeOK, Codes!GiveUp

\* A call looks for its code, and claims one that was sent for its purpose.
LEMMA FindStep ==
  ASSUME AccountsInv, NEW r \in Requests, NEW i, Codes!Claim(r, i),
         NEW p \in CallPoints, NEW k \in Call, SetCall(r, p, k), UNCHANGED tableVars,
         CallOK(p, k, i, issued, Len(users)),
         arrivals' \in 0..MaxArrivals, faults' \in 0..MaxFaults
  PROVE  AccountsInv'
  <1>1. Len(users) \in Nat /\ UNCHANGED <<users, logs, aged>>
    BY Lengths DEF tableVars
  <1>2. users' \in Seq(User) /\ logs' \in Seq(Log) /\ aged' \in 0..Len(logs')
    BY <1>1 DEF AccountsInv
  <1>3. /\ Codes!OneTimeTypeOK' /\ issued' = issued /\ claim'[r] = i
        /\ \A q \in Requests : q # r => claim'[q] = claim[q]
    BY ClaimKeepsTypes
  <1> QED BY <1>1, <1>2, <1>3, SlotStep

LEMMA FindsCodeInv ==
  ASSUME AccountsInv, NEW r \in Requests, LoginFindsCode(r) \/ RegisterFindsCode(r)
  PROVE  AccountsInv'
  <1>1. PICK k \in Call, p \in CallPoints, cl \in 0..Len(issued) :
           /\ k = areq[r] /\ p = apc[r] /\ cl = claim[r]
           /\ CallOK(p, k, cl, issued, Len(users))
    BY SlotAt
  <1>2. PICK q, what :
           /\ \/ q = "lgMark" /\ what = "LOGIN" /\ p = "lgVerify"
              \/ q = "rgMark" /\ what = "REGISTER" /\ p = "rgVerify"
           /\ UNCHANGED tableVars
           /\ \/ \E i \in open : /\ issued[i] = [target |-> k.target, type |-> what]
                                 /\ Codes!Claim(r, i) /\ SetCall(r, q, k)
              \/ Done(r) /\ UNCHANGED codeVars
              \/ q = "lgMark" /\ SetCall(r, "lgFailure", k) /\ UNCHANGED codeVars
    <2>1. CASE LoginFindsCode(r)
      <3>1. /\ p = "lgVerify" /\ UNCHANGED tableVars
            /\ \/ \E i \in open : /\ issued[i] = [target |-> k.target, type |-> "LOGIN"]
                                  /\ Codes!Claim(r, i) /\ SetCall(r, "lgMark", k)
               \/ SetCall(r, "lgFailure", k) /\ UNCHANGED codeVars
        BY <1>1, <2>1 DEF LoginFindsCode, FindsCode, Await, At
      <3> QED BY <3>1
    <2>2. CASE RegisterFindsCode(r)
      <3>1. /\ p = "rgVerify" /\ UNCHANGED tableVars
            /\ \/ \E i \in open : /\ issued[i] = [target |-> k.target, type |-> "REGISTER"]
                                  /\ Codes!Claim(r, i) /\ SetCall(r, "rgMark", k)
               \/ Done(r) /\ UNCHANGED codeVars
        BY <1>1, <2>2 DEF RegisterFindsCode, FindsCode, Await, At
      <3> QED BY <3>1
    <2> QED BY <2>1, <2>2
  <1>3. arrivals' \in 0..MaxArrivals /\ faults' \in 0..MaxFaults
    BY Counts DEF LoginFindsCode, RegisterFindsCode
  <1>4. q \in CallPoints /\ "lgFailure" \in CallPoints
    BY <1>2 DEF CallPoints, LoginPoints, TryPoints, OtherPoints
  <1>5. ASSUME NEW i \in open, issued[i] = [target |-> k.target, type |-> what],
               Codes!Claim(r, i), SetCall(r, q, k)
        PROVE  AccountsInv'
    <2>1. PurposeOf(q, k) = [target |-> k.target, type |-> what]
      BY <1>2 DEF PurposeOf, LoginPoints, TryPoints, RegisterPoints
    <2>2. CallOK(q, k, i, issued, Len(users))
      BY <1>1, <1>2, <1>5, <2>1
         DEF CallOK, LoginPoints, TryPoints, RegisterPoints, ResetPoints, MarkPoints, Holds
    <2> QED BY <1>2, <1>3, <1>4, <1>5, <2>2, FindStep
  <1>6. CASE q = "lgMark" /\ SetCall(r, "lgFailure", k) /\ UNCHANGED codeVars
    <2>1. CallOK("lgFailure", k, cl, issued, Len(users))
      BY <1>1, <1>2, <1>4, <1>6, MovesOK DEF LoginPoints, TryPoints
    <2> QED BY <1>1, <1>2, <1>3, <1>4, <1>6, <2>1, QuietStep
  <1> QED BY <1>2, <1>3, <1>5, <1>6, QuietEnd

ResetOf(t, a, password) ==
    [NoCall EXCEPT !.target = t, !.ip = a, !.type = "PASSWORD_RESET", !.password = password]

LEMMA ResetFindsCodeInv ==
  ASSUME AccountsInv, NEW r \in Requests, NEW t \in Targets, NEW a \in Ips,
         NEW password \in Passwords, ResetFindsCode(r, t, a, password)
  PROVE  AccountsInv'
  <1>1. PICK k : k = ResetOf(t, a, password)
    OBVIOUS
  <1>2. /\ Arrives(r) /\ UNCHANGED tableVars
        /\ \/ \E i \in open : /\ issued[i] = [target |-> t, type |-> "RESET_PASSWORD"]
                              /\ Codes!Claim(r, i) /\ SetCall(r, "rsMark", k)
           \/ Done(r) /\ UNCHANGED codeVars
    BY <1>1, Zenon DEF ResetFindsCode, FindsCode, ResetOf
  <1>3. NoCall \in Call /\ NoCall.user = 0 /\ NoCall.code = 0
    BY Lengths, NoCallOK DEF NoCall
  <1>4. /\ k \in Call /\ k.target = t /\ k.ip = a /\ k.type = "PASSWORD_RESET"
        /\ k.user = 0 /\ k.code = 0
    BY <1>1, <1>3 DEF ResetOf, Call, LoginTypes
  <1>5. ASSUME NEW i \in open, issued[i] = [target |-> t, type |-> "RESET_PASSWORD"],
               Codes!Claim(r, i), SetCall(r, "rsMark", k)
        PROVE  AccountsInv'
    <2>1. PurposeOf("rsMark", k) = [target |-> t, type |-> "RESET_PASSWORD"]
      BY <1>4 DEF PurposeOf, LoginPoints, TryPoints, RegisterPoints
    <2>2. CallOK("rsMark", k, i, issued, Len(users))
      BY <1>4, <1>5, <2>1, Lengths
         DEF CallOK, LoginPoints, TryPoints, RegisterPoints, ResetPoints, Holds, LoginTypes
    <2>3. "rsMark" \in CallPoints
      BY DEF CallPoints, OtherPoints
    <2> QED BY <1>2, <1>4, <1>5, <2>2, <2>3, Counts, FindStep
  <1> QED BY <1>2, <1>5, Counts, QuietEnd

LEMMA MarksCodeInv ==
  ASSUME AccountsInv, NEW r \in Requests,
         LoginMarksCode(r) \/ RegisterMarksCode(r) \/ ResetMarksCode(r)
  PROVE  AccountsInv'
  <1>1. PICK k \in Call, p \in CallPoints, cl \in 0..Len(issued) :
           /\ k = areq[r] /\ p = apc[r] /\ cl = claim[r]
           /\ CallOK(p, k, cl, issued, Len(users))
    BY SlotAt
  <1>2. PICK n : n = [k EXCEPT !.code = cl]
    OBVIOUS
  <1>3. PICK q :
           /\ \/ p = "lgMark" /\ q = "lgSuccess"
              \/ p = "rgMark" /\ q = "rgCreate"
              \/ p = "rsMark" /\ q = "rsFind"
           /\ Codes!Accept(r) /\ SetCall(r, q, n) /\ UNCHANGED tableVars
    BY <1>1, <1>2 DEF LoginMarksCode, RegisterMarksCode, ResetMarksCode, MarksCode, At
  <1>4. arrivals' \in 0..MaxArrivals /\ faults' \in 0..MaxFaults
    BY Counts DEF LoginMarksCode, RegisterMarksCode, ResetMarksCode
  <1>5. /\ Codes!OneTimeTypeOK' /\ issued' = issued /\ cl \in 1..Len(issued)
        /\ claim'[r] = 0 /\ \A b \in Requests : b # r => claim'[b] = claim[b]
    BY <1>1, <1>3, AcceptKeepsTypes
  <1>6. cl \in Nat /\ cl # 0 /\ cl <= Len(issued) /\ Len(users) \in Nat
    BY <1>5, Lengths
  <1>7. /\ n \in Call /\ n.code = cl /\ n.target = k.target /\ n.ip = k.ip
        /\ n.type = k.type /\ n.over = k.over /\ n.user = k.user /\ n.columns = k.columns
    BY <1>2, <1>6 DEF Call
  <1>8. PurposeOf(q, n) = PurposeOf(p, k)
    BY <1>3, <1>7 DEF PurposeOf, LoginPoints, TryPoints, RegisterPoints
  <1>9. CallOK(q, n, 0, issued, Len(users))
    BY <1>1, <1>3, <1>6, <1>7, <1>8
       DEF CallOK, LoginPoints, TryPoints, RegisterPoints, ResetPoints, MarkPoints, Holds
  <1>10. q \in CallPoints
    BY <1>3 DEF CallPoints, LoginPoints, TryPoints, OtherPoints
  <1> QED BY <1>3, <1>4, <1>5, <1>6, <1>7, <1>9, <1>10, SlotStep DEF AccountsInv, tableVars

-----------------------------------------------------------------------------
(* Calls that write users *)

LEMMA RegisterCreatesInv ==
  ASSUME AccountsInv, NEW r \in Requests, RegisterCreates(r)
  PROVE  AccountsInv'
  <1>1. PICK k \in Call, p \in CallPoints, cl \in 0..Len(issued) :
           /\ k = areq[r] /\ p = apc[r] /\ cl = claim[r]
           /\ CallOK(p, k, cl, issued, Len(users))
    BY SlotAt
  <1> DEFINE byEmail == k.target = k.columns.email
             user == [columns |-> k.columns, password |-> k.password,
                      emailVerified |-> byEmail, phoneVerified |-> ~byEmail]
  <1>2. PICK m : m = Len(users) + 1
    OBVIOUS
  <1>3. PICK n : n = [k EXCEPT !.user = m, !.code = 0]
    OBVIOUS
  <1>4. /\ p = "rgCreate" /\ At(r, "rgCreate") /\ UNCHANGED <<logs, aged, codeVars>>
        /\ \/ Done(r) /\ UNCHANGED users
           \/ users' = Append(users, user) /\ SetCall(r, "rgLog", n)
    BY <1>1, <1>2, <1>3 DEF RegisterCreates, At
  <1>5. CASE Done(r) /\ UNCHANGED users
    BY <1>4, <1>5, Counts, QuietEnd DEF tableVars
  <1>6. CASE users' = Append(users, user) /\ SetCall(r, "rgLog", n)
    <2>1. byEmail \in BOOLEAN
      OBVIOUS
    <2>2. user \in User
      <3> HIDE DEF byEmail
      <3> QED BY <2>1, CallTyped DEF User
    <2> HIDE DEF user
    <2>3. /\ users' \in Seq(User) /\ Len(users') = m /\ m \in Nat /\ Len(users) <= m
      BY <1>2, <1>6, <2>2, AppendProperties DEF AccountsInv
    <2>4. /\ n \in Call /\ n.user = m /\ n.code = 0 /\ n.target = k.target /\ n.ip = k.ip
          /\ n.type = k.type /\ n.columns = k.columns
      BY <1>3, <2>3 DEF Call
    <2>5. CallOK("rgLog", n, cl, issued, m)
      BY <1>1, <1>4, <2>3, <2>4, Lengths
         DEF CallOK, LoginPoints, TryPoints, RegisterPoints, ResetPoints, MarkPoints, Holds
    <2>6. "rgLog" \in CallPoints
      BY DEF CallPoints, OtherPoints
    <2>7. Codes!OneTimeTypeOK' /\ issued' = issued /\ claim' = claim
      BY <1>4 DEF AccountsInv, codeVars, Codes!OneTimeTypeOK
    <2> QED BY <1>1, <1>4, <1>6, <2>3, <2>4, <2>5, <2>6, <2>7, Counts, SlotStep
        DEF AccountsInv
  <1> QED BY <1>4, <1>5, <1>6

LEMMA UserWritten ==
  ASSUME NEW us \in Seq(User), NEW u \in 1..Len(us), NEW x \in User,
         NEW vs, vs = [us EXCEPT ![u] = x]
  PROVE  vs \in Seq(User) /\ Len(vs) = Len(us) /\ Len(us) \in Nat
  OBVIOUS

LEMMA ResetUpdatesInv ==
  ASSUME AccountsInv, NEW r \in Requests, ResetUpdates(r)
  PROVE  AccountsInv'
  <1>1. PICK k \in Call, p \in CallPoints, cl \in 0..Len(issued) :
           /\ k = areq[r] /\ p = apc[r] /\ cl = claim[r]
           /\ CallOK(p, k, cl, issued, Len(users))
    BY SlotAt
  <1>2. PICK n : n = [k EXCEPT !.code = 0]
    OBVIOUS
  <1>3. /\ p = "rsUpdate" /\ At(r, "rsUpdate") /\ UNCHANGED <<logs, aged, codeVars>>
        /\ users' = [users EXCEPT ![k.user].password = k.password]
        /\ SetCall(r, "rsLog", n)
    BY <1>1, <1>2 DEF ResetUpdates, At
  <1>4. users' \in Seq(User) /\ Len(users') = Len(users) /\ Len(users) \in Nat
    <2>1. PICK us \in Seq(User) : us = users
      BY DEF AccountsInv
    <2>2. k.password \in Passwords \cup {None} /\ k.user \in 1..Len(us) /\ us[k.user] \in User
      BY <1>1, <1>3, <2>1, CallTyped DEF CallOK
    <2>3. PICK x : x = [us[k.user] EXCEPT !.password = k.password]
      OBVIOUS
    <2>4. x \in User
      BY <2>2, <2>3 DEF User
    <2>5. users' = [us EXCEPT ![k.user] = x]
      BY <1>3, <2>1, <2>3
    <2> QED BY <2>1, <2>2, <2>4, <2>5, UserWritten
  <1>5. /\ n \in Call /\ n.code = 0 /\ n.target = k.target /\ n.ip = k.ip
        /\ n.type = k.type /\ n.user = k.user
    BY <1>2 DEF Call
  <1>6. CallOK("rsLog", n, cl, issued, Len(users))
    BY <1>1, <1>3, <1>5, Lengths
       DEF CallOK, LoginPoints, TryPoints, RegisterPoints, ResetPoints, MarkPoints, Holds
  <1>7. "rsLog" \in CallPoints
    BY DEF CallPoints, OtherPoints
  <1>8. Codes!OneTimeTypeOK' /\ issued' = issued /\ claim' = claim
    BY <1>3 DEF AccountsInv, codeVars, Codes!OneTimeTypeOK
  <1>9. logs' \in Seq(Log) /\ aged' \in 0..Len(logs')
    BY <1>3 DEF AccountsInv
  <1>10. Len(users) <= Len(users') /\ CallOK("rsLog", n, claim'[r], issued, Len(users'))
    BY <1>1, <1>4, <1>6, <1>8
  <1>11. arrivals' \in 0..MaxArrivals /\ faults' \in 0..MaxFaults
    BY <1>3, Counts
  <1> QED BY <1>3, <1>4, <1>5, <1>7, <1>8, <1>9, <1>10, <1>11, SlotStep

LEMMA MergedColumns ==
  ASSUME NEW old \in Columns, NEW c \in Columns
  PROVE  Merged(old, c) \in Columns
  BY DEF Merged, Columns

LEMMA UpdateWritesInv ==
  ASSUME AccountsInv, NEW r \in Requests, UpdateWrites(r)
  PROVE  AccountsInv'
  <1>1. PICK k \in Call, p \in CallPoints, cl \in 0..Len(issued) :
           /\ k = areq[r] /\ p = apc[r] /\ cl = claim[r]
           /\ CallOK(p, k, cl, issued, Len(users))
    BY SlotAt
  <1>2. PICK c : c = Merged(users[k.user].columns, k.columns)
    OBVIOUS
  <1>3. /\ At(r, "upWrite") /\ UNCHANGED <<logs, aged, codeVars>> /\ Done(r)
        /\ users' = users \/ users' = [users EXCEPT ![k.user].columns = c]
    BY <1>1, <1>2 DEF UpdateWrites
  <1>4. users' \in Seq(User) /\ Len(users') = Len(users) /\ Len(users) \in Nat
    <2>1. PICK us \in Seq(User) : us = users
      BY DEF AccountsInv
    <2>2. k.user \in 1..Len(us) /\ us[k.user] \in User /\ k.columns \in Columns
      BY <1>1, <1>3, <2>1, CallTyped DEF CallOK, At
    <2>3. us[k.user].columns \in Columns
      BY <2>2 DEF User
    <2>4. c \in Columns
      BY <1>2, <2>1, <2>2, <2>3, MergedColumns
    <2>5. PICK x : x = [us[k.user] EXCEPT !.columns = c]
      OBVIOUS
    <2>6. x \in User
      BY <2>2, <2>4, <2>5 DEF User
    <2>7. users' = us \/ users' = [us EXCEPT ![k.user] = x]
      BY <1>3, <2>1, <2>5
    <2> QED BY <2>1, <2>2, <2>6, <2>7, UserWritten
  <1>5. "idle" \in CallPoints
    BY DEF CallPoints
  <1>6. Codes!OneTimeTypeOK' /\ issued' = issued /\ claim' = claim
    BY <1>3 DEF AccountsInv, codeVars, Codes!OneTimeTypeOK
  <1>7. logs' \in Seq(Log) /\ aged' \in 0..Len(logs')
    BY <1>3 DEF AccountsInv
  <1> QED BY <1>3, <1>4, <1>5, <1>6, <1>7, Lengths, NoCallOK, Counts, SlotStep DEF Done

-----------------------------------------------------------------------------
(* Failures, time, new codes *)

LEMMA QueryFailsInv ==
  ASSUME AccountsInv, NEW r \in Requests, QueryFails(r)
  PROVE  AccountsInv'
  <1>1. PICK k \in Call, p \in CallPoints, cl \in 0..Len(issued) :
           /\ k = areq[r] /\ p = apc[r] /\ cl = claim[r]
           /\ CallOK(p, k, cl, issued, Len(users))
    BY SlotAt
  <1>2. /\ UNCHANGED <<users, logs, aged, arrivals>> /\ Codes!GiveUp({r})
        /\ \/ p \in TryPoints /\ SetCall(r, "lgFailure", k)
           \/ SetCall(r, "idle", NoCall)
    BY <1>1 DEF QueryFails, tableVars, Await, Done
  <1>3. arrivals' \in 0..MaxArrivals /\ faults' \in 0..MaxFaults
    BY AccountsBoundsAssumption DEF QueryFails, AccountsInv
  <1>4. /\ Codes!OneTimeTypeOK' /\ issued' = issued /\ claim'[r] = 0
        /\ \A q \in Requests : q # r => claim'[q] = claim[q]
    BY <1>2, GiveUpKeepsTypes
  <1>5. /\ users' \in Seq(User) /\ Len(users') = Len(users) /\ Len(users) \in Nat
        /\ logs' \in Seq(Log) /\ aged' \in 0..Len(logs')
    BY <1>2 DEF AccountsInv
  <1>6. "idle" \in CallPoints /\ "lgFailure" \in CallPoints
    BY DEF CallPoints, LoginPoints
  <1>7. CASE p \in TryPoints /\ SetCall(r, "lgFailure", k)
    <2>1. CallOK("lgFailure", k, 0, issued, Len(users))
      BY <1>1, <1>7
         DEF CallOK, LoginPoints, TryPoints, RegisterPoints, ResetPoints, MarkPoints, Holds
    <2>2. Len(users) <= Len(users') /\ CallOK("lgFailure", k, claim'[r], issued, Len(users'))
      BY <1>4, <1>5, <2>1
    <2> QED BY <1>3, <1>4, <1>5, <1>6, <1>7, <2>2, SlotStep
  <1>8. CASE SetCall(r, "idle", NoCall)
    <2>1. NoCall \in Call /\ CallOK("idle", NoCall, claim'[r], issued, Len(users'))
      BY <1>4, <1>5, Lengths, NoCallOK
    <2>2. Len(users) <= Len(users')
      BY <1>5
    <2> QED BY <1>3, <1>4, <1>5, <1>6, <1>8, <2>1, <2>2, SlotStep
  <1> QED BY <1>2, <1>7, <1>8

LEMMA CrashInv ==
  ASSUME AccountsInv, AccountsCrash
  PROVE  AccountsInv'
  <1>1. /\ UNCHANGED <<users, logs, aged, arrivals>> /\ Codes!GiveUp(Requests)
        /\ apc' = [r \in Requests |-> "idle"] /\ areq' = [r \in Requests |-> NoCall]
    BY DEF AccountsCrash, tableVars
  <1>2. faults' \in 0..MaxFaults
    BY AccountsBoundsAssumption DEF AccountsCrash, AccountsInv
  <1>3. Codes!OneTimeTypeOK' /\ issued' = issued
    BY <1>1, GiveUpKeepsTypes
  <1>4. ASSUME NEW r \in Requests
        PROVE  /\ NoCall \in Call
               /\ CallOK(apc'[r], areq'[r], claim'[r], issued', Len(users'))
    BY <1>1, <1>3, Lengths, NoCallOK
  <1>5. apc' \in [Requests -> CallPoints] /\ areq' \in [Requests -> Call]
    BY <1>1, <1>4 DEF CallPoints
  <1> QED BY <1>1, <1>2, <1>3, <1>4, <1>5 DEF AccountsInv

LEMMA LogAgesInv ==
  ASSUME AccountsInv, LogAges
  PROVE  AccountsInv'
  <1>1. Codes!OneTimeTypeOK' /\ UNCHANGED <<users, logs, claim, issued, apc, areq, arrivals, faults>>
    BY DEF LogAges, codeVars, AccountsInv, Codes!OneTimeTypeOK
  <1>2. aged' \in 0..Len(logs')
    BY DEF LogAges, AccountsInv
  <1> QED BY <1>1, <1>2 DEF AccountsInv

LEMMA CodeIssuedInv ==
  ASSUME AccountsInv, NEW q \in Purposes, CodeIssued(q)
  PROVE  AccountsInv'
  <1>1. UNCHANGED <<users, logs, aged, apc, areq, arrivals, faults, claim>>
    BY DEF CodeIssued, tableVars, Codes!Issue
  <1>2. /\ issued' = Append(issued, q) /\ open' = open \cup {Len(issued) + 1}
        /\ accepts' = Append(accepts, 0)
    BY DEF CodeIssued, Codes!Issue
  <1>3. /\ issued \in Seq(Purposes) /\ open \subseteq 1..Len(issued) /\ Len(issued) \in Nat
        /\ claim \in [Requests -> 0..Len(issued)]
        /\ accepts \in Seq(Nat) /\ Len(accepts) = Len(issued)
    BY DEF AccountsInv, Codes!OneTimeTypeOK
  <1>4. /\ issued' \in Seq(Purposes) /\ Len(issued') = Len(issued) + 1
        /\ \A i \in 1..Len(issued) : issued'[i] = issued[i]
    BY <1>2, <1>3, AppendProperties
  <1>5. accepts' \in Seq(Nat) /\ Len(accepts') = Len(accepts) + 1
    BY <1>2, <1>3, AppendProperties
  <1>6. Codes!OneTimeTypeOK'
    <2>1. Len(accepts') = Len(issued')
      BY <1>3, <1>4, <1>5
    <2>2. PICK n \in Nat : n = Len(issued)
      BY <1>3
    <2>3. open \subseteq 1..(n + 1) /\ n + 1 \in 1..(n + 1)
      BY <1>3, <2>2
    <2>4. open' \subseteq 1..Len(issued')
      BY <1>2, <1>4, <2>2, <2>3
    <2>5. claim' \in [Requests -> 0..Len(issued')]
      BY <1>1, <1>3, <1>4
    <2> QED BY <1>4, <1>5, <2>1, <2>4, <2>5 DEF Codes!OneTimeTypeOK
  <1>7. ASSUME NEW r \in Requests
        PROVE  CallOK(apc'[r], areq'[r], claim'[r], issued', Len(users'))
    <2>1. PICK k \in Call, p \in CallPoints, cl \in 0..Len(issued) :
             /\ k = areq[r] /\ p = apc[r] /\ cl = claim[r]
             /\ CallOK(p, k, cl, issued, Len(users))
      BY SlotAt
    <2>2. k.code \in Nat
      BY CallTyped
    <2>3. CallOK(p, k, cl, issued', Len(users))
      BY <1>3, <1>4, <2>1, <2>2 DEF CallOK
    <2> QED BY <1>1, <2>1, <2>3
  <1> QED BY <1>1, <1>6, <1>7 DEF AccountsInv

LEMMA CodeExpiresInv ==
  ASSUME AccountsInv, NEW i, CodeExpires(i)
  PROVE  AccountsInv'
  <1>1. /\ UNCHANGED <<users, logs, aged, apc, areq, arrivals, faults, claim, issued>>
        /\ Codes!OneTimeTypeOK'
    BY DEF CodeExpires, tableVars, Codes!Close, AccountsInv, Codes!OneTimeTypeOK
  <1> QED BY <1>1 DEF AccountsInv

-----------------------------------------------------------------------------
(* The invariant *)

LEMMA CallArrivesInv ==
  ASSUME AccountsInv, NEW r \in Requests, CallArrives(r)
  PROVE  AccountsInv'
  BY LoginArrives, RegisterChecksInv, ResetFindsCodeInv, UpdateReadsInv DEF CallArrives

LEMMA CallStepInv ==
  ASSUME AccountsInv, NEW r \in Requests,
         LoginStep(r) \/ RegisterStep(r) \/ ResetStep(r) \/ UpdateStep(r)
  PROVE  AccountsInv'
  <1>1. CASE LoginStep(r)
    BY <1>1, LoginChecksIpInv, LoginFindsInv, LogsInv, FindsCodeInv, MarksCodeInv, GrantsInv
       DEF LoginStep
  <1>2. CASE RegisterStep(r)
    BY <1>2, FindsCodeInv, MarksCodeInv, RegisterCreatesInv, RegisterLogsInv, GrantsInv
       DEF RegisterStep
  <1>3. CASE ResetStep(r)
    BY <1>3, MarksCodeInv, ResetFindsInv, ResetUpdatesInv, LogsInv DEF ResetStep
  <1>4. CASE UpdateStep(r)
    BY <1>4, UpdateChecksInv, UpdateWritesInv DEF UpdateStep
  <1> QED BY <1>1, <1>2, <1>3, <1>4

LEMMA AccountsStepInv ==
  ASSUME AccountsInv, [AccountsNext]_accountVars
  PROVE  AccountsInv'
  <1>1. CASE UNCHANGED accountVars
    <2>1. UNCHANGED <<users, logs, aged, apc, areq, arrivals, faults, claim, issued,
                      open, accepts>>
      BY <1>1 DEF accountVars, tableVars, codeVars
    <2>2. Codes!OneTimeTypeOK'
      BY <2>1 DEF AccountsInv, Codes!OneTimeTypeOK
    <2> QED BY <2>1, <2>2 DEF AccountsInv
  <1> QED BY <1>1, CallArrivesInv, CallStepInv, QueryFailsInv, CrashInv, LogAgesInv,
             CodeIssuedInv, CodeExpiresInv DEF AccountsNext

LEMMA AccountsInitInv ==
  ASSUME AccountsInit
  PROVE  AccountsInv
  <1>1. /\ users \in Seq(User) /\ logs = << >> /\ logs \in Seq(Log) /\ aged = 0 /\ Len(logs) = 0
        /\ apc = [r \in Requests |-> "idle"] /\ areq = [r \in Requests |-> NoCall]
        /\ arrivals \in 0..MaxArrivals /\ faults \in 0..MaxFaults
    BY SeedsAssumption, AccountsBoundsAssumption DEF AccountsInit
  <1>2. issued = << >> /\ issued \in Seq(Purposes) /\ Len(issued) = 0
    BY DEF AccountsInit, Codes!OneTimeInit
  <1>3. Codes!OneTimeTypeOK
    BY DEF AccountsInit, Codes!OneTimeInit, Codes!OneTimeTypeOK
  <1>4. ASSUME NEW r \in Requests
        PROVE  NoCall \in Call /\ CallOK(apc[r], areq[r], claim[r], issued, Len(users))
    <2>1. Len(users) \in Nat
      BY <1>1
    <2> QED BY <1>1, <1>2, <2>1, NoCallOK
  <1>5. apc \in [Requests -> CallPoints] /\ areq \in [Requests -> Call]
    BY <1>1, <1>4 DEF CallPoints
  <1> QED BY <1>1, <1>3, <1>4, <1>5 DEF AccountsInv

-----------------------------------------------------------------------------
(* Theorems *)

\* What a call has established at each of its awaits stays true while others
\* write (LoginService, RegisterService, PasswordService, ProfileService).
THEOREM AccountsInvariant == AccountsSpec => []AccountsInv
  BY AccountsInitInv, AccountsStepInv, PTL DEF AccountsSpec

\* The tables, the codes and the calls keep their types, and a call works for
\* a user that exists.
THEOREM AccountsTypes == AccountsSpec => []AccountsTypeOK
  <1>1. AccountsInv => AccountsTypeOK
    BY Lengths, CallTyped DEF AccountsInv, AccountsTypeOK, CallOK, CallPoints
  <1> QED BY <1>1, AccountsInvariant, PTL

-----------------------------------------------------------------------------
(* Passwords *)

\* The steps of a call that leave the users, those of login first.
LEMMA UsersKept ==
  ASSUME [AccountsNext]_accountVars
  PROVE  \/ UNCHANGED users
         \/ \E r \in Requests : RegisterCreates(r) \/ ResetUpdates(r) \/ UpdateWrites(r)
  <1>1. ASSUME NEW r \in Requests, CallArrives(r) \/ QueryFails(r)
        PROVE  UNCHANGED users
    BY <1>1, Zenon DEF CallArrives, LoginChecksTarget, RegisterChecks, ResetFindsCode, FindsCode,
       UpdateReads, QueryFails, tableVars
  <1>2. ASSUME NEW r \in Requests, LoginStep(r)
        PROVE  UNCHANGED users
    BY <1>2, Zenon DEF LoginStep, LoginChecksIp, LoginFinds, LoginLogsUnknown, LoginFindsCode,
       FindsCode, LoginMarksCode, MarksCode, LoginLogsSuccess, LoginGrants, LoginLogsFailure,
       tableVars
  <1>3. ASSUME NEW r \in Requests, RegisterStep(r), ~RegisterCreates(r)
        PROVE  UNCHANGED users
    BY <1>3, Zenon DEF RegisterStep, RegisterFindsCode, FindsCode, RegisterMarksCode, MarksCode,
       RegisterLogs, RegisterGrants, tableVars
  <1>4. ASSUME NEW r \in Requests, ResetStep(r), ~ResetUpdates(r)
        PROVE  UNCHANGED users
    BY <1>4, Zenon DEF ResetStep, ResetMarksCode, MarksCode, ResetFinds, ResetLogs, tableVars
  <1>5. ASSUME NEW r \in Requests, UpdateStep(r), ~UpdateWrites(r)
        PROVE  UNCHANGED users
    BY <1>5, Zenon DEF UpdateStep, UpdateChecks, tableVars
  <1>6. CASE AccountsCrash \/ LogAges \/ UNCHANGED accountVars
    BY <1>6 DEF AccountsCrash, LogAges, accountVars, tableVars
  <1>7. CASE (\E p \in Purposes : CodeIssued(p)) \/ (\E i \in 1..Len(issued) : CodeExpires(i))
    BY <1>7 DEF CodeIssued, CodeExpires, tableVars
  <1> QED BY <1>1, <1>2, <1>3, <1>4, <1>5, <1>6, <1>7 DEF AccountsNext

ResetBy(r, u) ==
    /\ apc[r] = "rsUpdate" /\ areq[r].user = u
    /\ areq[r].password = users'[u].password
    /\ areq[r].code # 0
    /\ issued[areq[r].code].type = "RESET_PASSWORD"

LEMMA PasswordsStep ==
  ASSUME AccountsInv, [AccountsNext]_accountVars, NEW u \in 1..Len(users)
  PROVE  /\ users'[u].emailVerified = users[u].emailVerified
         /\ users'[u].phoneVerified = users[u].phoneVerified
         /\ users'[u].password # users[u].password => \E r \in Requests : ResetBy(r, u)
  <1>1. CASE UNCHANGED users
    BY <1>1
  <1>2. ASSUME NEW r \in Requests, RegisterCreates(r)
        PROVE  users'[u] = users[u]
    <2>1. PICK k \in Call : k = areq[r]
      BY SlotAt
    <2> DEFINE byEmail == k.target = k.columns.email
               user == [columns |-> k.columns, password |-> k.password,
                        emailVerified |-> byEmail, phoneVerified |-> ~byEmail]
    <2>2. users' = users \/ users' = Append(users, user)
      BY <1>2, <2>1 DEF RegisterCreates
    <2>3. user \in User
      <3>1. byEmail \in BOOLEAN
        OBVIOUS
      <3> HIDE DEF byEmail
      <3> QED BY <3>1, CallTyped DEF User
    <2> HIDE DEF user
    <2> QED BY <2>2, <2>3, AppendProperties DEF AccountsInv
  <1>3. ASSUME NEW r \in Requests, UpdateWrites(r)
        PROVE  /\ users'[u].emailVerified = users[u].emailVerified
               /\ users'[u].phoneVerified = users[u].phoneVerified
               /\ users'[u].password = users[u].password
    <2>1. PICK v : v = areq[r].user
      OBVIOUS
    <2>2. PICK c : c = Merged(users[v].columns, areq[r].columns)
      OBVIOUS
    <2>3. users' = users \/ users' = [users EXCEPT ![v].columns = c]
      BY <1>3, <2>1, <2>2 DEF UpdateWrites
    <2>4. users[u] \in User
      BY DEF AccountsInv
    <2>5. CASE users' = [users EXCEPT ![v].columns = c]
      <3>1. users'[u] = users[u] \/ users'[u] = [users[u] EXCEPT !.columns = c]
        BY <2>5 DEF AccountsInv
      <3> QED BY <2>4, <3>1 DEF User
    <2> QED BY <2>3, <2>5
  <1>4. ASSUME NEW r \in Requests, ResetUpdates(r)
        PROVE  /\ users'[u].emailVerified = users[u].emailVerified
               /\ users'[u].phoneVerified = users[u].phoneVerified
               /\ users'[u].password # users[u].password => ResetBy(r, u)
    <2>1. PICK k \in Call, p \in CallPoints, cl \in 0..Len(issued) :
             /\ k = areq[r] /\ p = apc[r] /\ cl = claim[r]
             /\ CallOK(p, k, cl, issued, Len(users))
      BY SlotAt
    <2>2. p = "rsUpdate" /\ users' = [users EXCEPT ![k.user].password = k.password]
      BY <1>4, <2>1 DEF ResetUpdates, At
    <2>3. users[u] \in User /\ users \in Seq(User)
      BY DEF AccountsInv
    <2>4. CASE u = k.user
      <3>1. users'[u] = [users[u] EXCEPT !.password = k.password]
        BY <2>2, <2>3, <2>4
      <3>2. /\ users'[u].emailVerified = users[u].emailVerified
            /\ users'[u].phoneVerified = users[u].phoneVerified
            /\ users'[u].password = k.password
        BY <2>3, <3>1 DEF User
      <3>3. k.code # 0 /\ issued[k.code] = PurposeOf("rsUpdate", k)
        BY <2>1, <2>2 DEF CallOK, Holds
      <3>4. issued[k.code].type = "RESET_PASSWORD"
        BY <3>3 DEF PurposeOf, LoginPoints, TryPoints, RegisterPoints
      <3> QED BY <2>1, <2>2, <2>4, <3>2, <3>3, <3>4 DEF ResetBy
    <2>5. CASE u # k.user
      BY <2>2, <2>3, <2>5
    <2> QED BY <2>4, <2>5
  <1> QED BY <1>1, <1>2, <1>3, <1>4, UsersKept

\* A password changes only in a reset with an accepted code of its own, to
\* the one that came with it, and the marks of verification never change,
\* whatever updates of the profile overlap (updateUserPassword,
\* updateUserWithProfileUpsert).
THEOREM PasswordsOnlyReset == AccountsSpec => OnlyResetsSetPasswords
  <1>1. AccountsInv /\ [AccountsNext]_accountVars =>
          [\A u \in 1..Len(users) :
             /\ users'[u].emailVerified = users[u].emailVerified
             /\ users'[u].phoneVerified = users[u].phoneVerified
             /\ users'[u].password # users[u].password =>
                   \E r \in Requests :
                       /\ apc[r] = "rsUpdate" /\ areq[r].user = u
                       /\ areq[r].password = users'[u].password
                       /\ areq[r].code # 0
                       /\ issued[areq[r].code].type = "RESET_PASSWORD"]_accountVars
    BY PasswordsStep DEF ResetBy
  <1> QED BY <1>1, AccountsInvariant, PTL DEF AccountsSpec, OnlyResetsSetPasswords

-----------------------------------------------------------------------------
(* What a step passes on: a call keeps its code or drops it, and goes on    *)
(* in login as the attempt it was.                                          *)

Follows(q, n, p, k) ==
    /\ n.code \in {0, k.code}
    /\ q \in LoginPoints =>
          /\ p \in LoginPoints \ {"lgIp"}
          /\ n.target = k.target /\ n.ip = k.ip /\ n.over = k.over

Moves(r) ==
    \E q \in CallPoints, n \in Call :
        SetCall(r, q, n) /\ Follows(q, n, apc[r], areq[r])

LEMMA DoneMoves ==
  ASSUME AccountsInv, NEW r \in Requests, Done(r)
  PROVE  Moves(r)
  <1>1. NoCall \in Call /\ NoCall.code = 0
    BY Lengths, NoCallOK
  <1>2. "idle" \in CallPoints /\ "idle" \notin LoginPoints
    BY DEF CallPoints, LoginPoints, TryPoints
  <1> QED BY <1>1, <1>2 DEF Done, Moves, Follows

LEMMA AwaitMoves ==
  ASSUME AccountsInv, NEW r \in Requests, NEW q \in CallPoints, Await(r, q),
         q \in LoginPoints => apc[r] \in LoginPoints \ {"lgIp"}
  PROVE  Moves(r)
  <1>1. areq[r] \in Call
    BY DEF AccountsInv
  <1> QED BY <1>1 DEF Await, Moves, Follows

\* A call that arrives, and is no login.
LEMMA ArrivesMoves ==
  ASSUME AccountsInv, NEW r \in Requests, NEW q \in CallPoints \ LoginPoints,
         NEW n \in Call, n.code = 0, SetCall(r, q, n)
  PROVE  Moves(r)
  BY DEF Moves, Follows

\* A call that has found its user.
LEMMA FoundMoves ==
  ASSUME AccountsInv, NEW r \in Requests, NEW q \in CallPoints, NEW u \in 1..Len(users),
         SetCall(r, q, [areq[r] EXCEPT !.user = u]),
         q \in LoginPoints => apc[r] \in LoginPoints \ {"lgIp"}
  PROVE  Moves(r)
  <1>1. PICK k \in Call : k = areq[r]
    BY SlotAt
  <1>2. PICK n : n = [k EXCEPT !.user = u]
    OBVIOUS
  <1>3. u \in Nat
    BY Lengths
  <1>4. /\ n \in Call /\ n.code = k.code /\ n.target = k.target /\ n.ip = k.ip
        /\ n.over = k.over
    BY <1>2, <1>3 DEF Call
  <1> QED BY <1>1, <1>2, <1>4 DEF Moves, Follows

Quiet(r) == Moves(r) /\ UNCHANGED <<logs, aged, issued, accepts, effects>>

LEMMA LoginQuiet ==
  ASSUME AccountsInv, NEW r \in Requests, LoginFinds(r) \/ LoginFindsCode(r)
  PROVE  Quiet(r)
  <1>1. {"lgUnknown", "lgVerify", "lgSuccess", "lgFailure", "lgMark"} \subseteq CallPoints
    BY DEF CallPoints, LoginPoints, TryPoints
  <1>2. CASE LoginFinds(r)
    <2>1. apc[r] = "lgFind" /\ apc[r] \in LoginPoints \ {"lgIp"}
      BY <1>2 DEF LoginFinds, At, LoginPoints, TryPoints
    <2>2. UNCHANGED <<logs, aged, issued, accepts, effects>>
      BY <1>2, Zenon DEF LoginFinds, tableVars, codeVars
    <2> DEFINE next(u) == IF areq[r].type = "CODE" THEN "lgVerify"
                          ELSE IF /\ areq[r].password # None
                                  /\ areq[r].password = users[u].password
                          THEN "lgSuccess" ELSE "lgFailure"
    <2>3. \/ Done(r)
          \/ Await(r, "lgUnknown")
          \/ \E u \in UsersOf(areq[r].target) :
                SetCall(r, next(u), [areq[r] EXCEPT !.user = u])
      BY <1>2, Zenon DEF LoginFinds
    <2>4. ASSUME NEW u \in UsersOf(areq[r].target),
                 SetCall(r, next(u), [areq[r] EXCEPT !.user = u])
          PROVE  Moves(r)
      <3>1. u \in 1..Len(users) /\ next(u) \in CallPoints
        BY <1>1 DEF UsersOf
      <3> HIDE DEF next
      <3> QED BY <2>1, <2>4, <3>1, FoundMoves
    <2> QED BY <1>1, <2>1, <2>2, <2>3, <2>4, DoneMoves, AwaitMoves DEF Quiet
  <1>3. CASE LoginFindsCode(r)
    <2>1. apc[r] \in LoginPoints \ {"lgIp"}
      BY <1>3 DEF LoginFindsCode, At, LoginPoints, TryPoints
    <2>2. Await(r, "lgMark") \/ Await(r, "lgFailure")
      BY <1>3 DEF LoginFindsCode, FindsCode
    <2>3. UNCHANGED <<logs, aged, issued, accepts, effects>>
      BY <1>3 DEF LoginFindsCode, FindsCode, tableVars, codeVars, Codes!Claim
    <2> QED BY <1>1, <2>1, <2>2, <2>3, AwaitMoves DEF Quiet
  <1> QED BY <1>2, <1>3

LEMMA RegisterQuiet ==
  ASSUME AccountsInv, NEW r \in Requests, RegisterFindsCode(r) \/ RegisterGrants(r)
  PROVE  Quiet(r)
  <1>1. "rgMark" \in CallPoints \ LoginPoints
    BY DEF CallPoints, OtherPoints, LoginPoints, TryPoints
  <1>2. Await(r, "rgMark") \/ Done(r)
    BY DEF RegisterFindsCode, FindsCode, RegisterGrants
  <1>3. UNCHANGED <<logs, aged, issued, accepts, effects>>
    BY DEF RegisterFindsCode, FindsCode, RegisterGrants, tableVars, codeVars, Codes!Claim
  <1> QED BY <1>1, <1>2, <1>3, AwaitMoves, DoneMoves DEF Quiet

LEMMA RegisterChecksQuiet ==
  ASSUME AccountsInv, NEW r \in Requests, NEW a \in Ips, NEW c \in Registrations, NEW t,
         NEW password \in Passwords \cup {None}, RegisterChecks(r, a, c, t, password)
  PROVE  Quiet(r)
  <1>1. /\ UNCHANGED <<tableVars, codeVars, effects>>
        /\ t # None /\ t \in {c.email, c.phone}
        /\ Done(r) \/ SetCall(r, "rgVerify", RegisterOf(t, a, c, password))
    BY Zenon DEF RegisterChecks, RegisterOf
  <1>2. c \in Columns /\ t \in Targets
    BY <1>1, InputsAssumption DEF Columns, Targets
  <1>3. NoCall \in Call /\ NoCall.code = 0
    BY Lengths, NoCallOK
  <1>4. PICK n : n = RegisterOf(t, a, c, password)
    OBVIOUS
  <1>5. n \in Call /\ n.code = 0
    BY <1>2, <1>3, <1>4 DEF RegisterOf, Call, LoginTypes
  <1>6. "rgVerify" \in CallPoints \ LoginPoints
    BY DEF CallPoints, OtherPoints, LoginPoints, TryPoints
  <1> QED BY <1>1, <1>4, <1>5, <1>6, ArrivesMoves, DoneMoves DEF Quiet, tableVars, codeVars

LEMMA ResetFindsCodeQuiet ==
  ASSUME AccountsInv, NEW r \in Requests, NEW t \in Targets, NEW a \in Ips,
         NEW password \in Passwords, ResetFindsCode(r, t, a, password)
  PROVE  Quiet(r)
  <1>1. PICK n : n = ResetOf(t, a, password)
    OBVIOUS
  <1>2. Done(r) \/ SetCall(r, "rsMark", n)
    BY <1>1, Zenon DEF ResetFindsCode, FindsCode, ResetOf
  <1>3. UNCHANGED <<logs, aged, issued, accepts, effects>>
    BY Zenon DEF ResetFindsCode, FindsCode, tableVars, codeVars, Codes!Claim
  <1>4. NoCall \in Call /\ NoCall.code = 0
    BY Lengths, NoCallOK
  <1>5. n \in Call /\ n.code = 0
    BY <1>1, <1>4 DEF ResetOf, Call, LoginTypes
  <1>6. "rsMark" \in CallPoints \ LoginPoints
    BY DEF CallPoints, OtherPoints, LoginPoints, TryPoints
  <1> QED BY <1>2, <1>3, <1>5, <1>6, ArrivesMoves, DoneMoves DEF Quiet

LEMMA ResetFindsQuiet ==
  ASSUME AccountsInv, NEW r \in Requests, ResetFinds(r)
  PROVE  Quiet(r)
  <1>1. "rsUpdate" \in CallPoints \ LoginPoints
    BY DEF CallPoints, OtherPoints, LoginPoints, TryPoints
  <1>2. \/ Done(r)
        \/ \E u \in UsersOf(areq[r].target) :
              SetCall(r, "rsUpdate", [areq[r] EXCEPT !.user = u])
    BY Zenon DEF ResetFinds
  <1>3. UNCHANGED <<logs, aged, issued, accepts, effects>>
    BY Zenon DEF ResetFinds, tableVars, codeVars
  <1> QED BY <1>1, <1>2, <1>3, FoundMoves, DoneMoves DEF Quiet, UsersOf

LEMMA UpdateReadsQuiet ==
  ASSUME AccountsInv, NEW r \in Requests, NEW u \in 1..Len(users), NEW c \in Updates,
         UpdateReads(r, u, c)
  PROVE  Quiet(r)
  <1>1. UNCHANGED <<logs, aged, issued, accepts, effects>>
    BY Zenon DEF UpdateReads, tableVars, codeVars
  <1>2. \E n : SetCall(r, "upCheck", n) /\ n.code = NoCall.code
    <2>1. PICK check, country : SetCall(r, "upCheck", UpdateOf(u, c, check, country))
      BY Zenon DEF UpdateReads, UpdateOf
    <2>2. UpdateOf(u, c, check, country).code = NoCall.code
      BY DEF UpdateOf, NoCall
    <2> QED BY <2>1, <2>2
  <1>3. PICK n : SetCall(r, "upCheck", n) /\ n.code = NoCall.code
    BY <1>2
  <1>4. NoCall.code = 0
    BY Lengths, NoCallOK
  <1>5. areq' \in [Requests -> Call]
    BY UpdateReadsInv DEF AccountsInv
  <1>6. areq'[r] = n
    BY <1>3 DEF SetCall, AccountsInv
  <1>7. "upCheck" \in CallPoints \ LoginPoints
    BY DEF CallPoints, OtherPoints, LoginPoints, TryPoints
  <1> QED BY <1>1, <1>3, <1>4, <1>5, <1>6, <1>7, ArrivesMoves DEF Quiet

LEMMA UpdateQuiet ==
  ASSUME AccountsInv, NEW r \in Requests, UpdateChecks(r) \/ UpdateWrites(r)
  PROVE  Quiet(r)
  <1>1. "upWrite" \in CallPoints \ LoginPoints /\ "upCheck" \in CallPoints \ LoginPoints
    BY DEF CallPoints, OtherPoints, LoginPoints, TryPoints
  <1>2. CASE UpdateWrites(r)
    <2>1. Done(r) /\ UNCHANGED <<logs, aged, issued, accepts, effects>>
      BY <1>2, Zenon DEF UpdateWrites, codeVars
    <2> QED BY <2>1, DoneMoves DEF Quiet
  <1>3. CASE UpdateChecks(r)
    <2>1. PICK k \in Call : k = areq[r]
      BY SlotAt
    <2> DEFINE rest == k.check \ {NextCheck(k.check)}
    <2>2. PICK n : n = [k EXCEPT !.check = rest]
      OBVIOUS
    <2>3. Await(r, "upWrite") \/ Done(r) \/ SetCall(r, "upCheck", n)
      BY <1>3, <2>1, <2>2, Zenon DEF UpdateChecks
    <2>4. UNCHANGED <<logs, aged, issued, accepts, effects>>
      BY <1>3, Zenon DEF UpdateChecks, tableVars, codeVars
    <2>5. rest \subseteq {"username", "email", "phone"}
      BY CallTyped
    <2> HIDE DEF rest
    <2>6. n \in Call /\ n.code = k.code
      BY <2>2, <2>5 DEF Call
    <2>7. SetCall(r, "upCheck", n) => Moves(r)
      BY <1>1, <2>1, <2>6 DEF Moves, Follows
    <2> QED BY <1>1, <2>3, <2>4, <2>7, AwaitMoves, DoneMoves DEF Quiet
  <1> QED BY <1>2, <1>3

LEMMA QueryFailsQuiet ==
  ASSUME AccountsInv, NEW r \in Requests, QueryFails(r)
  PROVE  Quiet(r)
  <1>1. \/ apc[r] \in TryPoints /\ Await(r, "lgFailure")
        \/ Done(r)
    BY Zenon DEF QueryFails
  <1>2. UNCHANGED <<logs, aged, issued, accepts, effects>>
    BY Zenon DEF QueryFails, tableVars, Codes!GiveUp
  <1>3. "lgFailure" \in CallPoints
    BY DEF CallPoints, LoginPoints
  <1>4. apc[r] \in TryPoints => apc[r] \in LoginPoints \ {"lgIp"}
    BY DEF LoginPoints, TryPoints
  <1> QED BY <1>1, <1>2, <1>3, <1>4, AwaitMoves, DoneMoves DEF Quiet

\* The steps of a call that are quiet.
QuietActions(r) ==
    \/ \E a \in Ips, c \in Registrations, password \in Passwords \cup {None} :
          \E t \in {c.email, c.phone} : RegisterChecks(r, a, c, t, password)
    \/ \E t \in Targets, a \in Ips, password \in Passwords :
          ResetFindsCode(r, t, a, password)
    \/ \E u \in 1..Len(users), c \in Updates : UpdateReads(r, u, c)
    \/ LoginFinds(r) \/ LoginFindsCode(r)
    \/ RegisterFindsCode(r) \/ RegisterGrants(r)
    \/ ResetFinds(r) \/ UpdateStep(r)
    \/ QueryFails(r)

LEMMA QuietActionsQuiet ==
  ASSUME AccountsInv, NEW r \in Requests, QuietActions(r)
  PROVE  Quiet(r)
  BY LoginQuiet, RegisterQuiet, RegisterChecksQuiet, ResetFindsCodeQuiet, ResetFindsQuiet,
     UpdateReadsQuiet, UpdateQuiet, QueryFailsQuiet DEF QuietActions, UpdateStep

-----------------------------------------------------------------------------
(* What accepted codes bring about *)

LEMMA OneMore ==
  ASSUME NEW S, NEW x, IsFiniteSet(S)
  PROVE  IsFiniteSet(S \cup {x}) /\ Cardinality(S \cup {x}) <= Cardinality(S) + 1
  <1>1. /\ IsFiniteSet(S \cup {x})
        /\ Cardinality(S \cup {x}) = IF x \in S THEN Cardinality(S) ELSE Cardinality(S) + 1
    BY FS_AddElement, Zenon
  <1>2. Cardinality(S) \in Nat
    BY FS_CardinalityType
  <1> QED BY <1>1, <1>2

LEMMA OneLess ==
  ASSUME NEW S, NEW x \in S, IsFiniteSet(S)
  PROVE  IsFiniteSet(S \ {x}) /\ Cardinality(S \ {x}) = Cardinality(S) - 1
  BY FS_RemoveElement, Zenon

\* Two finite sets share a budget: what one gains is paid by the other, or by
\* a larger budget.
LEMMA BudgetKept ==
  ASSUME NEW E, NEW H, IsFiniteSet(E), IsFiniteSet(H), NEW m \in Nat,
         Cardinality(E) + Cardinality(H) <= m, NEW E2 \in SUBSET E, NEW H2 \in SUBSET H
  PROVE  Cardinality(E2) + Cardinality(H2) <= m
  <1>1. /\ Cardinality(E) \in Nat /\ Cardinality(H) \in Nat
        /\ Cardinality(E2) \in Nat /\ Cardinality(E2) <= Cardinality(E)
        /\ Cardinality(H2) \in Nat /\ Cardinality(H2) <= Cardinality(H)
    BY FS_Subset, FS_CardinalityType
  <1> QED BY <1>1

LEMMA BudgetSpent ==
  ASSUME NEW E, NEW H, IsFiniteSet(E), IsFiniteSet(H), NEW m \in Nat,
         Cardinality(E) + Cardinality(H) <= m,
         NEW x, NEW y \in H, NEW E2 \in SUBSET (E \cup {x}), NEW H2 \in SUBSET (H \ {y})
  PROVE  Cardinality(E2) + Cardinality(H2) <= m
  <1>1. /\ IsFiniteSet(E \cup {x}) /\ Cardinality(E \cup {x}) <= Cardinality(E) + 1
        /\ IsFiniteSet(H \ {y}) /\ Cardinality(H \ {y}) = Cardinality(H) - 1
    BY OneMore, OneLess
  <1>2. /\ Cardinality(E \cup {x}) \in Nat /\ Cardinality(H \ {y}) \in Nat
        /\ Cardinality(E) \in Nat /\ Cardinality(H) \in Nat
    BY <1>1, FS_CardinalityType
  <1>3. Cardinality(E \cup {x}) + Cardinality(H \ {y}) <= m
    BY <1>1, <1>2
  <1> QED BY <1>1, <1>3, BudgetKept

LEMMA BudgetRaised ==
  ASSUME NEW E, NEW H, IsFiniteSet(E), IsFiniteSet(H), NEW m \in Nat,
         Cardinality(E) + Cardinality(H) <= m,
         NEW y, NEW E2 \in SUBSET E, NEW H2 \in SUBSET (H \cup {y})
  PROVE  Cardinality(E2) + Cardinality(H2) <= m + 1
  <1>1. IsFiniteSet(H \cup {y}) /\ Cardinality(H \cup {y}) <= Cardinality(H) + 1
    BY OneMore
  <1>2. /\ Cardinality(H \cup {y}) \in Nat
        /\ Cardinality(E) \in Nat /\ Cardinality(H) \in Nat
    BY <1>1, FS_CardinalityType
  <1>3. Cardinality(E) + Cardinality(H \cup {y}) <= m + 1 /\ m + 1 \in Nat
    BY <1>1, <1>2
  <1> QED BY <1>1, <1>3, BudgetKept

EffectsInv ==
    /\ AccountsInv
    /\ IsFiniteSet(effects)
    /\ EffectsSpendCodes

Spent(i) == {e \in effects : e.code = i}
Holders(i) == {r \in Requests : areq[r].code = i}

LEMMA EffectsFacts ==
  ASSUME EffectsInv
  PROVE  /\ issued \in Seq(Purposes) /\ Len(issued) \in Nat
         /\ accepts \in Seq(Nat) /\ Len(accepts) = Len(issued)
         /\ \A i : IsFiniteSet(Spent(i)) /\ IsFiniteSet(Holders(i))
         /\ \A i \in 1..Len(issued) :
               Cardinality(Spent(i)) + Cardinality(Holders(i)) <= accepts[i]
         /\ \A e \in effects : /\ e.code \in 1..Len(issued)
                               /\ issued[e.code] = [target |-> e.target, type |-> e.what]
         /\ \A r \in Requests : areq[r].code \in 0..Len(issued)
  <1>1. ASSUME NEW i
        PROVE  IsFiniteSet(Spent(i)) /\ IsFiniteSet(Holders(i))
    <2>1. Spent(i) \in SUBSET effects /\ Holders(i) \in SUBSET Requests
      BY DEF Spent, Holders
    <2> QED BY <2>1, AccountsRequestsAssumption, FS_Subset DEF EffectsInv
  <1>2. /\ issued \in Seq(Purposes) /\ Len(issued) \in Nat
        /\ accepts \in Seq(Nat) /\ Len(accepts) = Len(issued)
    BY DEF EffectsInv, AccountsInv, Codes!OneTimeTypeOK
  <1>3. ASSUME NEW r \in Requests
        PROVE  areq[r].code \in 0..Len(issued)
    BY <1>2, CallTyped DEF EffectsInv, AccountsInv, CallOK
  <1> QED BY <1>1, <1>2, <1>3 DEF EffectsInv, EffectsSpendCodes, Spent, Holders

\* A quiet step of a call, or one that writes a log.
LEMMA CodesKeptEffects ==
  ASSUME EffectsInv, AccountsInv', UNCHANGED <<issued, accepts, effects>>,
         \A q \in Requests : areq'[q].code \in {0, areq[q].code}
  PROVE  EffectsInv'
  <1>1. \A i \in 1..Len(issued) : i # 0
    BY EffectsFacts
  <1>2. ASSUME NEW i \in 1..Len(issued)
        PROVE  Cardinality(Spent(i)') + Cardinality(Holders(i)') <= accepts'[i]
    <2>1. PICK E, H, E2, H2 : /\ E = Spent(i) /\ E2 = Spent(i)'
                              /\ H = Holders(i) /\ H2 = Holders(i)'
      OBVIOUS
    <2>2. E2 \subseteq E
      BY <2>1 DEF Spent
    <2>3. H2 \subseteq H
      BY <1>1, <2>1 DEF Holders
    <2>4. PICK m \in Nat : m = accepts[i] /\ m = accepts'[i]
      BY EffectsFacts
    <2>5. IsFiniteSet(E) /\ IsFiniteSet(H) /\ Cardinality(E) + Cardinality(H) <= m
      BY <2>1, <2>4, EffectsFacts
    <2>6. Cardinality(E2) + Cardinality(H2) <= m
      BY <2>2, <2>3, <2>5, BudgetKept
    <2> QED BY <2>1, <2>4, <2>6
  <1> QED BY <1>2, EffectsFacts DEF EffectsInv, EffectsSpendCodes, Spent, Holders

LEMMA MovesEffects ==
  ASSUME EffectsInv, AccountsInv', NEW r \in Requests, NEW q, NEW n, SetCall(r, q, n),
         n.code \in {0, areq[r].code}, UNCHANGED <<issued, accepts, effects>>
  PROVE  EffectsInv'
  <1>1. \A b \in Requests : areq'[b].code \in {0, areq[b].code}
    BY DEF SetCall, EffectsInv, AccountsInv
  <1> QED BY <1>1, CodesKeptEffects

\* verifyCode's mark: the call holds one code more, of one acceptance more.
LEMMA MarkEffects ==
  ASSUME EffectsInv, AccountsInv', NEW r \in Requests,
         LoginMarksCode(r) \/ RegisterMarksCode(r) \/ ResetMarksCode(r)
  PROVE  EffectsInv'
  <1>1. PICK k \in Call, p \in CallPoints, cl \in 0..Len(issued) :
           /\ k = areq[r] /\ p = apc[r] /\ cl = claim[r]
           /\ CallOK(p, k, cl, issued, Len(users))
    BY SlotAt DEF EffectsInv
  <1>2. PICK n : n = [k EXCEPT !.code = cl]
    OBVIOUS
  <1>3. (\E q : SetCall(r, q, n)) /\ Codes!Accept(r) /\ effects' = effects
    BY <1>1, <1>2 DEF LoginMarksCode, RegisterMarksCode, ResetMarksCode, MarksCode
  <1>4. /\ issued' = issued /\ cl \in 1..Len(issued)
        /\ \A i \in 1..Len(issued) :
              accepts'[i] = IF i = cl THEN accepts[i] + 1 ELSE accepts[i]
    BY <1>1, <1>3, AcceptKeepsTypes DEF EffectsInv
  <1>5. n.code = cl
    BY <1>2 DEF Call
  <1>6. /\ areq'[r].code = cl
        /\ \A q \in Requests : q # r => areq'[q] = areq[q]
    BY <1>3, <1>5 DEF SetCall, EffectsInv, AccountsInv
  <1>7. ASSUME NEW i \in 1..Len(issued)
        PROVE  Cardinality(Spent(i)') + Cardinality(Holders(i)') <= accepts'[i]
    <2>1. PICK E, H, E2, H2 : /\ E = Spent(i) /\ E2 = Spent(i)'
                              /\ H = Holders(i) /\ H2 = Holders(i)'
      OBVIOUS
    <2>2. E2 \subseteq E
      BY <1>3, <2>1 DEF Spent
    <2>3. PICK m \in Nat : m = accepts[i]
      BY EffectsFacts
    <2>4. IsFiniteSet(E) /\ IsFiniteSet(H) /\ Cardinality(E) + Cardinality(H) <= m
      BY <2>1, <2>3, EffectsFacts
    <2>5. CASE i = cl
      <3>1. H2 \subseteq H \cup {r} /\ accepts'[i] = m + 1
        BY <1>4, <1>6, <2>1, <2>3, <2>5 DEF Holders
      <3>2. Cardinality(E2) + Cardinality(H2) <= m + 1
        BY <2>2, <2>4, <3>1, BudgetRaised
      <3> QED BY <2>1, <3>1, <3>2
    <2>6. CASE i # cl
      <3>1. H2 \subseteq H /\ accepts'[i] = m
        BY <1>4, <1>6, <2>1, <2>3, <2>6 DEF Holders
      <3>2. Cardinality(E2) + Cardinality(H2) <= m
        BY <2>2, <2>4, <3>1, BudgetKept
      <3> QED BY <2>1, <3>1, <3>2
    <2> QED BY <2>5, <2>6
  <1> QED BY <1>3, <1>4, <1>7, EffectsFacts DEF EffectsInv, EffectsSpendCodes, Spent, Holders

\* A call spends the code it holds.
LEMMA EffectEffects ==
  ASSUME EffectsInv, AccountsInv', NEW r \in Requests, NEW what,
         NEW k \in Call, k = areq[r], k.code # 0,
         issued[k.code] = [target |-> k.target, type |-> what],
         TakesEffect(r, what, k.target), areq'[r].code = 0,
         \A q \in Requests : q # r => areq'[q] = areq[q],
         UNCHANGED <<issued, accepts>>
  PROVE  EffectsInv'
  <1>1. k.code \in 1..Len(issued)
    BY EffectsFacts
  <1>2. PICK x : /\ effects' = effects \cup {x}
                 /\ x.code = k.code /\ x.what = what /\ x.target = k.target
    <2>1. PICK x : x = [code |-> k.code, what |-> what, target |-> k.target,
                        nth |-> Cardinality({e \in effects : e.code = areq[r].code})]
      OBVIOUS
    <2>2. effects' = effects \cup {x}
      BY <2>1 DEF TakesEffect
    <2>3. x.code = k.code /\ x.what = what /\ x.target = k.target
      BY <2>1
    <2> QED BY <2>2, <2>3
  <1>3. IsFiniteSet(effects')
    BY <1>2, OneMore DEF EffectsInv
  <1>4. ASSUME NEW i \in 1..Len(issued)
        PROVE  Cardinality(Spent(i)') + Cardinality(Holders(i)') <= accepts'[i]
    <2>1. PICK E, H, E2, H2 : /\ E = Spent(i) /\ E2 = Spent(i)'
                              /\ H = Holders(i) /\ H2 = Holders(i)'
      OBVIOUS
    <2>2. PICK m \in Nat : m = accepts[i] /\ m = accepts'[i]
      BY EffectsFacts
    <2>3. IsFiniteSet(E) /\ IsFiniteSet(H) /\ Cardinality(E) + Cardinality(H) <= m
      BY <2>1, <2>2, EffectsFacts
    <2>4. CASE i = k.code
      <3>1. E2 \subseteq E \cup {x}
        BY <1>2, <2>1 DEF Spent
      <3>2. r \in H /\ H2 \subseteq H \ {r}
        BY <1>1, <2>1, <2>4 DEF Holders
      <3>3. E2 \in SUBSET (E \cup {x}) /\ H2 \in SUBSET (H \ {r})
        BY <3>1, <3>2
      <3>4. Cardinality(E2) + Cardinality(H2) <= m
        BY <2>3, <3>2, <3>3, BudgetSpent, Zenon
      <3> QED BY <2>1, <2>2, <3>4
    <2>5. CASE i # k.code
      <3>1. E2 \subseteq E
        BY <1>2, <2>1, <2>5 DEF Spent
      <3>2. H2 \subseteq H
        <4>1. i # 0
          BY EffectsFacts
        <4> QED BY <2>1, <2>5, <4>1 DEF Holders
      <3>3. Cardinality(E2) + Cardinality(H2) <= m
        BY <2>3, <3>1, <3>2, BudgetKept
      <3> QED BY <2>1, <2>2, <3>3
    <2> QED BY <2>4, <2>5
  <1>5. ASSUME NEW e \in effects'
        PROVE  /\ e.code \in 1..Len(issued')
               /\ issued'[e.code] = [target |-> e.target, type |-> e.what]
    BY <1>1, <1>2, EffectsFacts
  <1> QED BY <1>3, <1>4, <1>5, EffectsFacts DEF EffectsInv, EffectsSpendCodes, Spent, Holders

\* The three effects: a login by code, a registration, a reset.
LEMMA LoginGrantsEffects ==
  ASSUME EffectsInv, AccountsInv', NEW r \in Requests, LoginGrants(r)
  PROVE  EffectsInv'
  <1>1. PICK k \in Call, p \in CallPoints, cl \in 0..Len(issued) :
           /\ k = areq[r] /\ p = apc[r] /\ cl = claim[r]
           /\ CallOK(p, k, cl, issued, Len(users))
    BY SlotAt DEF EffectsInv
  <1>2. /\ p = "lgTokens" /\ Done(r) /\ UNCHANGED <<issued, accepts>>
        /\ \/ k.type = "CODE" /\ TakesEffect(r, "LOGIN", k.target)
           \/ UNCHANGED effects
    BY <1>1 DEF LoginGrants, At, codeVars
  <1>3. CASE UNCHANGED effects
    BY <1>2, <1>3, DoneMoves, MovesEffects DEF EffectsInv, Moves, Follows
  <1>4. CASE k.type = "CODE" /\ TakesEffect(r, "LOGIN", k.target)
    <2>1. k.code # 0 /\ issued[k.code] = PurposeOf("lgTokens", k)
      BY <1>1, <1>2, <1>4 DEF CallOK, Holds
    <2>2. PurposeOf("lgTokens", k) = [target |-> k.target, type |-> "LOGIN"]
      BY DEF PurposeOf, LoginPoints, TryPoints
    <2>3. NoCall.code = 0
      BY Lengths, NoCallOK DEF EffectsInv
    <2>4. areq'[r].code = 0 /\ \A q \in Requests : q # r => areq'[q] = areq[q]
      BY <1>2, <2>3 DEF Done, SetCall, EffectsInv, AccountsInv
    <2> QED BY <1>1, <1>2, <1>4, <2>1, <2>2, <2>4, EffectEffects
  <1> QED BY <1>2, <1>3, <1>4

LEMMA RegisterCreatesEffects ==
  ASSUME EffectsInv, AccountsInv', NEW r \in Requests, RegisterCreates(r)
  PROVE  EffectsInv'
  <1>1. PICK k \in Call, p \in CallPoints, cl \in 0..Len(issued) :
           /\ k = areq[r] /\ p = apc[r] /\ cl = claim[r]
           /\ CallOK(p, k, cl, issued, Len(users))
    BY SlotAt DEF EffectsInv
  <1>2. PICK m : m = Len(users) + 1
    OBVIOUS
  <1>3. PICK n : n = [k EXCEPT !.user = m, !.code = 0]
    OBVIOUS
  <1>4. /\ p = "rgCreate" /\ UNCHANGED <<issued, accepts>>
        /\ \/ Done(r) /\ UNCHANGED effects
           \/ TakesEffect(r, "REGISTER", k.target) /\ SetCall(r, "rgLog", n)
    BY <1>1, <1>2, <1>3 DEF RegisterCreates, At, codeVars
  <1>5. CASE Done(r) /\ UNCHANGED effects
    BY <1>4, <1>5, DoneMoves, MovesEffects DEF EffectsInv, Moves, Follows
  <1>6. CASE TakesEffect(r, "REGISTER", k.target) /\ SetCall(r, "rgLog", n)
    <2>1. k.code # 0 /\ issued[k.code] = PurposeOf("rgCreate", k)
      BY <1>1, <1>4 DEF CallOK, Holds
    <2>2. PurposeOf("rgCreate", k) = [target |-> k.target, type |-> "REGISTER"]
      BY DEF PurposeOf, LoginPoints, TryPoints, RegisterPoints
    <2>3. n.code = 0
      BY <1>3 DEF Call
    <2>4. areq'[r].code = 0 /\ \A q \in Requests : q # r => areq'[q] = areq[q]
      BY <1>6, <2>3 DEF SetCall, EffectsInv, AccountsInv
    <2> QED BY <1>1, <1>4, <1>6, <2>1, <2>2, <2>4, EffectEffects
  <1> QED BY <1>4, <1>5, <1>6

LEMMA ResetUpdatesEffects ==
  ASSUME EffectsInv, AccountsInv', NEW r \in Requests, ResetUpdates(r)
  PROVE  EffectsInv'
  <1>1. PICK k \in Call, p \in CallPoints, cl \in 0..Len(issued) :
           /\ k = areq[r] /\ p = apc[r] /\ cl = claim[r]
           /\ CallOK(p, k, cl, issued, Len(users))
    BY SlotAt DEF EffectsInv
  <1>2. PICK n : n = [k EXCEPT !.code = 0]
    OBVIOUS
  <1>3. /\ p = "rsUpdate" /\ UNCHANGED <<issued, accepts>>
        /\ TakesEffect(r, "RESET_PASSWORD", k.target) /\ SetCall(r, "rsLog", n)
    BY <1>1, <1>2 DEF ResetUpdates, At, codeVars
  <1>4. k.code # 0 /\ issued[k.code] = PurposeOf("rsUpdate", k)
    BY <1>1, <1>3 DEF CallOK, Holds
  <1>5. PurposeOf("rsUpdate", k) = [target |-> k.target, type |-> "RESET_PASSWORD"]
    BY DEF PurposeOf, LoginPoints, TryPoints, RegisterPoints
  <1>6. n.code = 0
    BY <1>2 DEF Call
  <1>7. areq'[r].code = 0 /\ \A q \in Requests : q # r => areq'[q] = areq[q]
    BY <1>3, <1>6 DEF SetCall, EffectsInv, AccountsInv
  <1> QED BY <1>1, <1>3, <1>4, <1>5, <1>7, EffectEffects

\* Login attempts that arrive or pass the lockout, and calls that log.
LEMMA LogsMove ==
  ASSUME AccountsInv, NEW r \in Requests,
         \/ LoginLogsUnknown(r) \/ LoginLogsFailure(r) \/ LoginLogsSuccess(r)
         \/ RegisterLogs(r) \/ ResetLogs(r)
  PROVE  Moves(r) /\ UNCHANGED <<aged, issued, accepts, effects>>
  <1>1. UNCHANGED <<aged, issued, accepts, effects>>
    BY DEF LoginLogsUnknown, LoginLogsFailure, LoginLogsSuccess, RegisterLogs, ResetLogs,
           codeVars
  <1>2. \/ Done(r)
        \/ Await(r, "lgTokens") /\ apc[r] = "lgSuccess"
        \/ Await(r, "rgTokens")
    BY DEF LoginLogsUnknown, LoginLogsFailure, LoginLogsSuccess, RegisterLogs, ResetLogs, At
  <1>3. /\ "lgTokens" \in CallPoints /\ "lgSuccess" \in LoginPoints \ {"lgIp"}
        /\ "rgTokens" \in CallPoints \ LoginPoints
    BY DEF CallPoints, LoginPoints, TryPoints, OtherPoints
  <1> QED BY <1>1, <1>2, <1>3, DoneMoves, AwaitMoves

LEMMA LockoutEffects ==
  ASSUME EffectsInv, AccountsInv', NEW r \in Requests,
         \/ LoginChecksIp(r)
         \/ \E t \in Targets, a \in Ips, country \in Countries \cup {None},
               type \in {"PASSWORD", "CODE"}, password \in Passwords \cup {None} :
                  LoginChecksTarget(r, t, a, country, type, password)
  PROVE  EffectsInv'
  <1>1. UNCHANGED <<issued, accepts, effects>>
    BY Zenon DEF LoginChecksIp, LoginChecksTarget, codeVars
  <1>2. NoCall.code = 0
    BY Lengths, NoCallOK DEF EffectsInv
  <1>3. \E q, n : SetCall(r, q, n) /\ n.code \in {0, areq[r].code}
    <2>1. CASE LoginChecksIp(r)
      BY <1>2, <2>1 DEF LoginChecksIp, Done, Await
    <2>2. ASSUME NEW t \in Targets, NEW a \in Ips, NEW country \in Countries \cup {None},
                 NEW type \in {"PASSWORD", "CODE"}, NEW password \in Passwords \cup {None},
                 LoginChecksTarget(r, t, a, country, type, password)
          PROVE  \E q, n : SetCall(r, q, n) /\ n.code \in {0, areq[r].code}
      <3>1. PICK over : SetCall(r, "lgIp", LoginOf(t, a, country, type, password, over))
        BY <2>2, Zenon DEF LoginChecksTarget, LoginOf
      <3>2. LoginOf(t, a, country, type, password, over).code = NoCall.code
        BY DEF LoginOf, NoCall
      <3> QED BY <1>2, <3>1, <3>2
    <2> QED BY <2>1, <2>2
  <1> QED BY <1>1, <1>3, MovesEffects

LEMMA CodeIssuedEffects ==
  ASSUME EffectsInv, AccountsInv', NEW p \in Purposes, CodeIssued(p)
  PROVE  EffectsInv'
  <1>1. /\ issued' = Append(issued, p) /\ accepts' = Append(accepts, 0)
        /\ UNCHANGED <<effects, areq>>
    BY DEF CodeIssued, Codes!Issue
  <1>2. /\ Len(issued') = Len(issued) + 1
        /\ \A i \in 1..Len(issued) : issued'[i] = issued[i] /\ accepts'[i] = accepts[i]
        /\ accepts'[Len(issued) + 1] = 0
    BY <1>1, EffectsFacts, AppendProperties
  <1>3. ASSUME NEW i \in 1..Len(issued')
        PROVE  Cardinality(Spent(i)') + Cardinality(Holders(i)') <= accepts'[i]
    <2>1. CASE i \in 1..Len(issued)
      <3>1. Spent(i)' = Spent(i) /\ Holders(i)' = Holders(i)
        BY <1>1 DEF Spent, Holders
      <3> QED BY <1>2, <2>1, <3>1, EffectsFacts
    <2>2. CASE i = Len(issued) + 1
      <3>1. i \notin 0..Len(issued) /\ i \notin 1..Len(issued)
        BY <2>2, EffectsFacts
      <3>2. /\ \A e \in effects : e.code \in 1..Len(issued)
            /\ \A r \in Requests : areq[r].code \in 0..Len(issued)
        BY EffectsFacts
      <3>3. Spent(i)' = {} /\ Holders(i)' = {}
        BY <1>1, <3>1, <3>2 DEF Spent, Holders
      <3>4. Cardinality(Spent(i)') = 0 /\ Cardinality(Holders(i)') = 0
        BY <3>3, FS_EmptySet, Zenon
      <3> QED BY <1>2, <2>2, <3>4
    <2> QED BY <1>2, <2>1, <2>2, EffectsFacts
  <1>4. ASSUME NEW e \in effects'
        PROVE  /\ e.code \in 1..Len(issued')
               /\ issued'[e.code] = [target |-> e.target, type |-> e.what]
    <2>1. /\ e.code \in 1..Len(issued) /\ Len(issued) \in Nat
          /\ issued[e.code] = [target |-> e.target, type |-> e.what]
      BY <1>1, EffectsFacts
    <2>2. e.code \in 1..(Len(issued) + 1)
      BY <2>1
    <2> QED BY <1>2, <2>1, <2>2
  <1> QED BY <1>1, <1>3, <1>4 DEF EffectsInv, EffectsSpendCodes, Spent, Holders

LEMMA EffectsStep ==
  ASSUME EffectsInv, [AccountsNext]_accountVars
  PROVE  EffectsInv'
  <1>1. AccountsInv'
    BY AccountsStepInv DEF EffectsInv
  <1>2. ASSUME NEW r \in Requests, QuietActions(r)
        PROVE  EffectsInv'
    BY <1>1, <1>2, QuietActionsQuiet, MovesEffects DEF EffectsInv, Quiet, Moves, Follows
  <1>3. ASSUME NEW r \in Requests, CallArrives(r)
        PROVE  EffectsInv'
    BY <1>1, <1>2, <1>3, LockoutEffects DEF CallArrives, QuietActions
  <1>4. ASSUME NEW r \in Requests,
               \/ LoginLogsUnknown(r) \/ LoginLogsFailure(r) \/ LoginLogsSuccess(r)
               \/ RegisterLogs(r) \/ ResetLogs(r)
        PROVE  EffectsInv'
    BY <1>1, <1>4, LogsMove, MovesEffects DEF EffectsInv, Moves, Follows
  <1>5. ASSUME NEW r \in Requests, LoginStep(r)
        PROVE  EffectsInv'
    BY <1>1, <1>2, <1>4, <1>5, LockoutEffects, MarkEffects, LoginGrantsEffects
       DEF LoginStep, QuietActions
  <1>6. ASSUME NEW r \in Requests, RegisterStep(r) \/ ResetStep(r)
        PROVE  EffectsInv'
    BY <1>1, <1>2, <1>4, <1>6, MarkEffects, RegisterCreatesEffects, ResetUpdatesEffects
       DEF RegisterStep, ResetStep, QuietActions
  <1>7. ASSUME NEW r \in Requests, UpdateStep(r) \/ QueryFails(r)
        PROVE  EffectsInv'
    BY <1>2, <1>7 DEF QuietActions
  <1>8. CASE AccountsCrash
    <2>1. UNCHANGED <<issued, accepts, effects>>
      BY <1>8 DEF AccountsCrash, Codes!GiveUp
    <2>2. NoCall.code = 0
      BY Lengths, NoCallOK DEF EffectsInv
    <2>3. \A q \in Requests : areq'[q].code \in {0, areq[q].code}
      BY <1>8, <2>2 DEF AccountsCrash
    <2> QED BY <1>1, <2>1, <2>3, CodesKeptEffects
  <1>9. CASE \/ LogAges \/ UNCHANGED accountVars
             \/ \E i \in 1..Len(issued) : CodeExpires(i)
    <2>1. UNCHANGED <<issued, accepts, effects, areq>>
      BY <1>9 DEF LogAges, CodeExpires, Codes!Close, accountVars, codeVars
    <2> QED BY <1>1, <2>1, CodesKeptEffects
  <1>10. ASSUME NEW p \in Purposes, CodeIssued(p)
         PROVE  EffectsInv'
    BY <1>1, <1>10, CodeIssuedEffects
  <1> QED BY <1>3, <1>5, <1>6, <1>7, <1>8, <1>9, <1>10 DEF AccountsNext

\* Each user created, each password reset and each login by code has an
\* acceptance of its own, of a code sent for that purpose to that address
\* (register, resetPassword, login).
THEOREM CodesPayForEffects == AccountsSpec => []EffectsSpendCodes
  <1>1. AccountsInit => EffectsInv
    <2> SUFFICES ASSUME AccountsInit PROVE EffectsInv
      OBVIOUS
    <2>1. AccountsInv
      BY AccountsInitInv
    <2>2. effects = {} /\ issued = << >>
      BY DEF AccountsInit, Codes!OneTimeInit
    <2> QED BY <2>1, <2>2, FS_EmptySet DEF EffectsInv, EffectsSpendCodes
  <1>2. EffectsInv => EffectsSpendCodes
    BY DEF EffectsInv
  <1> QED BY <1>1, <1>2, EffectsStep, PTL DEF AccountsSpec

-----------------------------------------------------------------------------
(* The lockout *)

\* A budget of failures that count and attempts that may add one.
Within(F, A, limit) ==
    Cardinality(F) + Cardinality(A) <= limit - 1 + Cardinality(Requests)

LEMMA WithinKept ==
  ASSUME NEW F, NEW A, IsFiniteSet(F), IsFiniteSet(A), NEW limit \in Nat \ {0},
         Within(F, A, limit), NEW F2 \in SUBSET F, NEW A2 \in SUBSET A
  PROVE  Within(F2, A2, limit)
  <1>1. PICK m \in Nat : m = limit - 1 + Cardinality(Requests)
    BY AccountsRequestsAssumption, FS_CardinalityType
  <1>2. Cardinality(F) + Cardinality(A) <= m
    BY <1>1 DEF Within
  <1>3. Cardinality(F2) + Cardinality(A2) <= m
    BY <1>2, BudgetKept
  <1> QED BY <1>1, <1>3 DEF Within

LEMMA WithinSpent ==
  ASSUME NEW F, NEW A, IsFiniteSet(F), IsFiniteSet(A), NEW limit \in Nat \ {0},
         Within(F, A, limit), NEW x, NEW r \in A,
         NEW F2 \in SUBSET (F \cup {x}), NEW A2 \in SUBSET (A \ {r})
  PROVE  Within(F2, A2, limit)
  <1>1. PICK m \in Nat : m = limit - 1 + Cardinality(Requests)
    BY AccountsRequestsAssumption, FS_CardinalityType
  <1>2. Cardinality(F) + Cardinality(A) <= m
    BY <1>1 DEF Within
  <1>3. Cardinality(F2) + Cardinality(A2) <= m
    BY <1>2, BudgetSpent, Zenon
  <1> QED BY <1>1, <1>3 DEF Within

LEMMA WithinFresh ==
  ASSUME NEW F, IsFiniteSet(F), NEW limit \in Nat \ {0}, ~(Cardinality(F) >= limit),
         NEW A2 \in SUBSET Requests
  PROVE  Within(F, A2, limit)
  <1>1. /\ Cardinality(F) \in Nat /\ Cardinality(Requests) \in Nat
        /\ Cardinality(A2) \in Nat /\ Cardinality(A2) <= Cardinality(Requests)
    BY AccountsRequestsAssumption, FS_Subset, FS_CardinalityType
  <1> QED BY <1>1 DEF Within

LEMMA LockoutFacts ==
  ASSUME AccountsInv
  PROVE  /\ \A t : /\ IsFiniteSet(FailuresOf(t)) /\ IsFiniteSet(FailuresFrom(t))
                   /\ IsFiniteSet(AttemptsOn(t)) /\ IsFiniteSet(AttemptsFrom(t))
         /\ 2 * MaxLoginAttempts \in Nat \ {0} /\ MaxLoginAttempts \in Nat \ {0}
  <1>1. ASSUME NEW t
        PROVE  /\ IsFiniteSet(FailuresOf(t)) /\ IsFiniteSet(FailuresFrom(t))
               /\ IsFiniteSet(AttemptsOn(t)) /\ IsFiniteSet(AttemptsFrom(t))
    <2>1. IsFiniteSet(1..Len(logs))
      BY Lengths, FS_Interval
    <2>2. FailuresOf(t) \in SUBSET (1..Len(logs)) /\ FailuresFrom(t) \in SUBSET (1..Len(logs))
      BY DEF FailuresOf, FailuresFrom
    <2>3. AttemptsOn(t) \in SUBSET Requests /\ AttemptsFrom(t) \in SUBSET Requests
      BY DEF AttemptsOn, AttemptsFrom
    <2> QED BY <2>1, <2>2, <2>3, AccountsRequestsAssumption, FS_Subset
  <1> QED BY <1>1, AttemptsAssumption

FailuresInv == AccountsInv /\ FailuresBounded

LEMMA FailuresWithin ==
  FailuresBounded <=>
     /\ \A t \in Targets : Within(FailuresOf(t), AttemptsOn(t), MaxLoginAttempts)
     /\ \A a \in Ips : Within(FailuresFrom(a), AttemptsFrom(a), 2 * MaxLoginAttempts)
  BY DEF FailuresBounded, Within

\* No new failure, no new attempt.
LEMMA LockoutKept ==
  ASSUME FailuresInv, AccountsInv',
         \A t \in Targets : /\ FailuresOf(t)' \subseteq FailuresOf(t)
                            /\ AttemptsOn(t)' \subseteq AttemptsOn(t),
         \A a \in Ips : /\ FailuresFrom(a)' \subseteq FailuresFrom(a)
                        /\ AttemptsFrom(a)' \subseteq AttemptsFrom(a)
  PROVE  FailuresInv'
  <1>1. ASSUME NEW t \in Targets
        PROVE  Within(FailuresOf(t), AttemptsOn(t), MaxLoginAttempts)'
    <2>1. PICK F, A, F2, A2 : /\ F = FailuresOf(t) /\ F2 = FailuresOf(t)'
                              /\ A = AttemptsOn(t) /\ A2 = AttemptsOn(t)'
      OBVIOUS
    <2>2. /\ IsFiniteSet(F) /\ IsFiniteSet(A) /\ F2 \in SUBSET F /\ A2 \in SUBSET A
          /\ Within(F, A, MaxLoginAttempts) /\ MaxLoginAttempts \in Nat \ {0}
      BY <2>1, LockoutFacts, FailuresWithin DEF FailuresInv
    <2>3. Within(F2, A2, MaxLoginAttempts)
      BY <2>2, WithinKept
    <2> QED BY <2>1, <2>3 DEF Within
  <1>2. ASSUME NEW a \in Ips
        PROVE  Within(FailuresFrom(a), AttemptsFrom(a), 2 * MaxLoginAttempts)'
    <2>1. PICK F, A, F2, A2 : /\ F = FailuresFrom(a) /\ F2 = FailuresFrom(a)'
                              /\ A = AttemptsFrom(a) /\ A2 = AttemptsFrom(a)'
      OBVIOUS
    <2>2. PICK limit \in Nat \ {0} : limit = 2 * MaxLoginAttempts
      BY AttemptsAssumption
    <2>3. /\ IsFiniteSet(F) /\ IsFiniteSet(A) /\ F2 \in SUBSET F /\ A2 \in SUBSET A
          /\ Within(F, A, limit)
      BY <2>1, <2>2, LockoutFacts, FailuresWithin DEF FailuresInv
    <2>4. Within(F2, A2, limit)
      BY <2>3, WithinKept
    <2> QED BY <2>1, <2>2, <2>4 DEF Within
  <1> QED BY <1>1, <1>2 DEF FailuresInv, FailuresBounded, Within

\* A call that goes on in login is the attempt it was.
LEMMA MovesAttempts ==
  ASSUME AccountsInv, NEW r \in Requests, Moves(r)
  PROVE  /\ \A t : AttemptsOn(t)' \subseteq AttemptsOn(t)
         /\ \A a : AttemptsFrom(a)' \subseteq AttemptsFrom(a)
  <1>1. PICK q \in CallPoints, n \in Call : SetCall(r, q, n) /\ Follows(q, n, apc[r], areq[r])
    BY DEF Moves
  <1>2. /\ apc'[r] = q /\ areq'[r] = n
        /\ \A b \in Requests : b # r => apc'[b] = apc[b] /\ areq'[b] = areq[b]
    BY <1>1 DEF SetCall, AccountsInv
  <1> QED BY <1>1, <1>2 DEF AttemptsOn, AttemptsFrom, Follows

\* Only the log of a failure adds one, and one only, for its target and its
\* address.
LEMMA LogFailures ==
  ASSUME AccountsInv, NEW k \in Call, NEW t0 \in Targets, NEW success \in BOOLEAN,
         k.ip \in Ips, k.type \in LoginTypes, CreateLog(k, t0, success), aged' = aged
  PROVE  /\ \A t : /\ FailuresOf(t)' \subseteq FailuresOf(t) \cup {Len(logs) + 1}
                   /\ success \/ t # t0 => FailuresOf(t)' \subseteq FailuresOf(t)
         /\ \A a : /\ FailuresFrom(a)' \subseteq FailuresFrom(a) \cup {Len(logs) + 1}
                   /\ success \/ a # k.ip => FailuresFrom(a)' \subseteq FailuresFrom(a)
  <1>1. /\ Len(logs') = Len(logs) + 1 /\ \A i \in 1..Len(logs) : logs'[i] = logs[i]
        /\ logs'[Len(logs) + 1].target = t0 /\ logs'[Len(logs) + 1].success = success
        /\ logs'[Len(logs) + 1].ip = k.ip
    BY LogAppended
  <1>2. \A i \in 1..Len(logs') : i \in 1..Len(logs) \/ i = Len(logs) + 1
    BY <1>1, Lengths
  <1> QED BY <1>1, <1>2 DEF FailuresOf, FailuresFrom

LEMMA QuietLockout ==
  ASSUME FailuresInv, AccountsInv', NEW r \in Requests, Moves(r), UNCHANGED <<logs, aged>>
  PROVE  FailuresInv'
  <1>1. /\ \A t : FailuresOf(t)' \subseteq FailuresOf(t)
        /\ \A a : FailuresFrom(a)' \subseteq FailuresFrom(a)
    BY DEF FailuresOf, FailuresFrom
  <1> QED BY <1>1, MovesAttempts, LockoutKept DEF FailuresInv

LEMMA SuccessLockout ==
  ASSUME FailuresInv, AccountsInv', NEW r \in Requests,
         LoginLogsSuccess(r) \/ RegisterLogs(r) \/ ResetLogs(r)
  PROVE  FailuresInv'
  <1>1. PICK k \in Call, p \in CallPoints, cl \in 0..Len(issued) :
           /\ k = areq[r] /\ p = apc[r] /\ cl = claim[r]
           /\ CallOK(p, k, cl, issued, Len(users))
    BY SlotAt DEF FailuresInv
  <1>2. k.ip \in Ips /\ k.type \in LoginTypes /\ k.target \in Targets
    BY <1>1 DEF LoginLogsSuccess, RegisterLogs, ResetLogs, At, CallOK, LoginPoints, TryPoints,
                RegisterPoints, ResetPoints
  <1>3. PICK t \in Targets : CreateLog(k, t, TRUE)
    <2>1. CASE RegisterLogs(r)
      BY <1>1, <2>1, RegisterLogsInv DEF FailuresInv
    <2>2. CASE LoginLogsSuccess(r) \/ ResetLogs(r)
      BY <1>1, <1>2, <2>2 DEF LoginLogsSuccess, ResetLogs
    <2> QED BY <2>1, <2>2
  <1>4. Moves(r) /\ aged' = aged
    BY LogsMove DEF FailuresInv
  <1>5. /\ \A u : FailuresOf(u)' \subseteq FailuresOf(u)
        /\ \A a : FailuresFrom(a)' \subseteq FailuresFrom(a)
    BY <1>2, <1>3, <1>4, LogFailures DEF FailuresInv
  <1> QED BY <1>4, <1>5, MovesAttempts, LockoutKept DEF FailuresInv

\* A failure that is logged was one of the attempts, and is none any more.
LEMMA FailureLockout ==
  ASSUME FailuresInv, AccountsInv', NEW r \in Requests,
         LoginLogsUnknown(r) \/ LoginLogsFailure(r)
  PROVE  FailuresInv'
  <1>1. PICK k \in Call, p \in CallPoints, cl \in 0..Len(issued) :
           /\ k = areq[r] /\ p = apc[r] /\ cl = claim[r]
           /\ CallOK(p, k, cl, issued, Len(users))
    BY SlotAt DEF FailuresInv
  <1>2. /\ CreateLog(k, k.target, FALSE) /\ Done(r) /\ aged' = aged
        /\ p \in {"lgUnknown", "lgFailure"}
    BY <1>1 DEF LoginLogsUnknown, LoginLogsFailure, At
  <1>3. /\ k.ip \in Ips /\ k.type \in LoginTypes /\ k.target \in Targets /\ ~k.over
        /\ p \in LoginPoints \ {"lgIp"}
    BY <1>1, <1>2 DEF CallOK, LoginPoints, TryPoints
  <1>4. apc'[r] = "idle" /\ "idle" \notin LoginPoints
    BY <1>2 DEF Done, SetCall, FailuresInv, AccountsInv, LoginPoints, TryPoints
  <1>5. Moves(r)
    BY <1>2, DoneMoves DEF FailuresInv
  <1>6. /\ \A t : AttemptsOn(t)' \subseteq AttemptsOn(t)
        /\ \A a : AttemptsFrom(a)' \subseteq AttemptsFrom(a)
    BY <1>5, MovesAttempts DEF FailuresInv
  <1>7. ASSUME NEW t \in Targets
        PROVE  Within(FailuresOf(t), AttemptsOn(t), MaxLoginAttempts)'
    <2>1. PICK F, A, F2, A2 : /\ F = FailuresOf(t) /\ F2 = FailuresOf(t)'
                              /\ A = AttemptsOn(t) /\ A2 = AttemptsOn(t)'
      OBVIOUS
    <2>2. /\ IsFiniteSet(F) /\ IsFiniteSet(A) /\ MaxLoginAttempts \in Nat \ {0}
          /\ Within(F, A, MaxLoginAttempts)
      BY <2>1, LockoutFacts, FailuresWithin DEF FailuresInv
    <2>3. PICK x : x = Len(logs) + 1
      OBVIOUS
    <2>4. F2 \in SUBSET (F \cup {x}) /\ (t # k.target => F2 \in SUBSET F)
      BY <1>2, <1>3, <2>1, <2>3, LogFailures DEF FailuresInv
    <2>5. A2 \in SUBSET A
      BY <1>6, <2>1
    <2>6. CASE t # k.target
      <3>1. Within(F2, A2, MaxLoginAttempts)
        BY <2>2, <2>4, <2>5, <2>6, WithinKept
      <3> QED BY <2>1, <3>1 DEF Within
    <2>7. CASE t = k.target
      <3>1. r \in A
        BY <1>1, <1>3, <2>1, <2>7 DEF AttemptsOn
      <3>2. A2 \in SUBSET (A \ {r})
        BY <1>4, <2>1, <2>5 DEF AttemptsOn
      <3>3. Within(F2, A2, MaxLoginAttempts)
        BY <2>2, <2>4, <3>1, <3>2, WithinSpent, Zenon
      <3> QED BY <2>1, <3>3 DEF Within
    <2> QED BY <2>6, <2>7
  <1>8. ASSUME NEW a \in Ips
        PROVE  Within(FailuresFrom(a), AttemptsFrom(a), 2 * MaxLoginAttempts)'
    <2>1. PICK F, A, F2, A2 : /\ F = FailuresFrom(a) /\ F2 = FailuresFrom(a)'
                              /\ A = AttemptsFrom(a) /\ A2 = AttemptsFrom(a)'
      OBVIOUS
    <2>2. PICK limit \in Nat \ {0} : limit = 2 * MaxLoginAttempts
      BY AttemptsAssumption
    <2>3. IsFiniteSet(F) /\ IsFiniteSet(A) /\ Within(F, A, limit)
      BY <2>1, <2>2, LockoutFacts, FailuresWithin DEF FailuresInv
    <2>4. PICK x : x = Len(logs) + 1
      OBVIOUS
    <2>5. F2 \in SUBSET (F \cup {x}) /\ (a # k.ip => F2 \in SUBSET F)
      BY <1>2, <1>3, <2>1, <2>4, LogFailures DEF FailuresInv
    <2>6. A2 \in SUBSET A
      BY <1>6, <2>1
    <2>7. CASE a # k.ip
      <3>1. Within(F2, A2, limit)
        BY <2>3, <2>5, <2>6, <2>7, WithinKept
      <3> QED BY <2>1, <2>2, <3>1 DEF Within
    <2>8. CASE a = k.ip
      <3>1. r \in A
        BY <1>1, <1>3, <2>1, <2>8 DEF AttemptsFrom
      <3>2. A2 \in SUBSET (A \ {r})
        BY <1>4, <2>1, <2>6 DEF AttemptsFrom
      <3>3. Within(F2, A2, limit)
        BY <2>3, <2>5, <3>1, <3>2, WithinSpent, Zenon
      <3> QED BY <2>1, <2>2, <3>3 DEF Within
    <2> QED BY <2>7, <2>8
  <1> QED BY <1>7, <1>8 DEF FailuresInv, FailuresBounded, Within

\* An attempt that is not over its target's limit was counted below it.
LEMMA ArrivalLockout ==
  ASSUME FailuresInv, AccountsInv', NEW r \in Requests, NEW t0 \in Targets, NEW a \in Ips,
         NEW country \in Countries \cup {None}, NEW type \in {"PASSWORD", "CODE"},
         NEW password \in Passwords \cup {None},
         LoginChecksTarget(r, t0, a, country, type, password)
  PROVE  FailuresInv'
  <1> DEFINE counted == Cardinality(FailuresOf(t0)) >= MaxLoginAttempts
  <1>0. counted \in BOOLEAN
    OBVIOUS
  <1> HIDE DEF counted
  <1>1. PICK over \in BOOLEAN : over = counted
    BY <1>0
  <1>2. PICK n : n = LoginOf(t0, a, country, type, password, over)
    OBVIOUS
  <1>3. /\ apc[r] = "idle" /\ SetCall(r, "lgIp", n) /\ UNCHANGED <<logs, aged>>
    BY <1>1, <1>2, Zenon DEF LoginChecksTarget, LoginOf, Arrives, tableVars, counted
  <1>4. n.target = t0 /\ n.over = over
    BY <1>2, LoginCall DEF FailuresInv
  <1>5. /\ apc'[r] = "lgIp" /\ areq'[r] = n
        /\ \A b \in Requests : b # r => apc'[b] = apc[b] /\ areq'[b] = areq[b]
    BY <1>3 DEF SetCall, FailuresInv, AccountsInv
  <1>6. /\ \A t : FailuresOf(t)' = FailuresOf(t)
        /\ \A b : FailuresFrom(b)' \subseteq FailuresFrom(b)
    BY <1>3 DEF FailuresOf, FailuresFrom
  <1>7. \A b : AttemptsFrom(b)' \subseteq AttemptsFrom(b)
    BY <1>5 DEF AttemptsFrom
  <1>8. \A t : t # t0 \/ over => AttemptsOn(t)' \subseteq AttemptsOn(t)
    BY <1>4, <1>5 DEF AttemptsOn
  <1>9. CASE over
    BY <1>6, <1>7, <1>8, <1>9, LockoutKept
  <1>10. CASE ~over
    <2>1. ASSUME NEW t \in Targets
          PROVE  Within(FailuresOf(t), AttemptsOn(t), MaxLoginAttempts)'
      <3>1. PICK F, A, F2, A2 : /\ F = FailuresOf(t) /\ F2 = FailuresOf(t)'
                                /\ A = AttemptsOn(t) /\ A2 = AttemptsOn(t)'
        OBVIOUS
      <3>2. /\ IsFiniteSet(F) /\ IsFiniteSet(A) /\ F2 = F /\ MaxLoginAttempts \in Nat \ {0}
            /\ Within(F, A, MaxLoginAttempts)
        BY <1>6, <3>1, LockoutFacts, FailuresWithin DEF FailuresInv
      <3>3. CASE t = t0
        <4>1. ~(Cardinality(F) >= MaxLoginAttempts)
          BY <1>1, <1>10, <3>1, <3>3 DEF counted
        <4>2. A2 \in SUBSET Requests
          BY <3>1 DEF AttemptsOn
        <4>3. Within(F2, A2, MaxLoginAttempts)
          BY <3>2, <4>1, <4>2, WithinFresh
        <4> QED BY <3>1, <4>3 DEF Within
      <3>4. CASE t # t0
        <4>1. A2 \in SUBSET A /\ F2 \in SUBSET F
          BY <1>8, <3>1, <3>2, <3>4
        <4>2. Within(F2, A2, MaxLoginAttempts)
          BY <3>2, <4>1, WithinKept
        <4> QED BY <3>1, <4>2 DEF Within
      <3> QED BY <3>3, <3>4
    <2>2. ASSUME NEW b \in Ips
          PROVE  Within(FailuresFrom(b), AttemptsFrom(b), 2 * MaxLoginAttempts)'
      <3>1. PICK F, A, F2, A2 : /\ F = FailuresFrom(b) /\ F2 = FailuresFrom(b)'
                                /\ A = AttemptsFrom(b) /\ A2 = AttemptsFrom(b)'
        OBVIOUS
      <3>2. PICK limit \in Nat \ {0} : limit = 2 * MaxLoginAttempts
        BY AttemptsAssumption
      <3>3. /\ IsFiniteSet(F) /\ IsFiniteSet(A) /\ F2 \in SUBSET F /\ A2 \in SUBSET A
            /\ Within(F, A, limit)
        BY <1>6, <1>7, <3>1, <3>2, LockoutFacts, FailuresWithin DEF FailuresInv
      <3>4. Within(F2, A2, limit)
        BY <3>3, WithinKept
      <3> QED BY <3>1, <3>2, <3>4 DEF Within
    <2> QED BY <2>1, <2>2 DEF FailuresInv, FailuresBounded, Within
  <1> QED BY <1>9, <1>10

\* One that passes the count for its address was counted below that limit.
LEMMA AddressLockout ==
  ASSUME FailuresInv, AccountsInv', NEW r \in Requests, LoginChecksIp(r)
  PROVE  FailuresInv'
  <1>1. PICK k \in Call : k = areq[r]
    BY SlotAt DEF FailuresInv
  <1>2. /\ apc[r] = "lgIp" /\ UNCHANGED <<logs, aged>>
        /\ \/ Done(r)
           \/ /\ SetCall(r, "lgFind", k)
              /\ ~(Cardinality(FailuresFrom(k.ip)) >= 2 * MaxLoginAttempts)
    BY <1>1 DEF LoginChecksIp, Await, At, tableVars
  <1>3. CASE Done(r)
    BY <1>2, <1>3, DoneMoves, QuietLockout DEF FailuresInv
  <1>4. CASE /\ SetCall(r, "lgFind", k)
             /\ ~(Cardinality(FailuresFrom(k.ip)) >= 2 * MaxLoginAttempts)
    <2>1. /\ apc'[r] = "lgFind" /\ areq'[r] = k
          /\ \A b \in Requests : b # r => apc'[b] = apc[b] /\ areq'[b] = areq[b]
      BY <1>4 DEF SetCall, FailuresInv, AccountsInv
    <2>2. /\ \A t : FailuresOf(t)' \subseteq FailuresOf(t)
          /\ \A b : FailuresFrom(b)' = FailuresFrom(b)
      BY <1>2 DEF FailuresOf, FailuresFrom
    <2>3. "lgIp" \in LoginPoints
      BY DEF LoginPoints
    <2>4. \A t : AttemptsOn(t)' \subseteq AttemptsOn(t)
      BY <1>1, <1>2, <2>1, <2>3 DEF AttemptsOn
    <2>5. \A b : b # k.ip => AttemptsFrom(b)' \subseteq AttemptsFrom(b)
      BY <2>1 DEF AttemptsFrom
    <2>6. ASSUME NEW t \in Targets
          PROVE  Within(FailuresOf(t), AttemptsOn(t), MaxLoginAttempts)'
      <3>1. PICK F, A, F2, A2 : /\ F = FailuresOf(t) /\ F2 = FailuresOf(t)'
                                /\ A = AttemptsOn(t) /\ A2 = AttemptsOn(t)'
        OBVIOUS
      <3>2. /\ IsFiniteSet(F) /\ IsFiniteSet(A) /\ F2 \in SUBSET F /\ A2 \in SUBSET A
            /\ Within(F, A, MaxLoginAttempts) /\ MaxLoginAttempts \in Nat \ {0}
        BY <2>2, <2>4, <3>1, LockoutFacts, FailuresWithin DEF FailuresInv
      <3>3. Within(F2, A2, MaxLoginAttempts)
        BY <3>2, WithinKept
      <3> QED BY <3>1, <3>3 DEF Within
    <2>7. ASSUME NEW b \in Ips
          PROVE  Within(FailuresFrom(b), AttemptsFrom(b), 2 * MaxLoginAttempts)'
      <3>1. PICK F, A, F2, A2 : /\ F = FailuresFrom(b) /\ F2 = FailuresFrom(b)'
                                /\ A = AttemptsFrom(b) /\ A2 = AttemptsFrom(b)'
        OBVIOUS
      <3>2. PICK limit \in Nat \ {0} : limit = 2 * MaxLoginAttempts
        BY AttemptsAssumption
      <3>3. /\ IsFiniteSet(F) /\ IsFiniteSet(A) /\ F2 = F /\ Within(F, A, limit)
        BY <2>2, <3>1, <3>2, LockoutFacts, FailuresWithin DEF FailuresInv
      <3>4. CASE b = k.ip
        <4>1. ~(Cardinality(F) >= limit)
          BY <1>4, <3>1, <3>2, <3>4
        <4>2. A2 \in SUBSET Requests
          BY <3>1 DEF AttemptsFrom
        <4>3. Within(F2, A2, limit)
          BY <3>3, <4>1, <4>2, WithinFresh
        <4> QED BY <3>1, <3>2, <4>3 DEF Within
      <3>5. CASE b # k.ip
        <4>1. A2 \in SUBSET A /\ F2 \in SUBSET F
          BY <2>5, <3>1, <3>3, <3>5
        <4>2. Within(F2, A2, limit)
          BY <3>3, <4>1, WithinKept
        <4> QED BY <3>1, <3>2, <4>2 DEF Within
      <3> QED BY <3>4, <3>5
    <2> QED BY <2>6, <2>7 DEF FailuresInv, FailuresBounded, Within
  <1> QED BY <1>2, <1>3, <1>4

LEMMA FailuresStep ==
  ASSUME FailuresInv, [AccountsNext]_accountVars
  PROVE  FailuresInv'
  <1>1. AccountsInv'
    BY AccountsStepInv DEF FailuresInv
  <1>2. ASSUME NEW r \in Requests, QuietActions(r)
        PROVE  FailuresInv'
    BY <1>1, <1>2, QuietActionsQuiet, QuietLockout DEF FailuresInv, Quiet
  <1>3. ASSUME NEW r \in Requests, CallArrives(r)
        PROVE  FailuresInv'
    BY <1>1, <1>2, <1>3, ArrivalLockout DEF CallArrives, QuietActions
  <1>4. ASSUME NEW r \in Requests,
               LoginMarksCode(r) \/ RegisterMarksCode(r) \/ ResetMarksCode(r)
        PROVE  FailuresInv'
    <2>1. PICK k \in Call, p \in CallPoints, cl \in 0..Len(issued) :
             /\ k = areq[r] /\ p = apc[r] /\ cl = claim[r]
             /\ CallOK(p, k, cl, issued, Len(users))
      BY SlotAt DEF FailuresInv
    <2>2. PICK n : n = [k EXCEPT !.code = cl]
      OBVIOUS
    <2>3. PICK q : /\ \/ p = "lgMark" /\ q = "lgSuccess"
                      \/ p = "rgMark" /\ q = "rgCreate"
                      \/ p = "rsMark" /\ q = "rsFind"
                   /\ SetCall(r, q, n) /\ UNCHANGED <<logs, aged>>
      BY <1>4, <2>1, <2>2
         DEF LoginMarksCode, RegisterMarksCode, ResetMarksCode, MarksCode, At, tableVars
    <2>4. n.target = k.target /\ n.ip = k.ip /\ n.over = k.over
      BY <2>2 DEF Call
    <2>5. /\ apc'[r] = q /\ areq'[r] = n
          /\ \A b \in Requests : b # r => apc'[b] = apc[b] /\ areq'[b] = areq[b]
      BY <2>3 DEF SetCall, FailuresInv, AccountsInv
    <2>6. q \in LoginPoints => p \in LoginPoints \ {"lgIp"}
      BY <2>3 DEF LoginPoints, TryPoints
    <2>7. /\ \A t : AttemptsOn(t)' \subseteq AttemptsOn(t)
          /\ \A a : AttemptsFrom(a)' \subseteq AttemptsFrom(a)
      BY <2>1, <2>4, <2>5, <2>6 DEF AttemptsOn, AttemptsFrom
    <2>8. /\ \A t : FailuresOf(t)' \subseteq FailuresOf(t)
          /\ \A a : FailuresFrom(a)' \subseteq FailuresFrom(a)
      BY <2>3 DEF FailuresOf, FailuresFrom
    <2> QED BY <1>1, <2>7, <2>8, LockoutKept
  <1>5. ASSUME NEW r \in Requests, LoginGrants(r)
        PROVE  FailuresInv'
    BY <1>1, <1>5, DoneMoves, QuietLockout DEF LoginGrants, FailuresInv, tableVars
  <1>6. ASSUME NEW r \in Requests, RegisterCreates(r) \/ ResetUpdates(r)
        PROVE  FailuresInv'
    <2>1. PICK k \in Call : k = areq[r]
      BY SlotAt DEF FailuresInv
    <2>2. PICK m : m = Len(users) + 1
      OBVIOUS
    <2>3. PICK n1, n2 : n1 = [k EXCEPT !.user = m, !.code = 0] /\ n2 = [k EXCEPT !.code = 0]
      OBVIOUS
    <2>4. /\ UNCHANGED <<logs, aged>>
          /\ \/ Done(r)
             \/ SetCall(r, "rgLog", n1)
             \/ SetCall(r, "rsLog", n2)
      BY <1>6, <2>1, <2>2, <2>3 DEF RegisterCreates, ResetUpdates
    <2>5. m \in Nat
      BY <2>2, Lengths DEF FailuresInv
    <2>6. n1 \in Call /\ n1.code = 0 /\ n2 \in Call /\ n2.code = 0
      BY <2>3, <2>5 DEF Call
    <2>7. "rgLog" \in CallPoints \ LoginPoints /\ "rsLog" \in CallPoints \ LoginPoints
      BY DEF CallPoints, OtherPoints, LoginPoints, TryPoints
    <2>8. Moves(r)
      BY <2>4, <2>6, <2>7, DoneMoves, ArrivesMoves DEF FailuresInv
    <2> QED BY <1>1, <2>4, <2>8, QuietLockout
  <1>7. ASSUME NEW r \in Requests, LoginStep(r)
        PROVE  FailuresInv'
    BY <1>1, <1>2, <1>4, <1>5, <1>7, AddressLockout, SuccessLockout, FailureLockout
       DEF LoginStep, QuietActions
  <1>8. ASSUME NEW r \in Requests, RegisterStep(r) \/ ResetStep(r)
        PROVE  FailuresInv'
    BY <1>1, <1>2, <1>4, <1>6, <1>8, SuccessLockout DEF RegisterStep, ResetStep, QuietActions
  <1>9. ASSUME NEW r \in Requests, UpdateStep(r) \/ QueryFails(r)
        PROVE  FailuresInv'
    BY <1>2, <1>9 DEF QuietActions
  <1>10. CASE AccountsCrash \/ UNCHANGED accountVars
    <2>1. UNCHANGED <<logs, aged>>
      BY <1>10 DEF AccountsCrash, accountVars, tableVars
    <2>2. /\ \A t : FailuresOf(t)' \subseteq FailuresOf(t)
          /\ \A a : FailuresFrom(a)' \subseteq FailuresFrom(a)
      BY <2>1 DEF FailuresOf, FailuresFrom
    <2>3. /\ \A t : AttemptsOn(t)' \subseteq AttemptsOn(t)
          /\ \A a : AttemptsFrom(a)' \subseteq AttemptsFrom(a)
      <3>1. CASE AccountsCrash
        BY <3>1 DEF AccountsCrash, AttemptsOn, AttemptsFrom, LoginPoints, TryPoints
      <3>2. CASE UNCHANGED accountVars
        BY <3>2 DEF accountVars, AttemptsOn, AttemptsFrom
      <3> QED BY <1>10, <3>1, <3>2
    <2> QED BY <1>1, <2>2, <2>3, LockoutKept
  <1>11. CASE \/ LogAges
              \/ \E p \in Purposes : CodeIssued(p)
              \/ \E i \in 1..Len(issued) : CodeExpires(i)
    <2>1. /\ UNCHANGED <<logs, apc, areq>>
          /\ aged' = aged \/ aged' = aged + 1
      BY <1>11 DEF LogAges, CodeIssued, CodeExpires, tableVars
    <2>2. aged \in Nat
      BY Lengths DEF FailuresInv, AccountsInv
    <2>3. \A i \in 1..Len(logs) : i > aged' => i > aged
      BY <2>1, <2>2, Lengths DEF FailuresInv
    <2>4. /\ \A t : FailuresOf(t)' \subseteq FailuresOf(t)
          /\ \A a : FailuresFrom(a)' \subseteq FailuresFrom(a)
      BY <2>1, <2>3 DEF FailuresOf, FailuresFrom
    <2>5. /\ \A t : AttemptsOn(t)' \subseteq AttemptsOn(t)
          /\ \A a : AttemptsFrom(a)' \subseteq AttemptsFrom(a)
      BY <2>1 DEF AttemptsOn, AttemptsFrom
    <2> QED BY <1>1, <2>4, <2>5, LockoutKept
  <1> QED BY <1>3, <1>7, <1>8, <1>9, <1>10, <1>11 DEF AccountsNext

\* Within fifteen minutes a target fails less than the limit and once for each
\* call in flight, and an address less than twice the limit and the same,
\* however logins, failures and restarts interleave (checkLoginLockout,
\* createLoginLog).
THEOREM LockoutHolds == AccountsSpec => []FailuresBounded
  <1>1. AccountsInit => FailuresInv
    <2> SUFFICES ASSUME AccountsInit PROVE FailuresInv
      OBVIOUS
    <2>1. AccountsInv
      BY AccountsInitInv
    <2>2. /\ \A t : FailuresOf(t) = {} /\ FailuresFrom(t) = {}
          /\ \A t : AttemptsOn(t) = {} /\ AttemptsFrom(t) = {}
      BY DEF AccountsInit, FailuresOf, FailuresFrom, AttemptsOn, AttemptsFrom, LoginPoints,
             TryPoints
    <2>3. IsFiniteSet({}) /\ ~(Cardinality({}) >= MaxLoginAttempts)
      BY FS_EmptySet, AttemptsAssumption
    <2>4. ~(Cardinality({}) >= 2 * MaxLoginAttempts)
      BY FS_EmptySet, AttemptsAssumption
    <2>5. Within({}, {}, MaxLoginAttempts) /\ Within({}, {}, 2 * MaxLoginAttempts)
      BY <2>3, <2>4, LockoutFacts, <2>1, WithinFresh
    <2>6. FailuresBounded
      BY <2>2, <2>5, FailuresWithin
    <2> QED BY <2>1, <2>6 DEF FailuresInv
  <1>2. FailuresInv => FailuresBounded
    BY DEF FailuresInv
  <1> QED BY <1>1, <1>2, FailuresStep, PTL DEF AccountsSpec
=============================================================================
