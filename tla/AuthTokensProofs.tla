-------------------------- MODULE AuthTokensProofs --------------------------
(***************************************************************************)
(* Proofs, for every number of processes, requests, users and tokens, of   *)
(* the invariants that the runs of MCAuthTokens check on small instances.  *)
(***************************************************************************)
EXTENDS AuthTokens, TLAPS

\* A Redis key set with the floored TTL of a token that is not expired leaves
\* Redis less than one second before the token expires, or later: add of
\* TokenBlacklistService never drops an entry before the last second.
THEOREM RedisEntryOutlivesAllButLastSecond ==
    ASSUME NEW now \in Nat, NEW exp \in Nat, now < exp
    PROVE  now + 1000 * TtlSec(exp - now) > exp - 1000
  BY DEF TtlSec

-----------------------------------------------------------------------------
(* Types *)

LEMMA InitTypeOK == Init => TypeOK
  BY BlacklistAssumption, ArrivalsAssumption
     DEF Init, TypeOK, BlacklistInit, BlacklistTypeOK, NoRequest, Request,
         Points, RefreshPoints, LogoutPoints

\* Every blacklist operation and every environment step keeps the blacklist's
\* variables well typed.
LEMMA AddKeepsTypes ==
    ASSUME BlacklistTypeOK, NEW n \in Nodes, NEW k \in Keys,
           AddToBlacklist(n, k)
    PROVE  BlacklistTypeOK'
  BY BlacklistAssumption DEF BlacklistTypeOK, AddToBlacklist, FellBack

LEMMA CheckKeepsTypes ==
    ASSUME BlacklistTypeOK, NEW n, NEW k, NEW answer,
           CheckBlacklist(n, k, answer)
    PROVE  BlacklistTypeOK'
  BY BlacklistAssumption DEF BlacklistTypeOK, CheckBlacklist

LEMMA EnvironmentKeepsTypes ==
    ASSUME BlacklistTypeOK, Environment
    PROVE  BlacklistTypeOK'
  BY BlacklistAssumption
     DEF BlacklistTypeOK, Environment, RedisConnects, RedisDisconnects,
         RedisEvicts, EnterLastSecond, RedisTtlEnds, Expire

LEMMA LoseProcessKeepsTypes ==
    ASSUME BlacklistTypeOK, NEW n \in Nodes, LoseProcess(n)
    PROVE  BlacklistTypeOK'
  BY BlacklistAssumption DEF BlacklistTypeOK, LoseProcess

LEMMA NoRequestFields ==
    /\ NoRequest \in Request
    /\ NoRequest.access = None
    /\ NoRequest.refresh = None
    /\ NoRequest.minted = None
    /\ NoRequest.stale = {}
  BY DEF NoRequest, Request

LEMMA IssueRequestFields ==
    ASSUME NEW n \in Nodes, NEW p \in Pairs
    PROVE  /\ IssueRequest(n, p) \in Request
           /\ IssueRequest(n, p).node = n
           /\ IssueRequest(n, p).access = None
           /\ IssueRequest(n, p).refresh = None
           /\ IssueRequest(n, p).minted = p
           /\ IssueRequest(n, p).stale = {}
  BY DEF NoRequest, Request, IssueRequest

LEMMA RefreshRequestFields ==
    ASSUME NEW n \in Nodes, NEW p \in Pairs, NEW d \in Devices \cup {None},
           NEW stale \in SUBSET Pairs
    PROVE  /\ RefreshRequest(n, p, d, stale) \in Request
           /\ RefreshRequest(n, p, d, stale).node = n
           /\ RefreshRequest(n, p, d, stale).access = None
           /\ RefreshRequest(n, p, d, stale).refresh = p
           /\ RefreshRequest(n, p, d, stale).minted = None
           /\ RefreshRequest(n, p, d, stale).stale = stale
  BY DEF NoRequest, Request, RefreshRequest

LEMMA LogoutRequestFields ==
    ASSUME NEW n \in Nodes, NEW a \in Pairs, NEW p \in Pairs \cup {None},
           NEW d \in Devices \cup {None}, NEW all \in BOOLEAN
    PROVE  /\ LogoutRequest(n, a, p, d, all) \in Request
           /\ LogoutRequest(n, a, p, d, all).node = n
           /\ LogoutRequest(n, a, p, d, all).access = a
           /\ LogoutRequest(n, a, p, d, all).refresh = p
           /\ LogoutRequest(n, a, p, d, all).minted = None
           /\ LogoutRequest(n, a, p, d, all).stale = {}
  BY DEF NoRequest, Request, LogoutRequest

LEMMA MintedKeepsRequest ==
    ASSUME req \in [Requests -> Request], NEW r \in Requests, NEW q \in Pairs,
           req' = [req EXCEPT ![r].minted = q]
    PROVE  req' \in [Requests -> Request]
  BY DEF Request

LEMMA StepTypeOK ==
    ASSUME TypeOK, RequestsOK, [Next]_vars
    PROVE  TypeOK'
<1> USE DEF Finish, Goto, Points, RefreshPoints, LogoutPoints, RequestOK
<1>1. ASSUME NEW r \in Requests, Arrival(r) PROVE TypeOK'
  <2> PICK n \in Nodes, d \in Devices \cup {None}:
         \/ \E u \in Users, p \in Pairs: GenerateTokens(r, n, u, d, p)
         \/ \E p \in Pairs: RefreshArrives(r, n, p, d)
         \/ \E a \in Pairs, p \in Pairs \cup {None}, all \in BOOLEAN:
               LogoutArrives(r, n, a, p, d, all)
    BY <1>1 DEF Arrival
  <2>1. ASSUME NEW u \in Users, NEW p \in Pairs, GenerateTokens(r, n, u, d, p)
        PROVE  TypeOK'
    <3> DEFINE x == IssueRequest(n, p)
    <3>1. x \in Request
      BY IssueRequestFields
    <3>2. Arrive(r, "reply", x)
      BY <2>1 DEF GenerateTokens
    <3> HIDE DEF x
    <3> QED BY <2>1, <3>1, <3>2
            DEF GenerateTokens, Arrive, StoreRow, TypeOK, blacklistVars,
                BlacklistTypeOK
  <2>2. ASSUME NEW p \in Pairs, RefreshArrives(r, n, p, d)
        PROVE  TypeOK'
    <3> DEFINE x == RefreshRequest(n, p, d, revoked \cap {p})
    <3>1. x \in Request
      BY RefreshRequestFields
    <3>2. Arrive(r, "rfCheck", x) /\ UNCHANGED <<blacklistVars, tableVars,
                                                issued, historyVars>>
      BY <2>2 DEF RefreshArrives
    <3> HIDE DEF x
    <3> QED BY <3>1, <3>2
            DEF Arrive, TypeOK, blacklistVars, BlacklistTypeOK, tableVars,
                historyVars
  <2>3. ASSUME NEW a \in Pairs, NEW p \in Pairs \cup {None},
               NEW all \in BOOLEAN, LogoutArrives(r, n, a, p, d, all)
        PROVE  TypeOK'
    <3> DEFINE x == LogoutRequest(n, a, p, d, all)
    <3>1. x \in Request
      BY LogoutRequestFields
    <3>2. Arrive(r, "loGuard", x) /\ UNCHANGED <<blacklistVars, tableVars,
                                                issued, historyVars>>
      BY <2>3 DEF LogoutArrives
    <3> HIDE DEF x
    <3> QED BY <3>1, <3>2
            DEF Arrive, TypeOK, blacklistVars, BlacklistTypeOK, tableVars,
                historyVars
  <2> QED BY <2>1, <2>2, <2>3
<1>2. ASSUME NEW r \in Requests, Step(r) PROVE TypeOK'
  <2> arrivals' = arrivals
    BY <1>2 DEF Step
  <2>1. CASE RefreshChecksBlacklist(r)
    <3> PICK answer \in BOOLEAN:
          /\ CheckBlacklist(req[r].node, RefreshKey(req[r].refresh), answer)
          /\ IF answer THEN Finish(r) ELSE Goto(r, "rfFind") /\ UNCHANGED req
      BY <2>1 DEF RefreshChecksBlacklist
    <3> BlacklistTypeOK'
      BY CheckKeepsTypes, Zenon DEF TypeOK
    <3> QED BY <2>1, NoRequestFields
            DEF RefreshChecksBlacklist, TypeOK, tableVars, historyVars
  <2>2. CASE RefreshFindsRow(r)
    BY <2>2, NoRequestFields
       DEF RefreshFindsRow, TypeOK, tableVars, historyVars, blacklistVars,
           BlacklistTypeOK
  <2>3. CASE RefreshStoresNew(r)
    <3> DEFINE p == req[r].refresh
    <3> DEFINE d == IF req[r].device # None THEN req[r].device ELSE device[p]
    <3>1. p \in Pairs /\ d \in Devices \cup {None} /\ owner[p] \in Users
      BY <2>3 DEF RefreshStoresNew, RequestsOK, RowsOK, TypeOK, Request
    <3>2. UNCHANGED <<blacklistVars, issued, lost, sessions>>
      BY <2>3 DEF RefreshStoresNew
    <3>3. ASSUME NEW q \in Pairs, StoreRow(q, owner[p], d),
                 parent' = [parent EXCEPT ![q] = p],
                 \/ /\ Goto(r, "rfRevoke")
                    /\ req' = [req EXCEPT ![r].minted = q]
                 \/ Finish(r)
          PROVE  TypeOK'
      <4> HIDE DEF p, d
      <4>1. pc' \in [Requests -> Points]
        BY <3>3 DEF TypeOK
      <4>2. CASE req' = [req EXCEPT ![r].minted = q]
        <5>1. req' \in [Requests -> Request]
          BY <4>2, MintedKeepsRequest DEF TypeOK
        <5> QED BY <3>1, <3>2, <3>3, <4>1, <5>1
                DEF StoreRow, TypeOK, blacklistVars, BlacklistTypeOK
      <4>3. CASE Finish(r)
        <5>1. req' \in [Requests -> Request]
          BY <4>3, NoRequestFields DEF TypeOK
        <5> QED BY <3>1, <3>2, <3>3, <4>1, <5>1
                DEF StoreRow, TypeOK, blacklistVars, BlacklistTypeOK
      <4> QED BY <3>3, <4>2, <4>3
    <3>4. CASE Finish(r) /\ UNCHANGED <<tableVars, parent>>
      BY <3>2, <3>4, NoRequestFields
         DEF TypeOK, tableVars, blacklistVars, BlacklistTypeOK
    <3> QED BY <2>3, <3>3, <3>4 DEF RefreshStoresNew
  <2>4. CASE RefreshRevokesOld(r)
    BY <2>4
       DEF RefreshRevokesOld, RequestsOK, TypeOK, tableVars, historyVars,
           blacklistVars, BlacklistTypeOK
  <2>5. CASE RefreshBarsOld(r)
    <3>1. req[r].node \in Nodes /\ RefreshKey(req[r].refresh) \in Keys
      BY <2>5 DEF RefreshBarsOld, RequestsOK, TypeOK, Keys, Scopes, RefreshKey
    <3> QED BY <2>5, <3>1, AddKeepsTypes
            DEF RefreshBarsOld, TypeOK, tableVars, historyVars
  <2>6. CASE LogoutPassesGuard(r)
    <3> PICK answer \in BOOLEAN:
          /\ CheckBlacklist(req[r].node, AccessKey(req[r].access), answer)
          /\ \/ ~answer /\ Goto(r, "loAccess") /\ UNCHANGED req
             \/ Finish(r)
      BY <2>6 DEF LogoutPassesGuard
    <3> BlacklistTypeOK'
      BY CheckKeepsTypes, Zenon DEF TypeOK
    <3> QED BY <2>6, NoRequestFields
            DEF LogoutPassesGuard, TypeOK, tableVars, historyVars
  <2>7. CASE LogoutBarsAccess(r)
    <3>1. req[r].node \in Nodes /\ AccessKey(req[r].access) \in Keys
      BY <2>7 DEF LogoutBarsAccess, RequestsOK, TypeOK, Keys, Scopes, AccessKey
    <3> QED BY <2>7, <3>1, AddKeepsTypes
            DEF LogoutBarsAccess, BulkOrReply, TypeOK, tableVars, historyVars
  <2>8. CASE LogoutRevokesRefresh(r)
    BY <2>8
       DEF LogoutRevokesRefresh, RequestsOK, TypeOK, tableVars, historyVars,
           blacklistVars, BlacklistTypeOK
  <2>9. CASE LogoutBarsRefresh(r)
    <3>1. req[r].node \in Nodes /\ RefreshKey(req[r].refresh) \in Keys
      BY <2>9 DEF LogoutBarsRefresh, RequestsOK, TypeOK, Keys, Scopes, RefreshKey
    <3> QED BY <2>9, <3>1, AddKeepsTypes
            DEF LogoutBarsRefresh, BulkOrReply, TypeOK, tableVars, historyVars
  <2>10. CASE LogoutRevokesMany(r)
    BY <2>10
       DEF LogoutRevokesMany, BulkRows, RequestsOK, TypeOK, tableVars,
           historyVars, blacklistVars, BlacklistTypeOK
  <2>11. CASE Reply(r)
    BY <2>11, NoRequestFields
       DEF Reply, RequestsOK, TypeOK, tableVars, historyVars, blacklistVars,
           BlacklistTypeOK
  <2> QED BY <1>2, <2>1, <2>2, <2>3, <2>4, <2>5, <2>6, <2>7, <2>8, <2>9,
             <2>10, <2>11 DEF Step
<1>3. ASSUME NEW n \in Nodes, Restart(n) PROVE TypeOK'
  BY <1>3, LoseProcessKeepsTypes, NoRequestFields
     DEF Restart, TypeOK, tableVars, historyVars
<1>4. CASE Environment
  BY <1>4, EnvironmentKeepsTypes
     DEF Environment, TypeOK, tableVars, historyVars
<1>5. CASE UNCHANGED vars
  BY <1>5 DEF vars, TypeOK, tableVars, historyVars, blacklistVars,
              BlacklistTypeOK
<1> QED BY <1>1, <1>2, <1>3, <1>4, <1>5 DEF Next

-----------------------------------------------------------------------------
(* What requests in flight rely on *)

\* Rows and deliveries only accumulate, so a request at rest keeps its facts.
LEMMA RequestFrame ==
    ASSUME TypeOK, RequestsOK, NEW s \in Requests,
           stored \subseteq stored', issued \subseteq issued',
           \A p \in stored: owner'[p] = owner[p] /\ parent'[p] = parent[p],
           pc'[s] = pc[s], req'[s] = req[s]
    PROVE  RequestOK(s)'
  BY DEF RequestsOK, RequestOK, RefreshPoints, LogoutPoints, TypeOK

LEMMA IdleRequest ==
    ASSUME NEW s \in Requests, pc'[s] = "idle", req'[s] = NoRequest
    PROVE  RequestOK(s)'
  BY NoRequestFields DEF RequestOK, RefreshPoints, LogoutPoints

\* The steps that leave the rows and the deliveries alone.
LEMMA RowsFrame ==
    ASSUME RowsOK, UNCHANGED <<stored, owner, parent>>
    PROVE  RowsOK'
  BY DEF RowsOK

LEMMA ArrivalRequestsOK ==
    ASSUME TypeOK, RequestsOK, NEW r \in Requests, Arrival(r)
    PROVE  RequestsOK'
<1> PICK n \in Nodes, d \in Devices \cup {None}:
       \/ \E u \in Users, p \in Pairs: GenerateTokens(r, n, u, d, p)
       \/ \E p \in Pairs: RefreshArrives(r, n, p, d)
       \/ \E a \in Pairs, p \in Pairs \cup {None}, all \in BOOLEAN:
             LogoutArrives(r, n, a, p, d, all)
  BY DEF Arrival
<1>1. ASSUME NEW u \in Users, NEW p \in Pairs, GenerateTokens(r, n, u, d, p)
      PROVE  RequestsOK'
  <2> DEFINE x == IssueRequest(n, p)
  <2>1. x.minted = p
    BY IssueRequestFields
  <2>2. Arrive(r, "reply", x) /\ StoreRow(p, u, d) /\ UNCHANGED <<issued, parent>>
    BY <1>1 DEF GenerateTokens
  <2> HIDE DEF x
  <2>3. RowsOK'
    BY <2>2 DEF RequestsOK, RowsOK, StoreRow, TypeOK
  <2>4. RequestOK(r)'
    BY <2>1, <2>2
       DEF Arrive, Goto, StoreRow, TypeOK, RequestOK, RefreshPoints, LogoutPoints
  <2>5. ASSUME NEW s \in Requests, s # r PROVE RequestOK(s)'
    BY <2>2, <2>5, RequestFrame DEF Arrive, Goto, StoreRow, TypeOK
  <2> QED BY <2>3, <2>4, <2>5 DEF RequestsOK
<1>2. ASSUME NEW p \in Pairs, RefreshArrives(r, n, p, d)
      PROVE  RequestsOK'
  <2> DEFINE x == RefreshRequest(n, p, d, revoked \cap {p})
  <2>1. x.node = n /\ x.refresh = p /\ x.minted = None
    BY RefreshRequestFields
  <2>2. /\ Arrive(r, "rfCheck", x) /\ p \in issued
        /\ UNCHANGED <<tableVars, issued, historyVars>>
    BY <1>2 DEF RefreshArrives
  <2> HIDE DEF x
  <2>3. RowsOK'
    BY <2>2, RowsFrame DEF RequestsOK, tableVars, historyVars
  <2>4. RequestOK(r)'
    BY <2>1, <2>2 DEF Arrive, Goto, TypeOK, RequestOK, RefreshPoints, LogoutPoints
  <2>5. ASSUME NEW s \in Requests, s # r PROVE RequestOK(s)'
    BY <2>2, <2>5, RequestFrame DEF Arrive, Goto, TypeOK, tableVars, historyVars
  <2> QED BY <2>3, <2>4, <2>5 DEF RequestsOK
<1>3. ASSUME NEW a \in Pairs, NEW p \in Pairs \cup {None}, NEW all \in BOOLEAN,
             LogoutArrives(r, n, a, p, d, all)
      PROVE  RequestsOK'
  <2> DEFINE x == LogoutRequest(n, a, p, d, all)
  <2>1. x.node = n /\ x.access = a /\ x.refresh = p /\ x.minted = None
    BY LogoutRequestFields
  <2>2. /\ Arrive(r, "loGuard", x) /\ a \in issued /\ p \in issued \cup {None}
        /\ UNCHANGED <<tableVars, issued, historyVars>>
    BY <1>3 DEF LogoutArrives
  <2> HIDE DEF x
  <2>3. RowsOK'
    BY <2>2, RowsFrame DEF RequestsOK, tableVars, historyVars
  <2>4. RequestOK(r)'
    BY <2>1, <2>2 DEF Arrive, Goto, TypeOK, RequestOK, RefreshPoints, LogoutPoints
  <2>5. ASSUME NEW s \in Requests, s # r PROVE RequestOK(s)'
    BY <2>2, <2>5, RequestFrame DEF Arrive, Goto, TypeOK, tableVars, historyVars
  <2> QED BY <2>3, <2>4, <2>5 DEF RequestsOK
<1> QED BY <1>1, <1>2, <1>3

LEMMA StepRequestsOK ==
    ASSUME TypeOK, RequestsOK, NEW r \in Requests, Step(r)
    PROVE  RequestsOK'
<1> USE DEF Goto, RefreshPoints, LogoutPoints
<1>1. CASE RefreshChecksBlacklist(r)
  <2>1. /\ UNCHANGED <<tableVars, issued, historyVars>> /\ pc[r] = "rfCheck"
        /\ Finish(r) \/ (Goto(r, "rfFind") /\ UNCHANGED req)
    BY <1>1 DEF RefreshChecksBlacklist
  <2> QED BY <2>1, RowsFrame, RequestFrame, IdleRequest
          DEF RequestsOK, RequestOK, Finish, TypeOK, tableVars, historyVars
<1>2. CASE RefreshFindsRow(r)
  <2>1. /\ UNCHANGED <<tableVars, issued, historyVars>> /\ pc[r] = "rfFind"
        /\ Finish(r) \/ (Goto(r, "rfStore") /\ UNCHANGED req)
    BY <1>2 DEF RefreshFindsRow
  <2> QED BY <2>1, RowsFrame, RequestFrame, IdleRequest
          DEF RequestsOK, RequestOK, Finish, TypeOK, tableVars, historyVars
<1>3. CASE RefreshStoresNew(r)
  <2> DEFINE p == req[r].refresh
  <2> DEFINE d == IF req[r].device # None THEN req[r].device ELSE device[p]
  <2>1. /\ pc[r] = "rfStore" /\ UNCHANGED issued
        /\ p \in issued /\ p \in stored /\ owner[p] \in Users
    BY <1>3 DEF RefreshStoresNew, RequestsOK, RowsOK, RequestOK, TypeOK
  <2>2. ASSUME NEW q \in Pairs, StoreRow(q, owner[p], d),
               parent' = [parent EXCEPT ![q] = p],
               \/ /\ Goto(r, "rfRevoke")
                  /\ req' = [req EXCEPT ![r].minted = q]
               \/ Finish(r)
        PROVE  RequestsOK'
    <3> HIDE DEF d
    <3>1. RowsOK'
      BY <2>1, <2>2 DEF StoreRow, RequestsOK, RowsOK, TypeOK
    <3>2. ASSUME NEW s \in Requests, s # r PROVE RequestOK(s)'
      BY <2>1, <2>2, <3>2, RequestFrame DEF StoreRow, Finish, TypeOK
    <3>3. CASE Finish(r)
      BY <3>1, <3>2, <3>3, IdleRequest DEF Finish, RequestsOK, TypeOK
    <3>4. CASE /\ Goto(r, "rfRevoke")
               /\ req' = [req EXCEPT ![r].minted = q]
      <4>1. /\ req'[r].node = req[r].node /\ req'[r].refresh = p
            /\ req'[r].minted = q
        BY <3>4 DEF TypeOK, Request
      <4>2. /\ stored' = stored \cup {q} /\ parent'[q] = p
            /\ owner'[q] = owner[p] /\ owner'[p] = owner[p]
        BY <2>1, <2>2 DEF StoreRow, TypeOK
      <4>3. pc'[r] = "rfRevoke" /\ req[r].node \in Nodes
        BY <2>1, <3>4 DEF RequestsOK, RequestOK, TypeOK
      <4>4. RequestOK(r)'
        BY <2>1, <4>1, <4>2, <4>3 DEF RequestOK
      <4> QED BY <3>1, <3>2, <4>4 DEF RequestsOK
    <3> QED BY <2>2, <3>3, <3>4
  <2>3. CASE Finish(r) /\ UNCHANGED <<tableVars, parent>>
    BY <2>1, <2>3, RowsFrame, RequestFrame, IdleRequest
       DEF RequestsOK, Finish, TypeOK, tableVars
  <2> QED BY <1>3, <2>2, <2>3 DEF RefreshStoresNew
<1>4. CASE RefreshRevokesOld(r)
  <2>1. /\ UNCHANGED <<stored, owner, parent, issued, req>>
        /\ pc[r] = "rfRevoke" /\ Goto(r, "rfBar")
    BY <1>4 DEF RefreshRevokesOld
  <2> QED BY <2>1, RowsFrame, RequestFrame DEF RequestsOK, RequestOK, TypeOK
<1>5. CASE RefreshBarsOld(r)
  <2>1. /\ UNCHANGED <<tableVars, historyVars, issued, req>>
        /\ pc[r] = "rfBar" /\ Goto(r, "reply")
    BY <1>5 DEF RefreshBarsOld
  <2> QED BY <2>1, RowsFrame, RequestFrame
          DEF RequestsOK, RequestOK, TypeOK, tableVars, historyVars
<1>6. CASE LogoutPassesGuard(r)
  <2>1. /\ UNCHANGED <<tableVars, issued, historyVars>> /\ pc[r] = "loGuard"
        /\ Finish(r) \/ (Goto(r, "loAccess") /\ UNCHANGED req)
    BY <1>6 DEF LogoutPassesGuard
  <2> QED BY <2>1, RowsFrame, RequestFrame, IdleRequest
          DEF RequestsOK, RequestOK, Finish, TypeOK, tableVars, historyVars
<1>7. CASE LogoutBarsAccess(r)
  <2>1. /\ UNCHANGED <<tableVars, historyVars, issued, req>>
        /\ pc[r] = "loAccess"
        /\ \/ req[r].refresh # None /\ Goto(r, "loRefresh")
           \/ Goto(r, "loBulk")
           \/ Goto(r, "reply")
    BY <1>7 DEF LogoutBarsAccess, BulkOrReply
  <2> QED BY <2>1, RowsFrame, RequestFrame
          DEF RequestsOK, RequestOK, TypeOK, tableVars, historyVars
<1>8. CASE LogoutRevokesRefresh(r)
  <2>1. /\ UNCHANGED <<stored, owner, parent, issued, req>>
        /\ pc[r] = "loRefresh" /\ Goto(r, "loBar")
    BY <1>8 DEF LogoutRevokesRefresh
  <2> QED BY <2>1, RowsFrame, RequestFrame DEF RequestsOK, RequestOK, TypeOK
<1>9. CASE LogoutBarsRefresh(r)
  <2>1. /\ UNCHANGED <<tableVars, historyVars, issued, req>>
        /\ pc[r] = "loBar" /\ (Goto(r, "loBulk") \/ Goto(r, "reply"))
    BY <1>9 DEF LogoutBarsRefresh, BulkOrReply
  <2> QED BY <2>1, RowsFrame, RequestFrame
          DEF RequestsOK, RequestOK, TypeOK, tableVars, historyVars
<1>10. CASE LogoutRevokesMany(r)
  <2>1. /\ UNCHANGED <<stored, owner, parent, issued, req>>
        /\ pc[r] = "loBulk" /\ Goto(r, "reply")
    BY <1>10 DEF LogoutRevokesMany
  <2> QED BY <2>1, RowsFrame, RequestFrame DEF RequestsOK, RequestOK, TypeOK
<1>11. CASE Reply(r)
  <2>1. /\ UNCHANGED <<tableVars, historyVars>> /\ Finish(r)
        /\ issued \subseteq issued'
    BY <1>11 DEF Reply
  <2> QED BY <2>1, RowsFrame, RequestFrame, IdleRequest
          DEF RequestsOK, Finish, TypeOK, tableVars, historyVars
<1> QED BY <1>1, <1>2, <1>3, <1>4, <1>5, <1>6, <1>7, <1>8, <1>9, <1>10,
           <1>11 DEF Step

LEMMA RestartRequestsOK ==
    ASSUME TypeOK, RequestsOK, NEW n \in Nodes, Restart(n)
    PROVE  RequestsOK'
<1>1. /\ UNCHANGED <<tableVars, issued, historyVars>>
      /\ \A s \in Requests: \/ pc'[s] = "idle" /\ req'[s] = NoRequest
                            \/ pc'[s] = pc[s] /\ req'[s] = req[s]
  BY DEF Restart
<1> QED BY <1>1, RowsFrame, RequestFrame, IdleRequest
        DEF RequestsOK, tableVars, historyVars

\* Types and the facts of requests in flight, inductive together.
LEMMA NextRequestsOK ==
    ASSUME TypeOK, RequestsOK, [Next]_vars
    PROVE  RequestsOK'
<1>1. CASE Environment
  BY <1>1, RowsFrame, RequestFrame
     DEF Environment, RequestsOK, tableVars, historyVars
<1>2. CASE UNCHANGED vars
  BY <1>2, RowsFrame, RequestFrame
     DEF vars, RequestsOK, tableVars, historyVars
<1> QED BY <1>1, <1>2, ArrivalRequestsOK, StepRequestsOK, RestartRequestsOK
        DEF Next

LEMMA InitRequestsOK == Init => RequestsOK
  BY NoRequestFields DEF Init, RequestsOK, RowsOK, RequestOK, RefreshPoints,
                         LogoutPoints

\* Every behaviour keeps its types, and no request relies on a token, row or
\* owner that another request could take away: token.service.ts holds these
\* facts in local variables across its awaits.
THEOREM TypeSafety == Spec => [](TypeOK /\ RequestsOK)
<1>1. Init => TypeOK /\ RequestsOK
  BY InitTypeOK, InitRequestsOK
<1>2. TypeOK /\ RequestsOK /\ [Next]_vars => (TypeOK /\ RequestsOK)'
  BY StepTypeOK, NextRequestsOK
<1> QED BY <1>1, <1>2, PTL DEF Spec

-----------------------------------------------------------------------------
(* How a step of the system looks from one request and from one row *)

\* A request moves by its own steps, or its process dies under it.
LEMMA OthersWait ==
    ASSUME TypeOK, [Next]_vars, NEW s \in Requests
    PROVE  \/ pc'[s] = pc[s] /\ req'[s] = req[s]
           \/ pc'[s] = "idle" /\ req'[s] = NoRequest
           \/ Arrival(s)
           \/ Step(s)
<1>1. ASSUME NEW r \in Requests, r # s, Arrival(r)
      PROVE  pc'[s] = pc[s] /\ req'[s] = req[s]
  <2>1. PICK point, x: Arrive(r, point, x)
    BY <1>1, Zenon DEF Arrival, GenerateTokens, RefreshArrives, LogoutArrives
  <2> QED BY <1>1, <2>1 DEF Arrive, Goto, TypeOK
<1>2. ASSUME NEW r \in Requests, r # s, Step(r)
      PROVE  pc'[s] = pc[s] /\ req'[s] = req[s]
  BY <1>2 DEF Step, RefreshChecksBlacklist, RefreshFindsRow, RefreshStoresNew,
              RefreshRevokesOld, RefreshBarsOld, LogoutPassesGuard,
              LogoutBarsAccess, LogoutRevokesRefresh, LogoutBarsRefresh,
              LogoutRevokesMany, Reply, Goto, Finish, TypeOK
<1>3. ASSUME NEW n \in Nodes, Restart(n)
      PROVE  \/ pc'[s] = pc[s] /\ req'[s] = req[s]
             \/ pc'[s] = "idle" /\ req'[s] = NoRequest
  BY <1>3 DEF Restart
<1>4. CASE Environment \/ UNCHANGED vars
  BY <1>4 DEF Environment, vars
<1> QED BY <1>1, <1>2, <1>3, <1>4 DEF Next

\* Nothing is deleted from the table, and what identifies a row is immutable.
LEMMA RowsAccumulate ==
    ASSUME TypeOK, [Next]_vars
    PROVE  /\ stored \subseteq stored'
           /\ revoked \subseteq revoked'
           /\ issued \subseteq issued'
           /\ lost \subseteq lost'
           /\ \A p \in stored: owner'[p] = owner[p] /\ parent'[p] = parent[p]
<1>1. ASSUME NEW r \in Requests, Arrival(r)
      PROVE  /\ UNCHANGED <<revoked, issued, lost, parent>>
             /\ stored \subseteq stored'
             /\ \A p \in stored: owner'[p] = owner[p]
  BY <1>1 DEF Arrival, GenerateTokens, RefreshArrives, LogoutArrives, StoreRow,
              tableVars, historyVars, TypeOK
<1>2. ASSUME NEW r \in Requests, RefreshStoresNew(r)
      PROVE  /\ UNCHANGED <<revoked, issued, lost>>
             /\ stored \subseteq stored'
             /\ \A p \in stored: owner'[p] = owner[p] /\ parent'[p] = parent[p]
  <2>1. \/ UNCHANGED <<tableVars, parent>>
        \/ \E q, u, d: /\ StoreRow(q, u, d)
                       /\ parent' = [parent EXCEPT ![q] = req[r].refresh]
    BY <1>2, Zenon DEF RefreshStoresNew
  <2>2. UNCHANGED <<issued, lost>>
    BY <1>2 DEF RefreshStoresNew
  <2> QED BY <2>1, <2>2 DEF StoreRow, tableVars, TypeOK
<1>3. ASSUME NEW r \in Requests, Step(r), ~RefreshStoresNew(r)
      PROVE  /\ UNCHANGED <<stored, owner, parent>>
             /\ revoked \subseteq revoked'
             /\ issued \subseteq issued'
             /\ lost \subseteq lost'
  BY <1>3 DEF Step, RefreshChecksBlacklist, RefreshFindsRow,
              RefreshRevokesOld, RefreshBarsOld, LogoutPassesGuard,
              LogoutBarsAccess, LogoutRevokesRefresh, LogoutBarsRefresh,
              LogoutRevokesMany, Reply, tableVars, historyVars
<1>4. ASSUME (\E n \in Nodes: Restart(n)) \/ Environment \/ UNCHANGED vars
      PROVE  UNCHANGED <<tableVars, issued, historyVars>>
  BY <1>4 DEF Restart, Environment, vars
<1> QED BY <1>1, <1>2, <1>3, <1>4 DEF Next, tableVars, historyVars

\* The blacklist moves in one of six ways.
LEMMA BlacklistMoves ==
    ASSUME TypeOK, RequestsOK, [Next]_vars
    PROVE  \/ UNCHANGED blacklistVars
           \/ \E r \in Requests: /\ pc[r] \in {"rfBar", "loBar"}
                                 /\ req[r].node \in Nodes
                                 /\ req[r].refresh \in Pairs
                                 /\ AddToBlacklist(req[r].node,
                                                   RefreshKey(req[r].refresh))
           \/ \E r \in Requests: /\ req[r].node \in Nodes
                                 /\ req[r].access \in Pairs
                                 /\ AddToBlacklist(req[r].node,
                                                   AccessKey(req[r].access))
           \/ \E n, k, answer: CheckBlacklist(n, k, answer)
           \/ \E n \in Nodes: LoseProcess(n)
           \/ Environment
<1>1. ASSUME NEW r \in Requests, Arrival(r) PROVE UNCHANGED blacklistVars
  BY <1>1, Zenon DEF Arrival, GenerateTokens, RefreshArrives, LogoutArrives
<1>2. ASSUME NEW r \in Requests,
             RefreshBarsOld(r) \/ LogoutBarsRefresh(r)
      PROVE  /\ pc[r] \in {"rfBar", "loBar"}
             /\ req[r].node \in Nodes
             /\ req[r].refresh \in Pairs
             /\ AddToBlacklist(req[r].node, RefreshKey(req[r].refresh))
  BY <1>2 DEF RefreshBarsOld, LogoutBarsRefresh, RequestsOK, RequestOK,
              RefreshPoints, LogoutPoints, TypeOK
<1>3. ASSUME NEW r \in Requests, LogoutBarsAccess(r)
      PROVE  /\ req[r].node \in Nodes
             /\ req[r].access \in Pairs
             /\ AddToBlacklist(req[r].node, AccessKey(req[r].access))
  BY <1>3 DEF LogoutBarsAccess, RequestsOK, RequestOK, LogoutPoints, TypeOK
<1>4. ASSUME NEW r \in Requests,
             RefreshChecksBlacklist(r) \/ LogoutPassesGuard(r)
      PROVE  \E n, k, answer: CheckBlacklist(n, k, answer)
  BY <1>4, Zenon DEF RefreshChecksBlacklist, LogoutPassesGuard
<1>5. ASSUME NEW r \in Requests,
             \/ RefreshFindsRow(r)
             \/ RefreshStoresNew(r)
             \/ RefreshRevokesOld(r)
             \/ LogoutRevokesRefresh(r)
             \/ LogoutRevokesMany(r)
             \/ Reply(r)
      PROVE  UNCHANGED blacklistVars
  BY <1>5, Zenon DEF RefreshFindsRow, RefreshStoresNew, RefreshRevokesOld,
              LogoutRevokesRefresh, LogoutRevokesMany, Reply
<1>6. ASSUME NEW n \in Nodes, Restart(n) PROVE LoseProcess(n)
  BY <1>6 DEF Restart
<1>7. UNCHANGED vars => UNCHANGED blacklistVars
  BY DEF vars
<1> QED BY <1>1, <1>2, <1>3, <1>4, <1>5, <1>6, <1>7 DEF Next, Step

LEMMA KeysOfPairs ==
    ASSUME NEW p \in Pairs, NEW q \in Pairs
    PROVE  /\ RefreshKey(p) \in Keys
           /\ AccessKey(p) \in Keys
           /\ AccessKey(p) # RefreshKey(q)
           /\ RefreshKey(p) = RefreshKey(q) => p = q
  BY DEF RefreshKey, AccessKey, Keys, Scopes

\* add puts its own key on the lists and takes nothing off them.
LEMMA AddBars ==
    ASSUME BlacklistTypeOK, NEW n \in Nodes, NEW k \in Keys, NEW j \in Keys,
           AddToBlacklist(n, k)
    PROVE  /\ BarredSomewhere(j)' => BarredSomewhere(j) \/ j = k
           /\ BarredSomewhere(j) => BarredSomewhere(j)'
           /\ BarredSomewhere(k)' \/ age[k] = "expired"
           /\ UNCHANGED <<age, losses>>
  BY DEF BlacklistTypeOK, AddToBlacklist, FellBack, BarredSomewhere

\* Only a logout or a refresh that has dealt with p's row puts p on a list.
LEMMA BarredByRequests ==
    ASSUME TypeOK, RequestsOK, [Next]_vars, NEW p \in Pairs,
           BarredSomewhere(RefreshKey(p))'
    PROVE  \/ BarredSomewhere(RefreshKey(p))
           \/ \E r \in Requests: /\ pc[r] \in {"rfBar", "loBar"}
                                 /\ req[r].refresh = p
<1> DEFINE k == RefreshKey(p)
<1>1. CASE UNCHANGED blacklistVars \/ \E n, j, answer: CheckBlacklist(n, j, answer)
  BY <1>1 DEF blacklistVars, CheckBlacklist, BarredSomewhere
<1>2. ASSUME NEW r \in Requests, pc[r] \in {"rfBar", "loBar"},
             req[r].node \in Nodes, req[r].refresh \in Pairs,
             AddToBlacklist(req[r].node, RefreshKey(req[r].refresh))
      PROVE  BarredSomewhere(k) \/ req[r].refresh = p
  BY <1>2, AddBars, KeysOfPairs DEF TypeOK
<1>3. ASSUME NEW r \in Requests, req[r].node \in Nodes, req[r].access \in Pairs,
             AddToBlacklist(req[r].node, AccessKey(req[r].access))
      PROVE  BarredSomewhere(k)
  BY <1>3, AddBars, KeysOfPairs DEF TypeOK
<1>4. ASSUME NEW n \in Nodes, LoseProcess(n) PROVE BarredSomewhere(k)
  BY <1>4 DEF LoseProcess, BarredSomewhere, TypeOK, BlacklistTypeOK
<1>5. CASE Environment
  BY <1>5 DEF Environment, RedisConnects, RedisDisconnects, RedisEvicts,
              EnterLastSecond, RedisTtlEnds, Expire, BarredSomewhere
<1> QED BY <1>1, <1>2, <1>3, <1>4, <1>5, BlacklistMoves

\* A key of a token well inside its lifetime leaves the lists only by a restart
\* or an eviction.
LEMMA BarredStaysBarred ==
    ASSUME TypeOK, RequestsOK, [Next]_vars, NEW k \in Keys
    PROVE  /\ losses > 0 => losses' > 0
           /\ age[k] # "valid" => age'[k] # "valid"
           /\ BarredSomewhere(k) =>
                 BarredSomewhere(k)' \/ losses' > 0 \/ age[k] # "valid"
<1>1. CASE UNCHANGED blacklistVars \/ \E n, j, answer: CheckBlacklist(n, j, answer)
  BY <1>1 DEF blacklistVars, CheckBlacklist, BarredSomewhere
<1>2. ASSUME NEW n \in Nodes, NEW j \in Keys, AddToBlacklist(n, j)
      PROVE  /\ UNCHANGED <<age, losses>>
             /\ BarredSomewhere(k) => BarredSomewhere(k)'
  BY <1>2, AddBars DEF TypeOK
<1>3. ASSUME NEW n \in Nodes, LoseProcess(n)
      PROVE  losses' > 0 /\ UNCHANGED age
  BY <1>3 DEF LoseProcess, TypeOK, BlacklistTypeOK
<1>4. CASE Environment
  BY <1>4 DEF Environment, RedisConnects, RedisDisconnects, RedisEvicts,
              EnterLastSecond, RedisTtlEnds, Expire, BarredSomewhere, TypeOK,
              BlacklistTypeOK
<1> QED BY <1>1, <1>2, <1>3, <1>4, BlacklistMoves, KeysOfPairs

-----------------------------------------------------------------------------
(* Safety *)

\* A request reaches its blacklist step only from the update of the row.
LEMMA NextBarringOK ==
    ASSUME TypeOK, RequestsOK, BarringOK, [Next]_vars
    PROVE  BarringOK'
<1> SUFFICES ASSUME NEW s \in Requests, pc'[s] \in {"rfBar", "loBar"}
             PROVE  req'[s].refresh \in revoked' \cup lost'
  BY DEF BarringOK
<1>1. CASE pc'[s] = pc[s] /\ req'[s] = req[s]
  BY <1>1, RowsAccumulate DEF BarringOK
<1>2. ASSUME Arrival(s) PROVE FALSE
  BY <1>2 DEF Arrival, GenerateTokens, RefreshArrives, LogoutArrives, Arrive,
              Goto, TypeOK
<1>3. CASE Step(s)
  <2>1. RefreshRevokesOld(s) \/ LogoutRevokesRefresh(s)
    BY <1>3 DEF Step, RefreshChecksBlacklist, RefreshFindsRow, RefreshStoresNew,
                RefreshBarsOld, LogoutPassesGuard, LogoutBarsAccess,
                LogoutBarsRefresh, LogoutRevokesMany, Reply, BulkOrReply, Goto,
                Finish, TypeOK
  <2> QED BY <2>1 DEF RefreshRevokesOld, LogoutRevokesRefresh
<1> QED BY <1>1, <1>2, <1>3, OthersWait

\* The refresh tokens on any process's list or in Redis are revoked in the
\* table, unless their update was lost (the "double check" of
\* logout-implementation.md): BarringOK is what the requests about to add carry
\* over their await, and without it StoresAgree is not inductive.
THEOREM BlacklistAgreesWithTable == Spec => []StoresAgree
<1> DEFINE Inv == TypeOK /\ RequestsOK /\ BarringOK /\ StoresAgree
<1>1. Init => Inv
  BY InitTypeOK, InitRequestsOK
     DEF Init, BlacklistInit, BarringOK, StoresAgree, BarredSomewhere
<1>2. Inv /\ [Next]_vars => Inv'
  <2> SUFFICES ASSUME Inv, [Next]_vars PROVE Inv'
    OBVIOUS
  <2>1. TypeOK' /\ RequestsOK' /\ BarringOK'
    BY StepTypeOK, NextRequestsOK, NextBarringOK
  <2>2. StoresAgree'
    BY BarredByRequests, RowsAccumulate DEF StoresAgree, BarringOK
  <2> QED BY <2>1, <2>2
<1>3. Inv => StoresAgree
  OBVIOUS
<1> QED BY <1>1, <1>2, <1>3, PTL DEF Spec

LEMMA NextStaleOK ==
    ASSUME TypeOK, RequestsOK, StaleOK, [Next]_vars
    PROVE  StaleOK'
<1> SUFFICES ASSUME NEW s \in Requests
             PROVE  req'[s].stale \subseteq revoked' \cap {req'[s].refresh}
  BY DEF StaleOK
<1>1. CASE req'[s] = req[s]
  BY <1>1, RowsAccumulate DEF StaleOK
<1>2. CASE req'[s] = NoRequest
  BY <1>2, NoRequestFields
<1>3. CASE Arrival(s)
  <2> PICK n \in Nodes, d \in Devices \cup {None}:
         \/ \E u \in Users, p \in Pairs: GenerateTokens(s, n, u, d, p)
         \/ \E p \in Pairs: RefreshArrives(s, n, p, d)
         \/ \E a \in Pairs, p \in Pairs \cup {None}, all \in BOOLEAN:
               LogoutArrives(s, n, a, p, d, all)
    BY <1>3 DEF Arrival
  <2>1. ASSUME NEW u \in Users, NEW p \in Pairs, GenerateTokens(s, n, u, d, p)
        PROVE  req'[s].stale = {}
    BY <2>1, IssueRequestFields DEF GenerateTokens, Arrive, TypeOK
  <2>2. ASSUME NEW p \in Pairs, RefreshArrives(s, n, p, d)
        PROVE  /\ req'[s].stale = revoked \cap {p}
               /\ req'[s].refresh = p
               /\ revoked' = revoked
    <3> DEFINE x == RefreshRequest(n, p, d, revoked \cap {p})
    <3>1. x.stale = revoked \cap {p} /\ x.refresh = p
      BY RefreshRequestFields, revoked \cap {p} \in SUBSET Pairs
    <3>2. Arrive(s, "rfCheck", x) /\ UNCHANGED tableVars
      BY <2>2 DEF RefreshArrives
    <3> HIDE DEF x
    <3> QED BY <3>1, <3>2 DEF Arrive, TypeOK, tableVars
  <2>3. ASSUME NEW a \in Pairs, NEW p \in Pairs \cup {None},
               NEW all \in BOOLEAN, LogoutArrives(s, n, a, p, d, all)
        PROVE  req'[s].stale = {}
    <3> DEFINE x == LogoutRequest(n, a, p, d, all)
    <3>1. x.stale = {}
      BY LogoutRequestFields
    <3>2. Arrive(s, "loGuard", x)
      BY <2>3 DEF LogoutArrives
    <3> HIDE DEF x
    <3> QED BY <3>1, <3>2 DEF Arrive, TypeOK
  <2> QED BY <2>1, <2>2, <2>3
<1>4. CASE Step(s)
  <2>1. ASSUME NEW q \in Pairs, req' = [req EXCEPT ![s].minted = q]
        PROVE  /\ req'[s].stale = req[s].stale
               /\ req'[s].refresh = req[s].refresh
    BY <2>1 DEF TypeOK, Request
  <2>2. \/ req' = req
        \/ req' = [req EXCEPT ![s] = NoRequest]
        \/ \E q \in Pairs: req' = [req EXCEPT ![s].minted = q]
    BY <1>4, Zenon
       DEF Step, RefreshChecksBlacklist, RefreshFindsRow, RefreshStoresNew,
           RefreshRevokesOld, RefreshBarsOld, LogoutPassesGuard,
           LogoutBarsAccess, LogoutRevokesRefresh, LogoutBarsRefresh,
           LogoutRevokesMany, Reply, Finish
  <2>3. CASE req' = [req EXCEPT ![s] = NoRequest]
    BY <2>3, NoRequestFields DEF TypeOK
  <2> QED BY <2>1, <2>2, <2>3, RowsAccumulate DEF StaleOK
<1> QED BY <1>1, <1>2, <1>3, <1>4, OthersWait

\* A refresh that passes findByJti did so when its token was unrevoked, and a
\* revoked token never becomes unrevoked: a token revoked before the request
\* arrived is not exchanged.
LEMMA NextNoStaleExchange ==
    ASSUME TypeOK, RequestsOK, StaleOK, NoStaleExchange, [Next]_vars
    PROVE  NoStaleExchange'
<1> SUFFICES ASSUME NEW s \in Requests,
                    pc'[s] \in {"rfStore", "rfRevoke", "rfBar"}
             PROVE  req'[s].stale = {}
  BY DEF NoStaleExchange
<1>1. CASE pc'[s] = pc[s] /\ req'[s] = req[s]
  BY <1>1 DEF NoStaleExchange
<1>2. ASSUME Arrival(s) PROVE FALSE
  BY <1>2 DEF Arrival, GenerateTokens, RefreshArrives, LogoutArrives, Arrive,
              Goto, TypeOK
<1>3. CASE Step(s)
  <2>1. RefreshFindsRow(s) \/ RefreshStoresNew(s) \/ RefreshRevokesOld(s)
    BY <1>3 DEF Step, RefreshChecksBlacklist, RefreshBarsOld,
                LogoutPassesGuard, LogoutBarsAccess, LogoutRevokesRefresh,
                LogoutBarsRefresh, LogoutRevokesMany, Reply, BulkOrReply,
                Goto, Finish, TypeOK
  <2>2. CASE RefreshFindsRow(s)
    BY <2>2 DEF RefreshFindsRow, Goto, Finish, TypeOK, StaleOK
  <2>3. CASE RefreshStoresNew(s)
    <3>1. pc[s] = "rfStore"
      BY <2>3 DEF RefreshStoresNew
    <3>2. Finish(s) \/ \E q \in Pairs: req' = [req EXCEPT ![s].minted = q]
      BY <2>3, Zenon DEF RefreshStoresNew
    <3>3. ~Finish(s)
      BY DEF Finish, Goto, TypeOK
    <3>4. req'[s].stale = req[s].stale
      BY <3>2, <3>3 DEF TypeOK, Request
    <3> QED BY <3>1, <3>4 DEF NoStaleExchange
  <2>4. CASE RefreshRevokesOld(s)
    BY <2>4 DEF RefreshRevokesOld, NoStaleExchange
  <2> QED BY <2>1, <2>2, <2>3, <2>4
<1> QED BY <1>1, <1>2, <1>3, OthersWait

\* A refresh token that was revoked when its request arrived mints nothing,
\* under every interleaving with the logouts and rotations that revoked it.
THEOREM RevokedTokensMintNothing == Spec => []NoStaleExchange
<1> DEFINE Inv == TypeOK /\ RequestsOK /\ StaleOK /\ NoStaleExchange
<1>1. Init => Inv
  BY InitTypeOK, InitRequestsOK, NoRequestFields
     DEF Init, StaleOK, NoStaleExchange
<1>2. Inv /\ [Next]_vars => Inv'
  BY StepTypeOK, NextRequestsOK, NextStaleOK, NextNoStaleExchange
<1>3. Inv => NoStaleExchange
  OBVIOUS
<1> QED BY <1>1, <1>2, <1>3, PTL DEF Spec

\* A rotation is the only step that writes replacedBy.
LEMMA ReplacedByRotation ==
    ASSUME TypeOK, [Next]_vars
    PROVE  \/ replacedBy' = replacedBy
           \/ \E r \in Requests:
                 /\ pc[r] = "rfRevoke"
                 /\ replacedBy' =
                       [replacedBy EXCEPT ![req[r].refresh] = req[r].minted]
                 /\ req[r].refresh \in revoked'
<1>1. ASSUME NEW r \in Requests, Arrival(r) PROVE replacedBy' = replacedBy
  BY <1>1 DEF Arrival, GenerateTokens, RefreshArrives, LogoutArrives, StoreRow,
              tableVars
<1>2. ASSUME NEW r \in Requests, Step(r), ~RefreshRevokesOld(r)
      PROVE  replacedBy' = replacedBy
  <2>1. RefreshStoresNew(r) => replacedBy' = replacedBy
    BY Zenon DEF RefreshStoresNew, StoreRow, tableVars
  <2> QED BY <1>2, <2>1
          DEF Step, RefreshChecksBlacklist, RefreshFindsRow, RefreshBarsOld,
              LogoutPassesGuard, LogoutBarsAccess, LogoutRevokesRefresh,
              LogoutBarsRefresh, LogoutRevokesMany, Reply, tableVars
<1>3. ASSUME NEW r \in Requests, RefreshRevokesOld(r), replacedBy' # replacedBy
      PROVE  /\ pc[r] = "rfRevoke"
             /\ replacedBy' =
                   [replacedBy EXCEPT ![req[r].refresh] = req[r].minted]
             /\ req[r].refresh \in revoked'
  BY <1>3 DEF RefreshRevokesOld
<1>4. ASSUME (\E n \in Nodes: Restart(n)) \/ Environment \/ UNCHANGED vars
      PROVE  replacedBy' = replacedBy
  BY <1>4 DEF Restart, Environment, vars, tableVars
<1> QED BY <1>1, <1>2, <1>3, <1>4 DEF Next

LEMMA NextReplacementStored ==
    ASSUME TypeOK, RequestsOK, ReplacementStored, [Next]_vars
    PROVE  ReplacementStored'
<1> SUFFICES ASSUME NEW p \in Pairs, replacedBy'[p] # None
             PROVE  /\ p \in revoked'
                    /\ replacedBy'[p] \in stored'
                    /\ parent'[replacedBy'[p]] = p
                    /\ owner'[replacedBy'[p]] = owner'[p]
  BY DEF ReplacementStored, Child
<1>1. CASE replacedBy'[p] = replacedBy[p]
  BY <1>1, RowsAccumulate DEF ReplacementStored, Child, TypeOK
<1>2. CASE replacedBy'[p] # replacedBy[p]
  <2>1. PICK r \in Requests:
           /\ pc[r] = "rfRevoke"
           /\ replacedBy' = [replacedBy EXCEPT ![req[r].refresh] = req[r].minted]
           /\ req[r].refresh \in revoked'
    BY <1>2, ReplacedByRotation
  <2>2. req[r].refresh = p /\ replacedBy'[p] = req[r].minted
    BY <1>2, <2>1 DEF TypeOK
  <2>3. /\ req[r].minted \in stored /\ p \in stored
        /\ parent[req[r].minted] = p
        /\ owner[req[r].minted] = owner[p]
    BY <2>1, <2>2 DEF RequestsOK, RequestOK, RefreshPoints, TypeOK
  <2> QED BY <2>1, <2>2, <2>3, RowsAccumulate
<1> QED BY <1>1, <1>2

\* The replacedBy chain never points at a token that is not in the table, at
\* another user's token, or away from a row that is still live: refreshToken
\* stores before it revokes, at whichever step it fails.
THEOREM RotationStoresBeforeItRevokes == Spec => []ReplacementStored
<1> DEFINE Inv == TypeOK /\ RequestsOK /\ ReplacementStored
<1>1. Init => Inv
  BY InitTypeOK, InitRequestsOK DEF Init, ReplacementStored
<1>2. Inv /\ [Next]_vars => Inv'
  BY StepTypeOK, NextRequestsOK, NextReplacementStored
<1>3. Inv => ReplacementStored
  OBVIOUS
<1> QED BY <1>1, <1>2, <1>3, PTL DEF Spec

LEMMA SpentStaysSpent ==
    ASSUME TypeOK, RequestsOK, [Next]_vars, NEW p \in Pairs, Spent(p)
    PROVE  Spent(p)'
  BY RowsAccumulate, BarredStaysBarred, KeysOfPairs DEF Spent, TypeOK,
     BlacklistTypeOK

\* The blacklist step of a refresh spends its token.
LEMMA BarringSpends ==
    ASSUME TypeOK, RequestsOK, BarringOK, [Next]_vars, NEW r \in Requests,
           RefreshBarsOld(r)
    PROVE  \A p \in Pairs: p = req[r].refresh => Spent(p)'
<1>1. /\ req[r].node \in Nodes /\ req[r].refresh \in Pairs
      /\ req[r].refresh \in revoked \cup lost
      /\ AddToBlacklist(req[r].node, RefreshKey(req[r].refresh))
  BY DEF RefreshBarsOld, RequestsOK, RequestOK, RefreshPoints, TypeOK, BarringOK
<1> QED BY <1>1, AddBars, KeysOfPairs, RowsAccumulate DEF Spent, TypeOK

LEMMA NextReplyOK ==
    ASSUME TypeOK, RequestsOK, BarringOK, ReplyOK, [Next]_vars
    PROVE  ReplyOK'
<1> SUFFICES ASSUME NEW s \in Requests
             PROVE  /\ pc'[s] \in LogoutPoints => req'[s].minted = None
                    /\ \A p \in Pairs:
                          (/\ pc'[s] = "reply"
                           /\ req'[s].minted # None
                           /\ parent'[req'[s].minted] = p)
                              => Spent(p)'
  <2>1. /\ parent' \in [Pairs -> Pairs \cup {None}]
        /\ \A r \in Requests: req'[r].minted \in Pairs \cup {None}
    BY StepTypeOK, NextRequestsOK DEF TypeOK, RequestsOK, RequestOK
  <2> QED BY <2>1 DEF ReplyOK, Spent, BarredSomewhere
<1> USE DEF LogoutPoints
<1>1. CASE pc'[s] = pc[s] /\ req'[s] = req[s]
  <2>1. req[s].minted # None => /\ req[s].minted \in stored
                                /\ parent'[req[s].minted] = parent[req[s].minted]
                                /\ parent[req[s].minted] \in Pairs \cup {None}
    BY RowsAccumulate DEF RequestsOK, RequestOK, TypeOK
  <2>2. pc[s] \in LogoutPoints => req[s].minted = None
    BY DEF ReplyOK
  <2>3. ASSUME NEW p \in Pairs, pc[s] = "reply", req[s].minted # None,
               parent[req[s].minted] = p
        PROVE  Spent(p)
    BY <2>3, NoneAssumption DEF ReplyOK
  <2> QED BY <1>1, <2>1, <2>2, <2>3, SpentStaysSpent
<1>2. CASE req'[s] = NoRequest
  BY <1>2, NoRequestFields
<1>3. CASE Arrival(s)
  <2> PICK n \in Nodes, d \in Devices \cup {None}:
         \/ \E u \in Users, p \in Pairs: GenerateTokens(s, n, u, d, p)
         \/ \E p \in Pairs: RefreshArrives(s, n, p, d)
         \/ \E a \in Pairs, p \in Pairs \cup {None}, all \in BOOLEAN:
               LogoutArrives(s, n, a, p, d, all)
    BY <1>3 DEF Arrival
  <2>1. ASSUME NEW u \in Users, NEW p \in Pairs, GenerateTokens(s, n, u, d, p)
        PROVE  pc'[s] = "reply" /\ req'[s].minted = p /\ parent'[p] = None
    BY <2>1, IssueRequestFields
       DEF GenerateTokens, StoreRow, Arrive, Goto, RequestsOK, RowsOK, TypeOK
  <2>2. ASSUME NEW p \in Pairs, RefreshArrives(s, n, p, d)
        PROVE  pc'[s] = "rfCheck"
    BY <2>2 DEF RefreshArrives, Arrive, Goto, TypeOK
  <2>3. ASSUME NEW a \in Pairs, NEW p \in Pairs \cup {None},
               NEW all \in BOOLEAN, LogoutArrives(s, n, a, p, d, all)
        PROVE  pc'[s] = "loGuard" /\ req'[s].minted = None
    <3> DEFINE x == LogoutRequest(n, a, p, d, all)
    <3>1. x.refresh = p /\ x.minted = None
      BY LogoutRequestFields
    <3>2. Arrive(s, "loGuard", x)
      BY <2>3 DEF LogoutArrives
    <3> HIDE DEF x
    <3> QED BY <3>1, <3>2 DEF Arrive, Goto, TypeOK
  <2> QED BY <2>1, <2>2, <2>3, NoneAssumption
<1>4. CASE Step(s) /\ req'[s] # NoRequest
  <2>1. CASE RefreshBarsOld(s)
    <3>1. /\ pc'[s] = "reply" /\ req' = req
          /\ parent'[req[s].minted] = req[s].refresh
      BY <2>1, RowsAccumulate
         DEF RefreshBarsOld, Goto, RequestsOK, RequestOK, TypeOK
    <3> QED BY <2>1, <3>1, BarringSpends
  <2>2. ASSUME \/ LogoutPassesGuard(s)
               \/ LogoutBarsAccess(s)
               \/ LogoutRevokesRefresh(s)
               \/ LogoutBarsRefresh(s)
               \/ LogoutRevokesMany(s)
        PROVE  req'[s].minted = None
    <3>1. pc[s] \in LogoutPoints /\ req' = req
      BY <1>4, <2>2
         DEF LogoutPassesGuard, LogoutBarsAccess, LogoutRevokesRefresh,
             LogoutBarsRefresh, LogoutRevokesMany, Finish, TypeOK
    <3> QED BY <3>1 DEF ReplyOK
  <2>3. ASSUME \/ RefreshChecksBlacklist(s)
               \/ RefreshFindsRow(s)
               \/ RefreshStoresNew(s)
               \/ RefreshRevokesOld(s)
        PROVE  pc'[s] \in {"idle", "rfFind", "rfStore", "rfRevoke", "rfBar"}
    <3>1. RefreshStoresNew(s) => Goto(s, "rfRevoke") \/ Goto(s, "idle")
      BY Zenon DEF RefreshStoresNew, Finish
    <3> QED BY <2>3, <3>1
            DEF RefreshChecksBlacklist, RefreshFindsRow, RefreshRevokesOld,
                Goto, Finish, TypeOK
  <2>4. ASSUME Reply(s) PROVE pc'[s] = "idle"
    BY <2>4 DEF Reply, Finish, Goto, TypeOK
  <2> QED BY <1>4, <2>1, <2>2, <2>3, <2>4 DEF Step
<1> QED BY <1>1, <1>2, <1>3, <1>4, OthersWait

LEMMA NextSpentOnceDelivered ==
    ASSUME TypeOK, RequestsOK, ReplyOK, SpentOnceDelivered, [Next]_vars
    PROVE  SpentOnceDelivered'
<1> SUFFICES ASSUME NEW p \in Pairs, NEW q \in issued', parent'[q] = p
             PROVE  Spent(p)'
  BY DEF SpentOnceDelivered, Child
<1>1. CASE q \in issued
  <2>1. Child(p, q)
    BY <1>1, RowsAccumulate DEF Child, TypeOK
  <2> QED BY <1>1, <2>1, SpentStaysSpent DEF SpentOnceDelivered
<1>2. CASE q \notin issued
  <2>1. \E r \in Requests: Reply(r) /\ q = req[r].minted /\ q # None
    <3>1. ASSUME NEW r \in Requests, Arrival(r) PROVE issued' = issued
      BY <3>1, Zenon DEF Arrival, GenerateTokens, RefreshArrives, LogoutArrives
    <3>2. ASSUME NEW r \in Requests, Step(r), ~Reply(r) PROVE issued' = issued
      BY <3>2, Zenon
         DEF Step, RefreshChecksBlacklist, RefreshFindsRow, RefreshStoresNew,
             RefreshRevokesOld, RefreshBarsOld, LogoutPassesGuard,
             LogoutBarsAccess, LogoutRevokesRefresh, LogoutBarsRefresh,
             LogoutRevokesMany
    <3>3. ASSUME (\E n \in Nodes: Restart(n)) \/ Environment \/ UNCHANGED vars
          PROVE  issued' = issued
      BY <3>3 DEF Restart, Environment, vars
    <3>4. ASSUME NEW r \in Requests, Reply(r)
          PROVE  q = req[r].minted /\ q # None
      BY <1>2, <3>4 DEF Reply
    <3> QED BY <1>2, <3>1, <3>2, <3>3, <3>4 DEF Next
  <2>2. PICK r \in Requests: Reply(r) /\ q = req[r].minted /\ q # None
    BY <2>1
  <2>3. parent[q] = p
    BY <2>2, RowsAccumulate DEF RequestsOK, RequestOK
  <2>4. Spent(p)
    BY <2>2, <2>3, NoneAssumption DEF Reply, ReplyOK
  <2> QED BY <2>4, SpentStaysSpent
<1> QED BY <1>1, <1>2

\* When a client holds the replacement of a refresh token, the old one is spent:
\* the update of its row cannot be reordered after the response, and only its
\* loss together with a lost or finished blacklist entry leaves the old token
\* usable.
THEOREM DeliveredReplacementSpendsOld == Spec => []SpentOnceDelivered
<1> DEFINE Inv == /\ TypeOK /\ RequestsOK
                  /\ BarringOK /\ ReplyOK /\ SpentOnceDelivered
<1>1. Init => Inv
  BY InitTypeOK, InitRequestsOK, NoRequestFields
     DEF Init, BarringOK, ReplyOK, SpentOnceDelivered, LogoutPoints
<1>2. Inv /\ [Next]_vars => Inv'
  BY StepTypeOK, NextRequestsOK, NextBarringOK, NextReplyOK,
     NextSpentOnceDelivered
<1>3. Inv => SpentOnceDelivered
  OBVIOUS
<1> QED BY <1>1, <1>2, <1>3, PTL DEF Spec

-----------------------------------------------------------------------------
(* Logging out everywhere *)

\* The user's sessions end by a logout of all devices that no refresh races.
LEMMA SessionsEndByLogout ==
    ASSUME TypeOK, [Next]_vars, NEW u \in Users, sessions'[u] = "ended"
    PROVE  \/ sessions[u] = "ended"
           \/ \E r \in Requests:
                 /\ ~RefreshUnderWay(u)
                 /\ UNCHANGED <<stored, owner>>
                 /\ {p \in stored: owner[p] = u} \subseteq revoked'
                 /\ \A s \in Requests: pc'[s] = "rfStore" => s # r /\ pc[s] = pc'[s]
                 /\ req' = req
<1>1. ASSUME NEW r \in Requests, Arrival(r)
      PROVE  sessions[u] = "ended"
  <2>1. \/ sessions' = sessions
        \/ \E v \in Users: sessions' = [sessions EXCEPT ![v] = "open"]
    BY <1>1 DEF Arrival, GenerateTokens, RefreshArrives, LogoutArrives,
                historyVars
  <2> QED BY <2>1 DEF TypeOK
<1>2. ASSUME NEW r \in Requests, Step(r), ~LogoutRevokesMany(r)
      PROVE  sessions[u] = "ended"
  BY <1>2, Zenon
     DEF Step, RefreshChecksBlacklist, RefreshFindsRow, RefreshStoresNew,
         RefreshRevokesOld, RefreshBarsOld, LogoutPassesGuard,
         LogoutBarsAccess, LogoutRevokesRefresh, LogoutBarsRefresh, Reply,
         historyVars
<1>3. ASSUME NEW r \in Requests, LogoutRevokesMany(r), sessions[u] # "ended"
      PROVE  /\ ~RefreshUnderWay(u)
             /\ UNCHANGED <<stored, owner>>
             /\ {p \in stored: owner[p] = u} \subseteq revoked'
             /\ \A s \in Requests: pc'[s] = "rfStore" => s # r /\ pc[s] = pc'[s]
             /\ req' = req
  <2>1. /\ req[r].all /\ owner[req[r].access] = u /\ ~RefreshUnderWay(u)
        /\ revoked' = revoked \cup BulkRows(r)
    BY <1>3 DEF LogoutRevokesMany, TypeOK
  <2>2. UNCHANGED <<stored, owner, req>> /\ Goto(r, "reply")
    BY <1>3 DEF LogoutRevokesMany
  <2> QED BY <2>1, <2>2 DEF BulkRows, Goto, TypeOK
<1>4. ASSUME (\E n \in Nodes: Restart(n)) \/ Environment \/ UNCHANGED vars
      PROVE  sessions[u] = "ended"
  BY <1>4 DEF Restart, Environment, vars, historyVars
<1> QED BY <1>1, <1>2, <1>3, <1>4 DEF Next

\* New rows belong to a login, which opens the sessions, or to a refresh that
\* has read its row.
LEMMA NewRowsHaveReason ==
    ASSUME TypeOK, RequestsOK, [Next]_vars, NEW q \in stored' \ stored
    PROVE  \/ owner'[q] \in Users /\ sessions'[owner'[q]] = "open"
           \/ /\ sessions' = sessions
              /\ \E r \in Requests: /\ pc[r] = "rfStore"
                                    /\ owner'[q] = owner[req[r].refresh]
<1>1. ASSUME NEW r \in Requests, Arrival(r)
      PROVE  owner'[q] \in Users /\ sessions'[owner'[q]] = "open"
  <2>1. PICK n \in Nodes, d \in Devices \cup {None}, u \in Users, p \in Pairs:
           GenerateTokens(r, n, u, d, p)
    BY <1>1, Zenon DEF Arrival, RefreshArrives, LogoutArrives, tableVars
  <2> QED BY <2>1 DEF GenerateTokens, StoreRow, TypeOK
<1>2. ASSUME NEW r \in Requests, Step(r)
      PROVE  /\ sessions' = sessions /\ pc[r] = "rfStore"
             /\ owner'[q] = owner[req[r].refresh]
  <2>1. RefreshStoresNew(r)
    BY <1>2, Zenon
       DEF Step, RefreshChecksBlacklist, RefreshFindsRow, RefreshRevokesOld,
           RefreshBarsOld, LogoutPassesGuard, LogoutBarsAccess,
           LogoutRevokesRefresh, LogoutBarsRefresh, LogoutRevokesMany, Reply,
           tableVars
  <2>2. PICK p \in Pairs: \E d: StoreRow(p, owner[req[r].refresh], d)
    BY <2>1, Zenon DEF RefreshStoresNew, tableVars
  <2> QED BY <2>1, <2>2 DEF RefreshStoresNew, StoreRow, TypeOK
<1>3. ASSUME (\E n \in Nodes: Restart(n)) \/ Environment \/ UNCHANGED vars
      PROVE  FALSE
  BY <1>3 DEF Restart, Environment, vars, tableVars
<1> QED BY <1>1, <1>2, <1>3 DEF Next

LEMMA NextEndedSessions ==
    ASSUME TypeOK, RequestsOK, EndedOK, EndedSessionsStayEnded, [Next]_vars
    PROVE  EndedSessionsStayEnded'
<1> SUFFICES ASSUME NEW u \in Users, sessions'[u] = "ended",
                    NEW p \in stored', owner'[p] = u
             PROVE  p \in revoked'
  BY DEF EndedSessionsStayEnded
<1>1. CASE \E r \in Requests: /\ UNCHANGED <<stored, owner>>
                              /\ {q \in stored: owner[q] = u} \subseteq revoked'
  BY <1>1
<1>2. CASE sessions[u] = "ended"
  <2>1. CASE p \in stored
    BY <1>2, <2>1, RowsAccumulate DEF EndedSessionsStayEnded
  <2>2. ASSUME p \notin stored PROVE FALSE
    BY <1>2, <2>2, NewRowsHaveReason DEF EndedOK
  <2> QED BY <2>1, <2>2
<1> QED BY <1>1, <1>2, SessionsEndByLogout

LEMMA NextEndedOK ==
    ASSUME TypeOK, RequestsOK, EndedOK, EndedSessionsStayEnded, [Next]_vars
    PROVE  EndedOK'
<1> SUFFICES ASSUME NEW s \in Requests, pc'[s] = "rfStore",
                    sessions'[owner'[req'[s].refresh]] = "ended"
             PROVE  FALSE
  BY DEF EndedOK
<1> DEFINE p == req[s].refresh
<1>1. ~Arrival(s) /\ req'[s].refresh = p
      /\ (pc[s] = "rfStore" \/ RefreshFindsRow(s))
  <2>1. ASSUME Arrival(s) PROVE FALSE
    BY <2>1 DEF Arrival, GenerateTokens, RefreshArrives, LogoutArrives, Arrive,
                Goto, TypeOK
  <2>2. ASSUME Step(s) PROVE RefreshFindsRow(s) /\ req'[s] = req[s]
    <3>1. RefreshStoresNew(s) => pc'[s] # "rfStore"
      BY Zenon DEF RefreshStoresNew, Goto, Finish, TypeOK
    <3>2. RefreshFindsRow(s)
      BY <2>2, <3>1
         DEF Step, RefreshChecksBlacklist, RefreshRevokesOld, RefreshBarsOld,
             LogoutPassesGuard, LogoutBarsAccess, LogoutRevokesRefresh,
             LogoutBarsRefresh, LogoutRevokesMany, Reply, BulkOrReply, Goto,
             Finish, TypeOK
    <3> QED BY <3>2 DEF RefreshFindsRow, Goto, Finish, TypeOK
  <2> QED BY <2>1, <2>2, OthersWait
<1>2. p \in issued /\ p \in stored /\ owner'[p] = owner[p] /\ owner[p] \in Users
  BY <1>1, RowsAccumulate
     DEF RefreshFindsRow, RequestsOK, RowsOK, RequestOK, RefreshPoints, TypeOK
<1>3. CASE sessions[owner[p]] = "ended"
  <2>1. RefreshFindsRow(s)
    BY <1>1, <1>3 DEF EndedOK
  <2>2. p \notin revoked
    BY <2>1 DEF RefreshFindsRow, Goto, Finish, TypeOK
  <2> QED BY <1>2, <1>3, <2>2 DEF EndedSessionsStayEnded
<1>4. CASE sessions[owner[p]] # "ended"
  <2>1. PICK r \in Requests:
           /\ ~RefreshUnderWay(owner[p])
           /\ \A t \in Requests: pc'[t] = "rfStore" => pc[t] = pc'[t]
    BY <1>1, <1>2, <1>4, SessionsEndByLogout
  <2> QED BY <1>1, <2>1 DEF RefreshUnderWay
<1> QED BY <1>3, <1>4

\* A logout of all devices that met no refresh under way is final: no request in
\* flight or to come, on any process, gives the user a live refresh token again
\* without a new login.
THEOREM LogoutOfAllDevicesIsFinal == Spec => []EndedSessionsStayEnded
<1> DEFINE Inv == TypeOK /\ RequestsOK /\ EndedOK /\ EndedSessionsStayEnded
<1>1. Init => Inv
  BY InitTypeOK, InitRequestsOK DEF Init, EndedOK, EndedSessionsStayEnded
<1>2. Inv /\ [Next]_vars => Inv'
  BY StepTypeOK, NextRequestsOK, NextEndedOK, NextEndedSessions
<1>3. Inv => EndedSessionsStayEnded
  OBVIOUS
<1> QED BY <1>1, <1>2, <1>3, PTL DEF Spec

-----------------------------------------------------------------------------
(* Whose rows a request may touch *)

LEMMA StepTouchesConcernedRows ==
    ASSUME TypeOK, RequestsOK, [Next]_vars, NEW p \in stored,
           p \in revoked' \ revoked \/ replacedBy'[p] # replacedBy[p]
    PROVE  \E r \in Requests: pc[r] # "idle" /\ Concerns(r, p)
<1>1. CASE replacedBy'[p] # replacedBy[p]
  <2>1. PICK r \in Requests:
           /\ pc[r] = "rfRevoke"
           /\ replacedBy' = [replacedBy EXCEPT ![req[r].refresh] = req[r].minted]
    BY <1>1, ReplacedByRotation
  <2> QED BY <1>1, <2>1 DEF Concerns, TypeOK
<1>2. CASE p \in revoked' \ revoked
  <2>1. ASSUME NEW r \in Requests, Arrival(r) PROVE FALSE
    BY <1>2, <2>1 DEF Arrival, GenerateTokens, RefreshArrives, LogoutArrives,
                      StoreRow, tableVars
  <2>2. ASSUME NEW r \in Requests, Step(r)
        PROVE  \/ RefreshRevokesOld(r)
               \/ LogoutRevokesRefresh(r)
               \/ LogoutRevokesMany(r)
    <3>1. RefreshStoresNew(r) => revoked' = revoked
      BY Zenon DEF RefreshStoresNew, StoreRow, tableVars
    <3> QED BY <1>2, <2>2, <3>1
            DEF Step, RefreshChecksBlacklist, RefreshFindsRow, RefreshBarsOld,
                LogoutPassesGuard, LogoutBarsAccess, LogoutBarsRefresh, Reply,
                tableVars
  <2>3. ASSUME NEW r \in Requests,
               RefreshRevokesOld(r) \/ LogoutRevokesRefresh(r)
        PROVE  pc[r] # "idle" /\ Concerns(r, p)
    BY <1>2, <2>3 DEF RefreshRevokesOld, LogoutRevokesRefresh, Concerns
  <2>4. ASSUME NEW r \in Requests, LogoutRevokesMany(r)
        PROVE  pc[r] # "idle" /\ Concerns(r, p)
    <3>1. pc[r] = "loBulk" /\ req[r].access \in Pairs
      BY <2>4 DEF LogoutRevokesMany, RequestsOK, RequestOK, LogoutPoints, TypeOK
    <3>2. owner[req[r].access] = owner[p]
      BY <1>2, <2>4 DEF LogoutRevokesMany, BulkRows
    <3> QED BY <3>1, <3>2, NoneAssumption DEF Concerns
  <2>5. ASSUME (\E n \in Nodes: Restart(n)) \/ Environment \/ UNCHANGED vars
        PROVE  FALSE
    BY <1>2, <2>5 DEF Restart, Environment, vars, tableVars
  <2> QED BY <2>1, <2>2, <2>3, <2>4, <2>5 DEF Next
<1> QED BY <1>1, <1>2

\* No request revokes or replaces a token of a user it has no token of, even
\* when users share a device ID (revokeTokensByDeviceId is scoped to the user).
THEOREM RowsTouchedOnlyByTheConcerned == Spec => OnlyConcernedRequestsRevoke
<1>1. TypeOK /\ RequestsOK /\ [Next]_vars =>
        [\A p \in stored:
            (p \in revoked' \ revoked \/ replacedBy'[p] # replacedBy[p])
               => \E r \in Requests: pc[r] # "idle" /\ Concerns(r, p)]_vars
  BY StepTouchesConcernedRows
<1> QED BY <1>1, TypeSafety, PTL DEF Spec, OnlyConcernedRequestsRevoke
=============================================================================
