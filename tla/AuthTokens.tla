----------------------------- MODULE AuthTokens -----------------------------
(***************************************************************************)
(* TokenService over the refresh_tokens table and the token blacklist:     *)
(* issuing a token pair, rotating a refresh token, logging out.            *)
(*                                                                         *)
(* A request is a slot r with a program counter: one action per await      *)
(* point, so that requests interleave exactly where the event loop may     *)
(* switch.  Signing is synchronous and belongs to the action that stores   *)
(* the signed token.  A pair p stands for one access token and one refresh *)
(* token signed together; p is also the jti of the refresh token's row.    *)
(***************************************************************************)
EXTENDS TokenBlacklist

CONSTANTS
    Requests,       \* slots for requests in flight
    Users,
    Devices,
    None,           \* an absent option or column
    MaxArrivals     \* bound on the requests that arrive in a behaviour

ASSUME NoneAssumption == None \notin Pairs \cup Users \cup Devices

ASSUME ArrivalsAssumption == MaxArrivals \in Nat

VARIABLES
    stored,         \* pairs whose refresh token has a row
    owner,          \* owner[p]: the row's userId and the tokens' sub claim
    device,         \* device[p]: the row's deviceId
    revoked,        \* rows with revokedAt set
    replacedBy,     \* replacedBy[p]: the row's replacedBy column
    issued,         \* pairs a response delivered to a client
    pc,             \* pc[r]: the await point request r is at
    req,            \* req[r]: the request's parameters and locals
    arrivals,       \* requests that arrived so far
    parent,         \* history: the refresh token p was minted from
    lost,           \* history: rows whose revocation update was lost
    sessions        \* history: sessions[u] since the last logout of all devices

tableVars == <<stored, owner, device, revoked, replacedBy>>
historyVars == <<parent, lost, sessions>>
vars == <<blacklistVars, tableVars, issued, pc, req, arrivals, historyVars>>

RefreshPoints == {"rfCheck", "rfFind", "rfStore", "rfRevoke", "rfBar"}
LogoutPoints == {"loGuard", "loAccess", "loRefresh", "loBar", "loBulk"}
Points == {"idle", "reply"} \cup RefreshPoints \cup LogoutPoints

Request == [node: Nodes \cup {None}, access: Pairs \cup {None},
            refresh: Pairs \cup {None}, device: Devices \cup {None},
            all: BOOLEAN, minted: Pairs \cup {None}, stale: SUBSET Pairs]

\* `stale' is history: the presented token, if it was revoked by then.
NoRequest == [node |-> None, access |-> None, refresh |-> None,
              device |-> None, all |-> FALSE, minted |-> None, stale |-> {}]

IssueRequest(n, p) == [NoRequest EXCEPT !.node = n, !.minted = p]

RefreshRequest(n, p, d, stale) ==
    [NoRequest EXCEPT !.node = n, !.refresh = p, !.device = d, !.stale = stale]

LogoutRequest(n, a, p, d, all) ==
    [NoRequest EXCEPT !.node = n, !.access = a, !.refresh = p, !.device = d,
                      !.all = all]

TypeOK ==
    /\ BlacklistTypeOK
    /\ stored \subseteq Pairs
    /\ owner \in [Pairs -> Users \cup {None}]
    /\ device \in [Pairs -> Devices \cup {None}]
    /\ revoked \subseteq stored
    /\ replacedBy \in [Pairs -> Pairs \cup {None}]
    /\ issued \subseteq stored
    /\ pc \in [Requests -> Points]
    /\ req \in [Requests -> Request]
    /\ arrivals \in Nat
    /\ parent \in [Pairs -> Pairs \cup {None}]
    /\ lost \subseteq Pairs
    /\ sessions \in [Users -> {"open", "ended", "raced"}]

Init ==
    /\ BlacklistInit
    /\ stored = {}
    /\ owner = [p \in Pairs |-> None]
    /\ device = [p \in Pairs |-> None]
    /\ revoked = {}
    /\ replacedBy = [p \in Pairs |-> None]
    /\ issued = {}
    /\ pc = [r \in Requests |-> "idle"]
    /\ req = [r \in Requests |-> NoRequest]
    /\ arrivals = 0
    /\ parent = [p \in Pairs |-> None]
    /\ lost = {}
    /\ sessions = [u \in Users |-> "open"]

AccessKey(p) == <<"access", p>>
RefreshKey(p) == <<"refresh", p>>

-----------------------------------------------------------------------------
(* Request plumbing *)

Goto(r, point) == pc' = [pc EXCEPT ![r] = point]

\* The request ends with an error response, or its response is never sent.
Finish(r) ==
    /\ Goto(r, "idle")
    /\ req' = [req EXCEPT ![r] = NoRequest]

Arrive(r, point, request) ==
    /\ pc[r] = "idle"
    /\ arrivals < MaxArrivals
    /\ arrivals' = arrivals + 1
    /\ Goto(r, point)
    /\ req' = [req EXCEPT ![r] = request]

\* createRefreshToken: the row of a freshly signed pair.
StoreRow(p, u, d) ==
    /\ p \notin stored
    /\ stored' = stored \cup {p}
    /\ owner' = [owner EXCEPT ![p] = u]
    /\ device' = [device EXCEPT ![p] = d]
    /\ UNCHANGED <<revoked, replacedBy>>

\* The response reaches the client, or the connection is gone by then.
Reply(r) ==
    /\ pc[r] = "reply"
    /\ \/ issued' = issued \cup ({req[r].minted} \ {None})
       \/ UNCHANGED issued
    /\ Finish(r)
    /\ UNCHANGED <<blacklistVars, tableVars, historyVars>>

-----------------------------------------------------------------------------
(* generateTokens *)

\* Mutant: a failed insert is logged and the tokens are returned anyway.
GenerateTokensUnstored(r, n, u, d, p) ==
    /\ Arrive(r, "reply", IssueRequest(n, p))
    /\ StoreRow(p, u, d) \/ UNCHANGED tableVars
    /\ sessions' = [sessions EXCEPT ![u] = "open"]
    /\ UNCHANGED <<blacklistVars, issued, parent, lost>>

\* A login or registration has been accepted and its pair is stored.  (When
\* the insert fails nothing is stored and the request fails: a stutter.)
GenerateTokens(r, n, u, d, p) ==
    /\ Arrive(r, "reply", IssueRequest(n, p))
    /\ StoreRow(p, u, d)
    /\ sessions' = [sessions EXCEPT ![u] = "open"]
    /\ UNCHANGED <<blacklistVars, issued, parent, lost>>

-----------------------------------------------------------------------------
(* refreshToken *)

\* jwtService.verify accepts the signature and the exp claim.
RefreshArrives(r, n, p, d) ==
    /\ p \in issued
    /\ age[RefreshKey(p)] # "expired"
    /\ Arrive(r, "rfCheck", RefreshRequest(n, p, d, revoked \cap {p}))
    /\ UNCHANGED <<blacklistVars, tableVars, issued, historyVars>>

RefreshChecksBlacklist(r) ==
    /\ pc[r] = "rfCheck"
    /\ \E answer \in BOOLEAN:
          /\ CheckBlacklist(req[r].node, RefreshKey(req[r].refresh), answer)
          /\ IF answer THEN Finish(r) ELSE Goto(r, "rfFind") /\ UNCHANGED req
    /\ UNCHANGED <<tableVars, issued, historyVars>>

\* Mutant: the row has to exist, but revokedAt is not looked at.
RefreshFindsAnyRow(r) ==
    /\ pc[r] = "rfFind"
    /\ \/ /\ req[r].refresh \in stored
          /\ Goto(r, "rfStore")
          /\ UNCHANGED req
       \/ Finish(r)
    /\ UNCHANGED <<blacklistVars, tableVars, issued, historyVars>>

\* findByJti: only an unrevoked row goes on; the query itself may fail.
RefreshFindsRow(r) ==
    /\ pc[r] = "rfFind"
    /\ \/ /\ req[r].refresh \in stored \ revoked
          /\ Goto(r, "rfStore")
          /\ UNCHANGED req
       \/ Finish(r)
    /\ UNCHANGED <<blacklistVars, tableVars, issued, historyVars>>

\* Mutant: a failed insert of the new token is logged and rotation goes on.
RefreshGoesOnUnstored(r) ==
    LET p == req[r].refresh
    IN  /\ pc[r] = "rfStore"
        /\ \E q \in Pairs \ stored:
              /\ StoreRow(q, owner[p], device[p]) \/ UNCHANGED tableVars
              /\ parent' = [parent EXCEPT ![q] = p]
              /\ Goto(r, "rfRevoke")
              /\ req' = [req EXCEPT ![r].minted = q]
        /\ UNCHANGED <<blacklistVars, issued, lost, sessions>>

\* getUserById and createRefreshToken.  A missing user or a failing call ends
\* the request; the failing insert may have been committed all the same.
RefreshStoresNew(r) ==
    LET p == req[r].refresh
        d == IF req[r].device # None THEN req[r].device ELSE device[p]
    IN  /\ pc[r] = "rfStore"
        /\ \/ \E q \in Pairs:
                 /\ StoreRow(q, owner[p], d)
                 /\ parent' = [parent EXCEPT ![q] = p]
                 /\ \/ /\ Goto(r, "rfRevoke")
                       /\ req' = [req EXCEPT ![r].minted = q]
                    \/ Finish(r)
           \/ /\ Finish(r)
              /\ UNCHANGED <<tableVars, parent>>
        /\ UNCHANGED <<blacklistVars, issued, lost, sessions>>

\* Mutant: a revocation that returned null skips the blacklist.
RefreshRevokesOrReplies(r) ==
    LET p == req[r].refresh
    IN  /\ pc[r] = "rfRevoke"
        /\ \/ /\ revoked' = revoked \cup {p}
              /\ replacedBy' = [replacedBy EXCEPT ![p] = req[r].minted]
              /\ Goto(r, "rfBar")
              /\ UNCHANGED lost
           \/ /\ lost' = lost \cup {p}
              /\ Goto(r, "reply")
              /\ UNCHANGED <<revoked, replacedBy>>
        /\ UNCHANGED <<blacklistVars, stored, owner, device, issued, req,
                       parent, sessions>>

\* revokeTokenByJti(old, {replacedBy}): unconditional, its errors swallowed.
RefreshRevokesOld(r) ==
    LET p == req[r].refresh
    IN  /\ pc[r] = "rfRevoke"
        /\ \/ /\ revoked' = revoked \cup {p}
              /\ replacedBy' = [replacedBy EXCEPT ![p] = req[r].minted]
              /\ UNCHANGED lost
           \/ /\ lost' = lost \cup {p}
              /\ UNCHANGED <<revoked, replacedBy>>
        /\ Goto(r, "rfBar")
        /\ UNCHANGED <<blacklistVars, stored, owner, device, issued, req,
                       parent, sessions>>

RefreshBarsOld(r) ==
    /\ pc[r] = "rfBar"
    /\ AddToBlacklist(req[r].node, RefreshKey(req[r].refresh))
    /\ Goto(r, "reply")
    /\ UNCHANGED <<tableVars, issued, req, historyVars>>

-----------------------------------------------------------------------------
(* logout *)

\* The route is behind JwtAuthGuard, which verifies a's signature and exp; the
\* refresh token, the device and the `all' flag come from the body.
LogoutArrives(r, n, a, p, d, all) ==
    /\ a \in issued
    /\ p \in issued \cup {None}
    /\ age[AccessKey(a)] # "expired"
    /\ Arrive(r, "loGuard", LogoutRequest(n, a, p, d, all))
    /\ UNCHANGED <<blacklistVars, tableVars, issued, historyVars>>

\* JwtStrategy.validate: the blacklist, then the user, who may be disabled.
LogoutPassesGuard(r) ==
    /\ pc[r] = "loGuard"
    /\ \E answer \in BOOLEAN:
          /\ CheckBlacklist(req[r].node, AccessKey(req[r].access), answer)
          /\ \/ ~answer /\ Goto(r, "loAccess") /\ UNCHANGED req
             \/ Finish(r)
    /\ UNCHANGED <<tableVars, issued, historyVars>>

\* Where logout goes once the presented tokens are dealt with.
BulkOrReply(r) ==
    IF req[r].all \/ req[r].device # None THEN "loBulk" ELSE "reply"

\* Mutant: the presented refresh token is blacklisted but its row is left alone.
LogoutSkipsRow(r) ==
    /\ pc[r] = "loAccess"
    /\ AddToBlacklist(req[r].node, AccessKey(req[r].access))
    /\ Goto(r, IF req[r].refresh # None THEN "loBar" ELSE BulkOrReply(r))
    /\ UNCHANGED <<tableVars, issued, req, historyVars>>

LogoutBarsAccess(r) ==
    /\ pc[r] = "loAccess"
    /\ AddToBlacklist(req[r].node, AccessKey(req[r].access))
    /\ Goto(r, IF req[r].refresh # None THEN "loRefresh" ELSE BulkOrReply(r))
    /\ UNCHANGED <<tableVars, issued, req, historyVars>>

\* revokeTokenByJti, or revokeToken by hash when the refresh token no longer
\* verifies: the same update of the same row, its errors swallowed.
LogoutRevokesRefresh(r) ==
    /\ pc[r] = "loRefresh"
    /\ \/ revoked' = revoked \cup {req[r].refresh} /\ UNCHANGED lost
       \/ lost' = lost \cup {req[r].refresh} /\ UNCHANGED revoked
    /\ Goto(r, "loBar")
    /\ UNCHANGED <<blacklistVars, stored, owner, device, replacedBy, issued,
                   req, parent, sessions>>

LogoutBarsRefresh(r) ==
    /\ pc[r] = "loBar"
    /\ AddToBlacklist(req[r].node, RefreshKey(req[r].refresh))
    /\ Goto(r, BulkOrReply(r))
    /\ UNCHANGED <<tableVars, issued, req, historyVars>>

\* Mutant: a device ID in the body wins over revokeAllDevices.
DeviceFirstRows(r) ==
    {p \in stored \ revoked:
        /\ owner[p] = owner[req[r].access]
        /\ req[r].device \in {None, device[p]}}

\* Mutant: the device update has no userId in its where clause.
AnyUsersDeviceRows(r) ==
    {p \in stored \ revoked:
        IF req[r].all THEN owner[p] = owner[req[r].access]
                      ELSE device[p] = req[r].device}

\* The rows that revokeAllTokensByUserId or revokeTokensByDeviceId updates.
BulkRows(r) ==
    {p \in stored \ revoked:
        /\ owner[p] = owner[req[r].access]
        /\ req[r].all \/ device[p] = req[r].device}

\* A refresh of one of u's tokens has read its row and will store a new one.
RefreshUnderWay(u) ==
    \E s \in Requests: pc[s] = "rfStore" /\ owner[req[s].refresh] = u

\* The bulk update; when it throws, logout answers that it failed.
LogoutRevokesMany(r) ==
    LET u == owner[req[r].access]
    IN  /\ pc[r] = "loBulk"
        /\ Goto(r, "reply")
        /\ \/ /\ revoked' = revoked \cup BulkRows(r)
              /\ sessions' =
                    IF req[r].all
                    THEN [sessions EXCEPT ![u] =
                            IF RefreshUnderWay(u) THEN "raced" ELSE "ended"]
                    ELSE sessions
           \/ UNCHANGED <<revoked, sessions>>
        /\ UNCHANGED <<blacklistVars, stored, owner, device, replacedBy,
                       issued, req, parent, lost>>

-----------------------------------------------------------------------------
(* Environment *)

\* Process n dies with its requests, its Map and its Redis connection.
Restart(n) ==
    /\ LoseProcess(n)
    /\ pc' = [r \in Requests |-> IF req[r].node = n THEN "idle" ELSE pc[r]]
    /\ req' = [r \in Requests |-> IF req[r].node = n THEN NoRequest ELSE req[r]]
    /\ UNCHANGED <<tableVars, issued, arrivals, historyVars>>

Environment ==
    /\ \/ \E n \in Nodes: RedisConnects(n) \/ RedisDisconnects(n)
       \/ \E k \in Keys: \/ RedisEvicts(k)
                         \/ EnterLastSecond(k)
                         \/ RedisTtlEnds(k)
                         \/ Expire(k)
    /\ UNCHANGED <<tableVars, issued, pc, req, arrivals, historyVars>>

Arrival(r) ==
    \E n \in Nodes, d \in Devices \cup {None}:
       \/ \E u \in Users, p \in Pairs: GenerateTokens(r, n, u, d, p)
       \/ \E p \in Pairs: RefreshArrives(r, n, p, d)
       \/ \E a \in Pairs, p \in Pairs \cup {None}, all \in BOOLEAN:
             LogoutArrives(r, n, a, p, d, all)

Step(r) ==
    /\ \/ RefreshChecksBlacklist(r)
       \/ RefreshFindsRow(r)
       \/ RefreshStoresNew(r)
       \/ RefreshRevokesOld(r)
       \/ RefreshBarsOld(r)
       \/ LogoutPassesGuard(r)
       \/ LogoutBarsAccess(r)
       \/ LogoutRevokesRefresh(r)
       \/ LogoutBarsRefresh(r)
       \/ LogoutRevokesMany(r)
       \/ Reply(r)
    /\ UNCHANGED arrivals

Next ==
    \/ \E r \in Requests: Arrival(r) \/ Step(r)
    \/ \E n \in Nodes: Restart(n)
    \/ Environment

Spec == Init /\ [][Next]_vars

-----------------------------------------------------------------------------
(* Properties *)

Child(p, q) == q \in stored /\ parent[q] = p

\* Key k is on some process's Map or in Redis.
BarredSomewhere(k) == k \in redis \/ \E n \in Nodes: k \in local[n]

\* The refresh token p cannot be exchanged any more, as far as the code sees to
\* it: its row is revoked or, that update lost, its key was blacklisted.
Spent(p) ==
    \/ p \in revoked
    \/ /\ p \in lost
       /\ \/ BarredSomewhere(RefreshKey(p))
          \/ age[RefreshKey(p)] # "valid"
          \/ losses > 0

\* A row's replacedBy always names a stored token of the same user that was
\* minted from it, and the row is revoked: rotation stores the new token before
\* it touches the old one, whatever fails or interleaves (token.service.ts,
\* refreshToken).
ReplacementStored ==
    \A p \in Pairs: replacedBy[p] # None =>
        /\ p \in revoked
        /\ Child(p, replacedBy[p])
        /\ owner[replacedBy[p]] = owner[p]

\* Once a client holds the token minted from p, p is revoked in the table; if
\* that update was lost, p is still on the blacklist, unless its lifetime ended
\* or a restart or an eviction dropped the entry.
SpentOnceDelivered ==
    \A p \in Pairs, q \in issued: Child(p, q) => Spent(p)

\* The two stores of the "double check" never disagree the wrong way round: a
\* refresh token on the blacklist is revoked in the table, or its update failed.
StoresAgree ==
    \A p \in Pairs: BarredSomewhere(RefreshKey(p)) => p \in revoked \cup lost

\* A refresh request whose token was already revoked when it arrived never gets
\* as far as minting a new one, wherever in the four awaits it is looked at.
NoStaleExchange ==
    \A r \in Requests:
        pc[r] \in {"rfStore", "rfRevoke", "rfBar"} => req[r].stale = {}

\* A logout of all devices that found no refresh under way leaves the user
\* without a live refresh token until the next login, whatever requests with
\* the old tokens are still in flight or arrive later.
EndedSessionsStayEnded ==
    \A u \in Users: sessions[u] = "ended" =>
        \A p \in stored: owner[p] = u => p \in revoked

Concerns(r, p) ==
    \/ req[r].refresh = p
    \/ req[r].access # None /\ owner[req[r].access] = owner[p]

\* A row is revoked or marked replaced only by a request that presented this
\* very token or an access token of its owner: users who share a device ID, and
\* requests interleaved with a user's own, leave the user's rows alone.
OnlyConcernedRequestsRevoke ==
    [][\A p \in stored:
          (p \in revoked' \ revoked \/ replacedBy'[p] # replacedBy[p])
             => \E r \in Requests: pc[r] # "idle" /\ Concerns(r, p)]_vars

-----------------------------------------------------------------------------
(* The inductive strengthening: what a request in flight has established   *)
(* stays true while others interleave with it.                             *)

RequestOK(r) ==
    /\ pc[r] \in RefreshPoints => /\ req[r].node \in Nodes
                                  /\ req[r].refresh \in issued
    /\ pc[r] \in LogoutPoints => /\ req[r].node \in Nodes
                                 /\ req[r].access \in issued
                                 /\ req[r].refresh \in issued \cup {None}
    /\ pc[r] \in {"loRefresh", "loBar"} => req[r].refresh # None
    /\ req[r].minted \in stored \cup {None}
    /\ pc[r] \in {"rfRevoke", "rfBar"} =>
          /\ req[r].minted \in stored
          /\ parent[req[r].minted] = req[r].refresh
          /\ owner[req[r].minted] = owner[req[r].refresh]

RowsOK ==
    \A p \in Pairs: /\ p \in stored => owner[p] \in Users
                    /\ p \notin stored => parent[p] = None

RequestsOK == RowsOK /\ \A r \in Requests: RequestOK(r)

\* A token about to be blacklisted has had its row dealt with.
BarringOK ==
    \A r \in Requests: pc[r] \in {"rfBar", "loBar"} =>
        req[r].refresh \in revoked \cup lost

\* A token that was revoked on arrival is still revoked.
StaleOK == \A r \in Requests: req[r].stale \subseteq revoked \cap {req[r].refresh}

\* A response is under way only when the token it replaces is spent, and a
\* logout's response carries no token.
ReplyOK ==
    \A r \in Requests:
        LET q == req[r].minted
        IN  /\ pc[r] \in LogoutPoints => q = None
            /\ pc[r] = "reply" /\ q # None /\ parent[q] # None
                  => Spent(parent[q])

\* No refresh of an ended user's token is past the reading of its row.
EndedOK ==
    \A r \in Requests:
        pc[r] = "rfStore" => sessions[owner[req[r].refresh]] # "ended"

-----------------------------------------------------------------------------
(* What the documentation says and the code does not keep *)

\* Documented, and not kept when two requests refresh the same token at once:
\* a refresh token is exchanged once (token.service.ts:236).
SingleUse ==
    \A p \in Pairs: \A q1, q2 \in issued:
        Child(p, q1) /\ Child(p, q2) => q1 = q2
=============================================================================
