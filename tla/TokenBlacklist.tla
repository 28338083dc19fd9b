--------------------------- MODULE TokenBlacklist ---------------------------
(***************************************************************************)
(* TokenBlacklistService: the jti blacklist every application process      *)
(* keeps, in the shared Redis while its connection is ready and in a       *)
(* process-local Map otherwise.  The actions here are building blocks: a   *)
(* request of AuthTokens performs an Add or a Check at one of its await    *)
(* points, and the environment actions move time, the Redis connection and *)
(* the processes.                                                          *)
(*                                                                         *)
(* Time is abstracted to the age of a key's token: in its lifetime, in its *)
(* last second, or past its exp claim.  The last second is told apart      *)
(* because Add rounds the Redis TTL down to whole seconds, so an entry may *)
(* leave Redis up to a second before the token expires (proved in          *)
(* AuthTokensProofs!RedisEntryOutlivesAllButLastSecond).                   *)
(***************************************************************************)
EXTENDS Integers

CONSTANTS
    Nodes,          \* application processes
    Pairs,          \* token pairs: the access and refresh token of one issue
    Expirable,      \* keys whose token may run out within the behaviour
    MaxFaults,      \* bound on lost connections and failed Redis commands
    MaxLosses       \* bound on process restarts and LRU evictions

Scopes == {"access", "refresh"}

\* composeKey: one blacklist key per scope and jti.
Keys == Scopes \X Pairs

ASSUME BlacklistAssumption ==
    /\ Expirable \subseteq Keys
    /\ MaxFaults \in Nat
    /\ MaxLosses \in Nat

VARIABLES
    redis,          \* keys present in Redis
    local,          \* local[n]: keys in the fallback Map of process n
    ready,          \* processes whose Redis client has status "ready"
    age,            \* age[k]: "valid", "lastSecond" or "expired"
    faults,         \* connection losses and failed commands so far
    losses          \* restarts and evictions so far

blacklistVars == <<redis, local, ready, age, faults, losses>>

BlacklistTypeOK ==
    /\ redis \subseteq Keys
    /\ local \in [Nodes -> SUBSET Keys]
    /\ ready \subseteq Nodes
    /\ age \in [Keys -> {"valid", "lastSecond", "expired"}]
    /\ faults \in Nat
    /\ losses \in Nat

\* A process accepts requests before its Redis client is connected.
BlacklistInit ==
    /\ redis = {}
    /\ local = [n \in Nodes |-> {}]
    /\ ready = {}
    /\ age = [k \in Keys |-> "valid"]
    /\ faults = 0
    /\ losses = 0

\* The TTL in whole seconds that add gives the Redis key.
TtlSec(ttlMs) == IF ttlMs \div 1000 > 1 THEN ttlMs \div 1000 ELSE 1

-----------------------------------------------------------------------------
(* Operations *)

\* What isTokenBlacklisted(k) answers on process n when no command fails: a
\* ready process asks Redis alone, whatever its own Map holds.
Listed(n, k) == IF n \in ready THEN k \in redis ELSE k \in local[n]

FellBack(n, k) == local' = [local EXCEPT ![n] = @ \cup {k}]

\* add(k) on process n.  A command that fails may still have reached Redis.
AddToBlacklist(n, k) ==
    /\ \/ /\ age[k] = "expired"
          /\ UNCHANGED <<redis, local, faults>>
       \/ /\ age[k] # "expired"
          /\ n \in ready
          /\ redis' = redis \cup {k}
          /\ UNCHANGED <<local, faults>>
       \/ /\ age[k] # "expired"
          /\ n \in ready
          /\ faults < MaxFaults
          /\ faults' = faults + 1
          /\ redis' \in {redis, redis \cup {k}}
          /\ FellBack(n, k)
       \/ /\ age[k] # "expired"
          /\ n \notin ready
          /\ FellBack(n, k)
          /\ UNCHANGED <<redis, faults>>
    /\ UNCHANGED <<ready, age, losses>>

\* isTokenBlacklisted(k) on process n answers `answer'; a command that fails
\* falls back to the Map.
CheckBlacklist(n, k, answer) ==
    /\ \/ /\ answer = Listed(n, k)
          /\ UNCHANGED faults
       \/ /\ n \in ready
          /\ faults < MaxFaults
          /\ faults' = faults + 1
          /\ answer = (k \in local[n])
    /\ UNCHANGED <<redis, local, ready, age, losses>>

-----------------------------------------------------------------------------
(* Environment *)

\* The client of process n becomes "ready"; what its Map holds is not copied.
RedisConnects(n) ==
    /\ n \notin ready
    /\ ready' = ready \cup {n}
    /\ UNCHANGED <<redis, local, age, faults, losses>>

RedisDisconnects(n) ==
    /\ n \in ready
    /\ faults < MaxFaults
    /\ faults' = faults + 1
    /\ ready' = ready \ {n}
    /\ UNCHANGED <<redis, local, age, losses>>

\* The deployed Redis evicts any key (allkeys-lru) under memory pressure.
RedisEvicts(k) ==
    /\ k \in redis
    /\ losses < MaxLosses
    /\ losses' = losses + 1
    /\ redis' = redis \ {k}
    /\ UNCHANGED <<local, ready, age, faults>>

EnterLastSecond(k) ==
    /\ k \in Expirable
    /\ age[k] = "valid"
    /\ age' = [age EXCEPT ![k] = "lastSecond"]
    /\ UNCHANGED <<redis, local, ready, faults, losses>>

\* The floored TTL of k's entry may run out at any time in the last second.
RedisTtlEnds(k) ==
    /\ age[k] = "lastSecond"
    /\ k \in redis
    /\ redis' = redis \ {k}
    /\ UNCHANGED <<local, ready, age, faults, losses>>

\* The token of k expires; the Map's timers drop its entries.
Expire(k) ==
    /\ age[k] = "lastSecond"
    /\ age' = [age EXCEPT ![k] = "expired"]
    /\ redis' = redis \ {k}
    /\ local' = [n \in Nodes |-> local[n] \ {k}]
    /\ UNCHANGED <<ready, faults, losses>>

\* A restarted process starts with an empty Map and an unconnected client.
LoseProcess(n) ==
    /\ losses < MaxLosses
    /\ losses' = losses + 1
    /\ local' = [local EXCEPT ![n] = {}]
    /\ ready' = ready \ {n}
    /\ UNCHANGED <<redis, age, faults>>
=============================================================================
