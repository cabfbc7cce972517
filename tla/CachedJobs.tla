----------------------------- MODULE CachedJobs -----------------------------
(***************************************************************************)
(* The cache-aside job service of the API (internal/service on pkg/redis): *)
(* requests look their answer up in Redis, ask the database on a miss and  *)
(* store what it said, while processors and the janitor change the table.  *)
(*                                                                         *)
(* Of an answer only its age matters: 0 as long as the table still says    *)
(* the same, then 1 and one more for every tick since the statement that   *)
(* changed the table.  Of the table only which jobs it holds matters.      *)
(***************************************************************************)
EXTENDS Naturals

CONSTANTS
    Requests,        \* requests at one time, of all API processes
    Jobs, Filters,   \* ids and search filters that clients ask for
    TTLCacheSearch, TTLCacheJob, TTLCacheStats,
    Timeout,         \* deadline of a request's store accesses (60 s)
    Faults           \* the failures that may happen in this instance

Stats == <<"stats", "market">>

Key == ({"job"} \X Jobs) \cup ({"search"} \X Filters) \cup {Stats}

ttl(k) ==
    CASE k[1] = "job"    -> TTLCacheJob
      [] k[1] = "search" -> TTLCacheSearch
      [] k[1] = "stats"  -> TTLCacheStats

ASSUME CacheAssumption ==
    /\ TTLCacheSearch \in Nat \ {0}
    /\ TTLCacheJob \in Nat \ {0}
    /\ TTLCacheStats \in Nat \ {0}
    /\ Timeout \in Nat
    /\ Faults \subseteq {"redisError", "dbError"}

VARIABLES
    present,   \* present[j]: job j has a row
    gone,      \* history, gone[j]: ticks for which it has had none
    age,       \* age[k]: the age of the answer cached under k
    life,      \* life[k]: ticks until Redis drops it, 0 if there is none
    at,        \* at[r]: the access request r stands at
    asks,      \* asks[r]: the key of what it asks for
    clock,     \* clock[r]: ticks since it came in
    seen       \* seen[r]: the age of what its first query saw

tableVars == <<present, gone>>
cacheVars == <<age, life>>
reqVars == <<at, asks, clock, seen>>
vars == <<tableVars, cacheVars, reqVars>>

Busy == {"get", "query", "more", "set"}

(* A row that is deleted now may be in the cache for no longer than this;  *)
(* gone counts no further.                                                 *)
Forgetting == TTLCacheJob + Timeout

TypeOK ==
    /\ present \in [Jobs -> BOOLEAN]
    /\ gone \in [Jobs -> 0 .. Forgetting]
    /\ age \in [Key -> Nat]
    /\ life \in [Key -> Nat]
    /\ \A k \in Key : life[k] <= ttl(k)
    /\ at \in [Requests -> {"idle"} \cup Busy]
    /\ asks \in [Requests -> Key]
    /\ clock \in [Requests -> 0 .. Timeout + 1]
    /\ seen \in [Requests -> Nat]

Init ==
    /\ present = [j \in Jobs |-> FALSE]
    /\ gone = [j \in Jobs |-> 0]
    /\ age = [k \in Key |-> 0]
    /\ life = [k \in Key |-> 0]
    /\ at = [r \in Requests |-> "idle"]
    /\ asks = [r \in Requests |-> Stats]
    /\ clock = [r \in Requests |-> 0]
    /\ seen = [r \in Requests |-> 0]

-----------------------------------------------------------------------------
(* The table, and time.                                                    *)

(* Requests that hold what a query saw. *)
Reading == {r \in Requests : at[r] \in {"more", "set"}}

Replaced(n) == IF n = 0 THEN 1 ELSE n
Older(n) == IF n = 0 THEN 0 ELSE n + 1

(* The statements of other processes: Upsert inserts or updates a row, the *)
(* janitor deletes those that are too old.  Every answer may be another    *)
(* one after it.                                                           *)
Upsert(j) == present' = [present EXCEPT ![j] = TRUE]
DeleteOlderThan == present' \in {p \in [Jobs -> BOOLEAN] : \A j \in Jobs : p[j] => present[j]}

Write ==
    /\ DeleteOlderThan \/ \E j \in Jobs : Upsert(j)
    /\ gone' = [j \in Jobs |-> IF present[j] \/ present'[j] THEN 0 ELSE gone[j]]
    /\ age' = [k \in Key |-> IF life[k] > 0 THEN Replaced(age[k]) ELSE 0]
    /\ seen' = [r \in Requests |-> IF r \in Reading THEN Replaced(seen[r]) ELSE 0]
    /\ UNCHANGED <<life, at, asks, clock>>

(* A request past its deadline does nothing but fail: it takes no time. *)
Late(r) == clock[r] > Timeout

Tick ==
    /\ \A r \in Requests : ~Late(r)
    /\ gone' = [j \in Jobs |-> IF present[j] THEN 0
                              ELSE IF gone[j] < Forgetting THEN gone[j] + 1 ELSE gone[j]]
    /\ life' = [k \in Key |-> IF life[k] > 0 THEN life[k] - 1 ELSE 0]
    /\ age' = [k \in Key |-> IF life[k] > 1 THEN Older(age[k]) ELSE 0]
    /\ seen' = [r \in Requests |-> IF r \in Reading THEN Older(seen[r]) ELSE 0]
    /\ clock' = [r \in Requests |-> IF at[r] \in Busy THEN clock[r] + 1 ELSE 0]
    /\ UNCHANGED <<present, at, asks>>

-----------------------------------------------------------------------------
(* Search, GetByID and GetStats, which differ in key, TTL and queries.     *)

Arrive(r) ==
    /\ at[r] = "idle"
    /\ at' = [at EXCEPT ![r] = "get"]
    /\ \E k \in Key : asks' = [asks EXCEPT ![r] = k]
    /\ UNCHANGED <<tableVars, cacheVars, clock, seen>>

(* Request r goes on to s. *)
Goto(r, s) ==
    /\ at' = [at EXCEPT ![r] = s]
    /\ UNCHANGED <<asks, clock>>

(* Request r has its response: an answer or an error. *)
Respond(r) ==
    /\ at' = [at EXCEPT ![r] = "idle"]
    /\ asks' = [asks EXCEPT ![r] = Stats]
    /\ clock' = [clock EXCEPT ![r] = 0]
    /\ seen' = [seen EXCEPT ![r] = 0]

RedisFails(r) == Late(r) \/ "redisError" \in Faults

CacheGetExtends(r) ==
    /\ at[r] = "get"
    /\ \/ /\ ~Late(r) /\ life[asks[r]] > 0
          /\ life' = [life EXCEPT ![asks[r]] = ttl(asks[r])]
          /\ Respond(r)
       \/ /\ life[asks[r]] = 0 \/ RedisFails(r)
          /\ Goto(r, "query")
          /\ UNCHANGED <<seen, life>>
    /\ UNCHANGED <<tableVars, age>>

(* A hit is the answer; a miss and an error lead to the database. *)
CacheGet(r) ==
    /\ at[r] = "get"
    /\ \/ ~Late(r) /\ life[asks[r]] > 0 /\ Respond(r)
       \/ (life[asks[r]] = 0 \/ RedisFails(r)) /\ Goto(r, "query") /\ UNCHANGED seen
    /\ UNCHANGED <<tableVars, cacheVars>>

DbFails(r) == Late(r) \/ "dbError" \in Faults

QueryCachesMissing(r) ==
    /\ at[r] = "query"
    /\ \/ /\ ~Late(r)
          /\ seen' = [seen EXCEPT ![r] = 0]
          /\ Goto(r, IF asks[r][1] = "job" THEN "set" ELSE "more")
       \/ DbFails(r) /\ Respond(r)
    /\ UNCHANGED <<tableVars, cacheVars>>

(* The first query: the row of a job, the count of a search, the first     *)
(* aggregate of the statistics.  A row that is not there is an error too.  *)
Query(r) ==
    /\ at[r] = "query"
    /\ LET missing == asks[r][1] = "job" /\ ~present[asks[r][2]]
       IN  \/ /\ ~Late(r) /\ ~missing
              /\ seen' = [seen EXCEPT ![r] = 0]
              /\ Goto(r, IF asks[r][1] = "job" THEN "set" ELSE "more")
           \/ (missing \/ DbFails(r)) /\ Respond(r)
    /\ UNCHANGED <<tableVars, cacheVars>>

(* The queries after it, the page of a search and the other aggregates, in *)
(* no transaction with it: the answer is as old as its first part.         *)
QueryMore(r) ==
    /\ at[r] = "more"
    /\ \/ ~Late(r) /\ Goto(r, "set") /\ UNCHANGED seen
       \/ DbFails(r) /\ Respond(r)
    /\ UNCHANGED <<tableVars, cacheVars>>

CacheSetAddsTTL(r) ==
    /\ at[r] = "set"
    /\ \/ /\ ~Late(r)
          /\ age' = [age EXCEPT ![asks[r]] = seen[r]]
          /\ life' = [life EXCEPT ![asks[r]] = life[asks[r]] + ttl(asks[r])]
       \/ RedisFails(r) /\ UNCHANGED cacheVars
    /\ Respond(r)
    /\ UNCHANGED tableVars

(* The result is stored over whatever is there, or not: after an error it  *)
(* may be stored all the same.  It is the answer either way.  A SET on its *)
(* way at the deadline ends with the client's own read and write timeouts, *)
(* which are part of Timeout.                                              *)
CacheSet(r) ==
    /\ at[r] = "set"
    /\ \/ /\ ~Late(r)
          /\ age' = [age EXCEPT ![asks[r]] = seen[r]]
          /\ life' = [life EXCEPT ![asks[r]] = ttl(asks[r])]
       \/ RedisFails(r) /\ UNCHANGED cacheVars
    /\ Respond(r)
    /\ UNCHANGED tableVars

-----------------------------------------------------------------------------
(* Invalidate, which no binary calls at present, is a DEL of the job, a    *)
(* SCAN that deletes search entries as it finds them and a DEL of the      *)
(* statistics.  A step that fails is logged and the next one is tried, so  *)
(* any of them may be the only one that does anything.                     *)
Invalidate ==
    /\ \E K \in {{<<"job", j>>} : j \in Jobs} \cup {{<<"search", f>>} : f \in Filters} \cup {{Stats}} :
          /\ life' = [k \in Key |-> IF k \in K THEN 0 ELSE life[k]]
          /\ age' = [k \in Key |-> IF k \in K THEN 0 ELSE age[k]]
    /\ UNCHANGED <<tableVars, reqVars>>

-----------------------------------------------------------------------------
Handle(r) == CacheGet(r) \/ Query(r) \/ QueryMore(r) \/ CacheSet(r)

Next ==
    \/ Write
    \/ Tick
    \/ \E r \in Requests : Arrive(r) \/ Handle(r)
    \/ Invalidate

Spec == Init /\ [][Next]_vars

-----------------------------------------------------------------------------
(* Ticks since the table was changed under an answer of age n. *)
Staleness(n) == IF n = 0 THEN 0 ELSE n - 1

(* The age of what request r is about to be answered with. *)
AnswerAge(r) == IF at[r] = "get" THEN age[asks[r]] ELSE seen[r]

(* An answer is never older than the TTL of its kind plus the time one     *)
(* request may take: a reader that stores what it read before a write, a   *)
(* late reader that overwrites a newer entry and a run of hits included    *)
(* (cached_job_service.go: "cached for 5 minutes - ... short enough to     *)
(* reflect Processor updates"; ttl.go).                                    *)
StalenessBounded ==
    [][\A r \in Requests :
          at[r] \in {"get", "set"} /\ at'[r] = "idle"
             => Staleness(AnswerAge(r)) <= ttl(asks[r]) + Timeout]_vars

(* A deleted job is out of the cache, for good or until it has a row       *)
(* again, a TTL and a request's deadline after the DELETE: by then the     *)
(* entry of every request that had read the row in time has expired, and   *)
(* none can bring it back, though nobody invalidates it (ttl.go;           *)
(* janitor.go deletes rows without a word to the cache).                   *)
ForgottenInTime ==
    \A j \in Jobs : gone[j] >= TTLCacheJob + Timeout => life[<<"job", j>>] = 0

=============================================================================
