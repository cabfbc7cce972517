----------------------------- MODULE ApiServer -----------------------------
(***************************************************************************)
(* One process of the API (cmd/api): it connects to its stores, serves     *)
(* requests through the rate limiter and the cache-aside job service, and  *)
(* is stopped by pkg/shutdown, which runs all hooks at the same time       *)
(* against one deadline.                                                   *)
(*                                                                         *)
(* A request is of a kind: "job" stands for the three endpoints of         *)
(* /api/v1/jobs, "ready" and "health" are the probes.  What is cached and  *)
(* what the tables hold is left open: a look-up may find its entry or not. *)
(* The two pings of a readiness check run at the same time; as stores only *)
(* ever close, one look at both gives every answer they can give.          *)
(***************************************************************************)
EXTENDS Naturals

CONSTANTS
    Requests,     \* requests the server works on at one time
    maxAttempts,  \* connection attempts per store
    Faults        \* the failures that may happen in this instance

ASSUME ApiAssumption ==
    /\ maxAttempts \in Nat \ {0}
    /\ Faults \subseteq {"bootError", "listenError", "dbError", "redisError", "hang"}

VARIABLES
    stage,     \* where main stands
    attempts,  \* failed attempts of the connection under way
    ready,     \* the readiness flag
    server,    \* the HTTP server
    db, redis, \* the pools
    hook,      \* hook[h]: the state of shutdown hook h
    late,      \* the deadline of the shutdown has passed
    outcome,   \* how the process ended
    req,       \* req[r]: where request r stands
    kind,      \* kind[r]: what it asks for
    reply,     \* reply[r]: the answer to the last request in slot r
    dbFailed   \* history: requests whose query failed by itself

mainVars == <<stage, attempts, outcome>>
storeVars == <<ready, server, db, redis>>
reqVars == <<req, kind, reply, dbFailed>>
vars == <<mainVars, storeVars, hook, late, reqVars>>

Hook == {"readiness-flag", "http-server", "tracer", "postgres", "redis"}

(* The flush of the spans and the close of the database, which waits for   *)
(* running queries, take as long as the other side does.                   *)
MayHang == {"tracer", "postgres"}

Booting == {"postgres", "migrate", "redis", "start", "register"}

InFlight == {r \in Requests : req[r] # "idle"}

Probe == {"ready", "health"}

TypeOK ==
    /\ stage \in Booting \cup {"wait", "stopping", "exited"}
    /\ attempts \in 0 .. maxAttempts
    /\ ready \in BOOLEAN
    /\ server \in {"absent", "spawned", "listening", "closed"}
    /\ db \in {"absent", "open", "closed"}
    /\ redis \in {"absent", "open", "closed"}
    /\ hook \in [Hook -> {"absent", "registered", "running", "hung", "done"}]
    /\ late \in BOOLEAN
    /\ outcome \in {"none", "fatal", "killed", "clean", "timeout"}
    /\ outcome = "none" <=> stage # "exited"
    /\ req \in [Requests -> {"idle", "limit", "get", "query", "set", "ping"}]
    /\ kind \in [Requests -> {"job"} \cup Probe]
    /\ reply \in [Requests -> {"none", "ok", "notFound", "limited", "unready", "error"}]
    /\ \A r \in InFlight : reply[r] = "none"
    /\ dbFailed \subseteq Requests

Init ==
    /\ stage = "postgres"
    /\ attempts = 0
    /\ outcome = "none"
    /\ ready = FALSE
    /\ server = "absent"
    /\ db = "absent"
    /\ redis = "absent"
    /\ hook = [h \in Hook |-> "absent"]
    /\ late = FALSE
    /\ req = [r \in Requests |-> "idle"]
    /\ kind = [r \in Requests |-> "job"]
    /\ reply = [r \in Requests |-> "none"]
    /\ dbFailed = {}

-----------------------------------------------------------------------------
(* main, up to the wait for a signal.                                      *)

(* The process ends. *)
Exit(o) ==
    /\ stage' = "exited"
    /\ outcome' = o
    /\ UNCHANGED attempts

(* main goes on to s. *)
Enter(s) ==
    /\ stage' = s
    /\ attempts' = 0
    /\ UNCHANGED outcome

RetryForever(s) ==
    /\ "bootError" \in Faults
    /\ stage = s
    /\ attempts' = (attempts + 1) % maxAttempts
    /\ UNCHANGED <<stage, outcome>>

RetryOnceMore(s) ==
    /\ "bootError" \in Faults
    /\ stage = s
    /\ attempts' = attempts + 1
    /\ IF attempts < maxAttempts
         THEN UNCHANGED <<stage, outcome>>
         ELSE stage' = "exited" /\ outcome' = "fatal"

(* connectWithRetry: a failed attempt; the last one ends the process. *)
Retry(s) ==
    /\ "bootError" \in Faults
    /\ stage = s
    /\ attempts' = attempts + 1
    /\ IF attempts + 1 < maxAttempts
         THEN UNCHANGED <<stage, outcome>>
         ELSE stage' = "exited" /\ outcome' = "fatal"

(* A connection that was there is opened once more, for use.  That attempt *)
(* is the only one.                                                        *)
Reopen(s) ==
    /\ "bootError" \in Faults
    /\ stage = s
    /\ Exit("fatal")

ConnectPostgres ==
    \/ /\ Retry("postgres") \/ Reopen("postgres")
       /\ UNCHANGED <<storeVars, hook, late, reqVars>>
    \/ /\ stage = "postgres"
       /\ db' = "open"
       /\ Enter("migrate")
       /\ UNCHANGED <<ready, server, redis, hook, late, reqVars>>

RunMigrations ==
    /\ stage = "migrate"
    /\ Enter("redis") \/ ("bootError" \in Faults /\ Exit("fatal"))
    /\ UNCHANGED <<storeVars, hook, late, reqVars>>

ConnectRedis ==
    \/ /\ Retry("redis") \/ Reopen("redis")
       /\ UNCHANGED <<storeVars, hook, late, reqVars>>
    \/ /\ stage = "redis"
       /\ redis' = "open"
       /\ Enter("start")
       /\ UNCHANGED <<ready, server, db, hook, late, reqVars>>

(* The flag is set, the router built and the server's goroutine started. *)
Launch ==
    /\ stage = "start"
    /\ ready' = TRUE
    /\ server' = "spawned"
    /\ Enter("register")
    /\ UNCHANGED <<db, redis, hook, late, reqVars>>

(* ListenAndServe in its goroutine; if the port is taken the process ends. *)
Listen ==
    /\ stage # "exited"
    /\ server = "spawned"
    /\ \/ server' = "listening" /\ UNCHANGED mainVars
       \/ "listenError" \in Faults /\ Exit("fatal") /\ UNCHANGED server
    /\ UNCHANGED <<ready, db, redis, hook, late, reqVars>>

(* The hooks are registered and ListenAndShutdown waits for a signal. *)
Register ==
    /\ stage = "register"
    /\ Enter("wait")
    /\ hook' = [h \in Hook |-> "registered"]
    /\ UNCHANGED <<storeVars, late, reqVars>>

-----------------------------------------------------------------------------
(* ListenAndShutdown.                                                      *)

(* SIGTERM or SIGINT.  Nobody listens for it during start-up; during a     *)
(* shutdown it stays in the channel.                                       *)
Signal ==
    /\ stage \in Booting \cup {"wait"}
    /\ IF stage = "wait" THEN Enter("stopping") ELSE Exit("killed")
    /\ UNCHANGED <<storeVars, hook, late, reqVars>>

(* The goroutine of h calls it.  The hooks of the pools and of the server  *)
(* take effect at once.                                                    *)
StartHook(h) ==
    /\ stage = "stopping"
    /\ hook[h] = "registered"
    /\ \/ hook' = [hook EXCEPT ![h] = "running"]
       \/ /\ "hang" \in Faults /\ h \in MayHang
          /\ hook' = [hook EXCEPT ![h] = "hung"]
    /\ ready' = IF h = "readiness-flag" THEN FALSE ELSE ready
    /\ server' = IF h = "http-server" THEN "closed" ELSE server
    /\ db' = IF h = "postgres" THEN "closed" ELSE db
    /\ redis' = IF h = "redis" THEN "closed" ELSE redis
    /\ UNCHANGED <<mainVars, late, reqVars>>

FinishHookAtOnce(h) ==
    /\ stage = "stopping"
    /\ hook[h] = "running"
    /\ hook' = [hook EXCEPT ![h] = "done"]
    /\ UNCHANGED <<mainVars, storeVars, late, reqVars>>

(* The hook returns.  srv.Shutdown does when no request is left, or with   *)
(* an error at the deadline.                                               *)
FinishHook(h) ==
    /\ stage = "stopping"
    /\ hook[h] = "running"
    /\ h = "http-server" => InFlight = {} \/ late
    /\ hook' = [hook EXCEPT ![h] = "done"]
    /\ UNCHANGED <<mainVars, storeVars, late, reqVars>>

Deadline ==
    /\ stage = "stopping"
    /\ ~late
    /\ late' = TRUE
    /\ UNCHANGED <<mainVars, storeVars, hook, reqVars>>

ReturnWhenDone ==
    /\ stage = "stopping"
    /\ \A h \in Hook : hook[h] = "done"
    /\ Exit("clean")
    /\ UNCHANGED <<storeVars, hook, late, reqVars>>

(* All hooks have returned, or the deadline has passed; then main returns, *)
(* and the process ends with whatever is still running in it.              *)
Return ==
    /\ stage = "stopping"
    /\ \/ (\A h \in Hook : hook[h] = "done") /\ Exit("clean")
       \/ late /\ Exit("timeout")
    /\ UNCHANGED <<storeVars, hook, late, reqVars>>

-----------------------------------------------------------------------------
(* Requests.                                                               *)

Arrive(r) ==
    /\ stage # "exited"
    /\ server = "listening"
    /\ req[r] = "idle"
    /\ req' = [req EXCEPT ![r] = "limit"]
    /\ \E k \in {"job"} \cup Probe : kind' = [kind EXCEPT ![r] = k]
    /\ reply' = [reply EXCEPT ![r] = "none"]
    /\ dbFailed' = dbFailed \ {r}
    /\ UNCHANGED <<mainVars, storeVars, hook, late>>

(* Request r, at s, goes on to t, or is answered with a. *)
At(r, s) == stage # "exited" /\ req[r] = s

Proceed(r, t) ==
    /\ req' = [req EXCEPT ![r] = t]
    /\ UNCHANGED <<kind, reply>>

Respond(r, a) ==
    /\ req' = [req EXCEPT ![r] = "idle"]
    /\ reply' = [reply EXCEPT ![r] = a]
    /\ UNCHANGED kind

RedisFails == redis # "open" \/ "redisError" \in Faults

(* RateLimitMiddleware, around every route.  It lets requests pass when    *)
(* Redis fails.  Then /health is answered.                                 *)
RateLimit(r) ==
    /\ At(r, "limit")
    /\ \/ redis = "open" /\ Respond(r, "limited")
       \/ kind[r] = "job" /\ Proceed(r, "get")
       \/ kind[r] = "ready" /\ Proceed(r, "ping")
       \/ kind[r] = "health" /\ Respond(r, "ok")
    /\ UNCHANGED <<mainVars, storeVars, hook, late, dbFailed>>

(* /ready pings the pools; the flag is not asked. *)
Readiness(r) ==
    /\ At(r, "ping")
    /\ \/ db = "open" /\ redis = "open" /\ Respond(r, "ok")
       \/ /\ db # "open" \/ RedisFails \/ "dbError" \in Faults
          /\ Respond(r, "unready")
    /\ UNCHANGED <<mainVars, storeVars, hook, late, dbFailed>>

CacheGetStrict(r) ==
    /\ At(r, "get")
    /\ \/ redis = "open" /\ Respond(r, "ok")
       \/ redis = "open" /\ Proceed(r, "query")
       \/ RedisFails /\ Respond(r, "error")
    /\ UNCHANGED <<mainVars, storeVars, hook, late, dbFailed>>

(* The look-up in the cache: a hit is the answer; after a miss, as after   *)
(* an error, the database is asked.                                        *)
CacheGet(r) ==
    /\ At(r, "get")
    /\ \/ redis = "open" /\ Respond(r, "ok")
       \/ Proceed(r, "query")
    /\ UNCHANGED <<mainVars, storeVars, hook, late, dbFailed>>

(* The query.  An error, ErrNotFound too, is answered and not cached. *)
Query(r) ==
    /\ At(r, "query")
    /\ \/ db = "open" /\ Proceed(r, "set") /\ UNCHANGED dbFailed
       \/ db = "open" /\ Respond(r, "notFound") /\ UNCHANGED dbFailed
       \/ db = "open" /\ "dbError" \in Faults /\ Respond(r, "error")
          /\ dbFailed' = dbFailed \cup {r}
       \/ db = "closed" /\ Respond(r, "error") /\ UNCHANGED dbFailed
    /\ UNCHANGED <<mainVars, storeVars, hook, late>>

(* The result is stored, or not: it is the answer either way. *)
CacheSet(r) ==
    /\ At(r, "set")
    /\ Respond(r, "ok")
    /\ UNCHANGED <<mainVars, storeVars, hook, late, dbFailed>>

-----------------------------------------------------------------------------
Main == ConnectPostgres \/ RunMigrations \/ ConnectRedis \/ Launch \/ Register \/ Return

Handle(r) == RateLimit(r) \/ Readiness(r) \/ CacheGet(r) \/ Query(r) \/ CacheSet(r)

Next ==
    \/ Main
    \/ Listen
    \/ Signal
    \/ Deadline
    \/ \E h \in Hook : StartHook(h) \/ FinishHook(h)
    \/ \E r \in Requests : Arrive(r) \/ Handle(r)

Spec == Init /\ [][Next]_vars

(* Goroutines run and the clock does; nothing is assumed of clients, of    *)
(* signals or of hooks that hang.                                          *)
Fairness ==
    /\ WF_vars(Main) /\ WF_vars(Listen) /\ WF_vars(Deadline)
    /\ \A h \in Hook : WF_vars(StartHook(h)) /\ WF_vars(FinishHook(h))
    /\ \A r \in Requests : WF_vars(Handle(r))

FairSpec == Spec /\ Fairness

-----------------------------------------------------------------------------
(* A process that stops before the deadline leaves no request without an   *)
(* answer, though its hooks run at the same time and in any order          *)
(* (shutdown.go: "Wait for all to complete or timeout to expire"; main.go: *)
(* "Stop the HTTP server (waits for in-flight requests)").                 *)
ExitDrained == outcome = "clean" /\ ~late => InFlight = {}

(* Redis, failing or closed, costs no request its answer: an error is the  *)
(* database's, or comes of its closed pool (rate_limit.go: "fail open";    *)
(* cached_job_service.go: "bypassing cache").                              *)
RedisOptional == \A r \in Requests : reply[r] = "error" => r \in dbFailed \/ db = "closed"

(* A shutdown ends, also when a hook hangs or a request does not finish    *)
(* (shutdown.go: "Wait for all hooks or timeout").                         *)
ShutdownEnds == stage = "stopping" ~> stage = "exited"

(* Start-up ends: the process waits for its signal or has given up, though *)
(* a store stays away for ever (main.go: "Returns the last error if all    *)
(* attempts fail").                                                        *)
BootEnds == <>(stage \notin Booting)

(* An accepted request is not failed by the shutdown (main.go: "so         *)
(* Kubernetes stops routing traffic before we start closing connections.   *)
(* This runs synchronously before the fan-out hooks").                     *)
ShutdownServes == \A r \in Requests : reply[r] = "error" => r \in dbFailed

=============================================================================
