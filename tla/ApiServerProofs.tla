-------------------------- MODULE ApiServerProofs --------------------------
(***************************************************************************)
(* Proofs about ApiServer, for any requests, number of connection attempts *)
(* and failures: type correctness, that a clean exit before the deadline   *)
(* leaves no request behind, and that Redis costs no request its answer.   *)
(*                                                                         *)
(* Each rests on when things happen: the pool of the database closes only  *)
(* in a shutdown, which nothing opens it after (StageOK); the hook of the  *)
(* server closes its listener first, so that requests only become fewer    *)
(* while the hook waits for them and after it (DrainOK).                   *)
(***************************************************************************)
EXTENDS ApiServer, TLAPS

Ending == {"stopping", "exited"}

Begun == {"running", "hung", "done"}

StageOK ==
    /\ stage \in {"postgres", "redis"} => attempts < maxAttempts
    /\ db = "closed" => stage \in Ending

DrainOK ==
    /\ hook["http-server"] \in Begun => server = "closed" /\ stage \in Ending
    /\ hook["http-server"] = "done" /\ ~late => InFlight = {}
    /\ outcome = "clean" => hook["http-server"] = "done"

IInv == TypeOK /\ StageOK /\ DrainOK /\ RedisOptional

-----------------------------------------------------------------------------
(* Initially nothing is open and no request has come. *)
LEMMA InitInv == Init => IInv
<1> SUFFICES ASSUME Init PROVE IInv
  OBVIOUS
<1>1. TypeOK
  <2>1. InFlight = {} /\ 0 \in 0 .. maxAttempts
    BY ApiAssumption DEF Init, InFlight
  <2>2. QED
    BY <2>1 DEF Init, TypeOK, Booting
<1>2. StageOK /\ DrainOK /\ RedisOptional
  BY ApiAssumption DEF Init, StageOK, DrainOK, Begun, Hook, RedisOptional
<1>3. QED
  BY <1>1, <1>2 DEF IInv

(* The steps of main leave the requests alone; a store is opened, and the  *)
(* server spawned, before the hooks are registered.                        *)
LEMMA MainInv == IInv /\ (Main \/ Signal) => IInv'
<1> SUFFICES ASSUME IInv, Main \/ Signal PROVE IInv'
  OBVIOUS
<1> USE ApiAssumption DEF IInv
<1>1. CASE ConnectPostgres
  <2>1. TypeOK'
    BY <1>1 DEF TypeOK, StageOK, ConnectPostgres, Retry, Reopen, Enter, Exit, Booting, InFlight, storeVars, reqVars
  <2>2. StageOK'
    BY <1>1 DEF TypeOK, StageOK, ConnectPostgres, Retry, Reopen, Enter, Exit, Ending, storeVars
  <2>3. DrainOK' /\ RedisOptional'
    BY <1>1 DEF TypeOK, StageOK, DrainOK, RedisOptional, ConnectPostgres, Retry, Reopen, Enter, Exit, Ending, InFlight, storeVars, reqVars
  <2>4. QED
    BY <2>1, <2>2, <2>3
<1>2. CASE RunMigrations
  <2>1. TypeOK'
    BY <1>2 DEF TypeOK, RunMigrations, Enter, Exit, Booting, InFlight, storeVars, reqVars
  <2>2. StageOK' /\ DrainOK' /\ RedisOptional'
    BY <1>2 DEF TypeOK, StageOK, DrainOK, RedisOptional, RunMigrations, Enter, Exit, Ending, InFlight, storeVars, reqVars
  <2>3. QED
    BY <2>1, <2>2
<1>3. CASE ConnectRedis
  <2>1. TypeOK'
    BY <1>3 DEF TypeOK, StageOK, ConnectRedis, Retry, Reopen, Enter, Exit, Booting, InFlight, storeVars, reqVars
  <2>2. StageOK'
    BY <1>3 DEF TypeOK, StageOK, ConnectRedis, Retry, Reopen, Enter, Exit, Ending, storeVars
  <2>3. DrainOK' /\ RedisOptional'
    BY <1>3 DEF TypeOK, DrainOK, RedisOptional, ConnectRedis, Retry, Reopen, Enter, Exit, Ending, InFlight, storeVars, reqVars
  <2>4. QED
    BY <2>1, <2>2, <2>3
<1>4. CASE Launch
  <2>1. TypeOK'
    BY <1>4 DEF TypeOK, Launch, Enter, Booting, InFlight, reqVars
  <2>2. StageOK' /\ DrainOK' /\ RedisOptional'
    BY <1>4 DEF TypeOK, StageOK, DrainOK, RedisOptional, Launch, Enter, Ending, InFlight, reqVars
  <2>3. QED
    BY <2>1, <2>2
<1>5. CASE Register
  <2>1. TypeOK'
    BY <1>5 DEF TypeOK, Register, Enter, Booting, InFlight, storeVars, reqVars
  <2>2. hook'["http-server"] = "registered"
    BY <1>5 DEF Register, Hook
  <2>3. StageOK' /\ DrainOK' /\ RedisOptional'
    BY <1>5, <2>2 DEF TypeOK, StageOK, DrainOK, RedisOptional, Register, Enter, Ending, Begun, storeVars, reqVars
  <2>4. QED
    BY <2>1, <2>3
<1>6. CASE Return
  <2>1. TypeOK'
    BY <1>6 DEF TypeOK, Return, Exit, InFlight, storeVars, reqVars
  <2>2. outcome' = "clean" => hook["http-server"] = "done"
    BY <1>6 DEF Return, Exit, Hook
  <2>3. StageOK' /\ DrainOK' /\ RedisOptional'
    BY <1>6, <2>2 DEF StageOK, DrainOK, RedisOptional, Return, Exit, Ending, InFlight, storeVars, reqVars
  <2>4. QED
    BY <2>1, <2>3
<1>7. CASE Signal
  <2>1. TypeOK'
    BY <1>7 DEF TypeOK, Signal, Enter, Exit, Booting, InFlight, storeVars, reqVars
  <2>2. StageOK' /\ DrainOK' /\ RedisOptional'
    BY <1>7 DEF TypeOK, StageOK, DrainOK, RedisOptional, Signal, Enter, Exit, Booting, Ending, InFlight, storeVars, reqVars
  <2>3. QED
    BY <2>1, <2>2
<1>8. QED
  BY <1>1, <1>2, <1>3, <1>4, <1>5, <1>6, <1>7 DEF Main

(* A server that a shutdown has closed does not listen again. *)
LEMMA ServerInv == IInv /\ (Listen \/ Deadline) => IInv'
<1> SUFFICES ASSUME IInv, Listen \/ Deadline PROVE IInv'
  OBVIOUS
<1> USE DEF IInv
<1>1. CASE Listen
  <2>1. TypeOK'
    BY <1>1 DEF TypeOK, Listen, Exit, InFlight, mainVars, reqVars
  <2>2. StageOK' /\ DrainOK' /\ RedisOptional'
    BY <1>1 DEF TypeOK, StageOK, DrainOK, RedisOptional, Listen, Exit, Ending, InFlight, mainVars, reqVars
  <2>3. QED
    BY <2>1, <2>2
<1>2. CASE Deadline
  <2>1. TypeOK'
    BY <1>2 DEF TypeOK, Deadline, InFlight, mainVars, storeVars, reqVars
  <2>2. StageOK' /\ DrainOK' /\ RedisOptional'
    BY <1>2 DEF StageOK, DrainOK, RedisOptional, Deadline, Ending, mainVars, storeVars, reqVars
  <2>3. QED
    BY <2>1, <2>2
<1>3. QED
  BY <1>1, <1>2

(* The hook of the server closes it as it starts, and returns only when no *)
(* request is left or it is late.                                          *)
LEMMA HookInv ==
    ASSUME NEW h \in Hook, IInv, StartHook(h) \/ FinishHook(h)
    PROVE  IInv'
<1> USE DEF IInv
<1>1. CASE StartHook(h)
  <2>1. TypeOK'
    BY <1>1 DEF TypeOK, StartHook, InFlight, mainVars, reqVars
  <2>2. StageOK' /\ RedisOptional'
    BY <1>1 DEF TypeOK, StageOK, RedisOptional, StartHook, Ending, mainVars, reqVars
  <2>3. CASE h = "http-server"
    <3>1. hook'["http-server"] # "done" /\ server' = "closed" /\ hook["http-server"] # "done"
      BY <1>1, <2>3 DEF TypeOK, StartHook
    <3>2. QED
      BY <1>1, <3>1, <2>1, <2>2 DEF DrainOK, StartHook, Ending, mainVars
  <2>4. CASE h # "http-server"
    <3>1. hook'["http-server"] = hook["http-server"] /\ server' = server
      BY <1>1, <2>4 DEF TypeOK, StartHook, Hook
    <3>2. QED
      BY <1>1, <3>1, <2>1, <2>2 DEF DrainOK, StartHook, InFlight, mainVars, reqVars
  <2>5. QED
    BY <2>3, <2>4
<1>2. CASE FinishHook(h)
  <2>1. TypeOK'
    BY <1>2 DEF TypeOK, FinishHook, InFlight, mainVars, storeVars, reqVars
  <2>2. StageOK' /\ RedisOptional'
    BY <1>2 DEF StageOK, RedisOptional, FinishHook, mainVars, storeVars, reqVars
  <2>3. CASE h = "http-server"
    BY <1>2, <2>1, <2>2, <2>3 DEF TypeOK, DrainOK, FinishHook, Begun, Ending, InFlight, mainVars, storeVars, reqVars
  <2>4. CASE h # "http-server"
    <3>1. hook'["http-server"] = hook["http-server"]
      BY <1>2, <2>4 DEF TypeOK, FinishHook, Hook
    <3>2. QED
      BY <1>2, <3>1, <2>1, <2>2 DEF DrainOK, FinishHook, InFlight, mainVars, storeVars, reqVars
  <2>5. QED
    BY <2>3, <2>4
<1>3. QED
  BY <1>1, <1>2

(* A request is taken on by a server that listens, hence is not closed. *)
LEMMA ArriveInv == ASSUME NEW r \in Requests, IInv, Arrive(r) PROVE IInv'
<1> USE DEF IInv
<1>1. TypeOK'
  BY DEF TypeOK, Arrive, InFlight, mainVars, storeVars
<1>2. StageOK'
  BY DEF StageOK, Arrive, mainVars, storeVars
<1>3. DrainOK'
  BY DEF TypeOK, DrainOK, Arrive, Begun, mainVars, storeVars
<1>4. RedisOptional'
  BY DEF TypeOK, RedisOptional, Arrive, storeVars
<1>5. QED
  BY <1>1, <1>2, <1>3, <1>4

(* What a step of a handler leaves alone, and that it takes on no request. *)
LEMMA HandleFrame ==
    ASSUME NEW r \in Requests, IInv, Handle(r)
    PROVE  /\ UNCHANGED <<mainVars, storeVars, hook, late, kind>>
           /\ InFlight' \subseteq InFlight
           /\ r \in InFlight
<1>1. UNCHANGED <<mainVars, storeVars, hook, late, kind>>
  BY DEF Handle, RateLimit, Readiness, CacheGet, Query, CacheSet, Proceed, Respond
<1>2. r \in InFlight
  BY DEF Handle, RateLimit, Readiness, CacheGet, Query, CacheSet, At, InFlight
<1>3. \A q \in Requests : q # r => req'[q] = req[q]
  BY DEF IInv, TypeOK, Handle, RateLimit, Readiness, CacheGet, Query, CacheSet, Proceed, Respond
<1>4. QED
  BY <1>1, <1>2, <1>3 DEF InFlight

(* A handler answers with an error only if its query failed, and then      *)
(* either the history says so or the pool is closed.                       *)
LEMMA HandleReplies ==
    ASSUME NEW r \in Requests, IInv, Handle(r)
    PROVE  /\ req' \in [Requests -> {"idle", "limit", "get", "query", "set", "ping"}]
           /\ reply' \in [Requests -> {"none", "ok", "notFound", "limited", "unready", "error"}]
           /\ dbFailed \subseteq dbFailed' /\ dbFailed' \subseteq Requests
           /\ \A q \in Requests : q # r => reply'[q] = reply[q]
           /\ req'[r] # "idle" => reply'[r] = "none"
           /\ reply'[r] = "error" => r \in dbFailed' \/ db = "closed"
<1> USE DEF IInv
<1>0. reply[r] = "none"
  BY HandleFrame DEF TypeOK
<1>1. CASE RateLimit(r)
  BY <1>0, <1>1 DEF TypeOK, RateLimit, Proceed, Respond
<1>2. CASE Readiness(r)
  BY <1>0, <1>2 DEF TypeOK, Readiness, Proceed, Respond
<1>3. CASE CacheGet(r)
  BY <1>0, <1>3 DEF TypeOK, CacheGet, Proceed, Respond
<1>4. CASE Query(r)
  BY <1>0, <1>4 DEF TypeOK, Query, Proceed, Respond
<1>5. CASE CacheSet(r)
  BY <1>0, <1>5 DEF TypeOK, CacheSet, Proceed, Respond
<1>6. QED
  BY <1>1, <1>2, <1>3, <1>4, <1>5 DEF Handle

(* A step of a handler. *)
LEMMA HandleInv == ASSUME NEW r \in Requests, IInv, Handle(r) PROVE IInv'
<1> USE DEF IInv
<1>1. StageOK' /\ DrainOK'
  BY HandleFrame DEF StageOK, DrainOK, mainVars, storeVars
<1>2. \A q \in InFlight' : reply'[q] = "none"
  BY HandleFrame, HandleReplies DEF TypeOK, InFlight
<1>3. TypeOK'
  BY <1>2, HandleFrame, HandleReplies DEF TypeOK, mainVars, storeVars
<1>4. RedisOptional'
  BY HandleFrame, HandleReplies DEF RedisOptional, storeVars
<1>5. QED
  BY <1>1, <1>3, <1>4

-----------------------------------------------------------------------------
(* Start-up, requests and shutdown keep the invariant, whatever fails. *)
THEOREM InductiveInvariant == Spec => []IInv
<1>1. Init => IInv
  BY InitInv
<1>2. IInv /\ [Next]_vars => IInv'
  <2> SUFFICES ASSUME IInv, [Next]_vars PROVE IInv'
    OBVIOUS
  <2>1. CASE Next
    BY <2>1, MainInv, ServerInv, HookInv, ArriveInv, HandleInv DEF Next
  <2>2. CASE UNCHANGED vars
    BY <2>2 DEF IInv, TypeOK, StageOK, DrainOK, RedisOptional, InFlight, vars, mainVars, storeVars, reqVars
  <2>3. QED
    BY <2>1, <2>2
<1>3. QED
  BY <1>1, <1>2, PTL DEF Spec

(* Type correctness: the process has an outcome just when it has ended,    *)
(* connection attempts stay within maxAttempts, and a request in flight    *)
(* has no answer yet.                                                      *)
THEOREM TypeCorrect == Spec => []TypeOK
<1>1. IInv => TypeOK
  BY DEF IInv
<1>2. QED
  BY <1>1, InductiveInvariant, PTL

(* However the five hooks interleave with each other and with the requests *)
(* in flight, a process that ends before the deadline has answered them    *)
(* all (ListenAndShutdown, srv.Shutdown).                                  *)
THEOREM CleanExitDrains == Spec => []ExitDrained
<1>1. IInv => ExitDrained
  BY DEF IInv, DrainOK, ExitDrained
<1>2. QED
  BY <1>1, InductiveInvariant, PTL

(* Redis, failing or closed by its hook, is never the reason of an error   *)
(* answer (RateLimitMiddleware, CachedJobService).                         *)
THEOREM RedisNeverFatal == Spec => []RedisOptional
<1>1. IInv => RedisOptional
  BY DEF IInv
<1>2. QED
  BY <1>1, InductiveInvariant, PTL

=============================================================================
