---------------------------- MODULE RateLimiter ----------------------------
(***************************************************************************)
(* The sliding-window limiter of pkg/redis for one key, and its callers:   *)
(* requests of one client IP in the API's middleware, or crawler workers   *)
(* that poll for their source.                                             *)
(*                                                                         *)
(* Allow sends ZREMRANGEBYSCORE, ZCARD, ZADD and EXPIRE in a pipeline that *)
(* is no transaction: commands of other callers may come in between.  The  *)
(* caller's time stamp is taken before.  Time is kept as the ages of the   *)
(* time stamps, so that it can run for ever.                               *)
(***************************************************************************)
EXTENDS Naturals, FiniteSets

CONSTANTS
    Callers,   \* callers of Allow for the key, at one time
    Calls,     \* identities for the calls that matter at one time
    limit,
    window,    \* in units of the clock
    Pause,     \* a caller that was refused waits this long before it asks again
    MaxDelay,  \* bound: a call is answered or times out after this long
    Faults,    \* "redisError": the pipeline may fail
    None

ASSUME LimiterAssumption ==
    /\ IsFiniteSet(Callers) /\ Callers # {}
    /\ limit \in Nat /\ window \in Nat /\ Pause \in Nat /\ MaxDelay \in Nat
    /\ None \notin Calls

VARIABLES
    hits,     \* the members of the sorted set: calls
    age,      \* age[n]: how long ago the time stamp of call n was taken
    pc,       \* pc[c]: the command of caller c that Redis executes next
    call,     \* call[c]: the call it makes, or None
    count,    \* count[c]: what ZCARD told it
    rest,     \* rest[c]: how long it still waits after a refusal
    answer,   \* answer[c]: the answer to its last call
    allowed   \* history: the calls allowed within the last window

vars == <<hits, age, pc, call, count, rest, answer, allowed>>

(* Ages beyond this make no difference to any call. *)
MaxAge == window + MaxDelay + 1

InFlight == {c \in Callers : pc[c] # "idle"}

InUse == hits \cup allowed \cup {call[c] : c \in InFlight}

TypeOK ==
    /\ hits \subseteq Calls
    /\ age \in [Calls -> Nat]
    /\ pc \in [Callers -> {"idle", "prune", "card", "add", "reply"}]
    /\ call \in [Callers -> Calls \cup {None}]
    /\ \A c \in Callers : pc[c] = "idle" <=> call[c] = None
    /\ \A c \in Callers : pc[c] \in {"prune", "card", "add"} => call[c] \notin hits
    /\ count \in [Callers -> Nat]
    /\ rest \in [Callers -> Nat]
    /\ answer \in [Callers -> {"none", "allowed", "refused", "error"}]
    /\ allowed \subseteq Calls
    /\ \A n \in allowed : age[n] <= window

Init ==
    /\ hits = {}
    /\ age = [n \in Calls |-> 0]
    /\ pc = [c \in Callers |-> "idle"]
    /\ call = [c \in Callers |-> None]
    /\ count = [c \in Callers |-> 0]
    /\ rest = [c \in Callers |-> 0]
    /\ answer = [c \in Callers |-> "none"]
    /\ allowed = {}

-----------------------------------------------------------------------------
(* Allow takes the time and sends its pipeline. *)
Allow(c) ==
    /\ pc[c] = "idle"
    /\ rest[c] = 0
    /\ \E n \in Calls : n \notin InUse
    /\ LET n == CHOOSE n \in Calls : n \notin InUse
       IN  /\ call' = [call EXCEPT ![c] = n]
           /\ age' = [age EXCEPT ![n] = 0]
    /\ pc' = [pc EXCEPT ![c] = "prune"]
    /\ UNCHANGED <<hits, count, rest, answer, allowed>>

(* The commands come to Redis in order. *)
Command(c, from, to) ==
    /\ pc[c] = from
    /\ pc' = [pc EXCEPT ![c] = to]
    /\ UNCHANGED <<age, call, rest, answer, allowed>>

ZRemRangeByScoreEager(c) ==
    /\ Command(c, "prune", "card")
    /\ hits' = {n \in hits : age[n] + 1 < window + age[call[c]]}
    /\ UNCHANGED count

(* Entries before the caller's windowStart go; one exactly as old stays. *)
ZRemRangeByScore(c) ==
    /\ Command(c, "prune", "card")
    /\ hits' = {n \in hits : age[n] <= window + age[call[c]]}
    /\ UNCHANGED count

ZCardAfterAdd(c) ==
    /\ Command(c, "card", "add")
    /\ hits' = hits \cup {call[c]}
    /\ count' = [count EXCEPT ![c] = Cardinality(hits')]

ZCard(c) ==
    /\ Command(c, "card", "add")
    /\ count' = [count EXCEPT ![c] = Cardinality(hits)]
    /\ UNCHANGED hits

(* The call is recorded whether or not it will be allowed.  EXPIRE comes   *)
(* with it; what it does is Expire.                                        *)
ZAdd(c) ==
    /\ Command(c, "add", "reply")
    /\ hits' = hits \cup {call[c]}
    /\ UNCHANGED count

(* The call ends with answer a. *)
Return(c, a) ==
    /\ pc' = [pc EXCEPT ![c] = "idle"]
    /\ call' = [call EXCEPT ![c] = None]
    /\ count' = [count EXCEPT ![c] = 0]
    /\ answer' = [answer EXCEPT ![c] = a]
    /\ UNCHANGED <<hits, age>>

(* The pipeline was answered: the count from before ZADD decides.  A       *)
(* refused crawler sleeps and polls again, a refused client is told when   *)
(* to retry.                                                               *)
Reply(c) ==
    /\ pc[c] = "reply"
    /\ \/ /\ count[c] < limit
          /\ Return(c, "allowed")
          /\ allowed' = allowed \cup {n \in {call[c]} : age[n] <= window}
          /\ UNCHANGED rest
       \/ /\ count[c] >= limit
          /\ Return(c, "refused")
          /\ rest' = [rest EXCEPT ![c] = Pause]
          /\ UNCHANGED allowed

(* The pipeline failed after any of its commands: the middleware lets the  *)
(* request pass, the crawler gives the task up.                            *)
Fail(c) ==
    /\ "redisError" \in Faults
    /\ pc[c] # "idle"
    /\ Return(c, "error")
    /\ UNCHANGED <<rest, allowed>>

(* The key lives for the window and one second after the last EXPIRE: the  *)
(* entries that go with it are older than the window.                      *)
Expire ==
    /\ hits # {} /\ \A n \in hits : age[n] > window + 1
    /\ hits' = {}
    /\ UNCHANGED <<age, pc, call, count, rest, answer, allowed>>

(* Time passes. *)
Older(n) == IF n \notin InUse THEN 0
            ELSE IF age[n] < MaxAge THEN age[n] + 1 ELSE age[n]

Tick ==
    /\ \A c \in InFlight : age[call[c]] < MaxDelay
    /\ age' = [n \in Calls |-> Older(n)]
    /\ allowed' = {n \in allowed : Older(n) <= window}
    /\ rest' = [c \in Callers |-> IF rest[c] = 0 THEN 0 ELSE rest[c] - 1]
    /\ UNCHANGED <<hits, pc, call, count, answer>>

Pipeline(c) == ZRemRangeByScore(c) \/ ZCard(c) \/ ZAdd(c) \/ Reply(c)

Next ==
    \/ \E c \in Callers : Allow(c) \/ Pipeline(c) \/ Fail(c)
    \/ Expire
    \/ Tick

Spec == Init /\ [][Next]_vars

-----------------------------------------------------------------------------
(* Within any window no more than limit calls are allowed, and one more    *)
(* for each other caller whose pipeline overlaps (rate_limiter.go: "ZCard  *)
(* was read before ZAdd").  Delays between time stamp and pipeline,        *)
(* pruning by callers with an older time stamp, key expiry and pipelines   *)
(* that fail half-way do not add to it.                                    *)
OvershootBounded == Cardinality(allowed) <= limit + Cardinality(Callers) - 1

=============================================================================
