-------------------------- MODULE CachedJobsProofs --------------------------
(***************************************************************************)
(* Proofs about CachedJobs, for any requests, jobs, filters, TTLs, request *)
(* deadline and failures: type correctness, and the bound on the age of an *)
(* answer.                                                                 *)
(*                                                                         *)
(* The bound needs to know how old an entry is while it is in the cache    *)
(* (AgeOK: what it has aged and what it has left to live never exceed the  *)
(* TTL and a deadline), and how old what a request holds is before it is   *)
(* stored (SeenOK: no older than the request).                             *)
(***************************************************************************)
EXTENDS CachedJobs, TLAPS

AgeOK == \A k \in Key : life[k] > 0 => Staleness(age[k]) + life[k] <= ttl(k) + Timeout

SeenOK == \A r \in Reading : Staleness(seen[r]) <= clock[r]

IInv == TypeOK /\ AgeOK /\ SeenOK

-----------------------------------------------------------------------------
(* Every kind of entry has a TTL, of at least one tick. *)
LEMMA TTLPositive == \A k \in Key : ttl(k) \in Nat /\ ttl(k) > 0
<1>1. SUFFICES ASSUME NEW k \in Key PROVE ttl(k) \in Nat /\ ttl(k) > 0
  OBVIOUS
<1>2. k[1] = "job" \/ k[1] = "search" \/ k[1] = "stats"
  BY DEF Key, Stats
<1>3. QED
  BY <1>2, CacheAssumption DEF ttl

(* A change of the table makes no answer older, a tick by one at most. *)
LEMMA Ageing ==
    ASSUME NEW n \in Nat
    PROVE  /\ Replaced(n) \in Nat /\ Older(n) \in Nat /\ Staleness(n) \in Nat
           /\ Staleness(Replaced(n)) = Staleness(n)
           /\ Staleness(Older(n)) <= Staleness(n) + 1
           /\ Staleness(0) = 0
  BY DEF Replaced, Older, Staleness

(* The market statistics are an entry. *)
LEMMA StatsKey == Stats \in Key
  BY DEF Key

-----------------------------------------------------------------------------
(* An empty cache and no request. *)
LEMMA InitInv == Init => IInv
<1> SUFFICES ASSUME Init PROVE IInv
  OBVIOUS
<1>1. TypeOK
  BY StatsKey, TTLPositive, CacheAssumption DEF Init, TypeOK, Busy, Forgetting
<1>2. AgeOK /\ SeenOK
  BY DEF Init, AgeOK, SeenOK, Reading
<1>3. QED
  BY <1>1, <1>2 DEF IInv

(* A write to the table starts the staleness of what is cached and read. *)
LEMMA WriteInv == IInv /\ Write => IInv'
<1> SUFFICES ASSUME IInv, Write PROVE IInv'
  OBVIOUS
<1> USE DEF IInv
<1>1. age' \in [Key -> Nat] /\ seen' \in [Requests -> Nat]
  BY Ageing DEF TypeOK, Write
<1>2. present' \in [Jobs -> BOOLEAN]
  BY DEF TypeOK, Write, DeleteOlderThan, Upsert
<1>3. gone' \in [Jobs -> 0 .. Forgetting]
  BY CacheAssumption DEF TypeOK, Write, Forgetting
<1>4. TypeOK'
  BY <1>1, <1>2, <1>3 DEF TypeOK, Write
<1>5. AgeOK'
  BY Ageing DEF AgeOK, TypeOK, Write
<1>6. SeenOK'
  BY Ageing DEF SeenOK, Reading, TypeOK, Write
<1>7. QED
  BY <1>4, <1>5, <1>6

(* What ages by a tick also has one tick less to live. *)
LEMMA TickInv == IInv /\ Tick => IInv'
<1> SUFFICES ASSUME IInv, Tick PROVE IInv'
  OBVIOUS
<1> USE DEF IInv
<1>1. age' \in [Key -> Nat] /\ seen' \in [Requests -> Nat]
  BY Ageing DEF TypeOK, Tick
<1>2. life' \in [Key -> Nat] /\ \A k \in Key : life'[k] <= ttl(k)
  BY TTLPositive DEF TypeOK, Tick
<1>3. clock' \in [Requests -> 0 .. Timeout + 1]
  BY CacheAssumption DEF TypeOK, Tick, Late
<1>4. TypeOK'
  <2>1. gone' \in [Jobs -> 0 .. Forgetting]
    BY CacheAssumption DEF TypeOK, Tick, Forgetting
  <2>2. QED
    BY <1>1, <1>2, <1>3, <2>1 DEF TypeOK, Tick
<1>5. AgeOK'
  <2>1. SUFFICES ASSUME NEW k \in Key, life'[k] > 0
                 PROVE  Staleness(age'[k]) + life'[k] <= ttl(k) + Timeout
    BY DEF AgeOK
  <2>2. life[k] \in Nat /\ age[k] \in Nat /\ ttl(k) \in Nat /\ Timeout \in Nat
    BY TTLPositive, CacheAssumption DEF TypeOK
  <2>3. life[k] > 1 /\ life'[k] = life[k] - 1 /\ age'[k] = Older(age[k])
    BY <2>1, <2>2 DEF Tick
  <2>4. Staleness(age[k]) + life[k] <= ttl(k) + Timeout
    BY <2>2, <2>3 DEF AgeOK
  <2>5. Staleness(age'[k]) <= Staleness(age[k]) + 1 /\ Staleness(age[k]) \in Nat
        /\ Staleness(age'[k]) \in Nat
    BY <1>1, <2>2, <2>3, Ageing
  <2>6. QED
    BY <2>2, <2>3, <2>4, <2>5
<1>6. SeenOK'
  <2>1. SUFFICES ASSUME NEW r \in Requests, at[r] \in {"more", "set"}
                 PROVE  Staleness(seen'[r]) <= clock'[r]
    BY DEF SeenOK, Reading, Tick
  <2>2. seen[r] \in Nat /\ clock[r] \in Nat /\ Staleness(seen[r]) <= clock[r]
    BY <2>1, CacheAssumption DEF TypeOK, SeenOK, Reading
  <2>3. seen'[r] = Older(seen[r]) /\ clock'[r] = clock[r] + 1
    BY <2>1 DEF Tick, Reading, Busy
  <2>4. QED
    BY <1>1, <2>2, <2>3, Ageing
<1>7. QED
  BY <1>4, <1>5, <1>6

-----------------------------------------------------------------------------
(* A request that is answered or goes on keeps the invariant, if what it   *)
(* holds afterwards is no older than the request.                          *)
LEMMA RespondInv ==
    ASSUME IInv, NEW r \in Requests, Respond(r), UNCHANGED <<tableVars, cacheVars>>
    PROVE  IInv'
<1> USE DEF IInv
<1>1. TypeOK'
  BY StatsKey, CacheAssumption DEF TypeOK, Respond, cacheVars, tableVars, Busy
<1>2. AgeOK' /\ SeenOK'
  BY DEF AgeOK, SeenOK, Reading, TypeOK, Respond, cacheVars, tableVars
<1>3. QED
  BY <1>1, <1>2

(* A hit answers with what is cached, a miss goes on to the table. *)
LEMMA CacheGetInv == ASSUME IInv, NEW r \in Requests, CacheGet(r) PROVE IInv'
<1> USE DEF IInv
<1>1. CASE Respond(r)
  BY <1>1, RespondInv DEF CacheGet
<1>2. CASE Goto(r, "query") /\ UNCHANGED seen
  BY <1>2 DEF CacheGet, Goto, TypeOK, AgeOK, SeenOK, Reading, cacheVars, tableVars, Busy
<1>3. QED
  BY <1>1, <1>2 DEF CacheGet

(* What a request has just read is up to date. *)
LEMMA QueryInv == ASSUME IInv, NEW r \in Requests, Query(r) PROVE IInv'
<1> USE DEF IInv
<1>1. CASE Respond(r)
  BY <1>1, RespondInv DEF Query
<1>2. CASE /\ seen' = [seen EXCEPT ![r] = 0]
           /\ Goto(r, IF asks[r][1] = "job" THEN "set" ELSE "more")
  <2>1. TypeOK'
    BY <1>2 DEF Query, Goto, TypeOK, cacheVars, tableVars, Busy
  <2>2. AgeOK'
    BY <1>2 DEF Query, AgeOK, cacheVars, tableVars
  <2>3. SeenOK'
    <3>1. SUFFICES ASSUME NEW q \in Requests, at'[q] \in {"more", "set"}
                   PROVE  Staleness(seen'[q]) <= clock'[q]
      BY DEF SeenOK, Reading
    <3>2. CASE q = r
      BY <1>2, <3>2, CacheAssumption DEF Goto, TypeOK, Staleness
    <3>3. CASE q # r
      BY <1>2, <3>1, <3>3 DEF Goto, TypeOK, SeenOK, Reading
    <3>4. QED
      BY <3>2, <3>3
  <2>4. QED
    BY <2>1, <2>2, <2>3
<1>3. QED
  BY <1>1, <1>2 DEF Query

(* The further queries of one answer change nothing that is held. *)
LEMMA QueryMoreInv == ASSUME IInv, NEW r \in Requests, QueryMore(r) PROVE IInv'
<1> USE DEF IInv
<1>1. CASE Respond(r)
  BY <1>1, RespondInv DEF QueryMore
<1>2. CASE Goto(r, "set") /\ UNCHANGED seen
  BY <1>2 DEF QueryMore, Goto, TypeOK, AgeOK, SeenOK, Reading, cacheVars, tableVars, Busy
<1>3. QED
  BY <1>1, <1>2 DEF QueryMore

(* What is stored is no older than the request that read it, which is not  *)
(* late: no older than the deadline.                                       *)
LEMMA CacheSetInv == ASSUME IInv, NEW r \in Requests, CacheSet(r) PROVE IInv'
<1> USE DEF IInv
<1>1. CASE UNCHANGED cacheVars
  BY <1>1, RespondInv DEF CacheSet
<1>2. CASE /\ ~Late(r)
           /\ age' = [age EXCEPT ![asks[r]] = seen[r]]
           /\ life' = [life EXCEPT ![asks[r]] = ttl(asks[r])]
  <2>1. asks[r] \in Key /\ seen[r] \in Nat /\ clock[r] \in Nat /\ Timeout \in Nat
    BY CacheAssumption DEF TypeOK
  <2>2. Staleness(seen[r]) <= Timeout
    BY <1>2, <2>1, Ageing DEF CacheSet, SeenOK, Reading, Late
  <2>3. TypeOK'
    BY <1>2, <2>1, TTLPositive, StatsKey, CacheAssumption DEF TypeOK, CacheSet, Respond, Busy, tableVars
  <2>4. AgeOK'
    <3>1. SUFFICES ASSUME NEW k \in Key, life'[k] > 0
                   PROVE  Staleness(age'[k]) + life'[k] <= ttl(k) + Timeout
      BY DEF AgeOK
    <3>2. CASE k = asks[r]
      BY <1>2, <2>1, <2>2, <3>2, TTLPositive, Ageing DEF TypeOK
    <3>3. CASE k # asks[r]
      BY <1>2, <2>1, <3>1, <3>3 DEF AgeOK, TypeOK
    <3>4. QED
      BY <3>2, <3>3
  <2>5. SeenOK'
    BY DEF SeenOK, Reading, TypeOK, CacheSet, Respond
  <2>6. QED
    BY <2>3, <2>4, <2>5
<1>3. QED
  BY <1>1, <1>2 DEF CacheSet

(* A request begins with nothing in hand. *)
LEMMA ArriveInv == ASSUME IInv, NEW r \in Requests, Arrive(r) PROVE IInv'
  BY DEF IInv, Arrive, TypeOK, AgeOK, SeenOK, Reading, cacheVars, tableVars, Busy

(* Invalidate only removes entries. *)
LEMMA InvalidateInv == IInv /\ Invalidate => IInv'
<1> SUFFICES ASSUME IInv, Invalidate PROVE IInv'
  OBVIOUS
<1> USE DEF IInv
<1>1. PICK K : /\ life' = [k \in Key |-> IF k \in K THEN 0 ELSE life[k]]
               /\ age' = [k \in Key |-> IF k \in K THEN 0 ELSE age[k]]
               /\ UNCHANGED <<tableVars, reqVars>>
  BY DEF Invalidate
<1>2. TypeOK'
  BY <1>1, TTLPositive DEF TypeOK, reqVars, tableVars
<1>3. AgeOK' /\ SeenOK'
  BY <1>1 DEF AgeOK, SeenOK, Reading, TypeOK, reqVars
<1>4. QED
  BY <1>2, <1>3

-----------------------------------------------------------------------------
(* Every step keeps the invariant. *)
LEMMA StepInv == IInv /\ [Next]_vars => IInv'
<1> SUFFICES ASSUME IInv, [Next]_vars PROVE IInv'
  OBVIOUS
<1>1. CASE Write
  BY <1>1, WriteInv
<1>2. CASE Tick
  BY <1>2, TickInv
<1>3. ASSUME NEW r \in Requests, Arrive(r) PROVE IInv'
  BY <1>3, ArriveInv
<1>4. ASSUME NEW r \in Requests, Handle(r) PROVE IInv'
  BY <1>4, CacheGetInv, QueryInv, QueryMoreInv, CacheSetInv DEF Handle
<1>5. CASE Invalidate
  BY <1>5, InvalidateInv
<1>6. CASE UNCHANGED vars
  BY <1>6 DEF IInv, TypeOK, AgeOK, SeenOK, Reading, vars, cacheVars, tableVars, reqVars
<1>7. QED
  BY <1>1, <1>2, <1>3, <1>4, <1>5, <1>6 DEF Next

(* Reads, fills, expiry, invalidations and writes keep the ages of entries *)
(* and of what requests hold within their bounds.                          *)
THEOREM InductiveInvariant == Spec => []IInv
  BY InitInv, StepInv, PTL DEF Spec

(* Type correctness of the cache-aside reads: entries live no longer than  *)
(* their TTL, requests no longer than their deadline.                      *)
THEOREM TypeCorrect == Spec => []TypeOK
<1>1. IInv => TypeOK
  BY DEF IInv
<1>2. QED
  BY <1>1, InductiveInvariant, PTL

-----------------------------------------------------------------------------
(* One step answers one request. *)
LEMMA AnswerBounded ==
    ASSUME IInv, [Next]_vars, NEW r \in Requests,
           at[r] \in {"get", "set"}, at'[r] = "idle"
    PROVE  Staleness(AnswerAge(r)) <= ttl(asks[r]) + Timeout
<1> USE DEF IInv
<1>1. /\ asks[r] \in Key /\ life[asks[r]] \in Nat /\ age[asks[r]] \in Nat
      /\ seen[r] \in Nat /\ clock[r] \in 0 .. Timeout + 1 /\ Timeout \in Nat
      /\ ttl(asks[r]) \in Nat /\ ttl(asks[r]) > 0
  BY TTLPositive, CacheAssumption DEF TypeOK
<1>2. CASE at[r] = "set"
  <2>1. Staleness(seen[r]) <= clock[r] /\ AnswerAge(r) = seen[r]
    BY <1>2 DEF SeenOK, Reading, AnswerAge
  <2>2. QED
    BY <1>1, <2>1, Ageing
<1>3. CASE at[r] = "get"
  <2>1. at' # at
    BY <1>3
  <2>2. PICK q \in Requests : Arrive(q) \/ Handle(q)
    BY <2>1 DEF Next, vars, reqVars, Write, Tick, Invalidate
  <2>3. at' = [at EXCEPT ![q] = at'[q]]
    BY <2>2 DEF TypeOK, Arrive, Handle, CacheGet, Query, QueryMore, CacheSet, Goto, Respond
  <2>4. q = r
    BY <1>3, <2>3 DEF TypeOK
  <2>5. CacheGet(r)
    BY <1>3, <2>2, <2>4 DEF Arrive, Handle, Query, QueryMore, CacheSet
  <2>6. life[asks[r]] > 0
    BY <1>1, <1>3, <2>5 DEF CacheGet, Goto, TypeOK
  <2>7. Staleness(age[asks[r]]) + life[asks[r]] <= ttl(asks[r]) + Timeout
    BY <1>1, <2>6 DEF AgeOK
  <2>8. AnswerAge(r) = age[asks[r]]
    BY <1>3 DEF AnswerAge
  <2>9. QED
    BY <1>1, <2>6, <2>7, <2>8, Ageing
<1>4. QED
  BY <1>2, <1>3

(* No answer of Search, GetByID or GetStats was out of date for longer     *)
(* than the TTL of its kind plus the deadline of one request, whichever    *)
(* readers, writers and invalidations meet.                                *)
THEOREM AnswersFresh == Spec => StalenessBounded
<1>1. IInv /\ [Next]_vars =>
        [\A r \in Requests :
            at[r] \in {"get", "set"} /\ at'[r] = "idle"
               => Staleness(AnswerAge(r)) <= ttl(asks[r]) + Timeout]_vars
  BY AnswerBounded
<1>2. QED
  BY <1>1, InductiveInvariant, PTL DEF Spec, StalenessBounded

-----------------------------------------------------------------------------
(* How long a job has been gone.  Whatever the cache or a request still    *)
(* has of it was read before the DELETE, so its age goes on with gone; an  *)
(* entry that has aged that much has nothing left to live.                 *)

JobKey(j) == <<"job", j>>

GoneOK ==
    \A j \in Jobs :
        IF present[j] THEN gone[j] = 0
        ELSE /\ life[JobKey(j)] > 0 => age[JobKey(j)] > gone[j]
             /\ \A r \in Reading : asks[r] = JobKey(j) => seen[r] > gone[j]

(* Every job has its own entry. *)
LEMMA JobKeys ==
    /\ \A j \in Jobs : JobKey(j) \in Key /\ JobKey(j)[1] = "job" /\ JobKey(j)[2] = j
                       /\ ttl(JobKey(j)) = TTLCacheJob
    /\ \A i, j \in Jobs : JobKey(i) = JobKey(j) => i = j
  BY DEF JobKey, Key, ttl

(* Whatever is held ages with the time that the job is gone. *)
LEMMA AgeingWithGone ==
    ASSUME NEW n \in Nat, NEW g \in Nat
    PROVE  /\ Replaced(n) > 0 /\ Replaced(n) >= n
           /\ n > g => Older(n) > g + 1
  BY DEF Replaced, Older

(* Every step keeps account of it. *)
LEMMA GoneStep == ASSUME IInv, GoneOK, [Next]_vars PROVE GoneOK'
<1> USE DEF IInv
<1>1. SUFFICES ASSUME NEW j \in Jobs
               PROVE  IF present'[j] THEN gone'[j] = 0
                      ELSE /\ life'[JobKey(j)] > 0 => age'[JobKey(j)] > gone'[j]
                           /\ \A r \in Reading' : asks'[r] = JobKey(j) => seen'[r] > gone'[j]
  BY DEF GoneOK
<1> DEFINE k == JobKey(j)
<1>2. /\ k \in Key /\ gone[j] \in Nat /\ present[j] \in BOOLEAN
      /\ life[k] \in Nat /\ age[k] \in Nat /\ \A r \in Requests : seen[r] \in Nat
  BY JobKeys, CacheAssumption DEF TypeOK, Forgetting
<1>3. IF present[j] THEN gone[j] = 0
      ELSE /\ life[k] > 0 => age[k] > gone[j]
           /\ \A r \in Reading : asks[r] = k => seen[r] > gone[j]
  BY DEF GoneOK
<1>4. CASE Write
  <2>1. /\ gone'[j] = IF present[j] \/ present'[j] THEN 0 ELSE gone[j]
        /\ life'[k] = life[k] /\ age'[k] = IF life[k] > 0 THEN Replaced(age[k]) ELSE 0
        /\ Reading' = Reading /\ asks' = asks
        /\ \A r \in Reading : seen'[r] = Replaced(seen[r])
    BY <1>2, <1>4 DEF Write, Reading
  <2>2. \A r \in Reading : seen[r] \in Nat
    BY <1>2 DEF Reading
  <2>3. ASSUME ~present'[j], life[k] > 0 PROVE Replaced(age[k]) > gone'[j]
    BY <1>2, <1>3, <2>1, <2>3, AgeingWithGone, Ageing
  <2>4. ASSUME ~present'[j], NEW r \in Reading, asks[r] = k PROVE Replaced(seen[r]) > gone'[j]
    <3>1. /\ seen[r] \in Nat /\ Replaced(seen[r]) \in Nat
          /\ Replaced(seen[r]) > 0 /\ Replaced(seen[r]) >= seen[r]
      BY <2>2, AgeingWithGone, Ageing
    <3>2. gone'[j] = 0 \/ (gone'[j] = gone[j] /\ seen[r] > gone[j])
      BY <1>3, <2>1, <2>4
    <3>3. QED
      BY <1>2, <3>1, <3>2
  <2>5. QED
    BY <1>2, <2>1, <2>3, <2>4
<1>5. CASE Tick
  <2>1. /\ gone'[j] = IF present[j] THEN 0
                      ELSE IF gone[j] < Forgetting THEN gone[j] + 1 ELSE gone[j]
        /\ present' = present
        /\ life'[k] > 0 => life[k] > 0 /\ age'[k] = Older(age[k])
        /\ Reading' = Reading /\ asks' = asks
        /\ \A r \in Reading : seen'[r] = Older(seen[r])
    BY <1>2, <1>5 DEF Tick, Reading
  <2>2. \A r \in Reading : seen[r] \in Nat
    BY <1>2 DEF Reading
  <2>3. CASE present[j]
    BY <1>3, <2>1, <2>3
  <2>4. CASE ~present[j]
    <3>1. gone'[j] \in Nat /\ gone'[j] <= gone[j] + 1
      BY <1>2, <2>1, <2>4
    <3>2. ASSUME life'[k] > 0 PROVE age'[k] > gone'[j]
      <4>1. age[k] > gone[j] /\ age'[k] = Older(age[k])
        BY <1>3, <2>1, <2>4, <3>2
      <4>2. Older(age[k]) > gone[j] + 1 /\ Older(age[k]) \in Nat
        BY <1>2, <4>1, AgeingWithGone, Ageing
      <4>3. QED
        BY <1>2, <3>1, <4>1, <4>2
    <3>3. ASSUME NEW r \in Reading, asks[r] = k PROVE seen'[r] > gone'[j]
      <4>1. seen[r] > gone[j] /\ seen'[r] = Older(seen[r])
        BY <1>3, <2>1, <2>4, <3>3
      <4>2. Older(seen[r]) > gone[j] + 1 /\ Older(seen[r]) \in Nat
        BY <1>2, <2>2, <4>1, AgeingWithGone, Ageing
      <4>3. QED
        BY <1>2, <3>1, <4>1, <4>2
    <3>4. QED
      BY <2>1, <2>4, <3>2, <3>3
  <2>5. QED
    BY <2>3, <2>4
<1>6. ASSUME UNCHANGED <<tableVars, cacheVars>>,
             \A r \in Reading' : asks'[r] = k => r \in Reading /\ asks[r] = k /\ seen'[r] = seen[r]
      PROVE  IF present'[j] THEN gone'[j] = 0
             ELSE /\ life'[k] > 0 => age'[k] > gone'[j]
                  /\ \A r \in Reading' : asks'[r] = k => seen'[r] > gone'[j]
  BY <1>3, <1>6 DEF tableVars, cacheVars
<1>7. ASSUME NEW r \in Requests, Arrive(r) \/ CacheGet(r) \/ QueryMore(r)
      PROVE  /\ UNCHANGED <<tableVars, cacheVars>>
             /\ \A q \in Reading' : asks'[q] = k => q \in Reading /\ asks[q] = k /\ seen'[q] = seen[q]
  BY <1>7 DEF Arrive, CacheGet, QueryMore, Goto, Respond, Reading, TypeOK
<1>8. ASSUME NEW r \in Requests, Respond(r)
      PROVE  \A q \in Reading' : asks'[q] = k => q \in Reading /\ asks[q] = k /\ seen'[q] = seen[q]
  BY <1>8 DEF Respond, Reading, TypeOK
<1>9. ASSUME NEW r \in Requests, Query(r), ~Respond(r), asks[r] = k
      PROVE  present[j] /\ UNCHANGED tableVars
  BY <1>9, JobKeys DEF Query
<1>10. ASSUME NEW r \in Requests, Query(r), ~Respond(r), asks[r] # k
       PROVE  /\ UNCHANGED <<tableVars, cacheVars>>
              /\ \A q \in Reading' : asks'[q] = k => q \in Reading /\ asks[q] = k /\ seen'[q] = seen[q]
  BY <1>10 DEF Query, Goto, Reading, TypeOK
<1>11. ASSUME NEW r \in Requests, CacheSet(r), ~UNCHANGED cacheVars
       PROVE  IF present'[j] THEN gone'[j] = 0
              ELSE /\ life'[k] > 0 => age'[k] > gone'[j]
                   /\ \A q \in Reading' : asks'[q] = k => seen'[q] > gone'[j]
  <2>1. /\ at[r] = "set" /\ Respond(r) /\ UNCHANGED tableVars
        /\ age' = [age EXCEPT ![asks[r]] = seen[r]]
        /\ life' = [life EXCEPT ![asks[r]] = ttl(asks[r])]
    BY <1>11 DEF CacheSet
  <2>2. r \in Reading
    BY <2>1 DEF Reading
  <2>3. CASE asks[r] = k
    <3>1. age'[k] = seen[r]
      BY <1>2, <2>1, <2>3 DEF TypeOK
    <3>2. QED
      BY <1>3, <1>8, <2>1, <2>2, <2>3, <3>1 DEF tableVars
  <2>4. CASE asks[r] # k
    <3>1. age'[k] = age[k] /\ life'[k] = life[k]
      BY <1>2, <2>1, <2>4 DEF TypeOK
    <3>2. QED
      BY <1>3, <1>8, <2>1, <3>1 DEF tableVars
  <2>5. QED
    BY <2>3, <2>4
<1>12. CASE Invalidate
  <2>1. /\ UNCHANGED tableVars /\ UNCHANGED reqVars
        /\ life'[k] > 0 => life'[k] = life[k] /\ age'[k] = age[k]
    BY <1>2, <1>12 DEF Invalidate
  <2>2. QED
    BY <1>3, <2>1 DEF tableVars, reqVars, Reading
<1>13. CASE UNCHANGED vars
  BY <1>3, <1>13 DEF vars, tableVars, cacheVars, reqVars, Reading
<1>14. ASSUME NEW r \in Requests, Handle(r)
       PROVE  IF present'[j] THEN gone'[j] = 0
              ELSE /\ life'[k] > 0 => age'[k] > gone'[j]
                   /\ \A q \in Reading' : asks'[q] = k => seen'[q] > gone'[j]
  <2>1. CASE CacheGet(r) \/ QueryMore(r)
    BY <1>6, <1>7, <2>1
  <2>2. CASE Query(r)
    <3>1. UNCHANGED <<tableVars, cacheVars>>
      BY <2>2 DEF Query
    <3>2. CASE Respond(r)
      BY <1>6, <1>8, <3>1, <3>2
    <3>3. CASE ~Respond(r) /\ asks[r] = k
      BY <1>3, <1>9, <2>2, <3>3 DEF tableVars
    <3>4. CASE ~Respond(r) /\ asks[r] # k
      BY <1>6, <1>10, <2>2, <3>4
    <3>5. QED
      BY <3>2, <3>3, <3>4
  <2>3. CASE CacheSet(r)
    <3>1. UNCHANGED tableVars /\ Respond(r)
      BY <2>3 DEF CacheSet
    <3>2. QED
      BY <1>6, <1>8, <1>11, <2>3, <3>1
  <2>4. QED
    BY <1>14, <2>1, <2>2, <2>3 DEF Handle
<1>15. QED
  BY <1>4, <1>5, <1>6, <1>7, <1>12, <1>13, <1>14 DEF Next

(* A deleted job is out of the cache within its TTL and the deadline of    *)
(* one request, for any readers, writers and failures; there is no need to *)
(* invalidate it.                                                          *)
THEOREM ForgetsInTime == Spec => []ForgottenInTime
<1>1. IInv /\ GoneOK => ForgottenInTime
  <2>1. SUFFICES ASSUME IInv, GoneOK, NEW j \in Jobs, gone[j] >= TTLCacheJob + Timeout,
                        life[JobKey(j)] > 0
                 PROVE  FALSE
    BY JobKeys DEF ForgottenInTime, IInv, TypeOK, JobKey
  <2>2. /\ life[JobKey(j)] \in Nat /\ age[JobKey(j)] \in Nat /\ gone[j] \in Nat
        /\ TTLCacheJob \in Nat \ {0} /\ Timeout \in Nat
    BY <2>1, JobKeys, CacheAssumption DEF IInv, TypeOK, Forgetting
  <2>3. ~present[j] /\ age[JobKey(j)] > gone[j]
    BY <2>1, <2>2 DEF GoneOK
  <2>4. Staleness(age[JobKey(j)]) + life[JobKey(j)] <= TTLCacheJob + Timeout
    BY <2>1, JobKeys DEF IInv, AgeOK
  <2>5. Staleness(age[JobKey(j)]) >= gone[j]
    BY <2>2, <2>3 DEF Staleness
  <2>6. Staleness(age[JobKey(j)]) \in Nat
    BY <2>2, Ageing
  <2>7. QED
    BY <2>1, <2>2, <2>4, <2>5, <2>6
<1>2. Init => GoneOK
  BY JobKeys DEF Init, GoneOK, Reading
<1>3. IInv /\ GoneOK /\ [Next]_vars => GoneOK'
  BY GoneStep
<1>4. QED
  BY <1>1, <1>2, <1>3, InductiveInvariant, PTL DEF Spec

=============================================================================
