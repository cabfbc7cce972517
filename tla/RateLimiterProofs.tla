------------------------- MODULE RateLimiterProofs -------------------------
(***************************************************************************)
(* Proofs about RateLimiter, for any limit, window, pause and delay and    *)
(* any finite number of callers, with pipelines that interleave and fail.  *)
(***************************************************************************)
EXTENDS RateLimiter, Functions, FiniteSetTheorems, TLAPS

LEMMA CallersCount == Cardinality(Callers) \in Nat /\ Cardinality(Callers) >= 1
BY LimiterAssumption, FS_CardinalityType, FS_EmptySet

-----------------------------------------------------------------------------
(* Type correctness.                                                       *)

(* The sorted set and the calls on their way are finite, and no two        *)
(* callers make the same call.                                             *)
CallsOK ==
    /\ IsFiniteSet(hits)
    /\ \A c \in Callers : call[c] \notin allowed
    /\ \A c, d \in Callers : c # d /\ call[c] # None => call[c] # call[d]

LEMMA TypeInit == ASSUME Init PROVE TypeOK /\ CallsOK
BY FS_EmptySet, LimiterAssumption DEF Init, TypeOK, CallsOK

LEMMA TypeStep ==
    ASSUME TypeOK, CallsOK, [Next]_vars
    PROVE  TypeOK' /\ CallsOK'
<1> USE LimiterAssumption DEF TypeOK, CallsOK
<1>1. CASE UNCHANGED vars
  BY <1>1 DEF vars
<1>2. ASSUME NEW c \in Callers, Allow(c) PROVE TypeOK' /\ CallsOK'
  <2>1. PICK n \in Calls : /\ n \notin InUse
                           /\ call' = [call EXCEPT ![c] = n]
                           /\ age' = [age EXCEPT ![n] = 0]
    BY <1>2 DEF Allow
  <2>2. n \notin allowed /\ n \notin hits /\ \A d \in Callers : call[d] # n
    BY <2>1 DEF InUse, InFlight
  <2>3. /\ pc' = [pc EXCEPT ![c] = "prune"]
        /\ UNCHANGED <<hits, count, rest, answer, allowed>>
    BY <1>2 DEF Allow
  <2>4. QED BY <2>1, <2>2, <2>3
<1>3. ASSUME NEW c \in Callers, ZRemRangeByScore(c) PROVE TypeOK' /\ CallsOK'
  <2>1. hits' \subseteq hits
    BY <1>3 DEF ZRemRangeByScore
  <2>2. IsFiniteSet(hits')
    BY <2>1, FS_Subset
  <2>3. QED BY <1>3, <2>1, <2>2 DEF ZRemRangeByScore, Command
<1>4. ASSUME NEW c \in Callers, ZCard(c) PROVE TypeOK' /\ CallsOK'
  <2>1. Cardinality(hits) \in Nat
    BY FS_CardinalityType
  <2>2. QED BY <1>4, <2>1 DEF ZCard, Command
<1>5. ASSUME NEW c \in Callers, ZAdd(c) PROVE TypeOK' /\ CallsOK'
  <2>1. call[c] \in Calls
    BY <1>5 DEF ZAdd, Command
  <2>2. IsFiniteSet(hits')
    BY <1>5, FS_AddElement DEF ZAdd
  <2>3. QED BY <1>5, <2>1, <2>2 DEF ZAdd, Command
<1>6. ASSUME NEW c \in Callers, Reply(c) PROVE TypeOK' /\ CallsOK'
  <2>1. call[c] \in Calls
    BY <1>6 DEF Reply
  <2>2. allowed' \subseteq allowed \cup {call[c]} /\ \A n \in allowed' : age[n] <= window
    BY <1>6 DEF Reply
  <2>3. call' = [call EXCEPT ![c] = None] /\ UNCHANGED <<hits, age>>
    BY <1>6 DEF Reply, Return
  <2>4. TypeOK'
    BY <1>6, <2>1, <2>2, <2>3 DEF Reply, Return
  <2>5. \A d \in Callers : call'[d] \notin allowed'
    <3>1. SUFFICES ASSUME NEW d \in Callers, call'[d] \in allowed' PROVE FALSE
      OBVIOUS
    <3>2. CASE d = c
      <4>1. call'[d] = None /\ allowed' \subseteq Calls
        BY <2>1, <2>2, <2>3, <3>2
      <4>2. QED BY <3>1, <4>1
    <3>3. CASE d # c
      <4>1. call'[d] = call[d] /\ call[d] # call[c]
        BY <2>1, <2>3, <3>3
      <4>2. QED BY <2>2, <3>1, <4>1
    <3>4. QED BY <3>2, <3>3
  <2>6. CallsOK'
    BY <2>3, <2>5
  <2>7. QED BY <2>4, <2>6
<1>7. ASSUME NEW c \in Callers, Fail(c) PROVE TypeOK' /\ CallsOK'
  <2>1. call' = [call EXCEPT ![c] = None] /\ UNCHANGED <<hits, age, allowed, rest>>
    BY <1>7 DEF Fail, Return
  <2>2. TypeOK'
    BY <1>7, <2>1 DEF Fail, Return
  <2>3. CallsOK'
    BY <2>1
  <2>4. QED BY <2>2, <2>3
<1>8. ASSUME Expire PROVE TypeOK' /\ CallsOK'
  BY <1>8, FS_EmptySet DEF Expire
<1>9. ASSUME Tick PROVE TypeOK' /\ CallsOK'
  <2>1. \A n \in Calls : Older(n) \in Nat
    BY DEF Older, MaxAge
  <2>2. QED BY <1>9, <2>1 DEF Tick
<1>10. QED
  BY <1>1, <1>2, <1>3, <1>4, <1>5, <1>6, <1>7, <1>8, <1>9 DEF Next, Pipeline

(* Every variable keeps its type in every reachable state; in particular   *)
(* the calls counted as allowed lie within the window.                     *)
THEOREM TypeCorrect == Spec => []TypeOK
<1>1. Init => TypeOK /\ CallsOK
  BY TypeInit
<1>2. TypeOK /\ CallsOK /\ [Next]_vars => (TypeOK /\ CallsOK)'
  BY TypeStep
<1>3. QED BY <1>1, <1>2, PTL DEF Spec

-----------------------------------------------------------------------------
(* The bound on the calls allowed.  It is proved of all calls of the       *)
(* window that are allowed or have read a count that will allow them: that *)
(* set grows only when ZCARD is executed.                                  *)

Passing ==
    {n \in Calls :
        /\ age[n] <= window
        /\ \/ n \in allowed
           \/ \E c \in Callers : call[c] = n /\ pc[c] \in {"add", "reply"} /\ count[c] < limit}

(* They are in the sorted set, but for those whose ZADD is to come. *)
Recorded ==
    \A n \in Passing : n \in hits \/ \E c \in Callers : call[c] = n /\ pc[c] = "add"

BoundOK ==
    /\ Recorded
    /\ IsFiniteSet(Passing)
    /\ Cardinality(Passing) <= limit + Cardinality(Callers) - 1

LEMMA BoundInit == ASSUME Init PROVE BoundOK
<1>1. Passing = {}
  BY DEF Init, Passing
<1>2. QED BY <1>1, FS_EmptySet, CallersCount, LimiterAssumption DEF BoundOK, Recorded

(* Steps in which no call joins the set. *)
LEMMA Shrinks ==
    ASSUME BoundOK, Passing' \subseteq Passing, Recorded'
    PROVE  BoundOK'
<1>1. IsFiniteSet(Passing') /\ Cardinality(Passing') <= Cardinality(Passing)
  BY FS_Subset DEF BoundOK
<1>2. Cardinality(Passing') \in Nat /\ Cardinality(Passing) \in Nat
  BY <1>1, FS_CardinalityType DEF BoundOK
<1>3. QED BY <1>1, <1>2, CallersCount, LimiterAssumption DEF BoundOK

(* The calls on their way are no more than the callers. *)
LEMMA FewCalls ==
    LET T == {call[c] : c \in Callers}
    IN  IsFiniteSet(T) /\ Cardinality(T) <= Cardinality(Callers) /\ Cardinality(T) \in Nat
<1> DEFINE T == {call[c] : c \in Callers}
           f == [c \in Callers |-> call[c]]
<1>1. f \in Surjection(Callers, T)
  BY DEF Surjection
<1>2. IsFiniteSet(T) /\ Cardinality(T) <= Cardinality(Callers)
  BY <1>1, FS_Surjection, LimiterAssumption
<1>3. QED BY <1>2, FS_CardinalityType

LEMMA BoundStep ==
    ASSUME TypeOK, CallsOK, BoundOK, [Next]_vars
    PROVE  BoundOK'
<1> USE LimiterAssumption
<1>1. CASE UNCHANGED vars
  <2>1. Passing' = Passing /\ (Recorded' <=> Recorded)
    BY <1>1 DEF vars, Passing, Recorded
  <2>2. QED BY <2>1 DEF BoundOK
<1>2. ASSUME NEW c \in Callers, Allow(c) PROVE BoundOK'
  <2>1. PICK m \in Calls : /\ m \notin InUse
                           /\ call' = [call EXCEPT ![c] = m]
                           /\ age' = [age EXCEPT ![m] = 0]
    BY <1>2 DEF Allow
  <2>2. /\ pc[c] = "idle" /\ pc' = [pc EXCEPT ![c] = "prune"]
        /\ UNCHANGED <<hits, count, allowed>>
    BY <1>2 DEF Allow
  <2>3. m \notin allowed /\ \A d \in Callers : call[d] # m
    BY <2>1 DEF InUse, InFlight, TypeOK
  <2>4. Passing' \subseteq Passing
    BY <2>1, <2>2, <2>3 DEF Passing, TypeOK
  <2>5. Recorded'
    BY <2>1, <2>2, <2>4 DEF Recorded, BoundOK, TypeOK
  <2>6. QED BY <2>4, <2>5, Shrinks
<1>3. ASSUME NEW c \in Callers, ZRemRangeByScore(c) PROVE BoundOK'
  <2>1. /\ pc[c] = "prune" /\ pc' = [pc EXCEPT ![c] = "card"]
        /\ UNCHANGED <<age, call, count, allowed>>
        /\ hits' = {n \in hits : age[n] <= window + age[call[c]]}
    BY <1>3 DEF ZRemRangeByScore, Command
  <2>2. Passing' \subseteq Passing
    BY <2>1 DEF Passing, TypeOK
  <2>3. age[call[c]] \in Nat
    BY <2>1 DEF TypeOK
  <2>4. \A n \in hits : n \in Passing => n \in hits'
    BY <2>1, <2>3 DEF Passing, TypeOK
  <2>5. Recorded'
    BY <2>1, <2>2, <2>4 DEF Recorded, BoundOK, TypeOK
  <2>6. QED BY <2>2, <2>5, Shrinks
<1>4. ASSUME NEW c \in Callers, ZCard(c) PROVE BoundOK'
  <2>1. /\ pc[c] = "card" /\ pc' = [pc EXCEPT ![c] = "add"]
        /\ UNCHANGED <<hits, age, call, allowed>>
        /\ count' = [count EXCEPT ![c] = Cardinality(hits)]
    BY <1>4 DEF ZCard, Command
  <2>2. Recorded'
    BY <2>1 DEF Recorded, Passing, BoundOK, TypeOK
  <2>3. CASE Cardinality(hits) < limit
    <3> DEFINE T == {call[d] : d \in Callers}
    <3>1. Passing' \subseteq hits \cup T
      BY <2>1, <2>2 DEF Recorded
    <3>2. IsFiniteSet(T) /\ Cardinality(T) <= Cardinality(Callers) /\ Cardinality(T) \in Nat
      BY FewCalls
    <3>3. IsFiniteSet(hits) /\ Cardinality(hits) \in Nat
      BY FS_CardinalityType DEF CallsOK
    <3>4. /\ IsFiniteSet(hits \cup T)
          /\ Cardinality(hits \cup T) = Cardinality(hits) + Cardinality(T) - Cardinality(hits \cap T)
      BY <3>2, <3>3, FS_Union
    <3>5. Cardinality(hits \cap T) \in Nat
      <4>1. IsFiniteSet(hits \cap T)
        BY <3>3, FS_Subset
      <4>2. QED BY <4>1, FS_CardinalityType
    <3>6. /\ IsFiniteSet(Passing') /\ Cardinality(Passing') \in Nat
          /\ Cardinality(Passing') <= Cardinality(hits \cup T)
      <4>1. IsFiniteSet(Passing') /\ Cardinality(Passing') <= Cardinality(hits \cup T)
        BY <3>1, <3>4, FS_Subset
      <4>2. QED BY <4>1, FS_CardinalityType
    <3>7. Cardinality(Passing') <= limit + Cardinality(Callers) - 1
      BY <2>3, <3>2, <3>3, <3>4, <3>5, <3>6, CallersCount
    <3>8. QED BY <2>2, <3>6, <3>7 DEF BoundOK
  <2>4. CASE ~(Cardinality(hits) < limit)
    <3>1. Passing' \subseteq Passing
      BY <2>1, <2>4 DEF Passing, TypeOK
    <3>2. QED BY <2>2, <3>1, Shrinks
  <2>5. QED BY <2>3, <2>4
<1>5. ASSUME NEW c \in Callers, ZAdd(c) PROVE BoundOK'
  <2>1. /\ pc[c] = "add" /\ pc' = [pc EXCEPT ![c] = "reply"]
        /\ UNCHANGED <<age, call, count, allowed>>
        /\ hits' = hits \cup {call[c]}
    BY <1>5 DEF ZAdd, Command
  <2>2. Passing' \subseteq Passing
    BY <2>1 DEF Passing, TypeOK
  <2>3. Recorded'
    BY <2>1, <2>2 DEF Recorded, BoundOK, TypeOK
  <2>4. QED BY <2>2, <2>3, Shrinks
<1>6. ASSUME NEW c \in Callers, Reply(c) PROVE BoundOK'
  <2>1. /\ pc[c] = "reply" /\ pc' = [pc EXCEPT ![c] = "idle"]
        /\ call' = [call EXCEPT ![c] = None] /\ count' = [count EXCEPT ![c] = 0]
        /\ UNCHANGED <<hits, age>>
        /\ \/ UNCHANGED allowed
           \/ count[c] < limit /\ allowed' \subseteq allowed \cup {call[c]}
    BY <1>6 DEF Reply, Return
  <2>2. Passing' \subseteq Passing
    BY <2>1 DEF Passing, TypeOK
  <2>3. Recorded'
    BY <2>1, <2>2 DEF Recorded, BoundOK, TypeOK
  <2>4. QED BY <2>2, <2>3, Shrinks
<1>7. ASSUME NEW c \in Callers, Fail(c) PROVE BoundOK'
  <2>1. /\ pc[c] # "idle" /\ pc' = [pc EXCEPT ![c] = "idle"]
        /\ call' = [call EXCEPT ![c] = None] /\ count' = [count EXCEPT ![c] = 0]
        /\ UNCHANGED <<hits, age, allowed>>
    BY <1>7 DEF Fail, Return
  <2>2. call[c] \in Calls /\ call[c] \notin allowed /\ \A d \in Callers : d # c => call[d] # call[c]
    BY <2>1 DEF TypeOK, CallsOK
  <2>3. Passing' \subseteq Passing \ {call[c]}
    BY <2>1, <2>2 DEF Passing, TypeOK
  <2>4. Recorded'
    BY <2>1, <2>2, <2>3 DEF Recorded, BoundOK, TypeOK
  <2>5. QED BY <2>3, <2>4, Shrinks
<1>8. ASSUME Expire PROVE BoundOK'
  <2>1. UNCHANGED <<age, pc, call, count, allowed>> /\ \A n \in hits : n \notin Passing
    BY <1>8 DEF Expire, Passing, TypeOK
  <2>2. Passing' \subseteq Passing
    BY <2>1 DEF Passing
  <2>3. Recorded'
    BY <2>1, <2>2 DEF Recorded, BoundOK
  <2>4. QED BY <2>2, <2>3, Shrinks
<1>9. ASSUME Tick PROVE BoundOK'
  <2>1. /\ age' = [n \in Calls |-> Older(n)]
        /\ allowed' \subseteq allowed
        /\ UNCHANGED <<hits, pc, call, count>>
    BY <1>9 DEF Tick
  <2>2. ASSUME NEW n \in Passing' PROVE n \in Passing
    <3>1. n \in Calls /\ Older(n) <= window
      BY <2>1 DEF Passing
    <3>2. \/ n \in allowed
          \/ \E c \in Callers : call[c] = n /\ pc[c] \in {"add", "reply"} /\ count[c] < limit
      BY <2>1 DEF Passing
    <3>3. n \in InUse
      BY <3>2 DEF InUse, InFlight
    <3>4. age[n] <= window
      BY <3>1, <3>3 DEF Older, MaxAge, TypeOK
    <3>5. QED BY <3>1, <3>2, <3>4 DEF Passing
  <2>3. Recorded'
    BY <2>1, <2>2 DEF Recorded, BoundOK
  <2>4. QED BY <2>2, <2>3, Shrinks
<1>10. QED
  BY <1>1, <1>2, <1>3, <1>4, <1>5, <1>6, <1>7, <1>8, <1>9 DEF Next, Pipeline

(* The limiter exceeds its limit by at most the number of other callers of *)
(* the key, though its pipeline is not atomic.                             *)
THEOREM OvershootIsBounded == Spec => []OvershootBounded
<1>1. Init => TypeOK /\ CallsOK /\ BoundOK
  BY TypeInit, BoundInit
<1>2. TypeOK /\ CallsOK /\ BoundOK /\ [Next]_vars => (TypeOK /\ CallsOK /\ BoundOK)'
  BY TypeStep, BoundStep
<1>3. TypeOK /\ BoundOK => OvershootBounded
  <2>1. SUFFICES ASSUME TypeOK, BoundOK PROVE OvershootBounded
    OBVIOUS
  <2>2. allowed \subseteq Passing
    BY <2>1 DEF TypeOK, Passing
  <2>3. IsFiniteSet(allowed) /\ Cardinality(allowed) <= Cardinality(Passing)
    BY <2>1, <2>2, FS_Subset DEF BoundOK
  <2>4. Cardinality(allowed) \in Nat /\ Cardinality(Passing) \in Nat
    BY <2>1, <2>3, FS_CardinalityType DEF BoundOK
  <2>5. QED BY <2>1, <2>3, <2>4, CallersCount, LimiterAssumption DEF BoundOK, OvershootBounded
<1>4. QED BY <1>1, <1>2, <1>3, PTL DEF Spec

=============================================================================
