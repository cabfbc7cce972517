--------------------------- MODULE CrawlerProofs ---------------------------
(***************************************************************************)
(* Proofs about Crawler, with its scheduler, for any workers, partitions,  *)
(* sources, pages, links, fan-out limit and any combination of failures.   *)
(***************************************************************************)
EXTENDS Crawler, ConsumerGroupProofs

(* The places where a worker has no message in hand. *)
Free == {"down", "idle"}

LEMMA TaskType ==
    ASSUME GroupTypeOK, NEW id \in Produced
    PROVE  Source(id) \in Sources /\ URL(id) \in URLs
BY ProducedParts, SchedulerAssumption DEF Source, URL, Task

LEMMA NewTaskType ==
    ASSUME NEW s \in Sources, NEW u \in URLs
    PROVE  Listing(s, u) \in Messages /\ Detail(s, u) \in Messages
BY SchedulerAssumption DEF Listing, Detail, Task

LEMMA TrimmedType ==
    ASSUME NEW l \in URLs
    PROVE  /\ Trimmed(l) \subseteq URLs
           /\ \A u \in URLs : u \in Trimmed(l) <=> LinksTo(l, u)
BY CrawlerAssumption DEF Trimmed, LinksTo

-----------------------------------------------------------------------------
(* Type correctness.                                                       *)

LEMMA TypeInit == ASSUME Init PROVE TypeOK
<1>1. GroupTypeOK
  BY GroupInitType DEF Init
<1>2. QED BY <1>1 DEF Init, SchedInit, TypeOK, SchedTypeOK, Working

(* Worker w alone moves, to a place where it has its message in hand. *)
LEMMA TypeMove ==
    ASSUME TypeOK, NEW w \in Workers, pc[w] \notin Free,
           NEW l \in {"limit", "robots", "get", "fanout", "raw", "dlq", "commit"},
           l \in Working => pc[w] \in Working,
           Goto(w, l), UNCHANGED <<groupVars, schedVars>>,
           todo' \in [Workers -> SUBSET URLs],
           \A v \in Workers : todo'[v] # {} => pc'[v] = "fanout",
           robots' \in [Workers -> SUBSET Origins],
           raw' \subseteq URLs,
           fates' \in [Fate -> SUBSET Produced]
    PROVE  TypeOK'
BY LogKeeps DEF TypeOK, Free, Working, Goto, groupVars, schedVars, GroupTypeOK, SchedTypeOK, MessageAt

LEMMA TypeHandler ==
    ASSUME TypeOK, NEW w \in Workers, Handler(w), ~WriteDetail(w), ~Commit(w)
    PROVE  TypeOK'
<1> USE DEF TypeOK, Free, Working
<1>1. CASE respectRateLimit(w)
  <2>1. PICK l \in {"robots", "dlq"} : Goto(w, l)
    BY <1>1 DEF respectRateLimit
  <2>2. UNCHANGED <<groupVars, schedVars, todo, robots, raw, fates>> /\ pc[w] = "limit"
    BY <1>1 DEF respectRateLimit
  <2>3. QED BY <2>1, <2>2, TypeMove DEF Goto
<1>2. CASE IsAllowed(w)
  <2>1. cur[w] \in Produced /\ pc[w] = "robots"
    BY <1>2 DEF IsAllowed
  <2>2. Origin[URL(cur[w])] \in Origins
    BY <2>1, TaskType, CrawlerAssumption
  <2>3. robots' \in [Workers -> SUBSET Origins]
    BY <1>2, <2>2 DEF IsAllowed
  <2>4. fates' \in [Fate -> SUBSET Produced]
    BY <1>2, <2>1 DEF IsAllowed, End, Fate
  <2>5. PICK l \in {"get", "commit"} : Goto(w, l)
    BY <1>2 DEF IsAllowed
  <2>6. UNCHANGED <<groupVars, schedVars, todo, raw>>
    BY <1>2 DEF IsAllowed
  <2>7. QED BY <2>1, <2>3, <2>4, <2>5, <2>6, TypeMove DEF Goto
<1>3. CASE Get(w)
  <2>1. cur[w] \in Produced /\ pc[w] = "get"
    BY <1>3 DEF Get
  <2>2. Trimmed(URL(cur[w])) \subseteq URLs
    BY <2>1, TaskType, TrimmedType
  <2>3. todo' \in [Workers -> SUBSET URLs]
    BY <1>3, <2>2 DEF Get
  <2>4. \A v \in Workers : todo'[v] # {} => pc'[v] = "fanout"
    BY <1>3, <2>1 DEF Get, Goto
  <2>5. PICK l \in {"raw", "fanout", "dlq"} : Goto(w, l)
    BY <1>3 DEF Get
  <2>6. UNCHANGED <<groupVars, schedVars, robots, raw, fates>>
    BY <1>3 DEF Get
  <2>7. QED BY <2>1, <2>3, <2>4, <2>5, <2>6, TypeMove
<1>4. CASE FanoutFailed(w)
  <2>1. UNCHANGED <<groupVars, schedVars, robots, raw, fates>> /\ pc[w] = "fanout" /\ Goto(w, "dlq")
    BY <1>4 DEF FanoutFailed
  <2>2. /\ todo' \in [Workers -> SUBSET URLs]
        /\ \A v \in Workers : todo'[v] # {} => pc'[v] = "fanout"
    BY <1>4 DEF FanoutFailed, Goto
  <2>3. QED BY <2>1, <2>2, TypeMove
<1>5. CASE FanoutDone(w)
  <2>1. /\ UNCHANGED <<groupVars, schedVars, todo, robots, raw>>
        /\ pc[w] = "fanout" /\ todo[w] = {} /\ Goto(w, "commit")
    BY <1>5 DEF FanoutDone
  <2>2. fates' \in [Fate -> SUBSET Produced]
    BY <1>5 DEF FanoutDone, End, Fate
  <2>3. QED BY <2>1, <2>2, TypeMove DEF Goto
<1>6. CASE PublishRaw(w)
  <2>1. cur[w] \in Produced /\ pc[w] = "raw"
    BY <1>6 DEF PublishRaw
  <2>2. URL(cur[w]) \in URLs
    BY <2>1, TaskType
  <2>3. fates' \in [Fate -> SUBSET Produced] /\ raw' \subseteq URLs
    BY <1>6, <2>1, <2>2 DEF PublishRaw, End, Fate
  <2>4. PICK l \in {"dlq", "commit"} : Goto(w, l)
    BY <1>6 DEF PublishRaw
  <2>5. UNCHANGED <<groupVars, schedVars, todo, robots>>
    BY <1>6 DEF PublishRaw
  <2>6. QED BY <2>1, <2>3, <2>4, <2>5, TypeMove DEF Goto
<1>7. CASE publishToDLQ(w)
  <2>1. UNCHANGED <<groupVars, schedVars, todo, robots, raw>> /\ pc[w] = "dlq" /\ Goto(w, "commit")
    BY <1>7 DEF publishToDLQ
  <2>2. fates' \in [Fate -> SUBSET Produced]
    BY <1>7 DEF publishToDLQ, End, Fate
  <2>3. QED BY <2>1, <2>2, TypeMove DEF Goto
<1>8. QED BY <1>1, <1>2, <1>3, <1>4, <1>5, <1>6, <1>7 DEF Handler

(* The steps that write to the topic: the scheduler's, a batch's, others'. *)
Writes(p, m) ==
    /\ Produce(p, m)
    /\ \/ \E s \in Sources : Schedule(s) /\ m.type = "LISTING"
       \/ Deliver /\ m \in Foreign
       \/ \E w \in Workers : /\ WriteDetail(w)
                             /\ \E u \in todo[w] : m = Detail(Source(cur[w]), u)

LEMMA LogSteps ==
    ASSUME TypeOK, [Next]_vars
    PROVE  UNCHANGED log \/ \E p \in Partitions, m \in Messages : Writes(p, m)
<1>1. ASSUME NEW s \in Sources, Schedule(s)
      PROVE  UNCHANGED log \/ \E p \in Partitions, m \in Messages : Writes(p, m)
  <2>1. CASE EnqueueSource(s) \/ \E u \in URLs : DropListing(s, u)
    BY <2>1 DEF EnqueueSource, DropListing, groupVars
  <2>2. ASSUME NEW u \in URLs, NEW p \in Partitions, WriteListing(s, u, p)
        PROVE  \E q \in Partitions, m \in Messages : Writes(q, m)
    <3>1. Listing(s, u) \in Messages /\ Listing(s, u).type = "LISTING"
      BY NewTaskType DEF Listing
    <3>2. QED BY <1>1, <2>2, <3>1 DEF WriteListing, Writes
  <2>3. QED BY <1>1, <2>1, <2>2 DEF Schedule, SchedulerStep, Batch
<1>2. ASSUME Deliver
      PROVE  \E p \in Partitions, m \in Messages : Writes(p, m)
  BY <1>2, CrawlerAssumption DEF Deliver, Writes
<1>3. ASSUME NEW w \in Workers, WriteDetail(w)
      PROVE  \E p \in Partitions, m \in Messages : Writes(p, m)
  <2>1. PICK u \in todo[w], p \in Partitions : Produce(p, Detail(Source(cur[w]), u))
    BY <1>3 DEF WriteDetail
  <2>2. Source(cur[w]) \in Sources /\ u \in URLs
    BY <1>3, TaskType DEF WriteDetail, TypeOK
  <2>3. QED BY <1>3, <2>1, <2>2, NewTaskType DEF Writes
<1>4. ASSUME ~ \E s \in Sources : Schedule(s), ~Deliver,
             ~ \E w \in Workers : WriteDetail(w)
      PROVE  UNCHANGED log
  BY <1>4 DEF Next, Worker, Handler, Start, Join, Fetch, FetchMessage,
     respectRateLimit, IsAllowed, Get, FanoutFailed, FanoutDone, PublishRaw,
     publishToDLQ, Commit, CommitMessages, Crash, Leave, GroupRebalance, Rebalance,
     vars, groupVars
<1>5. QED BY <1>1, <1>2, <1>3, <1>4

(* The topic only grows. *)
LEMMA LogMonotone ==
    ASSUME TypeOK, [Next]_vars
    PROVE  /\ Produced \subseteq Produced'
           /\ \A id \in Produced : MessageAt(id)' = MessageAt(id)
<1>1. CASE UNCHANGED log
  BY <1>1, LogKeeps
<1>2. ASSUME NEW p \in Partitions, NEW m \in Messages, Writes(p, m)
      PROVE  /\ Produced \subseteq Produced'
             /\ \A id \in Produced : MessageAt(id)' = MessageAt(id)
  BY <1>2, ProduceKeeps DEF Writes, TypeOK
<1>3. QED BY <1>1, <1>2, LogSteps

LEMMA TypeStep ==
    ASSUME TypeOK, [Next]_vars
    PROVE  TypeOK'
<1>0. \A id \in Produced : MessageAt(id)' = MessageAt(id)
  BY LogMonotone
<1> USE DEF TypeOK, Free, Working
<1>1. CASE UNCHANGED vars
  BY <1>0, <1>1, LogKeeps DEF vars, groupVars, schedVars, GroupTypeOK, SchedTypeOK
<1>2. ASSUME NEW w \in Workers, Start(w) PROVE TypeOK'
  BY <1>0, <1>2, LogKeeps DEF Start, Join, Goto, schedVars, GroupTypeOK, SchedTypeOK
<1>3. ASSUME NEW w \in Workers, Fetch(w) PROVE TypeOK'
  <2>1. PICK p \in Partitions :
          /\ FetchMessage(w, p)
          /\ cur' = [cur EXCEPT ![w] = <<p, position[p] + 1>>]
          /\ pc' = [pc EXCEPT ![w] = IF MessageAt(<<p, position[p] + 1>>).type = "garbled"
                                        THEN "dlq" ELSE "limit"]
    BY <1>3 DEF Fetch
  <2>2. GroupTypeOK' /\ UNCHANGED log /\ <<p, position[p] + 1>> \in Produced
    BY <2>1, FetchProduces
  <2>3. <<p, position[p] + 1>> \in Id /\ todo[w] = {}
    BY <1>3, <2>2, ProducedParts DEF Fetch
  <2>4. UNCHANGED <<owed, ticks, todo, robots, raw, crashes, fates>>
    BY <1>3 DEF Fetch, schedVars
  <2>5. QED BY <1>0, <2>1, <2>2, <2>3, <2>4, LogKeeps DEF SchedTypeOK
<1>4. ASSUME NEW w \in Workers, WriteDetail(w) PROVE TypeOK'
  <2>1. PICK u \in todo[w], p \in Partitions : Produce(p, Detail(Source(cur[w]), u))
    BY <1>4 DEF WriteDetail
  <2>2. Detail(Source(cur[w]), u) \in Messages
    BY <1>4, TaskType, NewTaskType DEF WriteDetail
  <2>3. GroupTypeOK' /\ Produced \subseteq Produced'
    BY <2>1, <2>2, ProduceKeeps
  <2>4. /\ todo' \in [Workers -> SUBSET URLs]
        /\ \A v \in Workers : todo'[v] # {} => pc[v] = "fanout"
    BY <1>4 DEF WriteDetail
  <2>5. UNCHANGED <<owed, ticks, pc, cur, robots, raw, crashes, fates>>
    BY <1>4 DEF WriteDetail, schedVars
  <2>6. QED BY <1>0, <2>3, <2>4, <2>5 DEF SchedTypeOK
<1>5. ASSUME NEW w \in Workers, Commit(w) PROVE TypeOK'
  <2>1. cur[w][1] \in Partitions /\ cur[w][2] \in Nat
    BY <1>5, ProducedParts DEF Commit
  <2>2. GroupTypeOK' /\ UNCHANGED log
    BY <1>5, <2>1 DEF Commit, CommitMessages, groupVars, GroupTypeOK
  <2>3. QED BY <1>0, <1>5, <2>2, LogKeeps DEF Commit, schedVars, SchedTypeOK
<1>6. ASSUME NEW w \in Workers, Crash(w) PROVE TypeOK'
  <2>1. GroupTypeOK' /\ UNCHANGED log
    BY <1>6 DEF Crash, Leave, GroupTypeOK
  <2>2. QED BY <1>0, <1>6, <2>1, LogKeeps DEF Crash, schedVars, SchedTypeOK
<1>7. ASSUME NEW s \in Sources, Schedule(s) PROVE TypeOK'
  <2>1. GroupTypeOK'
    <3>1. CASE UNCHANGED groupVars
      BY <3>1 DEF groupVars, GroupTypeOK
    <3>2. ASSUME NEW u \in URLs, NEW p \in Partitions, WriteListing(s, u, p)
          PROVE  GroupTypeOK'
      BY <3>2, NewTaskType, ProduceKeeps DEF WriteListing
    <3>3. QED
      BY <1>7, <3>1, <3>2 DEF Schedule, SchedulerStep, Batch, EnqueueSource, DropListing
  <2>2. SchedTypeOK'
    <3>1. CASE EnqueueSource(s)
      <4>1. [u \in URLs |-> IF u \in generateURLs[s] THEN owed[s][u] + 1 ELSE owed[s][u]]
              \in [URLs -> Nat]
        BY DEF SchedTypeOK
      <4>2. QED BY <3>1, <4>1 DEF EnqueueSource, SchedTypeOK
    <3>2. ASSUME NEW u \in URLs, DropListing(s, u) PROVE SchedTypeOK'
      BY <3>2 DEF DropListing, SchedTypeOK
    <3>3. ASSUME NEW u \in URLs, NEW p \in Partitions, WriteListing(s, u, p)
          PROVE  SchedTypeOK'
      <4>1. owed[s][u] \in Nat /\ owed[s][u] - 1 \in Nat /\ UNCHANGED ticks
        BY <3>3 DEF WriteListing, SchedTypeOK
      <4>2. [owed EXCEPT ![s][u] = owed[s][u] - 1] \in [Sources -> [URLs -> Nat]]
        BY <4>1 DEF SchedTypeOK
      <4>3. owed' = [owed EXCEPT ![s][u] = owed[s][u] - 1] \/ owed' = owed
        BY <3>3 DEF WriteListing
      <4>4. QED BY <4>1, <4>2, <4>3 DEF SchedTypeOK
    <3>4. QED BY <1>7, <3>1, <3>2, <3>3 DEF Schedule, SchedulerStep, Batch
  <2>3. Produced \subseteq Produced'
    BY <1>7, LogMonotone DEF Next
  <2>4. UNCHANGED <<pc, cur, todo, robots, raw, crashes, fates>>
    BY <1>7 DEF Schedule, workerVars
  <2>5. QED BY <1>0, <2>1, <2>2, <2>3, <2>4
<1>8. ASSUME Deliver PROVE TypeOK'
  <2>1. PICK p \in Partitions, m \in Messages : Produce(p, m)
    BY <1>8, CrawlerAssumption DEF Deliver
  <2>2. GroupTypeOK' /\ Produced \subseteq Produced'
    BY <2>1, ProduceKeeps
  <2>3. UNCHANGED <<owed, ticks, pc, cur, todo, robots, raw, crashes, fates>>
    BY <1>8 DEF Deliver, schedVars, workerVars
  <2>4. QED BY <1>0, <2>2, <2>3 DEF SchedTypeOK
<1>9. ASSUME GroupRebalance PROVE TypeOK'
  <2>1. GroupTypeOK' /\ UNCHANGED log
    BY <1>9 DEF GroupRebalance, Rebalance, Up, GroupTypeOK
  <2>2. QED BY <1>0, <1>9, <2>1, LogKeeps DEF GroupRebalance, schedVars, workerVars, SchedTypeOK
<1>10. QED
  BY <1>1, <1>2, <1>3, <1>4, <1>5, <1>6, <1>7, <1>8, <1>9, TypeHandler
  DEF Next, Worker

(* Every variable keeps its type in every reachable state; in particular   *)
(* only a worker in the middle of a batch has detail URLs to write, and a  *)
(* message that is no task is worked on by none.                           *)
THEOREM TypeCorrect == Spec => []TypeOK
<1>1. Init => TypeOK
  BY TypeInit
<1>2. TypeOK /\ [Next]_vars => TypeOK'
  BY TypeStep
<1>3. QED BY <1>1, <1>2, PTL DEF Spec

-----------------------------------------------------------------------------
(* What one step does to the history.                                      *)

LEMMA InHandled == \A id : id \in Handled <=> \E f \in Fate : id \in fates[f]
BY DEF Handled

LEMMA HandledSame == ASSUME UNCHANGED fates PROVE Handled' = Handled
BY DEF Handled

LEMMA EndHandles ==
    ASSUME TypeOK, NEW w \in Workers, NEW f \in Fate, End(w, f)
    PROVE  /\ \A g \in Fate : fates'[g] = IF g = f THEN fates[g] \cup {cur[w]} ELSE fates[g]
           /\ Handled' = Handled \cup {cur[w]}
<1>1. \A g \in Fate : fates'[g] = IF g = f THEN fates[g] \cup {cur[w]} ELSE fates[g]
  BY DEF End, TypeOK
<1>2. \A id : id \in Handled' <=> \E g \in Fate : id \in fates'[g]
  BY DEF Handled
<1>3. QED BY <1>1, <1>2, InHandled

(* The ends a handler step of w may come to. *)
LEMMA HandlerEnds ==
    ASSUME TypeOK, NEW w \in Workers, Handler(w)
    PROVE  \/ UNCHANGED fates
           \/ \E f \in Fate : End(w, f) /\ pc[w] \notin Free
<1>1. CASE respectRateLimit(w) BY <1>1 DEF respectRateLimit
<1>2. CASE IsAllowed(w) BY <1>2 DEF IsAllowed, Fate, Free
<1>3. CASE Get(w) BY <1>3 DEF Get
<1>4. CASE WriteDetail(w) BY <1>4 DEF WriteDetail
<1>5. CASE FanoutFailed(w) BY <1>5 DEF FanoutFailed
<1>6. CASE FanoutDone(w) BY <1>6 DEF FanoutDone, Fate, Free
<1>7. CASE PublishRaw(w) BY <1>7 DEF PublishRaw, Fate, Free
<1>8. CASE publishToDLQ(w) BY <1>8 DEF publishToDLQ, Fate, Free
<1>9. CASE Commit(w) BY <1>9 DEF Commit
<1>10. QED
  BY <1>1, <1>2, <1>3, <1>4, <1>5, <1>6, <1>7, <1>8, <1>9 DEF Handler

(* The steps of nobody's handler leave the history and jobs.raw alone. *)
LEMMA OtherEnds ==
    ASSUME TypeOK, [Next]_vars, ~ \E w \in Workers : Handler(w)
    PROVE  UNCHANGED <<fates, raw>>
BY DEF Next, Worker, Start, Fetch, Crash, Schedule, Deliver, GroupRebalance,
       workerVars, vars

LEMMA Monotone ==
    ASSUME TypeOK, [Next]_vars
    PROVE  /\ \A f \in Fate : fates[f] \subseteq fates'[f]
           /\ Handled \subseteq Handled'
<1>1. CASE UNCHANGED fates
  BY <1>1, HandledSame
<1>2. ASSUME NEW w \in Workers, NEW f \in Fate, End(w, f)
      PROVE  /\ \A g \in Fate : fates[g] \subseteq fates'[g]
             /\ Handled \subseteq Handled'
  BY <1>2, EndHandles
<1>3. QED BY <1>1, <1>2, HandlerEnds, OtherEnds

-----------------------------------------------------------------------------
(* Offsets.  CommittedHandled is not inductive: a commit covers every      *)
(* message before the one in hand, and a rebalance in mid-message makes    *)
(* two workers hold the same one.                                          *)

(* What the owner of a partition has fetched is handled or in its hand. *)
FetchedHandled ==
    \A p \in Partitions : owner[p] # None =>
        \A i \in 1 .. position[p] : <<p, i>> \in Handled \/ cur[owner[p]] = <<p, i>>

(* Everything before a message in hand is handled; so is the message       *)
(* itself once it is about to be committed.                                *)
HandHandled ==
    \A w \in Workers :
        /\ cur[w] # None => \A i \in 1 .. (cur[w][2] - 1) : <<cur[w][1], i>> \in Handled
        /\ pc[w] = "commit" => cur[w] \in Handled

OffsetsOK == CommittedHandled /\ FetchedHandled /\ HandHandled

LEMMA OffsetsInit == ASSUME Init PROVE OffsetsOK
BY GroupAssumption
DEF Init, GroupInit, OffsetsOK, CommittedHandled, FetchedHandled, HandHandled

(* What a commit of the message in hand covers is handled. *)
LEMMA CommitCovers ==
    ASSUME TypeOK, OffsetsOK, NEW w \in Workers, pc[w] = "commit"
    PROVE  /\ cur[w] \in Produced
           /\ \A i \in 1 .. cur[w][2] : <<cur[w][1], i>> \in Handled
<1>1. cur[w] \in Produced
  BY DEF TypeOK
<1>2. cur[w] = <<cur[w][1], cur[w][2]>> /\ cur[w][2] \in Nat /\ cur[w] # None
  BY <1>1, ProducedParts DEF TypeOK
<1>3. cur[w] \in Handled /\ \A i \in 1 .. (cur[w][2] - 1) : <<cur[w][1], i>> \in Handled
  BY <1>2 DEF OffsetsOK, HandHandled
<1>4. QED BY <1>1, <1>2, <1>3

(* Steps that move no offset, partition or message in hand. *)
LEMMA OffsetsQuiet ==
    ASSUME TypeOK, OffsetsOK, [Next]_vars,
           UNCHANGED <<committed, position, owner, cur>>,
           \A w \in Workers : pc'[w] = "commit" => pc[w] = "commit" \/ cur[w] \in Handled'
    PROVE  OffsetsOK'
<1>1. Handled \subseteq Handled'
  BY Monotone
<1>2. CommittedHandled'
  BY <1>1 DEF OffsetsOK, CommittedHandled
<1>3. FetchedHandled'
  BY <1>1 DEF OffsetsOK, FetchedHandled
<1>4. HandHandled'
  BY <1>1 DEF OffsetsOK, HandHandled
<1>5. QED BY <1>2, <1>3, <1>4 DEF OffsetsOK

LEMMA OffsetsStep ==
    ASSUME TypeOK, OffsetsOK, [Next]_vars
    PROVE  OffsetsOK'
<1>1. Handled \subseteq Handled'
  BY Monotone
<1>2. ASSUME NEW w \in Workers, Fetch(w) PROVE OffsetsOK'
  <2>1. PICK p \in Partitions :
          /\ FetchMessage(w, p)
          /\ cur' = [cur EXCEPT ![w] = <<p, position[p] + 1>>]
          /\ \/ pc' = [pc EXCEPT ![w] = "dlq"]
             \/ pc' = [pc EXCEPT ![w] = "limit"]
    BY <1>2 DEF Fetch
  <2>2. cur[w] = None /\ owner[p] = w /\ w # None /\ position[p] \in Nat
    BY <1>2, <2>1, GroupAssumption DEF Fetch, FetchMessage, TypeOK, GroupTypeOK
  <2>3. \A q \in Partitions : owner[q] = w => \A i \in 1 .. position[q] : <<q, i>> \in Handled
    <3>1. SUFFICES ASSUME NEW q \in Partitions, owner[q] = w, NEW i \in 1 .. position[q],
                          cur[w] = <<q, i>>
                   PROVE  FALSE
      BY <2>2 DEF OffsetsOK, FetchedHandled
    <3>2. i \in Nat
      BY DEF TypeOK, GroupTypeOK
    <3>3. <<q, i>> \in Partitions \X Nat
      BY <3>2
    <3>4. QED BY <3>1, <3>3, <2>2, GroupAssumption
  <2>4. CommittedHandled'
    BY <1>1, <2>1 DEF OffsetsOK, CommittedHandled, FetchMessage
  <2>5. FetchedHandled'
    BY <1>1, <2>1, <2>2, <2>3 DEF OffsetsOK, FetchedHandled, FetchMessage, TypeOK, GroupTypeOK
  <2>6. HandHandled'
    BY <1>1, <2>1, <2>2, <2>3 DEF OffsetsOK, HandHandled, TypeOK
  <2>7. QED BY <2>4, <2>5, <2>6 DEF OffsetsOK
<1>3. ASSUME NEW w \in Workers, Commit(w) PROVE OffsetsOK'
  <2>1. /\ cur[w] \in Produced /\ cur[w] \in Handled
        /\ \A i \in 1 .. cur[w][2] : <<cur[w][1], i>> \in Handled
    BY <1>3, CommitCovers DEF Commit, OffsetsOK, HandHandled
  <2>2. cur[w][1] \in Partitions /\ cur[w][2] \in Nat
    BY <2>1, ProducedParts DEF TypeOK
  <2>3. /\ pc' = [pc EXCEPT ![w] = "idle"]
        /\ cur' = [cur EXCEPT ![w] = None]
        /\ UNCHANGED <<position, owner, fates>>
        /\ committed' = [committed EXCEPT ![cur[w][1]] = cur[w][2]] \/ UNCHANGED committed
    BY <1>3 DEF Commit, CommitMessages, groupVars
  <2>4. CommittedHandled'
    BY <1>1, <2>1, <2>2, <2>3 DEF OffsetsOK, CommittedHandled, TypeOK, GroupTypeOK
  <2>5. FetchedHandled'
    <3>1. SUFFICES ASSUME NEW p \in Partitions, owner[p] # None, NEW i \in 1 .. position[p]
                   PROVE  <<p, i>> \in Handled \/ cur'[owner[p]] = <<p, i>>
      BY <1>1, <2>3 DEF FetchedHandled
    <3>2. <<p, i>> \in Handled \/ cur[owner[p]] = <<p, i>>
      BY <3>1 DEF OffsetsOK, FetchedHandled
    <3>3. CASE owner[p] = w
      BY <3>2, <3>3, <2>1
    <3>4. CASE owner[p] # w
      BY <3>2, <3>4, <2>3, <3>1 DEF TypeOK, GroupTypeOK
    <3>5. QED BY <3>3, <3>4
  <2>6. HandHandled'
    BY <1>1, <2>3 DEF OffsetsOK, HandHandled, TypeOK
  <2>7. QED BY <2>4, <2>5, <2>6 DEF OffsetsOK
<1>4. ASSUME NEW w \in Workers, Crash(w) PROVE OffsetsOK'
  <2>1. /\ pc' = [pc EXCEPT ![w] = "down"]
        /\ cur' = [cur EXCEPT ![w] = None]
        /\ owner' = [p \in Partitions |-> IF owner[p] = w THEN None ELSE owner[p]]
        /\ UNCHANGED <<position, committed>>
    BY <1>4 DEF Crash, Leave
  <2>2. CommittedHandled'
    BY <1>1, <2>1 DEF OffsetsOK, CommittedHandled
  <2>3. FetchedHandled'
    BY <1>1, <2>1 DEF OffsetsOK, FetchedHandled, TypeOK, GroupTypeOK
  <2>4. HandHandled'
    BY <1>1, <2>1 DEF OffsetsOK, HandHandled, TypeOK
  <2>5. QED BY <2>2, <2>3, <2>4 DEF OffsetsOK
<1>5. ASSUME GroupRebalance PROVE OffsetsOK'
  <2>1. position' = committed /\ UNCHANGED <<committed, pc, cur>>
    BY <1>5 DEF GroupRebalance, Rebalance, workerVars
  <2>2. CommittedHandled'
    BY <1>1, <2>1 DEF OffsetsOK, CommittedHandled
  <2>3. FetchedHandled'
    BY <2>1, <2>2 DEF FetchedHandled, CommittedHandled
  <2>4. HandHandled'
    BY <1>1, <2>1 DEF OffsetsOK, HandHandled
  <2>5. QED BY <2>2, <2>3, <2>4 DEF OffsetsOK
<1>6. ASSUME NEW w \in Workers, Handler(w), ~Commit(w) PROVE OffsetsOK'
  <2>1. UNCHANGED <<committed, position, owner, cur>>
    BY <1>6 DEF Handler, respectRateLimit, IsAllowed, Get, WriteDetail, Produce,
                FanoutFailed, FanoutDone, PublishRaw, publishToDLQ, Goto, groupVars
  <2>2. pc'[w] = "commit" => pc[w] = "commit" \/ \E f \in Fate : End(w, f)
    BY <1>6 DEF Handler, respectRateLimit, IsAllowed, Get, WriteDetail,
                FanoutFailed, FanoutDone, PublishRaw, publishToDLQ, Goto, Fate, TypeOK
  <2>3. \A v \in Workers : v # w => pc'[v] = pc[v]
    BY <1>6 DEF Handler, respectRateLimit, IsAllowed, Get, WriteDetail,
                FanoutFailed, FanoutDone, PublishRaw, publishToDLQ, Goto, TypeOK
  <2>4. \A v \in Workers : pc'[v] = "commit" => pc[v] = "commit" \/ cur[v] \in Handled'
    BY <2>2, <2>3, EndHandles
  <2>5. QED BY <2>1, <2>4, OffsetsQuiet
<1>7. ASSUME ~ \E w \in Workers : Handler(w) \/ Crash(w) \/ Fetch(w), ~GroupRebalance
      PROVE  OffsetsOK'
  <2>1. UNCHANGED <<committed, position, owner, cur>>
    BY <1>7 DEF Next, Worker, Start, Join, Goto, Schedule, SchedulerStep, Batch,
                EnqueueSource, DropListing, WriteListing, Deliver, Produce,
                vars, groupVars, workerVars
  <2>2. \A w \in Workers : pc'[w] = "commit" => pc[w] = "commit"
    BY <1>7 DEF Next, Worker, Start, Goto, Schedule, Deliver, vars, workerVars, TypeOK
  <2>3. QED BY <2>1, <2>2, OffsetsQuiet
<1>8. QED BY <1>2, <1>3, <1>4, <1>5, <1>6, <1>7

-----------------------------------------------------------------------------
(* Refinement of the consumer's contract.                                  *)

LEMMA ContractInit == ASSUME Init PROVE Contract!Init
<1>1. \A f \in Fate : fates[f] = {}
  BY DEF Init
<1>2. Handled = {}
  BY <1>1 DEF Handled
<1>3. QED BY <1>2 DEF Init, GroupInit, Contract!Init

LEMMA ContractStep ==
    ASSUME TypeOK, OffsetsOK, [Next]_vars
    PROVE  [Contract!Next]_(Contract!vars)
<1>1. ASSUME NEW p \in Partitions, NEW m \in Messages, Writes(p, m)
      PROVE  Contract!Next
  <2>1. log' = [log EXCEPT ![p] = Append(@, m)] /\ UNCHANGED committed
    BY <1>1 DEF Writes, Produce
  <2>2. UNCHANGED fates
    BY <1>1 DEF Writes, Schedule, Deliver, WriteDetail, workerVars
  <2>3. Handled' = Handled
    BY <2>2, HandledSame
  <2>4. QED BY <2>1, <2>3 DEF Contract!Next, Contract!Produce
<1>2. ASSUME NEW w \in Workers, Commit(w) PROVE [Contract!Next]_(Contract!vars)
  <2>1. /\ cur[w] \in Produced
        /\ \A i \in 1 .. cur[w][2] : <<cur[w][1], i>> \in Handled
    BY <1>2, CommitCovers DEF Commit
  <2>2. cur[w][1] \in Partitions /\ cur[w][2] \in 1 .. Len(log[cur[w][1]])
    BY <2>1, ProducedParts DEF TypeOK
  <2>3. UNCHANGED <<log, fates>>
    BY <1>2 DEF Commit, CommitMessages, groupVars
  <2>4. Handled' = Handled
    BY <2>3, HandledSame
  <2>5. CASE committed' = [committed EXCEPT ![cur[w][1]] = cur[w][2]]
    BY <2>1, <2>2, <2>3, <2>4, <2>5 DEF Contract!Next, Contract!Commit
  <2>6. CASE UNCHANGED committed
    BY <2>3, <2>4, <2>6 DEF Contract!vars
  <2>7. QED BY <1>2, <2>5, <2>6 DEF Commit, CommitMessages, groupVars
<1>3. ASSUME NEW w \in Workers, Handler(w), ~Commit(w), ~WriteDetail(w)
      PROVE  [Contract!Next]_(Contract!vars)
  <2>1. UNCHANGED <<log, committed>>
    BY <1>3 DEF Handler, respectRateLimit, IsAllowed, Get, FanoutFailed, FanoutDone,
                PublishRaw, publishToDLQ, groupVars
  <2>2. CASE UNCHANGED fates
    BY <2>1, <2>2, HandledSame DEF Contract!vars
  <2>3. ASSUME NEW f \in Fate, End(w, f), pc[w] \notin Free
        PROVE  Contract!Next
    <3>1. Handled' = Handled \cup {cur[w]}
      BY <2>3, EndHandles
    <3>2. cur[w] \in Produced
      BY <2>3 DEF TypeOK, Free
    <3>3. /\ cur[w][1] \in Partitions /\ cur[w][2] \in 1 .. Len(log[cur[w][1]])
          /\ cur[w] = <<cur[w][1], cur[w][2]>>
      BY <3>2, ProducedParts DEF TypeOK
    <3>4. QED BY <2>1, <3>1, <3>3 DEF Contract!Next, Contract!Handle
  <2>4. QED BY <1>3, <2>2, <2>3, HandlerEnds
<1>4. ASSUME ~ \E w \in Workers : Handler(w), UNCHANGED log
      PROVE  UNCHANGED Contract!vars
  <2>1. Handled' = Handled
    BY <1>4, OtherEnds, HandledSame
  <2>2. UNCHANGED committed
    BY <1>4 DEF Next, Worker, Start, Join, Fetch, FetchMessage, Crash, Leave,
                Schedule, SchedulerStep, Batch, EnqueueSource, DropListing,
                WriteListing, Deliver, Produce, GroupRebalance, Rebalance, vars, groupVars
  <2>3. QED BY <1>4, <2>1, <2>2 DEF Contract!vars
<1>5. ASSUME NEW w \in Workers, WriteDetail(w)
      PROVE  [Contract!Next]_(Contract!vars)
  <2>1. CASE UNCHANGED log
    <3>1. UNCHANGED <<fates, committed>>
      BY <1>5 DEF WriteDetail, Produce
    <3>2. QED BY <2>1, <3>1, HandledSame DEF Contract!vars
  <2>2. QED BY <1>1, <2>1, LogSteps
<1>6. QED BY <1>1, <1>2, <1>3, <1>4, <1>5, LogSteps

(* The crawler implements AtLeastOnce although it writes to the topic it   *)
(* reads: every step produces, handles or commits a message as the         *)
(* contract allows, or does none of these.                                 *)
THEOREM CrawlerRefines == Spec => ImplementsAtLeastOnce
<1>1. Init => TypeOK /\ OffsetsOK /\ Contract!Init
  BY TypeInit, OffsetsInit, ContractInit
<1>2. TypeOK /\ OffsetsOK /\ [Next]_vars => (TypeOK /\ OffsetsOK)'
  BY TypeStep, OffsetsStep
<1>3. TypeOK /\ OffsetsOK /\ [Next]_vars => [Contract!Next]_(Contract!vars)
  BY ContractStep
<1>4. QED BY <1>1, <1>2, <1>3, PTL DEF Spec, ImplementsAtLeastOnce, Contract!Spec

-----------------------------------------------------------------------------
(* Forwarding.  The invariant follows a listing through its batch: each of *)
(* its links is still to be written or on the topic, and nothing else is   *)
(* to be written.                                                          *)

BatchOK ==
    \A w \in Workers :
        /\ pc[w] = "raw" => ~IsListing(cur[w])
        /\ pc[w] = "fanout" =>
             /\ IsListing(cur[w])
             /\ todo[w] \subseteq Trimmed(URL(cur[w]))
             /\ \A u \in Trimmed(URL(cur[w])) :
                   u \in todo[w] \/ Enqueued(Detail(Source(cur[w]), u))

EndsForwarded == \A id \in fates["raw"] \cup fates["fanned"] : Forwarded(id)

ForwardOK == BatchOK /\ EndsForwarded

LEMMA ForwardInit == ASSUME Init PROVE ForwardOK
BY DEF Init, Fate, ForwardOK, BatchOK, EndsForwarded

LEMMA EnqueuedKeeps ==
    ASSUME TypeOK, [Next]_vars, NEW m, Enqueued(m)
    PROVE  Enqueued(m)'
BY LogMonotone DEF Enqueued

LEMMA RawGrows == ASSUME TypeOK, [Next]_vars PROVE raw \subseteq raw'
<1>1. ASSUME NEW w \in Workers, Handler(w) PROVE raw \subseteq raw'
  BY <1>1 DEF Handler, respectRateLimit, IsAllowed, Get, WriteDetail, FanoutFailed,
              FanoutDone, PublishRaw, publishToDLQ, Commit
<1>2. QED BY <1>1, OtherEnds

LEMMA ForwardedKeeps ==
    ASSUME TypeOK, [Next]_vars, NEW id \in Produced, Forwarded(id)
    PROVE  Forwarded(id)'
<1>1. MessageAt(id)' = MessageAt(id)
  BY LogMonotone
<1>2. Source(id)' = Source(id) /\ URL(id)' = URL(id) /\ (IsListing(id)' <=> IsListing(id))
  BY <1>1 DEF Source, URL, IsListing
<1>3. CASE IsListing(id)
  BY <1>2, <1>3, EnqueuedKeeps DEF Forwarded, LinksTo, Detail
<1>4. CASE ~IsListing(id)
  BY <1>2, <1>4, RawGrows DEF Forwarded
<1>5. QED BY <1>3, <1>4

(* Of a worker that does not move, in a step of somebody else. *)
LEMMA BatchKeeps ==
    ASSUME TypeOK, BatchOK, [Next]_vars, NEW w \in Workers,
           pc'[w] = pc[w], cur'[w] = cur[w], todo'[w] = todo[w]
    PROVE  /\ pc'[w] = "raw" => ~IsListing(cur[w])'
           /\ pc'[w] = "fanout" =>
                /\ IsListing(cur[w])'
                /\ todo'[w] \subseteq Trimmed(URL(cur[w]))'
                /\ \A u \in Trimmed(URL(cur[w]))' :
                      u \in todo'[w] \/ Enqueued(Detail(Source(cur[w]), u))'
<1>1. CASE pc[w] \in {"raw", "fanout"}
  <2>1. cur[w] \in Produced
    BY <1>1 DEF TypeOK
  <2>2. MessageAt(cur[w])' = MessageAt(cur[w])
    BY <2>1, LogMonotone DEF MessageAt
  <2>3. /\ IsListing(cur[w])' <=> IsListing(cur[w])
        /\ URL(cur[w])' = URL(cur[w]) /\ Source(cur[w])' = Source(cur[w])
        /\ Trimmed(URL(cur[w]))' = Trimmed(URL(cur[w]))
    BY <2>2 DEF IsListing, URL, Source, Trimmed
  <2>4. \A u : Enqueued(Detail(Source(cur[w]), u)) => Enqueued(Detail(Source(cur[w]), u))'
    BY <2>3, EnqueuedKeeps DEF Detail
  <2>5. QED BY <2>3, <2>4 DEF BatchOK
<1>2. CASE pc[w] \notin {"raw", "fanout"}
  BY <1>2
<1>3. QED BY <1>1, <1>2

LEMMA BatchStep ==
    ASSUME TypeOK, BatchOK, [Next]_vars
    PROVE  BatchOK'
<1> DEFINE Ok(w) == /\ pc[w] = "raw" => ~IsListing(cur[w])
                    /\ pc[w] = "fanout" =>
                         /\ IsListing(cur[w])
                         /\ todo[w] \subseteq Trimmed(URL(cur[w]))
                         /\ \A u \in Trimmed(URL(cur[w])) :
                               u \in todo[w] \/ Enqueued(Detail(Source(cur[w]), u))
<1>1. SUFFICES ASSUME NEW w \in Workers PROVE Ok(w)'
  BY DEF BatchOK
<1>2. CASE pc'[w] = pc[w] /\ cur'[w] = cur[w] /\ todo'[w] = todo[w]
  BY <1>2, BatchKeeps
<1>3. CASE pc'[w] \notin {"raw", "fanout"}
  BY <1>3
<1>4. CASE Get(w)
  <2>1. UNCHANGED <<log, cur>> /\ cur[w] \in Produced
    BY <1>4 DEF Get, Goto, groupVars, TypeOK
  <2>2. /\ IsListing(cur[w])' <=> IsListing(cur[w])
        /\ URL(cur[w])' = URL(cur[w])
        /\ Trimmed(URL(cur[w]))' = Trimmed(URL(cur[w]))
    BY <2>1 DEF IsListing, URL, Trimmed, MessageAt
  <2>3. pc'[w] = "raw" => ~IsListing(cur[w])
    BY <1>4 DEF Get, Goto, TypeOK
  <2>4. pc'[w] = "fanout" => IsListing(cur[w]) /\ todo'[w] = Trimmed(URL(cur[w]))
    BY <1>4 DEF Get, Goto, TypeOK
  <2>5. QED BY <2>2, <2>3, <2>4
<1>5. CASE WriteDetail(w)
  <2>1. PICK v \in todo[w], p \in Partitions :
          /\ Produce(p, Detail(Source(cur[w]), v))
          /\ todo'[w] = todo[w] \ {v} \/ todo'[w] = todo[w]
    BY <1>5 DEF WriteDetail, TypeOK
  <2>2. UNCHANGED <<pc, cur>> /\ pc[w] = "fanout" /\ cur[w] \in Produced
    BY <1>5 DEF WriteDetail, TypeOK
  <2>3. MessageAt(cur[w])' = MessageAt(cur[w])
    BY <2>2, LogMonotone DEF MessageAt
  <2>4. /\ IsListing(cur[w])' <=> IsListing(cur[w])
        /\ URL(cur[w])' = URL(cur[w]) /\ Source(cur[w])' = Source(cur[w])
        /\ Trimmed(URL(cur[w]))' = Trimmed(URL(cur[w]))
    BY <2>3 DEF IsListing, URL, Source, Trimmed
  <2>5. \A u : Enqueued(Detail(Source(cur[w]), u)) => Enqueued(Detail(Source(cur[w]), u))'
    BY <2>4, EnqueuedKeeps DEF Detail
  <2>6. Enqueued(Detail(Source(cur[w]), v))'
    <3>1. Len(log[p]) \in Nat /\ Len(log[p]) < MaxLen /\ log[p] \in Seq(Messages)
      BY <2>1 DEF Produce, TypeOK, GroupTypeOK
    <3>2. log'[p] = Append(log[p], Detail(Source(cur[w]), v))
      BY <2>1 DEF Produce, TypeOK, GroupTypeOK
    <3>3. Len(log'[p]) = Len(log[p]) + 1 /\ log'[p][Len(log[p]) + 1] = Detail(Source(cur[w]), v)
      BY <3>1, <3>2
    <3>4. PICK id \in Produced' : id[1] = p /\ id[2] = Len(log[p]) + 1
      <4>1. <<p, Len(log[p]) + 1>> \in Id /\ Len(log[p]) + 1 <= Len(log'[p])
        BY <3>1, <3>3, GroupAssumption DEF Id
      <4>2. QED BY <4>1 DEF Produced
    <3>5. MessageAt(id)' = Detail(Source(cur[w]), v)
      BY <3>3, <3>4 DEF MessageAt
    <3>6. Detail(Source(cur[w]), v)' = Detail(Source(cur[w]), v)
      BY <2>4 DEF Detail
    <3>7. QED BY <3>4, <3>5, <3>6 DEF Enqueued
  <2>7. Ok(w)
    BY DEF BatchOK
  <2>8. QED BY <2>1, <2>2, <2>4, <2>5, <2>6, <2>7
<1>6. QED
  <2>1. \/ UNCHANGED <<pc, cur, todo>>
        \/ \E v \in Workers : Worker(v) \/ Crash(v)
    BY DEF Next, Schedule, Deliver, GroupRebalance, workerVars, vars
  <2>2. ASSUME NEW v \in Workers, v # w, Worker(v) \/ Crash(v)
        PROVE  pc'[w] = pc[w] /\ cur'[w] = cur[w] /\ todo'[w] = todo[w]
    BY <2>2 DEF Worker, Handler, Start, Fetch, respectRateLimit, IsAllowed, Get,
                WriteDetail, FanoutFailed, FanoutDone, PublishRaw, publishToDLQ,
                Commit, Crash, Goto, TypeOK
  <2>3. ASSUME Worker(w) \/ Crash(w), ~Get(w), ~WriteDetail(w)
        PROVE  pc'[w] \notin {"raw", "fanout"}
    BY <2>3 DEF Worker, Handler, Start, Fetch, respectRateLimit, IsAllowed,
                FanoutFailed, FanoutDone, PublishRaw, publishToDLQ,
                Commit, Crash, Goto, TypeOK
  <2>4. QED BY <1>2, <1>3, <1>4, <1>5, <2>1, <2>2, <2>3

LEMMA ForwardStep ==
    ASSUME TypeOK, ForwardOK, [Next]_vars
    PROVE  ForwardOK'
<1>1. BatchOK'
  BY BatchStep DEF ForwardOK
<1>2. ASSUME NEW id \in fates["raw"] \cup fates["fanned"] PROVE Forwarded(id)'
  BY <1>2, ForwardedKeeps DEF ForwardOK, EndsForwarded, TypeOK, Fate
<1>3. ASSUME NEW w \in Workers, Handler(w) PROVE EndsForwarded'
  <2>1. CASE FanoutDone(w)
    <3>1. cur[w] \in Produced /\ IsListing(cur[w])
      BY <2>1 DEF FanoutDone, TypeOK, ForwardOK, BatchOK
    <3>2. \A u \in Trimmed(URL(cur[w])) : Enqueued(Detail(Source(cur[w]), u))
      BY <2>1 DEF FanoutDone, ForwardOK, BatchOK
    <3>3. Forwarded(cur[w])
      BY <3>1, <3>2, TaskType, TrimmedType DEF Forwarded, TypeOK
    <3>4. \A x : x = cur[w] => Forwarded(x)'
      BY <3>1, <3>3, ForwardedKeeps
    <3>5. fates'["raw"] \cup fates'["fanned"] = fates["raw"] \cup fates["fanned"] \cup {cur[w]}
      BY <2>1 DEF FanoutDone, End, Fate, TypeOK
    <3>6. QED BY <1>2, <3>4, <3>5 DEF EndsForwarded
  <2>2. CASE PublishRaw(w)
    <3>1. cur[w] \in Produced /\ ~IsListing(cur[w])
      BY <2>2 DEF PublishRaw, TypeOK, ForwardOK, BatchOK
    <3>2. CASE UNCHANGED fates
      BY <1>2, <3>2 DEF EndsForwarded
    <3>3. CASE End(w, "raw") /\ raw' = raw \cup {URL(cur[w])}
      <4>1. UNCHANGED log
        BY <2>2 DEF PublishRaw, groupVars
      <4>2. \A x : x = cur[w] => Forwarded(x)'
        BY <3>1, <3>3, <4>1 DEF Forwarded, IsListing, URL, MessageAt
      <4>3. fates'["raw"] \cup fates'["fanned"] = fates["raw"] \cup fates["fanned"] \cup {cur[w]}
        BY <3>3 DEF End, Fate, TypeOK
      <4>4. QED BY <1>2, <4>2, <4>3 DEF EndsForwarded
    <3>4. QED BY <2>2, <3>2, <3>3 DEF PublishRaw
  <2>3. CASE ~FanoutDone(w) /\ ~PublishRaw(w)
    <3>1. fates'["raw"] = fates["raw"] /\ fates'["fanned"] = fates["fanned"]
      BY <1>3, <2>3 DEF Handler, respectRateLimit, IsAllowed, Get, WriteDetail,
                        FanoutFailed, publishToDLQ, Commit, End, Fate, TypeOK
    <3>2. QED BY <1>2, <3>1 DEF EndsForwarded
  <2>4. QED BY <2>1, <2>2, <2>3
<1>4. ASSUME ~ \E w \in Workers : Handler(w) PROVE EndsForwarded'
  BY <1>2, <1>4, OtherEnds DEF EndsForwarded
<1>5. QED BY <1>1, <1>3, <1>4 DEF ForwardOK

(* A committed task was passed on in full unless it was sent to the DLQ,   *)
(* skipped, or refused by the DLQ: crashes, rebalances, partial batches    *)
(* and failed commits never cut a listing short unnoticed.                 *)
THEOREM CommitsOnlyForwarded == Spec => []CommittedForwarded
<1>1. Init => TypeOK /\ OffsetsOK /\ ForwardOK
  BY TypeInit, OffsetsInit, ForwardInit
<1>2. TypeOK /\ OffsetsOK /\ ForwardOK /\ [Next]_vars => (TypeOK /\ OffsetsOK /\ ForwardOK)'
  BY TypeStep, OffsetsStep, ForwardStep
<1>3. OffsetsOK /\ ForwardOK => CommittedForwarded
  BY InHandled DEF OffsetsOK, CommittedHandled, ForwardOK, EndsForwarded,
                   CommittedForwarded, Fate
<1>4. QED BY <1>1, <1>2, <1>3, PTL DEF Spec

-----------------------------------------------------------------------------
(* Provenance of the DETAIL tasks.                                         *)

LEMMA DetailsStep ==
    ASSUME TypeOK, BatchOK, DetailsLinked, [Next]_vars
    PROVE  DetailsLinked'
<1> DEFINE From(id) == \/ MessageAt(id).type # "DETAIL"
                       \/ MessageAt(id) \in Foreign
                       \/ \E l \in Produced : /\ IsListing(l)
                                              /\ Source(l) = Source(id)
                                              /\ LinksTo(URL(l), URL(id))
<1>1. /\ Produced \subseteq Produced'
      /\ \A id \in Produced : MessageAt(id)' = MessageAt(id)
  BY LogMonotone
<1>2. ASSUME NEW id \in Produced PROVE From(id)'
  <2>1. From(id)
    BY DEF DetailsLinked
  <2>2. QED BY <1>1, <2>1 DEF IsListing, Source, URL, LinksTo
<1>3. CASE UNCHANGED log
  BY <1>2, <1>3, LogKeeps DEF DetailsLinked
<1>4. ASSUME NEW p \in Partitions, NEW m \in Messages, Writes(p, m)
      PROVE  DetailsLinked'
  <2>1. SUFFICES ASSUME NEW id \in Produced', id \notin Produced PROVE From(id)'
    BY <1>2 DEF DetailsLinked
  <2>2. MessageAt(id)' = m
    <3>1. Len(log[p]) \in Nat /\ log[p] \in Seq(Messages) /\ log' = [log EXCEPT ![p] = Append(log[p], m)]
      BY <1>4 DEF Writes, Produce, TypeOK, GroupTypeOK
    <3>2. id[1] = p /\ id[2] = Len(log[p]) + 1
      BY <2>1, <3>1, GroupAssumption DEF Produced, Id, TypeOK, GroupTypeOK
    <3>3. QED BY <3>1, <3>2 DEF MessageAt, TypeOK, GroupTypeOK
  <2>3. CASE m.type = "LISTING" \/ m \in Foreign
    BY <2>2, <2>3
  <2>4. ASSUME NEW w \in Workers, WriteDetail(w), NEW u \in todo[w],
               m = Detail(Source(cur[w]), u)
        PROVE  From(id)'
    <3>1. cur[w] \in Produced /\ IsListing(cur[w]) /\ u \in Trimmed(URL(cur[w])) /\ u \in URLs
      BY <2>4 DEF WriteDetail, TypeOK, BatchOK
    <3>2. LinksTo(URL(cur[w]), u)
      BY <3>1, TaskType, TrimmedType DEF TypeOK
    <3>3. m.source = Source(cur[w]) /\ m.url = u
      BY <2>4 DEF Detail
    <3>4. PICK l \in Produced : l = cur[w]
      BY <3>1
    <3>5. IsListing(l)' /\ Source(l)' = m.source /\ URL(l)' = URL(cur[w]) /\ l \in Produced'
      BY <1>1, <3>1, <3>3, <3>4 DEF IsListing, Source, URL
    <3>6. Source(id)' = m.source /\ URL(id)' = m.url
      BY <2>2 DEF Source, URL
    <3>7. LinksTo(URL(l), URL(id))'
      BY <3>2, <3>3, <3>5, <3>6 DEF LinksTo
    <3>8. QED BY <3>5, <3>6, <3>7
  <2>5. QED BY <1>4, <2>3, <2>4 DEF Writes
<1>5. QED BY <1>3, <1>4, LogSteps

(* The fan-out limit bounds what a listing page can ever put on the topic, *)
(* however often the listing is delivered and however its batch fails.     *)
THEOREM DetailsAreLinked == Spec => []DetailsLinked
<1>1. Init => TypeOK /\ ForwardOK /\ DetailsLinked
  <2>1. Init => Produced = {}
    <3>1. Len(<<>>) = 0
      OBVIOUS
    <3>2. QED BY <3>1 DEF Init, GroupInit, Produced, Id
  <2>2. QED BY <2>1, TypeInit, ForwardInit DEF DetailsLinked
<1>2. TypeOK /\ ForwardOK /\ DetailsLinked /\ [Next]_vars
        => (TypeOK /\ ForwardOK /\ DetailsLinked)'
  BY TypeStep, ForwardStep, DetailsStep DEF ForwardOK
<1>3. QED BY <1>1, <1>2, PTL DEF Spec

=============================================================================
