-------------------------- MODULE ProcessorProofs --------------------------
(***************************************************************************)
(* Proofs about Processor, for any workers, partitions, messages, cap and  *)
(* any combination of failures.                                            *)
(***************************************************************************)
EXTENDS Processor, ConsumerGroupProofs, FiniteSetTheorems

(* The places where a worker has no message in hand. *)
Free == {"down", "boot", "idle"}

USE DEF Free

LEMMA MessageType ==
    ASSUME GroupTypeOK, NEW id \in Produced
    PROVE  /\ id \in Id /\ id[1] \in Partitions /\ id[2] \in Nat
           /\ id[2] \in 1 .. Len(log[id[1]])
           /\ id = <<id[1], id[2]>>
           /\ MessageAt(id) \in Messages
           /\ URL(id) \in URLs
           /\ Page(id) \in Fps \cup {Garbled, Unparsable}
<1>1. id \in Id /\ id[1] \in Partitions /\ id[2] \in 1 .. MaxLen /\ id = <<id[1], id[2]>>
  BY DEF Produced, Id
<1>2. id[2] \in 1 .. Len(log[id[1]]) /\ log[id[1]] \in Seq(Messages)
  BY <1>1, GroupAssumption DEF Produced, GroupTypeOK
<1>3. MessageAt(id) \in Messages
  BY <1>2 DEF MessageAt
<1>4. QED
  BY <1>1, <1>2, <1>3, GroupAssumption, ProcessorAssumption DEF URL, Page

LEMMA StoredFinite ==
    /\ IsFiniteSet(Stored)
    /\ Cardinality(Stored) \in Nat
<1>1. Stored \subseteq Fps
  BY DEF Stored
<1>2. QED BY <1>1, ProcessorAssumption, FS_Subset, FS_CardinalityType

-----------------------------------------------------------------------------
(* Type correctness.                                                       *)

(* What processMessage has learnt of its message by the time it stands at  *)
(* an access: past the unmarshalling it is JSON, past ParseDetail it has a *)
(* fingerprint.  TypeOK is not inductive without it: IsDuplicate writes    *)
(* the key of the page it has in hand.                                     *)
StageOK ==
    \A w \in Workers :
        /\ pc[w] = "url" => Page(cur[w]) # Garbled
        /\ pc[w] \in {"content", "cap", "upsert", "bump", "publish"} => Page(cur[w]) \in Fps

LEMMA TypeInit == ASSUME Init PROVE TypeOK /\ StageOK
<1>1. GroupTypeOK
  BY GroupInitType DEF Init
<1>2. QED BY <1>1 DEF Init, TypeOK, StageOK

LEMMA TypeStep ==
    ASSUME TypeOK, StageOK, [Next]_vars
    PROVE  TypeOK' /\ StageOK'
<1> USE DEF TypeOK, StageOK, Page
<1>1. CASE UNCHANGED vars
  BY <1>1, LogKeeps DEF vars, groupVars, redisVars, countVars, GroupTypeOK
<1>2. ASSUME NEW w \in Workers, Start(w) PROVE TypeOK' /\ StageOK'
  BY <1>2, LogKeeps DEF Start, Join, Goto, redisVars, GroupTypeOK, Stored
<1>3. ASSUME NEW w \in Workers, BootCount(w) PROVE TypeOK' /\ StageOK'
  BY <1>3, LogKeeps, StoredFinite, ZenonT(30) DEF BootCount, Goto, groupVars, redisVars, GroupTypeOK
<1>4. ASSUME NEW w \in Workers, Fetch(w) PROVE TypeOK' /\ StageOK'
  <2>1. PICK p \in Partitions :
          /\ FetchMessage(w, p)
          /\ cur' = [cur EXCEPT ![w] = <<p, position[p] + 1>>]
          /\ pc' = [pc EXCEPT ![w] = IF Page(<<p, position[p] + 1>>) = Garbled
                                        THEN "dlq" ELSE "url"]
    BY <1>4 DEF Fetch
  <2>2. position[p] \in Nat /\ Len(log[p]) \in Nat /\ Len(log[p]) <= MaxLen
    BY DEF GroupTypeOK
  <2>3. <<p, position[p] + 1>> \in Produced
    BY <2>1, <2>2, GroupAssumption DEF FetchMessage, Produced, Id
  <2>4. <<p, position[p] + 1>> \in Id
    BY <2>3 DEF Produced
  <2>5. GroupTypeOK'
    BY <2>1, <2>2 DEF FetchMessage, GroupTypeOK
  <2>6. UNCHANGED log
    BY <2>1 DEF FetchMessage
  <2>7. UNCHANGED <<jobCount, snap, urlKeys, fpKeys, rows, processed, crashes, fates, unseen, since>>
    BY <1>4 DEF Fetch, redisVars, countVars
  <2>8. QED BY <2>1, <2>3, <2>4, <2>5, <2>6, <2>7, LogKeeps
<1>5. ASSUME NEW w \in Workers, IsURLCrawled(w) PROVE TypeOK' /\ StageOK'
  <2>1. cur[w] \in Produced
    BY <1>5 DEF IsURLCrawled
  <2>2. URL(cur[w]) \in URLs
    BY <2>1, MessageType
  <2>3. \A r \in SetNX(URL(cur[w]), urlKeys) : r.keys \subseteq URLs
    BY <2>2 DEF SetNX
  <2>4. urlKeys' \subseteq URLs
    BY <2>3, <1>5 DEF IsURLCrawled
  <2>5. fates' \in [Fate -> SUBSET Produced]
    BY <2>1, <1>5 DEF IsURLCrawled, End, Fate
  <2>6. \/ pc' = [pc EXCEPT ![w] = "commit"]
        \/ pc' = [pc EXCEPT ![w] = "dlq"]
        \/ pc' = [pc EXCEPT ![w] = "content"] /\ Page(cur[w]) # Unparsable
    BY <1>5 DEF IsURLCrawled, AfterURL, Goto
  <2>7. UNCHANGED <<groupVars, cur, crashes, fpKeys, countVars, rows, processed>>
    BY <1>5 DEF IsURLCrawled, Goto
  <2>8. Page(cur[w]) # Garbled /\ Page(cur[w]) \in Fps \cup {Garbled, Unparsable}
    BY <1>5, <2>1, MessageType DEF IsURLCrawled
  <2>9. QED
    BY <2>1, <2>4, <2>5, <2>6, <2>7, <2>8, LogKeeps, ZenonT(30) DEF groupVars, countVars, GroupTypeOK
<1>6. ASSUME NEW w \in Workers, IsDuplicate(w) PROVE TypeOK' /\ StageOK'
  <2>1. cur[w] \in Produced
    BY <1>6 DEF IsDuplicate
  <2>2. Page(cur[w]) \in Fps
    BY <1>6 DEF IsDuplicate
  <2>3. \A r \in SetNX(Page(cur[w]), fpKeys) : r.keys \subseteq Fps
    BY <2>2 DEF SetNX
  <2>4. fpKeys' \subseteq Fps
    BY <2>3, <1>6 DEF IsDuplicate
  <2>5. fates' \in [Fate -> SUBSET Produced]
    BY <2>1, <1>6 DEF IsDuplicate, End, Fate
  <2>6. \/ pc' = [pc EXCEPT ![w] = "commit"]
        \/ pc' = [pc EXCEPT ![w] = "cap"]
    BY <1>6 DEF IsDuplicate, Goto
  <2>7. UNCHANGED <<groupVars, cur, crashes, urlKeys, countVars, rows, processed>>
    BY <1>6 DEF IsDuplicate, Goto
  <2>8. QED
    BY <2>1, <2>2, <2>4, <2>5, <2>6, <2>7, LogKeeps DEF groupVars, countVars, GroupTypeOK
<1>7. ASSUME NEW w \in Workers, CheckCap(w) PROVE TypeOK' /\ StageOK'
  <2>1. cur[w] \in Produced
    BY <1>7 DEF CheckCap
  <2>2. fates' \in [Fate -> SUBSET Produced]
    BY <2>1, <1>7 DEF CheckCap, End, Fate
  <2>3. QED
    BY <1>7, <2>1, <2>2, LogKeeps DEF CheckCap, Goto, groupVars, redisVars, countVars, GroupTypeOK
<1>8. ASSUME NEW w \in Workers, Upsert(w) PROVE TypeOK' /\ StageOK'
  <2>1. cur[w] \in Produced /\ Page(cur[w]) \in Fps
    BY <1>8 DEF Upsert, UpsertFailed
  <2>2. fates' \in [Fate -> SUBSET Produced]
    BY <2>1, <1>8 DEF Upsert, UpsertFailed, End, Fate
  <2>3. /\ rows' \in [Fps -> {"absent", "fresh", "old"}]
        /\ unseen' \in [Workers -> SUBSET Fps]
        /\ since' \in [Workers -> SUBSET Fps]
    BY <2>1, <1>8 DEF Upsert, UpsertFailed, Write
  <2>4. UNCHANGED <<groupVars, cur, crashes, redisVars, jobCount, snap, processed>>
    BY <1>8 DEF Upsert, UpsertFailed, Goto
  <2>5. \/ pc' = [pc EXCEPT ![w] = "bump"]
        \/ pc' = [pc EXCEPT ![w] = "publish"]
        \/ pc' = [pc EXCEPT ![w] = "dlq"]
    BY <1>8 DEF Upsert, UpsertFailed, Goto
  <2>6. QED
    BY <2>1, <2>2, <2>3, <2>4, <2>5, LogKeeps, ZenonT(30) DEF groupVars, redisVars, GroupTypeOK
<1>9. ASSUME NEW w \in Workers, Bump(w) PROVE TypeOK' /\ StageOK'
  BY <1>9, LogKeeps DEF Bump, Goto, groupVars, redisVars, GroupTypeOK
<1>10. ASSUME NEW w \in Workers, Publish(w) PROVE TypeOK' /\ StageOK'
  BY <1>10, LogKeeps DEF Publish, Goto, groupVars, redisVars, countVars, GroupTypeOK
<1>11. ASSUME NEW w \in Workers, PublishToDLQ(w) PROVE TypeOK' /\ StageOK'
  <2>1. cur[w] \in Produced
    BY <1>11 DEF PublishToDLQ
  <2>2. fates' \in [Fate -> SUBSET Produced]
    BY <2>1, <1>11 DEF PublishToDLQ, End, Fate
  <2>3. QED
    BY <1>11, <2>1, <2>2, LogKeeps
    DEF PublishToDLQ, Goto, groupVars, redisVars, countVars, GroupTypeOK
<1>12. ASSUME NEW w \in Workers, Commit(w) PROVE TypeOK' /\ StageOK'
  <2>1. cur[w] \in Produced /\ cur[w][1] \in Partitions /\ cur[w][2] \in Nat
    BY <1>12, MessageType DEF Commit
  <2>2. GroupTypeOK' /\ UNCHANGED log
    BY <1>12, <2>1 DEF Commit, CommitMessages, groupVars, GroupTypeOK
  <2>3. QED
    BY <1>12, <2>2, LogKeeps DEF Commit, redisVars, countVars
<1>13. ASSUME NEW w \in Workers, RefreshRead(w) PROVE TypeOK' /\ StageOK'
  BY <1>13, LogKeeps, StoredFinite DEF RefreshRead, groupVars, redisVars, GroupTypeOK
<1>14. ASSUME NEW w \in Workers, RefreshStore(w) PROVE TypeOK' /\ StageOK'
  BY <1>14, LogKeeps DEF RefreshStore, groupVars, redisVars, GroupTypeOK
<1>15. ASSUME NEW w \in Workers, Crash(w) PROVE TypeOK' /\ StageOK'
  <2>1. GroupTypeOK' /\ UNCHANGED log
    BY <1>15 DEF Crash, Leave, GroupTypeOK
  <2>2. fates' \in [Fate -> SUBSET Produced]
    BY <1>15 DEF Crash, End, Fate, HoldsURL
  <2>3. QED
    BY <1>15, <2>1, <2>2, LogKeeps DEF Crash, redisVars
<1>16. ASSUME Deliver PROVE TypeOK' /\ StageOK'
  <2>1. PICK p \in Partitions, m \in Messages : Produce(p, m)
    BY <1>16 DEF Deliver
  <2>2. /\ GroupTypeOK'
        /\ Produced \subseteq Produced'
        /\ \A id \in Produced : MessageAt(id)' = MessageAt(id)
    BY <2>1, ProduceKeeps
  <2>3. UNCHANGED <<pc, cur, jobCount, snap, urlKeys, fpKeys, rows, processed,
                    crashes, fates, unseen, since>>
    BY <1>16 DEF Deliver, redisVars, countVars
  <2>4. QED BY <2>2, <2>3
<1>17. ASSUME GroupRebalance PROVE TypeOK' /\ StageOK'
  <2>1. GroupTypeOK' /\ UNCHANGED log
    BY <1>17 DEF GroupRebalance, Rebalance, Up, GroupTypeOK
  <2>2. QED
    BY <1>17, <2>1, LogKeeps DEF GroupRebalance, redisVars, countVars
<1>18. ASSUME NEW u \in URLs, ExpireURL(u) PROVE TypeOK' /\ StageOK'
  BY <1>18, LogKeeps DEF ExpireURL, groupVars, countVars, GroupTypeOK
<1>19. ASSUME NEW f \in Fps, ExpireFp(f) PROVE TypeOK' /\ StageOK'
  BY <1>19, LogKeeps DEF ExpireFp, groupVars, countVars, GroupTypeOK
<1>20. ASSUME NEW f \in Fps, Age(f) PROVE TypeOK' /\ StageOK'
  BY <1>20, LogKeeps DEF Age, groupVars, redisVars, countVars, GroupTypeOK
<1>21. ASSUME runOnce PROVE TypeOK' /\ StageOK'
  BY <1>21, LogKeeps DEF runOnce, groupVars, redisVars, countVars, GroupTypeOK
<1>22. QED
  BY <1>1, <1>2, <1>3, <1>4, <1>5, <1>6, <1>7, <1>8, <1>9, <1>10, <1>11, <1>12,
     <1>13, <1>14, <1>15, <1>16, <1>17, <1>18, <1>19, <1>20, <1>21
  DEF Next, Worker, Handler, Refresher

(* Every variable keeps its type in every reachable state: a worker has a  *)
(* message of the topic in hand exactly while processMessage runs.         *)
THEOREM TypeCorrect == Spec => []TypeOK
<1>1. Init => TypeOK /\ StageOK
  BY TypeInit
<1>2. TypeOK /\ StageOK /\ [Next]_vars => TypeOK' /\ StageOK'
  BY TypeStep
<1>3. QED BY <1>1, <1>2, PTL DEF Spec

-----------------------------------------------------------------------------
(* What one step does to the history.                                      *)

LEMMA InHandled == \A id : id \in Handled <=> \E f \in Fate \ {"cut"} : id \in fates[f]
BY DEF Handled

LEMMA EndHandles ==
    ASSUME TypeOK, NEW w \in Workers, NEW f \in Fate, End(w, f)
    PROVE  /\ \A g \in Fate : fates[g] \subseteq fates'[g]
           /\ f # "cut" => Handled' = Handled \cup {cur[w]}
           /\ f = "cut" => Handled' = Handled
           /\ cur[w] \in fates'[f]
<1>1. \A g \in Fate : fates'[g] = IF g = f THEN fates[g] \cup {cur[w]} ELSE fates[g]
  BY DEF End, TypeOK
<1>2. \A id : id \in Handled' <=> \E g \in Fate \ {"cut"} : id \in fates'[g]
  BY DEF Handled
<1>3. QED BY <1>1, <1>2, InHandled

(* The ends a handler step of w may come to. *)
LEMMA HandlerEnds ==
    ASSUME TypeOK, NEW w \in Workers, Handler(w)
    PROVE  \/ UNCHANGED fates
           \/ \E f \in Fate \ {"cut"} : End(w, f) /\ pc[w] \notin Free
<1>1. CASE IsURLCrawled(w) BY <1>1 DEF IsURLCrawled, Fate
<1>2. CASE IsDuplicate(w) BY <1>2 DEF IsDuplicate, Fate
<1>3. CASE CheckCap(w) BY <1>3 DEF CheckCap, Fate
<1>4. CASE Upsert(w) BY <1>4 DEF Upsert, UpsertFailed, Fate
<1>5. CASE Bump(w) BY <1>5 DEF Bump
<1>6. CASE Publish(w) BY <1>6 DEF Publish
<1>7. CASE PublishToDLQ(w) BY <1>7 DEF PublishToDLQ, Fate
<1>8. CASE Commit(w) BY <1>8 DEF Commit
<1>9. QED BY <1>1, <1>2, <1>3, <1>4, <1>5, <1>6, <1>7, <1>8 DEF Handler

(* The steps of nobody's handler leave the history alone. *)
LEMMA OtherEnds ==
    ASSUME TypeOK, [Next]_vars, ~ \E w \in Workers : Handler(w) \/ Crash(w)
    PROVE  UNCHANGED fates
BY DEF Next, Worker, Refresher, Start, BootCount, Fetch, RefreshRead,
       RefreshStore, Deliver, GroupRebalance, ExpireURL, ExpireFp, Age, runOnce, vars

LEMMA CrashEnds ==
    ASSUME TypeOK, NEW w \in Workers, Crash(w)
    PROVE  \/ UNCHANGED fates
           \/ End(w, "cut") /\ HoldsURL(w)
BY DEF Crash

LEMMA HandledSame == ASSUME UNCHANGED fates PROVE Handled' = Handled
BY DEF Handled

(* Neither the topic nor the history forgets. *)
LEMMA Monotone ==
    ASSUME TypeOK, [Next]_vars
    PROVE  /\ Produced \subseteq Produced'
           /\ \A id \in Produced : MessageAt(id)' = MessageAt(id)
           /\ \A f \in Fate : fates[f] \subseteq fates'[f]
           /\ Handled \subseteq Handled'
<1>1. /\ Produced \subseteq Produced'
      /\ \A id \in Produced : MessageAt(id)' = MessageAt(id)
  <2>1. CASE Deliver
    BY <2>1, ProduceKeeps DEF Deliver, TypeOK
  <2>2. CASE ~Deliver
    <3>1. UNCHANGED log
      BY <2>2 DEF Next, Worker, Handler, Refresher, vars, groupVars,
         Start, Join, BootCount, Fetch, FetchMessage, IsURLCrawled, IsDuplicate,
         CheckCap, Upsert, UpsertFailed, Bump, Publish, PublishToDLQ, Commit, CommitMessages,
         RefreshRead, RefreshStore, Crash, Leave, GroupRebalance, Rebalance,
         ExpireURL, ExpireFp, Age, runOnce
    <3>2. QED BY <3>1, LogKeeps
  <2>3. QED BY <2>1, <2>2
<1>2. \A f \in Fate : fates[f] \subseteq fates'[f]
  <2>1. CASE \E w \in Workers : Handler(w)
    BY <2>1, HandlerEnds, EndHandles
  <2>2. CASE \E w \in Workers : Crash(w)
    BY <2>2, CrashEnds, EndHandles DEF Fate
  <2>3. QED BY <2>1, <2>2, OtherEnds
<1>3. Handled \subseteq Handled'
  <2>1. \A id : id \in Handled' <=> \E f \in Fate \ {"cut"} : id \in fates'[f]
    BY DEF Handled
  <2>2. QED BY <2>1, <1>2, InHandled
<1>4. QED BY <1>1, <1>2, <1>3

-----------------------------------------------------------------------------
(* Offsets.  CommittedHandled is not inductive: a commit covers every      *)
(* message before the one in hand, and a rebalance in mid-message makes    *)
(* two workers hold the same one.                                          *)

(* Past the step that ended the handling. *)
Ended == {"bump", "publish", "commit"}

(* What the owner of a partition has fetched is handled or in its hand. *)
FetchedHandled ==
    \A p \in Partitions : owner[p] # None =>
        \A i \in 1 .. position[p] : <<p, i>> \in Handled \/ cur[owner[p]] = <<p, i>>

(* Everything before a message in hand is handled, whoever owns the        *)
(* partition now; so is the message itself once its handling has ended.    *)
HandHandled ==
    \A w \in Workers :
        /\ cur[w] # None => \A i \in 1 .. (cur[w][2] - 1) : <<cur[w][1], i>> \in Handled
        /\ pc[w] \in Ended => cur[w] \in Handled

OffsetsOK == CommittedHandled /\ FetchedHandled /\ HandHandled

LEMMA OffsetsInit == ASSUME Init PROVE OffsetsOK
BY GroupAssumption
DEF Init, GroupInit, OffsetsOK, CommittedHandled, FetchedHandled, HandHandled, Ended

(* Steps that move no offset, partition or message in hand. *)
LEMMA OffsetsQuiet ==
    ASSUME TypeOK, OffsetsOK, [Next]_vars,
           UNCHANGED <<committed, position, owner, cur>>,
           \A w \in Workers : pc'[w] \in Ended => pc[w] \in Ended \/ cur[w] \in Handled'
    PROVE  OffsetsOK'
<1>1. Handled \subseteq Handled'
  BY Monotone
<1>2. CommittedHandled'
  BY <1>1 DEF OffsetsOK, CommittedHandled
<1>3. FetchedHandled'
  BY <1>1 DEF OffsetsOK, FetchedHandled
<1>4. HandHandled'
  BY <1>1 DEF OffsetsOK, HandHandled
<1>5. QED BY <1>2, <1>3, <1>4 DEF OffsetsOK

LEMMA OffsetsStep ==
    ASSUME TypeOK, OffsetsOK, [Next]_vars
    PROVE  OffsetsOK'
<1>1. Handled \subseteq Handled'
  BY Monotone
<1>2. ASSUME NEW w \in Workers, Fetch(w) PROVE OffsetsOK'
  <2>1. PICK p \in Partitions :
          /\ FetchMessage(w, p)
          /\ cur' = [cur EXCEPT ![w] = <<p, position[p] + 1>>]
          /\ \/ pc' = [pc EXCEPT ![w] = "dlq"]
             \/ pc' = [pc EXCEPT ![w] = "url"]
    BY <1>2 DEF Fetch
  <2>2. cur[w] = None /\ owner[p] = w /\ w # None /\ position[p] \in Nat
    BY <1>2, <2>1, GroupAssumption DEF Fetch, FetchMessage, TypeOK, GroupTypeOK
  <2>3. \A q \in Partitions : owner[q] = w => \A i \in 1 .. position[q] : <<q, i>> \in Handled
    <3>1. SUFFICES ASSUME NEW q \in Partitions, owner[q] = w, NEW i \in 1 .. position[q],
                          cur[w] = <<q, i>>
                   PROVE  FALSE
      BY <2>2 DEF OffsetsOK, FetchedHandled
    <3>2. i \in Nat
      BY DEF TypeOK, GroupTypeOK
    <3>3. <<q, i>> \in Partitions \X Nat
      BY <3>2
    <3>4. QED BY <3>1, <3>3, <2>2, GroupAssumption
  <2>4. CommittedHandled'
    BY <1>1, <2>1 DEF OffsetsOK, CommittedHandled, FetchMessage
  <2>5. FetchedHandled'
    BY <1>1, <2>1, <2>2, <2>3 DEF OffsetsOK, FetchedHandled, FetchMessage, TypeOK, GroupTypeOK
  <2>6. HandHandled'
    BY <1>1, <2>1, <2>2, <2>3 DEF OffsetsOK, HandHandled, Ended, TypeOK
  <2>7. QED BY <2>4, <2>5, <2>6 DEF OffsetsOK
<1>3. ASSUME NEW w \in Workers, Commit(w) PROVE OffsetsOK'
  <2>1. /\ cur[w] \in Produced /\ cur[w] = <<cur[w][1], cur[w][2]>>
        /\ cur[w][1] \in Partitions /\ cur[w][2] \in Nat /\ cur[w] # None
    BY <1>3, MessageType, GroupAssumption, ZenonT(30) DEF Commit, TypeOK, Produced, Id
  <2>2. \A i \in 1 .. cur[w][2] : <<cur[w][1], i>> \in Handled
    <3>1. cur[w] \in Handled
      BY <1>3 DEF Commit, OffsetsOK, HandHandled, Ended
    <3>2. \A i \in 1 .. (cur[w][2] - 1) : <<cur[w][1], i>> \in Handled
      BY <2>1 DEF OffsetsOK, HandHandled
    <3>3. QED BY <3>1, <3>2, <2>1
  <2>3. /\ pc' = [pc EXCEPT ![w] = "idle"]
        /\ cur' = [cur EXCEPT ![w] = None]
        /\ UNCHANGED <<position, owner, fates>>
        /\ committed' = [committed EXCEPT ![cur[w][1]] = cur[w][2]] \/ UNCHANGED committed
    BY <1>3 DEF Commit, CommitMessages, groupVars
  <2>4. CommittedHandled'
    BY <1>1, <2>1, <2>2, <2>3 DEF OffsetsOK, CommittedHandled, TypeOK, GroupTypeOK
  <2>5. FetchedHandled'
    <3>1. SUFFICES ASSUME NEW p \in Partitions, owner[p] # None, NEW i \in 1 .. position[p]
                   PROVE  <<p, i>> \in Handled \/ cur'[owner[p]] = <<p, i>>
      BY <1>1, <2>3 DEF FetchedHandled
    <3>2. <<p, i>> \in Handled \/ cur[owner[p]] = <<p, i>>
      BY <3>1 DEF OffsetsOK, FetchedHandled
    <3>3. CASE owner[p] = w
      BY <3>2, <3>3, <1>3 DEF Commit, OffsetsOK, HandHandled, Ended
    <3>4. CASE owner[p] # w
      BY <3>2, <3>4, <2>3, <3>1 DEF TypeOK, GroupTypeOK
    <3>5. QED BY <3>3, <3>4
  <2>6. HandHandled'
    BY <1>1, <2>3 DEF OffsetsOK, HandHandled, Ended, TypeOK
  <2>7. QED BY <2>4, <2>5, <2>6 DEF OffsetsOK
<1>4. ASSUME NEW w \in Workers, Crash(w) PROVE OffsetsOK'
  <2>1. /\ pc' = [pc EXCEPT ![w] = "down"]
        /\ cur' = [cur EXCEPT ![w] = None]
        /\ owner' = [p \in Partitions |-> IF owner[p] = w THEN None ELSE owner[p]]
        /\ UNCHANGED <<position, committed>>
    BY <1>4 DEF Crash, Leave
  <2>2. CommittedHandled'
    BY <1>1, <2>1 DEF OffsetsOK, CommittedHandled
  <2>3. FetchedHandled'
    BY <1>1, <2>1 DEF OffsetsOK, FetchedHandled, TypeOK, GroupTypeOK
  <2>4. HandHandled'
    BY <1>1, <2>1 DEF OffsetsOK, HandHandled, Ended, TypeOK
  <2>5. QED BY <2>2, <2>3, <2>4 DEF OffsetsOK
<1>5. ASSUME GroupRebalance PROVE OffsetsOK'
  <2>1. /\ position' = committed
        /\ UNCHANGED <<committed, pc, cur>>
    BY <1>5 DEF GroupRebalance, Rebalance
  <2>2. CommittedHandled'
    BY <1>1, <2>1 DEF OffsetsOK, CommittedHandled
  <2>3. FetchedHandled'
    BY <2>1, <2>2 DEF FetchedHandled, CommittedHandled
  <2>4. HandHandled'
    BY <1>1, <2>1 DEF OffsetsOK, HandHandled
  <2>5. QED BY <2>2, <2>3, <2>4 DEF OffsetsOK
<1>6. ASSUME NEW w \in Workers, Handler(w), ~Commit(w) PROVE OffsetsOK'
  <2>1. UNCHANGED <<committed, position, owner, cur>>
    BY <1>6 DEF Handler, IsURLCrawled, IsDuplicate, CheckCap, Upsert, UpsertFailed, Bump,
                Publish, PublishToDLQ, Goto, groupVars
  <2>2. pc'[w] \in Ended => pc[w] \in Ended \/ \E f \in Fate \ {"cut"} : End(w, f)
    BY <1>6 DEF Handler, IsURLCrawled, AfterURL, IsDuplicate, CheckCap, Upsert, UpsertFailed, Bump,
                Publish, PublishToDLQ, Goto, Ended, Fate, TypeOK
  <2>3. \A v \in Workers : v # w => pc'[v] = pc[v]
    BY <1>6 DEF Handler, IsURLCrawled, IsDuplicate, CheckCap, Upsert, UpsertFailed, Bump,
                Publish, PublishToDLQ, Goto, TypeOK
  <2>4. \A v \in Workers : pc'[v] \in Ended => pc[v] \in Ended \/ cur[v] \in Handled'
    BY <2>2, <2>3, EndHandles
  <2>5. QED BY <2>1, <2>4, OffsetsQuiet
<1>7. ASSUME ~ \E w \in Workers : Handler(w) \/ Crash(w) \/ Fetch(w), ~GroupRebalance
      PROVE  OffsetsOK'
  <2>1. UNCHANGED <<committed, position, owner, cur>>
    BY <1>7 DEF Next, Worker, Refresher, Start, Join, Goto, BootCount, RefreshRead,
                RefreshStore, Deliver, Produce, ExpireURL, ExpireFp, Age, runOnce,
                vars, groupVars
  <2>2. \A w \in Workers : pc'[w] \in Ended => pc[w] \in Ended
    BY <1>7 DEF Next, Worker, Refresher, Start, Goto, BootCount, RefreshRead,
                RefreshStore, Deliver, ExpireURL, ExpireFp, Age, runOnce, vars,
                Ended, TypeOK
  <2>3. QED BY <2>1, <2>2, OffsetsQuiet
<1>8. QED BY <1>2, <1>3, <1>4, <1>5, <1>6, <1>7

(* No reachable state has an offset committed over a message whose         *)
(* handling never came to an end, for any number of workers and            *)
(* partitions and any mix of crashes, rebalances and failed commits.       *)
THEOREM CommitsOnlyHandled == Spec => []CommittedHandled
<1>1. Init => TypeOK /\ StageOK /\ OffsetsOK
  BY TypeInit, OffsetsInit
<1>2. TypeOK /\ StageOK /\ OffsetsOK /\ [Next]_vars => (TypeOK /\ StageOK /\ OffsetsOK)'
  BY TypeStep, OffsetsStep
<1>3. OffsetsOK => CommittedHandled
  BY DEF OffsetsOK
<1>4. QED BY <1>1, <1>2, <1>3, PTL DEF Spec

-----------------------------------------------------------------------------
(* Refinement of the consumer's contract.                                  *)

LEMMA ContractInit == ASSUME Init PROVE Contract!Init
<1>1. \A f \in Fate : fates[f] = {}
  BY DEF Init
<1>2. Handled = {}
  BY <1>1 DEF Handled
<1>3. QED BY <1>2 DEF Init, GroupInit, Contract!Init

LEMMA ContractStep ==
    ASSUME TypeOK, OffsetsOK, [Next]_vars
    PROVE  [Contract!Next]_(Contract!vars)
<1>1. CASE Deliver
  <2>1. \E p \in Partitions, m \in Messages : log' = [log EXCEPT ![p] = Append(@, m)]
    BY <1>1 DEF Deliver, Produce
  <2>2. UNCHANGED <<fates, committed>>
    BY <1>1 DEF Deliver, Produce
  <2>3. Handled' = Handled
    BY <2>2, HandledSame
  <2>4. QED BY <2>1, <2>2, <2>3 DEF Contract!Next, Contract!Produce
<1>2. ASSUME NEW w \in Workers, Commit(w) PROVE [Contract!Next]_(Contract!vars)
  <2>1. /\ cur[w] \in Produced /\ cur[w] = <<cur[w][1], cur[w][2]>>
        /\ cur[w][1] \in Partitions /\ cur[w][2] \in 1 .. Len(log[cur[w][1]])
        /\ cur[w][2] \in Nat /\ cur[w] # None
    BY <1>2, MessageType, GroupAssumption, ZenonT(30) DEF Commit, TypeOK, Produced, Id
  <2>2. \A i \in 1 .. cur[w][2] : <<cur[w][1], i>> \in Handled
    <3>1. cur[w] \in Handled
      BY <1>2 DEF Commit, OffsetsOK, HandHandled, Ended
    <3>2. \A i \in 1 .. (cur[w][2] - 1) : <<cur[w][1], i>> \in Handled
      BY <2>1 DEF OffsetsOK, HandHandled
    <3>3. QED BY <3>1, <3>2, <2>1
  <2>3. UNCHANGED <<log, fates>>
    BY <1>2 DEF Commit, CommitMessages, groupVars
  <2>4. Handled' = Handled
    BY <2>3, HandledSame
  <2>5. CASE committed' = [committed EXCEPT ![cur[w][1]] = cur[w][2]]
    BY <2>1, <2>2, <2>3, <2>4, <2>5 DEF Contract!Next, Contract!Commit
  <2>6. CASE UNCHANGED committed
    BY <2>3, <2>4, <2>6 DEF Contract!vars
  <2>7. QED BY <1>2, <2>5, <2>6 DEF Commit, CommitMessages, groupVars
<1>3. ASSUME NEW w \in Workers, Handler(w), ~Commit(w)
      PROVE  [Contract!Next]_(Contract!vars)
  <2>1. UNCHANGED <<log, committed>>
    BY <1>3 DEF Handler, IsURLCrawled, IsDuplicate, CheckCap, Upsert, UpsertFailed, Bump,
                Publish, PublishToDLQ, groupVars
  <2>2. CASE UNCHANGED fates
    BY <2>1, <2>2, HandledSame DEF Contract!vars
  <2>3. ASSUME NEW f \in Fate \ {"cut"}, End(w, f), pc[w] \notin Free
        PROVE  Contract!Next
    <3>1. Handled' = Handled \cup {cur[w]}
      BY <2>3, EndHandles
    <3>2. cur[w] \in Produced
      BY <2>3 DEF TypeOK
    <3>3. /\ cur[w][1] \in Partitions /\ cur[w][2] \in 1 .. Len(log[cur[w][1]])
          /\ cur[w] = <<cur[w][1], cur[w][2]>>
      BY <3>2, MessageType DEF TypeOK
    <3>4. QED BY <2>1, <3>1, <3>3 DEF Contract!Next, Contract!Handle
  <2>4. QED BY <1>3, <2>2, <2>3, HandlerEnds
<1>4. ASSUME NEW w \in Workers, Crash(w) PROVE UNCHANGED Contract!vars
  <2>1. Handled' = Handled
    BY <1>4, CrashEnds, EndHandles, HandledSame DEF Fate
  <2>2. QED BY <1>4, <2>1 DEF Crash, Leave, Contract!vars
<1>5. ASSUME ~ \E w \in Workers : Handler(w) \/ Crash(w), ~Deliver
      PROVE  UNCHANGED Contract!vars
  <2>1. Handled' = Handled
    BY <1>5, OtherEnds, HandledSame
  <2>2. UNCHANGED <<log, committed>>
    BY <1>5 DEF Next, Worker, Refresher, Start, Join, BootCount, Fetch, FetchMessage,
                RefreshRead, RefreshStore, GroupRebalance, Rebalance, ExpireURL,
                ExpireFp, Age, runOnce, vars, groupVars
  <2>3. QED BY <2>1, <2>2 DEF Contract!vars
<1>6. QED BY <1>1, <1>2, <1>3, <1>4, <1>5

(* The processor implements AtLeastOnce: every step of a worker, of the    *)
(* group or of the surroundings produces, handles or commits a message as  *)
(* the contract allows, or does none of these.                             *)
THEOREM ProcessorRefines == Spec => ImplementsAtLeastOnce
<1>1. Init => TypeOK /\ StageOK /\ OffsetsOK /\ Contract!Init
  BY TypeInit, OffsetsInit, ContractInit
<1>2. TypeOK /\ StageOK /\ OffsetsOK /\ [Next]_vars => (TypeOK /\ StageOK /\ OffsetsOK)'
  BY TypeStep, OffsetsStep
<1>3. TypeOK /\ OffsetsOK /\ [Next]_vars => [Contract!Next]_(Contract!vars)
  BY ContractStep
<1>4. QED BY <1>1, <1>2, <1>3, PTL DEF Spec, ImplementsAtLeastOnce, Contract!Spec

-----------------------------------------------------------------------------
(* Deduplication drops nothing without cause.  The invariant behind both   *)
(* skips: a key in Redis was claimed by a message that is still in hand or *)
(* has come to an end of its own.                                          *)

KeysClaimed ==
    /\ \A u \in urlKeys : UrlClaimed(u)
    /\ \A f \in fpKeys : FpClaimed(f)

ClaimsOK == KeysClaimed /\ UrlSkipJustified /\ ContentSkipJustified

LEMMA InSpent ==
    /\ \A id : id \in Spent <=>
          Page(id) # Garbled /\ \E f \in Fate \ {"dupURL"} : id \in fates[f]
    /\ \A id : id \in SpentContent <=>
          Page(id) \in Fps /\ \E f \in Fate \ {"dupURL", "dupContent"} : id \in fates[f]
BY DEF Spent, SpentContent

(* A worker that holds a claim keeps it until its message is spent. *)
LEMMA HolderStep ==
    ASSUME TypeOK, StageOK, [Next]_vars, NEW w \in Workers, HoldsURL(w)
    PROVE  \/ /\ cur'[w] = cur[w]
              /\ \/ pc'[w] = pc[w]
                 \/ pc'[w] \in {"cap", "upsert", "dlq"}
           \/ \E f \in Fate \ {"dupURL"} :
                 /\ cur[w] \in fates'[f]
                 /\ f = "dupContent" => pc[w] = "content"
<1>1. pc[w] \in {"content", "cap", "upsert", "dlq"}
  BY DEF HoldsURL
<1>2. CASE Handler(w)
  <2>1. CASE IsDuplicate(w)
    <3>1. \/ \E f \in {"dupContent", "swallowed"} : End(w, f)
          \/ cur'[w] = cur[w] /\ pc'[w] = "cap"
      BY <2>1 DEF IsDuplicate, Goto, TypeOK
    <3>2. QED BY <2>1, <3>1, EndHandles DEF Fate, IsDuplicate
  <2>2. CASE CheckCap(w)
    <3>1. End(w, "capped") \/ (cur'[w] = cur[w] /\ pc'[w] = "upsert")
      BY <2>2 DEF CheckCap, Goto, TypeOK
    <3>2. QED BY <3>1, EndHandles DEF Fate
  <2>3. CASE Upsert(w)
    <3>1. End(w, "saved") \/ (cur'[w] = cur[w] /\ pc'[w] = "dlq")
      BY <2>3 DEF Upsert, UpsertFailed, Goto, TypeOK
    <3>2. QED BY <3>1, EndHandles DEF Fate
  <2>4. CASE PublishToDLQ(w)
    <3>1. \E f \in {"dlq", "lost"} : End(w, f)
      BY <2>4 DEF PublishToDLQ
    <3>2. QED BY <3>1, EndHandles DEF Fate
  <2>5. QED
    BY <1>1, <1>2, <2>1, <2>2, <2>3, <2>4
    DEF Handler, IsURLCrawled, Bump, Publish, Commit
<1>3. CASE Crash(w)
  <2>1. End(w, "cut")
    BY <1>3 DEF Crash
  <2>2. QED BY <2>1, EndHandles DEF Fate
<1>4. CASE ~Handler(w) /\ ~Crash(w)
  <2>1. ASSUME NEW v \in Workers, Handler(v) \/ Crash(v), v # w
        PROVE  cur'[w] = cur[w] /\ pc'[w] = pc[w]
    BY <2>1 DEF Handler, IsURLCrawled, IsDuplicate, CheckCap, Upsert, UpsertFailed, Bump, Publish,
                PublishToDLQ, Commit, Goto, Crash, TypeOK
  <2>2. ASSUME NEW v \in Workers, Start(v) \/ BootCount(v) \/ Fetch(v)
        PROVE  cur'[w] = cur[w] /\ pc'[w] = pc[w]
    BY <1>1, <2>2 DEF Start, BootCount, Fetch, Goto, TypeOK
  <2>3. QED
    BY <1>4, <2>1, <2>2
    DEF Next, Worker, Refresher, RefreshRead, RefreshStore, Deliver, GroupRebalance,
        ExpireURL, ExpireFp, Age, runOnce, vars
<1>5. QED BY <1>2, <1>3, <1>4

(* Claims are never given up. *)
LEMMA ClaimStays ==
    ASSUME TypeOK, StageOK, [Next]_vars
    PROVE  /\ \A u : UrlClaimed(u) => UrlClaimed(u)'
           /\ \A f : FpClaimed(f) => FpClaimed(f)'
<1>1. /\ \A id \in Produced : URL(id)' = URL(id) /\ Page(id)' = Page(id)
      /\ \A f \in Fate : fates[f] \subseteq fates'[f]
      /\ \A f \in Fate : fates[f] \subseteq Produced
  BY Monotone DEF URL, Page, TypeOK
<1>2. /\ \A id : id \in Spent' <=>
            Page(id)' # Garbled /\ \E f \in Fate \ {"dupURL"} : id \in fates'[f]
      /\ \A id : id \in SpentContent' <=>
            Page(id)' \in Fps /\ \E f \in Fate \ {"dupURL", "dupContent"} : id \in fates'[f]
  BY DEF Spent, SpentContent
<1>3. \A w \in Workers : HoldsURL(w) => cur[w] \in Produced
  BY DEF HoldsURL, TypeOK
<1>4. ASSUME NEW u, UrlClaimed(u) PROVE UrlClaimed(u)'
  <2>1. CASE \E j \in Spent : URL(j) = u
    <3>1. PICK j \in Spent : URL(j) = u
      BY <2>1
    <3>2. j \in Spent' /\ URL(j)' = u
      BY <1>1, <1>2, <3>1, InSpent
    <3>3. QED BY <3>2 DEF UrlClaimed
  <2>2. CASE \E w \in Workers : HoldsURL(w) /\ URL(cur[w]) = u
    <3>1. PICK w \in Workers, j \in Produced :
            /\ HoldsURL(w) /\ cur[w] = j
            /\ URL(j) = u /\ Page(j) # Garbled
      BY <2>2, <1>3 DEF HoldsURL
    <3>2. URL(j)' = u /\ Page(j)' # Garbled
      BY <3>1, <1>1
    <3>3. CASE cur'[w] = j /\ pc'[w] \in {"content", "cap", "upsert", "dlq"}
      <4>1. HoldsURL(w)' /\ URL(cur[w])' = u
        BY <3>2, <3>3 DEF HoldsURL, URL, Page, MessageAt
      <4>2. QED BY <4>1 DEF UrlClaimed
    <3>4. CASE \E f \in Fate \ {"dupURL"} : j \in fates'[f]
      BY <3>2, <3>4, <1>2 DEF UrlClaimed
    <3>5. QED BY <3>1, <3>3, <3>4, HolderStep DEF HoldsURL
  <2>3. QED BY <1>4, <2>1, <2>2 DEF UrlClaimed
<1>5. ASSUME NEW f, FpClaimed(f) PROVE FpClaimed(f)'
  <2>1. CASE \E j \in SpentContent : Page(j) = f
    <3>1. PICK j \in SpentContent : Page(j) = f
      BY <2>1
    <3>2. j \in SpentContent' /\ Page(j)' = f
      BY <1>1, <1>2, <3>1, InSpent
    <3>3. QED BY <3>2 DEF FpClaimed
  <2>2. CASE \E w \in Workers : HoldsContent(w) /\ Page(cur[w]) = f
    <3>1. PICK w \in Workers, j \in Produced :
            /\ HoldsURL(w) /\ HoldsContent(w) /\ cur[w] = j
            /\ Page(j) = f /\ f \in Fps
      BY <2>2, <1>3, ProcessorAssumption DEF HoldsURL, HoldsContent
    <3>2. Page(j)' = f
      BY <3>1, <1>1
    <3>3. CASE cur'[w] = j /\ pc'[w] \in {"cap", "upsert", "dlq"}
      <4>1. HoldsContent(w)' /\ Page(cur[w])' = f
        BY <3>1, <3>2, <3>3 DEF HoldsContent, Page, MessageAt
      <4>2. QED BY <4>1 DEF FpClaimed
    <3>4. CASE \E g \in Fate \ {"dupURL", "dupContent"} : j \in fates'[g]
      BY <3>1, <3>2, <3>4, <1>2 DEF FpClaimed
    <3>5. QED BY <3>1, <3>3, <3>4, HolderStep DEF HoldsContent
  <2>3. QED BY <1>5, <2>1, <2>2 DEF FpClaimed
<1>6. QED BY <1>4, <1>5

LEMMA ClaimsInit == ASSUME Init PROVE ClaimsOK
BY DEF Init, ClaimsOK, KeysClaimed, UrlSkipJustified, ContentSkipJustified, Fate

(* Steps that set no key and skip no message. *)
LEMMA ClaimsQuiet ==
    ASSUME TypeOK, StageOK, ClaimsOK, [Next]_vars,
           urlKeys' \subseteq urlKeys, fpKeys' \subseteq fpKeys,
           fates'["dupURL"] = fates["dupURL"], fates'["dupContent"] = fates["dupContent"]
    PROVE  ClaimsOK'
<1>1. \A id \in fates["dupURL"] \cup fates["dupContent"] :
        URL(id)' = URL(id) /\ Page(id)' = Page(id)
  BY Monotone DEF URL, Page, TypeOK, Fate
<1>2. KeysClaimed'
  BY ClaimStays DEF ClaimsOK, KeysClaimed
<1>3. UrlSkipJustified' /\ ContentSkipJustified'
  BY <1>1, ClaimStays DEF ClaimsOK, UrlSkipJustified, ContentSkipJustified
<1>4. QED BY <1>2, <1>3 DEF ClaimsOK

LEMMA ClaimsStep ==
    ASSUME TypeOK, StageOK, ClaimsOK, [Next]_vars
    PROVE  ClaimsOK'
<1>1. \A id \in Produced : URL(id)' = URL(id) /\ Page(id)' = Page(id)
  BY Monotone DEF URL, Page
<1>2. /\ fates["dupURL"] \subseteq Produced /\ fates["dupContent"] \subseteq Produced
      /\ fates \in [Fate -> SUBSET Produced]
  BY DEF TypeOK, Fate
<1>3. ASSUME NEW w \in Workers, IsURLCrawled(w) PROVE ClaimsOK'
  <2>1. PICK j \in Produced : cur[w] = j /\ Page(j) # Garbled
    BY <1>3 DEF IsURLCrawled, TypeOK, StageOK
  <2>2. URL(j)' = URL(j) /\ Page(j)' = Page(j) /\ cur' = cur
    BY <1>1, <1>3 DEF IsURLCrawled, Goto
  <2>3. PICK r \in SetNX(URL(j), urlKeys) :
          /\ urlKeys' = r.keys
          /\ IF r.reply = "exists"
               THEN End(w, IF r.keys = urlKeys THEN "dupURL" ELSE "swallowed")
               ELSE /\ UNCHANGED fates
                    /\ \/ pc' = [pc EXCEPT ![w] = "dlq"]
                       \/ pc' = [pc EXCEPT ![w] = "content"]
    BY <1>3, <2>1 DEF IsURLCrawled, SeenURL, AfterURL, Goto
  <2>4. urlKeys' \subseteq urlKeys \cup {URL(j)}
    BY <2>3 DEF SetNX
  <2>5. URL(j) \in urlKeys \/ UrlClaimed(URL(j))'
    <3>1. SUFFICES ASSUME URL(j) \notin urlKeys PROVE UrlClaimed(URL(j))'
      OBVIOUS
    <3>2. CASE r.reply = "exists"
      <4>1. j \in fates'["swallowed"]
        BY <3>1, <3>2, <2>3, <2>1, EndHandles DEF Fate, SetNX
      <4>2. j \in Spent'
        BY <4>1, <2>1, <2>2 DEF Spent, Fate
      <4>3. QED BY <4>2, <2>2 DEF UrlClaimed
    <3>3. CASE r.reply # "exists"
      <4>1. pc'[w] \in {"dlq", "content"}
        BY <3>3, <2>3 DEF TypeOK
      <4>2. HoldsURL(w)' /\ URL(cur[w])' = URL(j)
        BY <4>1, <2>1, <2>2 DEF HoldsURL, URL, Page, MessageAt
      <4>3. QED BY <4>2, <2>2 DEF UrlClaimed
    <3>4. QED BY <3>2, <3>3
  <2>6. UrlClaimed(URL(j))'
    BY <2>5, <2>2, ClaimStays DEF ClaimsOK, KeysClaimed
  <2>7. fpKeys' = fpKeys
    BY <1>3 DEF IsURLCrawled
  <2>8. KeysClaimed'
    BY <2>4, <2>6, <2>7, <2>2, ClaimStays DEF ClaimsOK, KeysClaimed
  <2>9. fates'["dupURL"] \subseteq fates["dupURL"] \cup {j} /\ fates'["dupContent"] = fates["dupContent"]
    BY <2>1, <2>3, <1>2 DEF End, Fate
  <2>10. UrlSkipJustified'
    BY <1>1, <1>2, <2>2, <2>6, <2>9, ClaimStays DEF ClaimsOK, UrlSkipJustified
  <2>11. ContentSkipJustified'
    BY <1>1, <1>2, <2>9, ClaimStays DEF ClaimsOK, ContentSkipJustified
  <2>12. QED BY <2>8, <2>10, <2>11 DEF ClaimsOK
<1>4. ASSUME NEW w \in Workers, IsDuplicate(w) PROVE ClaimsOK'
  <2>1. PICK j \in Produced : cur[w] = j /\ Page(j) \in Fps
    BY <1>4 DEF IsDuplicate, TypeOK, StageOK
  <2>2. Page(j)' = Page(j) /\ cur' = cur
    BY <1>1, <1>4 DEF IsDuplicate, Goto
  <2>3. PICK r \in SetNX(Page(j), fpKeys) :
          /\ fpKeys' = r.keys
          /\ IF r.reply = "exists"
               THEN End(w, IF r.keys = fpKeys THEN "dupContent" ELSE "swallowed")
               ELSE UNCHANGED fates /\ pc' = [pc EXCEPT ![w] = "cap"]
    BY <1>4, <2>1 DEF IsDuplicate, SeenContent, Goto
  <2>4. fpKeys' \subseteq fpKeys \cup {Page(j)}
    BY <2>3 DEF SetNX
  <2>5. Page(j) \in fpKeys \/ FpClaimed(Page(j))'
    <3>1. SUFFICES ASSUME Page(j) \notin fpKeys PROVE FpClaimed(Page(j))'
      OBVIOUS
    <3>2. CASE r.reply = "exists"
      <4>1. j \in fates'["swallowed"]
        BY <3>1, <3>2, <2>3, <2>1, EndHandles DEF Fate, SetNX
      <4>2. j \in SpentContent'
        BY <4>1, <2>1, <2>2 DEF SpentContent, Fate
      <4>3. QED BY <4>2, <2>2 DEF FpClaimed
    <3>3. CASE r.reply # "exists"
      <4>1. pc'[w] = "cap"
        BY <3>3, <2>3 DEF TypeOK
      <4>2. HoldsContent(w)' /\ Page(cur[w])' = Page(j)
        BY <4>1, <2>1, <2>2 DEF HoldsContent, Page, MessageAt
      <4>3. QED BY <4>2, <2>2 DEF FpClaimed
    <3>4. QED BY <3>2, <3>3
  <2>6. FpClaimed(Page(j))'
    BY <2>5, <2>2, ClaimStays DEF ClaimsOK, KeysClaimed
  <2>7. urlKeys' = urlKeys
    BY <1>4 DEF IsDuplicate
  <2>8. KeysClaimed'
    BY <2>4, <2>6, <2>7, <2>2, ClaimStays DEF ClaimsOK, KeysClaimed
  <2>9. fates'["dupContent"] \subseteq fates["dupContent"] \cup {j} /\ fates'["dupURL"] = fates["dupURL"]
    BY <2>1, <2>3, <1>2 DEF End, Fate
  <2>10. ContentSkipJustified'
    BY <1>1, <1>2, <2>2, <2>6, <2>9, ClaimStays DEF ClaimsOK, ContentSkipJustified
  <2>11. UrlSkipJustified'
    BY <1>1, <1>2, <2>9, ClaimStays DEF ClaimsOK, UrlSkipJustified
  <2>12. QED BY <2>8, <2>10, <2>11 DEF ClaimsOK
<1>5. ASSUME NEW w \in Workers,
             CheckCap(w) \/ Upsert(w) \/ Bump(w) \/ Publish(w) \/ PublishToDLQ(w)
             \/ Commit(w) \/ Crash(w)
      PROVE  ClaimsOK'
  <2>1. UNCHANGED <<urlKeys, fpKeys>>
    BY <1>5 DEF CheckCap, Upsert, UpsertFailed, Bump, Publish, PublishToDLQ, Commit, Crash, redisVars
  <2>2. /\ fates'["dupURL"] = fates["dupURL"]
        /\ fates'["dupContent"] = fates["dupContent"]
    BY <1>2, <1>5 DEF CheckCap, Upsert, UpsertFailed, Bump, Publish, PublishToDLQ, Commit, Crash, End, Fate
  <2>3. QED BY <2>1, <2>2, ClaimsQuiet
<1>6. CASE ~ \E w \in Workers : Handler(w) \/ Crash(w)
  <2>1. urlKeys' \subseteq urlKeys /\ fpKeys' \subseteq fpKeys
    BY <1>6 DEF Next, Worker, Refresher, Start, BootCount, Fetch, RefreshRead,
       RefreshStore, Deliver, GroupRebalance, ExpireURL, ExpireFp, Age, runOnce,
       vars, redisVars
  <2>2. QED BY <1>6, <2>1, OtherEnds, ClaimsQuiet
<1>7. QED BY <1>3, <1>4, <1>5, <1>6 DEF Handler

(* In every reachable state each message dropped as a duplicate, by URL or *)
(* by content, is backed by a message that claimed the key: neither Redis  *)
(* errors nor expiring keys nor redelivery drop a message for nothing.     *)
THEOREM SkipsJustified == Spec => [](UrlSkipJustified /\ ContentSkipJustified)
<1>1. Init => TypeOK /\ StageOK /\ ClaimsOK
  BY TypeInit, ClaimsInit
<1>2. TypeOK /\ StageOK /\ ClaimsOK /\ [Next]_vars => (TypeOK /\ StageOK /\ ClaimsOK)'
  BY TypeStep, ClaimsStep
<1>3. ClaimsOK => UrlSkipJustified /\ ContentSkipJustified
  BY DEF ClaimsOK
<1>4. QED BY <1>1, <1>2, <1>3, PTL DEF Spec

-----------------------------------------------------------------------------
(* Mutual exclusion by SETNX.  Inductive once it is known that a worker    *)
(* about to store has its key in Redis.                                    *)

Storing == {"cap", "upsert"}

StoringHasKey == \A w \in Workers : pc[w] \in Storing => Page(cur[w]) \in fpKeys

StoringApart ==
    \A v, w \in Workers :
        v # w /\ pc[v] \in Storing /\ pc[w] \in Storing => Page(cur[v]) # Page(cur[w])

ExclusiveOK == "redisError" \notin Faults => StoringHasKey /\ StoringApart

(* A worker gets to store by IsDuplicate only. *)
LEMMA StoringStep ==
    ASSUME TypeOK, [Next]_vars, NEW w \in Workers, pc'[w] \in Storing
    PROVE  \/ pc[w] \in Storing /\ cur'[w] = cur[w]
           \/ IsDuplicate(w)
<1>1. ASSUME NEW v \in Workers, Handler(v)
      PROVE  (pc[w] \in Storing /\ cur'[w] = cur[w]) \/ IsDuplicate(w)
  BY <1>1 DEF Handler, IsURLCrawled, AfterURL, IsDuplicate, CheckCap, Upsert, UpsertFailed, Bump, Publish,
              PublishToDLQ, Commit, Goto, Storing, TypeOK
<1>2. ASSUME NEW v \in Workers, Start(v) \/ BootCount(v) \/ Fetch(v) \/ Crash(v)
      PROVE  pc[w] \in Storing /\ cur'[w] = cur[w]
  BY <1>2 DEF Start, BootCount, Fetch, Crash, Goto, Storing, TypeOK
<1>3. QED
  BY <1>1, <1>2
  DEF Next, Worker, Refresher, RefreshRead, RefreshStore, Deliver, GroupRebalance,
      ExpireURL, ExpireFp, Age, runOnce, vars

(* Without Redis errors IsDuplicate lets a worker pass only with a key     *)
(* that was free.                                                          *)
LEMMA PassTakesKey ==
    ASSUME TypeOK, "redisError" \notin Faults, NEW w \in Workers, IsDuplicate(w),
           pc'[w] \in Storing
    PROVE  Page(cur[w]) \notin fpKeys /\ fpKeys' = fpKeys \cup {Page(cur[w])}
<1>1. PICK r \in SetNX(Page(cur[w]), fpKeys) :
        /\ fpKeys' = r.keys
        /\ r.reply = "exists" => pc' = [pc EXCEPT ![w] = "commit"]
  BY DEF IsDuplicate, SeenContent, Goto
<1>2. r.reply # "exists"
  BY <1>1 DEF Storing, TypeOK
<1>3. QED BY <1>1, <1>2 DEF SetNX

LEMMA ExclusiveStep ==
    ASSUME TypeOK, StageOK, ExclusiveOK, [Next]_vars, "redisError" \notin Faults
    PROVE  StoringHasKey' /\ StoringApart'
<1>1. \A id \in Produced : Page(id)' = Page(id)
  BY Monotone DEF Page
<1>2. \A w \in Workers : pc[w] \in Storing \cup {"content"} => cur[w] \in Produced /\ Page(cur[w]) \in Fps
  BY DEF TypeOK, StageOK, Storing
<1>3. ASSUME NEW w \in Workers, IsDuplicate(w) PROVE StoringHasKey' /\ StoringApart'
  <2>1. cur' = cur /\ \A v \in Workers : v # w => pc'[v] = pc[v]
    BY <1>3 DEF IsDuplicate, Goto, TypeOK
  <2>2. fpKeys \subseteq fpKeys'
    BY <1>3 DEF IsDuplicate, SetNX
  <2>3. \A v \in Workers : pc[v] \in Storing \cup {"content"} => Page(cur[v])' = Page(cur[v])
    BY <1>1, <1>2, <2>1 DEF Page, MessageAt
  <2>4. pc[w] = "content"
    BY <1>3 DEF IsDuplicate
  <2>5. pc'[w] \in Storing =>
          Page(cur[w]) \notin fpKeys /\ fpKeys' = fpKeys \cup {Page(cur[w])}
    BY <1>3, PassTakesKey
  <2>6. StoringHasKey'
    BY <2>1, <2>2, <2>3, <2>4, <2>5 DEF ExclusiveOK, StoringHasKey
  <2>7. StoringApart'
    BY <2>1, <2>3, <2>4, <2>5 DEF ExclusiveOK, StoringHasKey, StoringApart
  <2>8. QED BY <2>6, <2>7
<1>4. CASE ~ \E w \in Workers : IsDuplicate(w)
  <2>1. \A w \in Workers : pc'[w] \in Storing =>
          pc[w] \in Storing /\ cur'[w] = cur[w] /\ Page(cur[w])' = Page(cur[w])
    <3>1. SUFFICES ASSUME NEW w \in Workers, pc'[w] \in Storing
                   PROVE  pc[w] \in Storing /\ cur'[w] = cur[w] /\ Page(cur[w])' = Page(cur[w])
      OBVIOUS
    <3>2. pc[w] \in Storing /\ cur'[w] = cur[w]
      BY <1>4, <3>1, StoringStep
    <3>3. PICK j \in Produced : j = cur[w]
      BY <1>2, <3>2
    <3>4. Page(j)' = Page(j)
      BY <1>1
    <3>5. QED BY <3>2, <3>3, <3>4 DEF Page, MessageAt
  <2>2. StoringApart'
    BY <2>1 DEF ExclusiveOK, StoringApart
  <2>3. \A w \in Workers : pc[w] \in Storing => HoldsContent(w)
    BY <1>2 DEF HoldsContent, Storing
  <2>4. \A w \in Workers : pc[w] \in Storing => Page(cur[w]) \in fpKeys'
    <3>1. CASE \E f \in Fps : ExpireFp(f)
      BY <3>1, <2>3 DEF ExpireFp, ExclusiveOK, StoringHasKey
    <3>2. CASE ~ \E f \in Fps : ExpireFp(f)
      <4>1. fpKeys' = fpKeys
        BY <1>4, <3>2
        DEF Next, Worker, Handler, Refresher, Start, BootCount, Fetch, IsURLCrawled,
            CheckCap, Upsert, UpsertFailed, Bump, Publish, PublishToDLQ, Commit, RefreshRead,
            RefreshStore, Crash, Deliver, GroupRebalance, ExpireURL, Age, runOnce,
            vars, redisVars
      <4>2. QED BY <4>1 DEF ExclusiveOK, StoringHasKey
    <3>3. QED BY <3>1, <3>2
  <2>5. StoringHasKey'
    BY <2>1, <2>4 DEF StoringHasKey
  <2>6. QED BY <2>2, <2>5
<1>5. QED BY <1>3, <1>4

(* While Redis answers, no two workers are ever about to store the same    *)
(* posting, whatever is redelivered, replayed or listed under two URLs.    *)
THEOREM UpsertsExclusive == Spec => []ExclusiveUpsert
<1>1. Init => TypeOK /\ StageOK /\ ExclusiveOK
  BY TypeInit DEF Init, ExclusiveOK, StoringHasKey, StoringApart, Storing
<1>2. TypeOK /\ StageOK /\ ExclusiveOK /\ [Next]_vars => (TypeOK /\ StageOK /\ ExclusiveOK)'
  BY TypeStep, ExclusiveStep DEF ExclusiveOK
<1>3. ExclusiveOK => ExclusiveUpsert
  BY DEF ExclusiveOK, ExclusiveUpsert, StoringApart, Storing
<1>4. QED BY <1>1, <1>2, <1>3, PTL DEF Spec

-----------------------------------------------------------------------------
(* Nothing is lost in a benign instance: the ends that lose a posting are  *)
(* not met, so the message that backs a skip was saved, went to the DLQ or *)
(* is still in hand.                                                       *)

NothingLost == \A f \in {"capped", "lost", "swallowed", "cut"} : fates[f] = {}

LEMMA NothingLostStep ==
    ASSUME Benign, TypeOK, NothingLost, [Next]_vars
    PROVE  NothingLost'
<1>1. fates \in [Fate -> SUBSET Produced]
  BY DEF TypeOK
<1>2. ASSUME NEW w \in Workers, IsURLCrawled(w) PROVE NothingLost'
  <2>1. \A r \in SetNX(URL(cur[w]), urlKeys) : r.reply = "exists" => r.keys = urlKeys
    BY DEF SetNX, Benign
  <2>2. UNCHANGED fates \/ End(w, "dupURL")
    BY <1>2, <2>1 DEF IsURLCrawled, SeenURL
  <2>3. QED BY <1>1, <2>2 DEF NothingLost, End, Fate
<1>3. ASSUME NEW w \in Workers, IsDuplicate(w) PROVE NothingLost'
  <2>1. \A r \in SetNX(Page(cur[w]), fpKeys) : r.reply = "exists" => r.keys = fpKeys
    BY DEF SetNX, Benign
  <2>2. UNCHANGED fates \/ End(w, "dupContent")
    BY <1>3, <2>1 DEF IsDuplicate, SeenContent
  <2>3. QED BY <1>1, <2>2 DEF NothingLost, End, Fate
<1>4. ASSUME NEW w \in Workers,
             CheckCap(w) \/ Upsert(w) \/ Bump(w) \/ Publish(w) \/ PublishToDLQ(w)
             \/ Commit(w) \/ Crash(w)
      PROVE  NothingLost'
  <2>1. UNCHANGED fates \/ End(w, "saved") \/ End(w, "dlq")
    BY <1>4 DEF CheckCap, atCap, Upsert, UpsertFailed, Bump, Publish, PublishToDLQ, Commit, Crash, Benign
  <2>2. QED BY <1>1, <2>1 DEF NothingLost, End, Fate
<1>5. CASE ~ \E w \in Workers : Handler(w) \/ Crash(w)
  BY <1>5, OtherEnds DEF NothingLost
<1>6. QED BY <1>2, <1>3, <1>4, <1>5 DEF Handler

LEMMA ClaimedKept ==
    ASSUME TypeOK, ClaimsOK, NothingLost, NEW id \in Produced, id \in Handled
    PROVE  Kept(id)
<1>1. /\ \A w \in Workers : HoldsURL(w) => cur[w] \in Produced
      /\ \A w \in Workers : HoldsContent(w) => HoldsURL(w)
      /\ \A f \in Fate : fates[f] \subseteq Produced
  BY ProcessorAssumption DEF HoldsURL, HoldsContent, TypeOK
<1>2. \A j \in fates["saved"] \cup fates["dlq"] : URL(j) = URL(id) => Kept(id)
  BY <1>1 DEF Kept, SamePosting, Fate
<1>3. ASSUME NEW j \in fates["dupContent"], URL(j) = URL(id) PROVE Kept(id)
  <2>1. FpClaimed(Page(j))
    BY <1>3 DEF ClaimsOK, ContentSkipJustified
  <2>2. j \in Produced
    BY <1>1, <1>3 DEF Fate
  <2>3. ASSUME NEW k \in SpentContent, Page(k) = Page(j) PROVE Kept(id)
    <3>1. k \in fates["saved"] \cup fates["dlq"] /\ Page(k) \in Fps
      BY InSpent DEF NothingLost, SpentContent, Fate
    <3>2. QED BY <1>3, <2>2, <2>3, <3>1 DEF Kept, SamePosting
  <2>4. ASSUME NEW w \in Workers, HoldsContent(w), Page(cur[w]) = Page(j) PROVE Kept(id)
    BY <1>1, <1>3, <2>2, <2>4 DEF Kept, SamePosting, HoldsContent
  <2>5. QED BY <2>1, <2>3, <2>4 DEF FpClaimed
<1>4. CASE id \in fates["dupURL"]
  <2>1. UrlClaimed(URL(id))
    BY <1>4 DEF ClaimsOK, UrlSkipJustified
  <2>2. ASSUME NEW j \in Spent, URL(j) = URL(id) PROVE Kept(id)
    <3>1. j \in fates["saved"] \cup fates["dlq"] \cup fates["dupContent"]
      BY InSpent DEF NothingLost, Fate
    <3>2. QED BY <1>2, <1>3, <2>2, <3>1
  <2>3. ASSUME NEW w \in Workers, HoldsURL(w), URL(cur[w]) = URL(id) PROVE Kept(id)
    BY <1>1, <2>3 DEF Kept, SamePosting
  <2>4. QED BY <2>1, <2>2, <2>3 DEF UrlClaimed
<1>5. id \in fates["dupURL"] \cup fates["dupContent"] \cup fates["saved"] \cup fates["dlq"]
  BY InHandled DEF NothingLost, Fate
<1>6. QED BY <1>2, <1>3, <1>4, <1>5

(* As long as no process stops in mid-message, the DLQ accepts messages,   *)
(* no SETNX reply is lost and no cap is set, an offset is committed only   *)
(* over postings that are saved, in the DLQ, or in a worker's hands.       *)
THEOREM BenignKeeps == ASSUME Benign PROVE Spec => []CommittedKept
<1> DEFINE I == TypeOK /\ StageOK /\ OffsetsOK /\ ClaimsOK /\ NothingLost
<1>1. Init => I
  BY TypeInit, OffsetsInit, ClaimsInit DEF Init, NothingLost, Fate
<1>2. I /\ [Next]_vars => I'
  BY TypeStep, OffsetsStep, ClaimsStep, NothingLostStep
<1>3. I => CommittedKept
  <2>1. SUFFICES ASSUME I, NEW p \in Partitions, NEW i \in 1 .. committed[p]
                 PROVE  Kept(<<p, i>>)
    BY DEF CommittedKept
  <2>2. <<p, i>> \in Handled
    BY <2>1 DEF OffsetsOK, CommittedHandled
  <2>3. <<p, i>> \in Produced
    BY <2>1, <2>2, InHandled DEF TypeOK
  <2>4. QED BY <2>1, <2>2, <2>3, ClaimedKept
<1>4. QED BY <1>1, <1>2, <1>3, PTL DEF Spec

-----------------------------------------------------------------------------
(* Rows.  Only the janitor takes a saved posting out of the table.         *)

JanitorOff == ~(CleanupEnabled /\ CleanupRetentionDays > 0)

SavedStored == \A id \in fates["saved"] : Page(id) \in Stored

(* Without the janitor no step empties a row. *)
LEMMA RowsStay ==
    ASSUME JanitorOff, TypeOK, StageOK, [Next]_vars
    PROVE  Stored \subseteq Stored'
<1>1. ASSUME NEW w \in Workers, Upsert(w) PROVE Stored \subseteq Stored'
  <2>1. Page(cur[w]) \in Fps
    BY <1>1 DEF Upsert, StageOK
  <2>2. Write(Page(cur[w])) \/ UNCHANGED rows
    BY <1>1 DEF Upsert
  <2>3. QED BY <2>1, <2>2 DEF Write, Stored, TypeOK
<1>2. ASSUME ~ \E w \in Workers : Upsert(w) PROVE UNCHANGED rows
  BY <1>2 DEF JanitorOff, Next, Worker, Handler, Refresher, vars, Start, BootCount,
     Fetch, IsURLCrawled, IsDuplicate, CheckCap, Bump, Publish, PublishToDLQ, Commit,
     RefreshRead, RefreshStore, Crash, Deliver, GroupRebalance, ExpireURL, ExpireFp,
     Age, runOnce
<1>3. QED BY <1>1, <1>2 DEF Stored

LEMMA SavedStoredStep ==
    ASSUME JanitorOff, TypeOK, StageOK, SavedStored, [Next]_vars
    PROVE  SavedStored'
<1>1. /\ \A id \in Produced : Page(id)' = Page(id)
      /\ fates["saved"] \subseteq Produced
  BY Monotone DEF Page, TypeOK, Fate
<1>2. CASE fates'["saved"] = fates["saved"]
  BY <1>1, <1>2, RowsStay DEF SavedStored
<1>3. ASSUME NEW w \in Workers, Upsert(w), fates'["saved"] # fates["saved"]
      PROVE  SavedStored'
  <2>1. Write(Page(cur[w])) /\ End(w, "saved") /\ Page(cur[w]) \in Fps /\ cur[w] \in Produced
    BY <1>3 DEF Upsert, UpsertFailed, StageOK, TypeOK
  <2>2. Page(cur[w]) \in Stored'
    BY <2>1 DEF Write, Stored, TypeOK
  <2>3. fates'["saved"] = fates["saved"] \cup {cur[w]}
    BY <2>1 DEF End, TypeOK, Fate
  <2>4. ASSUME NEW id \in fates["saved"] \cup {cur[w]} PROVE Page(id)' \in Stored'
    BY <1>1, <2>1, <2>2, RowsStay DEF SavedStored
  <2>5. QED BY <2>3, <2>4 DEF SavedStored
<1>4. ASSUME ~ \E w \in Workers : Upsert(w) PROVE fates'["saved"] = fates["saved"]
  <2>1. ASSUME NEW w \in Workers, Worker(w) \/ Crash(w) PROVE fates'["saved"] = fates["saved"]
    <3>1. \/ UNCHANGED fates
          \/ \E f \in Fate \ {"saved"} : End(w, f)
      BY <1>4, <2>1 DEF Worker, Handler, Start, BootCount, Fetch, IsURLCrawled, IsDuplicate,
         CheckCap, Bump, Publish, PublishToDLQ, Commit, Crash, Fate
    <3>2. QED BY <3>1 DEF End, TypeOK, Fate
  <2>2. QED BY <2>1, OtherEnds DEF Worker
<1>5. QED BY <1>2, <1>3, <1>4

(* A message counted as saved has its row for good, unless a janitor runs: *)
(* later updates, failed statements and redeliveries never empty a row.    *)
THEOREM SavedStays == ASSUME JanitorOff PROVE Spec => []SavedStored
<1>1. Init => TypeOK /\ StageOK /\ SavedStored
  BY TypeInit DEF Init, SavedStored, Fate
<1>2. TypeOK /\ StageOK /\ SavedStored /\ [Next]_vars => (TypeOK /\ StageOK /\ SavedStored)'
  BY TypeStep, SavedStoredStep
<1>3. QED BY <1>1, <1>2, PTL DEF Spec

-----------------------------------------------------------------------------
(* The counter behind the cap.  CounterCoversRows is inductive together    *)
(* with the same fact about a refresh that has read and not yet stored.    *)

SnapCoversRows ==
    \A w \in Workers : snap[w] # None => Cardinality(Stored \ since[w]) <= snap[w]

CountsCover ==
    \A w \in Workers : Cardinality(Stored \ unseen[w]) <= jobCount[w]

CounterOK == MaxTotalJobs > 0 => CountsCover /\ SnapCoversRows

(* Rows left over after taking some away: finite, and no more than before. *)
LEMMA RowsLeft ==
    ASSUME NEW S, NEW T, S \subseteq T, T \subseteq Fps
    PROVE  /\ IsFiniteSet(S) /\ IsFiniteSet(T)
           /\ Cardinality(S) \in Nat /\ Cardinality(T) \in Nat
           /\ Cardinality(S) <= Cardinality(T)
<1>1. IsFiniteSet(T)
  BY ProcessorAssumption, FS_Subset
<1>2. QED BY <1>1, FS_Subset, FS_CardinalityType

LEMMA RowsAdd ==
    ASSUME NEW S, S \subseteq Fps, NEW f \in Fps, NEW T, T \subseteq S \cup {f}
    PROVE  Cardinality(T) <= Cardinality(S) + 1 /\ Cardinality(T) \in Nat /\ Cardinality(S) \in Nat
<1>1. IsFiniteSet(S) /\ IsFiniteSet(S \cup {f}) /\ S \cup {f} \subseteq Fps
  BY ProcessorAssumption, FS_Subset
<1>2. Cardinality(S \cup {f}) = IF f \in S THEN Cardinality(S) ELSE Cardinality(S) + 1
  BY <1>1, FS_AddElement
<1>3. Cardinality(T) <= Cardinality(S \cup {f}) /\ Cardinality(T) \in Nat
  BY <1>1, RowsLeft
<1>4. Cardinality(S) \in Nat
  BY <1>1, FS_CardinalityType
<1>5. QED BY <1>2, <1>3, <1>4

(* Rows come and go while the counters of w stand still: what w does not   *)
(* count grows at least as fast as the table.                              *)
LEMMA CounterQuiet ==
    ASSUME TypeOK, TypeOK', CounterOK, MaxTotalJobs > 0,
           UNCHANGED <<jobCount, snap>>,
           \A w \in Workers : Stored' \ unseen'[w] \subseteq Stored \ unseen[w],
           \A w \in Workers : Stored' \ since'[w] \subseteq Stored \ since[w]
    PROVE  CountsCover' /\ SnapCoversRows'
<1>1. Stored \subseteq Fps
  BY DEF Stored
<1>2. ASSUME NEW w \in Workers
      PROVE  Cardinality(Stored' \ unseen'[w]) <= jobCount'[w]
  <2>1. /\ Cardinality(Stored' \ unseen'[w]) <= Cardinality(Stored \ unseen[w])
        /\ Cardinality(Stored' \ unseen'[w]) \in Nat
        /\ Cardinality(Stored \ unseen[w]) \in Nat
    BY <1>1, RowsLeft
  <2>2. Cardinality(Stored \ unseen[w]) <= jobCount[w] /\ jobCount[w] \in Nat
    BY DEF CounterOK, CountsCover, TypeOK
  <2>3. QED BY <2>1, <2>2
<1>3. ASSUME NEW w \in Workers, snap[w] # None
      PROVE  Cardinality(Stored' \ since'[w]) <= snap'[w]
  <2>1. /\ Cardinality(Stored' \ since'[w]) <= Cardinality(Stored \ since[w])
        /\ Cardinality(Stored' \ since'[w]) \in Nat
        /\ Cardinality(Stored \ since[w]) \in Nat
    BY <1>1, RowsLeft
  <2>2. Cardinality(Stored \ since[w]) <= snap[w] /\ snap[w] \in Nat
    BY <1>3 DEF CounterOK, SnapCoversRows, TypeOK
  <2>3. QED BY <2>1, <2>2
<1>4. QED BY <1>2, <1>3 DEF CountsCover, SnapCoversRows

LEMMA CounterStep ==
    ASSUME TypeOK, TypeOK', StageOK, CounterOK, [Next]_vars, MaxTotalJobs > 0
    PROVE  CountsCover' /\ SnapCoversRows'
<1>1. Stored \subseteq Fps /\ Cardinality({}) = 0
  BY FS_EmptySet DEF Stored
<1>2. ASSUME NEW w \in Workers, Start(w) PROVE CountsCover' /\ SnapCoversRows'
  <2>1. /\ Stored' = Stored /\ since' = since /\ snap' = snap
        /\ jobCount' = [jobCount EXCEPT ![w] = 0]
        /\ unseen' = [unseen EXCEPT ![w] = Stored]
    BY <1>2 DEF Start, Stored
  <2>2. Cardinality(Stored \ Stored) <= 0
    <3>1. Stored \ Stored = {}
      OBVIOUS
    <3>2. QED BY <1>1, <3>1
  <2>3. CountsCover'
    BY <2>1, <2>2 DEF CounterOK, CountsCover, TypeOK
  <2>4. SnapCoversRows'
    BY <2>1 DEF CounterOK, SnapCoversRows
  <2>5. QED BY <2>3, <2>4
<1>3. ASSUME NEW w \in Workers, BootCount(w) PROVE CountsCover' /\ SnapCoversRows'
  <2>1. Stored' = Stored /\ since' = since /\ snap' = snap /\ Stored \ {} = Stored
    BY <1>3 DEF BootCount, Stored
  <2>2. \/ /\ jobCount' = [jobCount EXCEPT ![w] = Cardinality(Stored)]
           /\ unseen' = [unseen EXCEPT ![w] = {}]
        \/ UNCHANGED <<jobCount, unseen>>
    BY <1>3 DEF BootCount
  <2>3. Cardinality(Stored \ {}) <= Cardinality(Stored)
    BY <2>1, StoredFinite
  <2>4. CountsCover'
    BY <2>1, <2>2, <2>3 DEF CounterOK, CountsCover, TypeOK
  <2>5. SnapCoversRows'
    BY <2>1 DEF CounterOK, SnapCoversRows
  <2>6. QED BY <2>4, <2>5
<1>4. ASSUME NEW w \in Workers, RefreshRead(w) PROVE CountsCover' /\ SnapCoversRows'
  <2>1. /\ Stored' = Stored /\ unseen' = unseen /\ jobCount' = jobCount
        /\ snap' = [snap EXCEPT ![w] = Cardinality(Stored)]
        /\ since' = [since EXCEPT ![w] = {}]
        /\ Stored \ {} = Stored
    BY <1>4 DEF RefreshRead, Stored
  <2>2. Cardinality(Stored \ {}) <= Cardinality(Stored)
    BY <2>1, StoredFinite
  <2>3. CountsCover'
    BY <2>1 DEF CounterOK, CountsCover
  <2>4. SnapCoversRows'
    BY <2>1, <2>2 DEF CounterOK, SnapCoversRows, TypeOK
  <2>5. QED BY <2>3, <2>4
<1>5. ASSUME NEW w \in Workers, RefreshStore(w) PROVE CountsCover' /\ SnapCoversRows'
  <2>1. /\ Stored' = Stored /\ snap[w] # None
        /\ jobCount' = [jobCount EXCEPT ![w] = snap[w]]
        /\ unseen' = [unseen EXCEPT ![w] = since[w]]
        /\ snap' = [snap EXCEPT ![w] = None]
        /\ since' = [since EXCEPT ![w] = {}]
    BY <1>5 DEF RefreshStore, Stored
  <2>2. QED BY <2>1 DEF CounterOK, CountsCover, SnapCoversRows, TypeOK
<1>6. ASSUME NEW w \in Workers, Crash(w) PROVE CountsCover' /\ SnapCoversRows'
  <2>1. /\ Stored' = Stored /\ unseen' = unseen /\ jobCount' = jobCount
        /\ snap' = [snap EXCEPT ![w] = None]
        /\ since' = [since EXCEPT ![w] = {}]
    BY <1>6 DEF Crash, Stored
  <2>2. QED BY <2>1 DEF CounterOK, CountsCover, SnapCoversRows, TypeOK
<1>7. ASSUME NEW w \in Workers, Bump(w) PROVE CountsCover' /\ SnapCoversRows'
  <2> DEFINE f == Page(cur[w])
  <2>1. f \in Fps
    BY <1>7 DEF Bump, StageOK
  <2>2. /\ Stored' = Stored /\ snap' = snap /\ since' = since
        /\ jobCount' = [jobCount EXCEPT ![w] = @ + 1]
        /\ unseen' = [unseen EXCEPT ![w] = @ \ {f}]
    BY <1>7 DEF Bump, Stored
  <2> HIDE DEF f
  <2>3. Stored \ (unseen[w] \ {f}) \subseteq (Stored \ unseen[w]) \cup {f}
    OBVIOUS
  <2>4. Stored \ unseen[w] \subseteq Fps
    BY <1>1
  <2>5. /\ Cardinality(Stored \ (unseen[w] \ {f})) <= Cardinality(Stored \ unseen[w]) + 1
        /\ Cardinality(Stored \ (unseen[w] \ {f})) \in Nat
        /\ Cardinality(Stored \ unseen[w]) \in Nat
    BY <2>1, <2>3, <2>4, RowsAdd
  <2>6. Cardinality(Stored \ unseen[w]) <= jobCount[w] /\ jobCount[w] \in Nat
    BY DEF CounterOK, CountsCover, TypeOK
  <2>7. Cardinality(Stored \ (unseen[w] \ {f})) <= jobCount[w] + 1
    BY <2>5, <2>6
  <2>8. QED BY <2>2, <2>7 DEF CounterOK, CountsCover, SnapCoversRows, TypeOK
<1>8. ASSUME NEW w \in Workers, Upsert(w) PROVE CountsCover' /\ SnapCoversRows'
  <2> DEFINE f == Page(cur[w])
  <2>1. f \in Fps /\ UNCHANGED <<jobCount, snap>>
    BY <1>8 DEF Upsert, UpsertFailed, StageOK
  <2>2. CASE UNCHANGED <<rows, unseen, since>>
    <3>1. Stored' = Stored
      BY <2>2 DEF Stored
    <3>2. QED BY <2>1, <2>2, <3>1, CounterQuiet
  <2>3. CASE Write(f)
    <3>1. /\ rows' = [rows EXCEPT ![f] = IF @ = "absent" THEN "fresh" ELSE @]
          /\ IF rows[f] = "absent"
               THEN /\ unseen' = [v \in Workers |-> unseen[v] \cup {f}]
                    /\ since' = [v \in Workers |-> since[v] \cup {f}]
               ELSE UNCHANGED <<unseen, since>>
      BY <2>3 DEF Write
    <3> HIDE DEF f
    <3>2. Stored' = IF rows[f] = "absent" THEN Stored \cup {f} ELSE Stored
      BY <2>1, <3>1 DEF Stored, TypeOK
    <3>3. /\ \A v \in Workers : Stored' \ unseen'[v] \subseteq Stored \ unseen[v]
          /\ \A v \in Workers : Stored' \ since'[v] \subseteq Stored \ since[v]
      BY <3>1, <3>2
    <3>4. QED BY <2>1, <3>3, CounterQuiet
  <2>4. QED BY <1>8, <2>2, <2>3 DEF Upsert, UpsertFailed
<1>9. CASE runOnce
  <2>1. UNCHANGED <<jobCount, snap, unseen, since>>
    BY <1>9 DEF runOnce, countVars
  <2>2. Stored' \subseteq Stored
    BY <1>9 DEF runOnce, Stored
  <2>3. QED BY <2>1, <2>2, CounterQuiet
<1>10. ASSUME NEW f \in Fps, Age(f) PROVE CountsCover' /\ SnapCoversRows'
  <2>1. UNCHANGED <<jobCount, snap, unseen, since>>
    BY <1>10 DEF Age, countVars
  <2>2. Stored' = Stored
    BY <1>10 DEF Age, Stored, TypeOK
  <2>3. QED BY <2>1, <2>2, CounterQuiet
<1>11. CASE UNCHANGED <<rows, countVars>>
  <2>1. Stored' = Stored /\ UNCHANGED <<jobCount, snap, unseen, since>>
    BY <1>11 DEF Stored, countVars
  <2>2. QED BY <2>1, CounterQuiet
<1>12. QED
  BY <1>2, <1>3, <1>4, <1>5, <1>6, <1>7, <1>8, <1>9, <1>10, <1>11
  DEF Next, Worker, Handler, Refresher, Fetch, IsURLCrawled, IsDuplicate, CheckCap,
      Publish, PublishToDLQ, Commit, Deliver, GroupRebalance, ExpireURL, ExpireFp, vars

(* For any cap, any number of processes and any interleaving with their    *)
(* refreshers and the janitor, the counter never misses a row that was     *)
(* neither inserted by another process, nor during a refresh, nor by an    *)
(* Upsert that reported an error.                                          *)
THEOREM CounterCovers == Spec => []CounterCoversRows
<1>1. Init => TypeOK /\ StageOK /\ CounterOK
  <2>1. SUFFICES ASSUME Init PROVE CounterOK
    BY TypeInit
  <2>2. Stored = {}
    BY <2>1 DEF Init, Stored
  <2>3. Cardinality(Stored \ {}) <= 0
    <3>1. Stored \ {} = {} /\ Cardinality({}) = 0
      BY <2>2, FS_EmptySet
    <3>2. QED BY <3>1
  <2>4. CountsCover
    BY <2>1, <2>3 DEF Init, CountsCover
  <2>5. SnapCoversRows
    BY <2>1 DEF Init, SnapCoversRows
  <2>6. QED BY <2>4, <2>5 DEF CounterOK
<1>2. TypeOK /\ StageOK /\ CounterOK /\ [Next]_vars => (TypeOK /\ StageOK /\ CounterOK)'
  BY TypeStep, CounterStep DEF CounterOK
<1>3. CounterOK => CounterCoversRows
  BY DEF CounterOK, CounterCoversRows, CountsCover
<1>4. QED BY <1>1, <1>2, <1>3, PTL DEF Spec

-----------------------------------------------------------------------------
(* How far the cap can be overrun.                                         *)

(* How soft the cap is. Every process has its own counter, checks it       *)
(* before the insert and counts after it, and its refresher may store a    *)
(* count from before its own inserts; so the table may outgrow the cap,    *)
(* but by no more than every process filling it twice, once before and     *)
(* once after such a count is stored (worker.go: "soft, self-healing").    *)
(* Not when the count at start-up fails, which starts a process from zero, *)
(* or when an Upsert takes effect and reports an error, which is not       *)
(* counted.                                                                *)
CapOverrunBounded ==
    MaxTotalJobs > 0 /\ Faults \cap {"countError", "upsertError"} = {} =>
        Cardinality(Stored) <= 2 * Cardinality(Workers) * MaxTotalJobs

(* The slots behind the bound. Every process is given two per row of the   *)
(* cap, 1 .. MaxTotalJobs for the inserts its counter still allows and as  *)
(* many above for those a refresh under way will allow once it is stored.  *)
(* A slot is open while it stands for an insert that may still come; the   *)
(* rows in the table and the open slots together never exceed the slots    *)
(* there are.                                                              *)
SlotIds == Workers \X (1 .. (2 * MaxTotalJobs))

(* Between CheckCap and Upsert the slot numbered 1 is the insert that has  *)
(* been let through; between Upsert and Bump it is used, and the counter   *)
(* is one behind.                                                          *)
Open(w, i) ==
    \/ /\ i <= MaxTotalJobs
       /\ pc[w] \notin {"down", "boot", "upsert", "bump"}
       /\ i > jobCount[w]
    \/ /\ i <= MaxTotalJobs
       /\ pc[w] \in {"upsert", "bump"}
       /\ i >= jobCount[w] + 2
    \/ i = 1 /\ pc[w] = "upsert"
    \/ i > MaxTotalJobs /\ snap[w] # None /\ i > MaxTotalJobs + snap[w]

Slots == {s \in SlotIds : Open(s[1], s[2])}

Limit == 2 * Cardinality(Workers) * MaxTotalJobs

RoomLeft == Cardinality(Stored) + Cardinality(Slots) <= Limit

(* No refresher runs before the count at start-up, or in a stopped process. *)
CapOK ==
    /\ RoomLeft
    /\ \A w \in Workers : pc[w] \in {"down", "boot"} => snap[w] = None

LEMMA SlotsFinite ==
    /\ IsFiniteSet(SlotIds) /\ Cardinality(SlotIds) = Limit /\ Limit \in Nat
    /\ \A T \in SUBSET SlotIds :
          IsFiniteSet(T) /\ Cardinality(T) \in Nat /\ Cardinality(T) <= Limit
<1> DEFINE I == 1 .. (2 * MaxTotalJobs)
<1>1. MaxTotalJobs \in Nat /\ IsFiniteSet(Workers)
  BY ProcessorAssumption
<1>2. 2 * MaxTotalJobs \in Nat
  BY <1>1
<1>3. IsFiniteSet(I) /\ Cardinality(I) = 2 * MaxTotalJobs
  BY <1>2, FS_Interval
<1>4. Cardinality(Workers) \in Nat
  BY <1>1, FS_CardinalityType
<1>5. IsFiniteSet(Workers \X I) /\ Cardinality(Workers \X I) = Cardinality(Workers) * Cardinality(I)
  BY <1>1, <1>3, FS_Product
<1>6. Cardinality(Workers) * (2 * MaxTotalJobs) = Limit /\ Limit \in Nat
  BY <1>1, <1>4 DEF Limit
<1>7. IsFiniteSet(SlotIds) /\ Cardinality(SlotIds) = Limit
  BY <1>3, <1>5, <1>6 DEF SlotIds
<1>8. ASSUME NEW T \in SUBSET SlotIds
      PROVE  IsFiniteSet(T) /\ Cardinality(T) \in Nat /\ Cardinality(T) <= Limit
  BY <1>7, FS_Subset, FS_CardinalityType
<1>9. QED BY <1>6, <1>7, <1>8

(* A set of slots that maps one to one into another is no larger. *)
LEMMA NoMoreSlots ==
    ASSUME NEW S \in SUBSET SlotIds, NEW T \in SUBSET SlotIds,
           NEW f \in [S -> T], \A a, b \in S : f[a] = f[b] => a = b
    PROVE  Cardinality(S) <= Cardinality(T)
<1>1. f \in Injection(S, T)
  BY DEF Injection, IsInjective
<1>2. QED BY <1>1, SlotsFinite, FS_Injection

(* A count of r rows leaves the slots of one process above r, which takes  *)
(* r of them, numbered from k, out of all the slots.                       *)
LEMMA CountedOut ==
    ASSUME NEW w \in Workers, NEW r \in 0 .. MaxTotalJobs, NEW k \in {0, MaxTotalJobs},
           NEW T \in SUBSET SlotIds, \A i \in 1 .. r : <<w, k + i>> \notin T
    PROVE  r + Cardinality(T) <= Limit
<1> DEFINE D == {w} \X ((k + 1) .. (k + r))
<1>1. MaxTotalJobs \in Nat /\ r \in Nat /\ k \in Nat
  BY ProcessorAssumption
<1>2. D \subseteq SlotIds
  BY <1>1 DEF SlotIds
<1>3. IsFiniteSet((k + 1) .. (k + r)) /\ Cardinality((k + 1) .. (k + r)) = r
  BY <1>1, FS_Interval
<1>4. IsFiniteSet({w}) /\ Cardinality({w}) = 1
  BY FS_Singleton
<1>5. Cardinality(D) = r
  <2> DEFINE J == (k + 1) .. (k + r)
  <2>1. IsFiniteSet(J) /\ Cardinality(J) = r
    BY <1>3
  <2> HIDE DEF J
  <2>2. Cardinality({w} \X J) = Cardinality({w}) * Cardinality(J)
    BY <1>4, <2>1, FS_Product
  <2>3. Cardinality({w} \X J) = r
    BY <1>1, <1>4, <2>1, <2>2
  <2>4. QED BY <2>3 DEF J
<1>6. T \subseteq SlotIds \ D
  <2>1. SUFFICES ASSUME NEW j \in (k + 1) .. (k + r), <<w, j>> \in T PROVE FALSE
    BY DEF SlotIds
  <2>2. j - k \in 1 .. r /\ k + (j - k) = j
    BY <1>1
  <2>3. QED BY <2>1, <2>2
<1> HIDE DEF D
<1>7. IsFiniteSet(SlotIds \ D) /\ Cardinality(SlotIds \ D) = Limit - r
  <2>1. SlotIds \cap D = D
    BY <1>2
  <2>2. QED BY <1>5, <2>1, SlotsFinite, FS_Difference
<1>8. Cardinality(T) <= Limit - r
  BY <1>6, <1>7, FS_Subset
<1>9. QED BY <1>1, <1>8, SlotsFinite

LEMMA SlotType ==
    ASSUME NEW s \in SlotIds
    PROVE  /\ s[1] \in Workers /\ s[2] \in 1 .. (2 * MaxTotalJobs) /\ s[2] \in Nat
           /\ s = <<s[1], s[2]>>
<1>1. s \in Workers \X (1 .. (2 * MaxTotalJobs)) /\ MaxTotalJobs \in Nat
  BY ProcessorAssumption DEF SlotIds
<1>2. QED BY <1>1

(* The slots of a process change only with its own place and counters. *)
LEMMA SlotsOfOthers ==
    ASSUME NEW w \in Workers,
           \A v \in Workers \ {w} :
              pc'[v] = pc[v] /\ jobCount'[v] = jobCount[v] /\ snap'[v] = snap[v]
    PROVE  \A s \in SlotIds : s[1] # w => (s \in Slots <=> s \in Slots')
<1>1. SUFFICES ASSUME NEW s \in SlotIds, s[1] # w PROVE s \in Slots <=> s \in Slots'
  OBVIOUS
<1>2. /\ s[1] \in Workers
      /\ s \in Slots <=> Open(s[1], s[2])
      /\ s \in Slots' <=> Open(s[1], s[2])'
  BY SlotType DEF Slots, SlotIds
<1>3. /\ pc'[s[1]] = pc[s[1]] /\ jobCount'[s[1]] = jobCount[s[1]]
      /\ snap'[s[1]] = snap[s[1]]
  BY <1>1, <1>2
<1>4. QED BY <1>2, <1>3 DEF Open

(* A process closes slots or leaves them as they are. *)
LEMMA SlotsClose ==
    ASSUME NEW w \in Workers,
           \A v \in Workers \ {w} :
              pc'[v] = pc[v] /\ jobCount'[v] = jobCount[v] /\ snap'[v] = snap[v],
           \A i \in 1 .. (2 * MaxTotalJobs) : Open(w, i)' => Open(w, i)
    PROVE  Slots' \subseteq Slots
<1>1. SUFFICES ASSUME NEW s \in Slots' PROVE s \in Slots
  OBVIOUS
<1>2. s \in SlotIds /\ Open(s[1], s[2])'
  BY DEF Slots, SlotIds
<1>3. s[1] \in Workers /\ s[2] \in 1 .. (2 * MaxTotalJobs)
  BY <1>2, SlotType
<1>4. CASE s[1] # w
  BY <1>2, <1>4, SlotsOfOthers
<1>5. CASE s[1] = w
  BY <1>2, <1>3, <1>5 DEF Slots
<1>6. QED BY <1>4, <1>5

(* Neither the rows nor the open slots grow. *)
LEMMA CapKept ==
    ASSUME CapOK, Stored' \subseteq Stored, Cardinality(Slots') <= Cardinality(Slots)
    PROVE  RoomLeft'
<1>1. /\ Cardinality(Stored') <= Cardinality(Stored)
      /\ Cardinality(Stored') \in Nat /\ Cardinality(Stored) \in Nat
  BY RowsLeft DEF Stored
<1>2. Cardinality(Slots) \in Nat /\ Cardinality(Slots') \in Nat /\ Limit \in Nat
  BY SlotsFinite DEF Slots, SlotIds
<1>3. Cardinality(Stored) + Cardinality(Slots) <= Limit
  BY DEF CapOK, RoomLeft
<1>4. QED BY <1>1, <1>2, <1>3 DEF RoomLeft, Limit

LEMMA CapClosed ==
    ASSUME CapOK, Stored' \subseteq Stored, Slots' \subseteq Slots
    PROVE  RoomLeft'
<1>1. IsFiniteSet(Slots)
  BY SlotsFinite DEF Slots
<1>2. Cardinality(Slots') <= Cardinality(Slots)
  BY <1>1, FS_Subset
<1>3. QED BY <1>2, CapKept

(* The rows have been counted: either there are at least as many as the    *)
(* cap, and the count opens no slot, or it leaves those above it open.     *)
LEMMA CapCounted ==
    ASSUME TypeOK, CapOK, Stored' = Stored, NEW w \in Workers, NEW k \in {0, MaxTotalJobs},
           \A v \in Workers \ {w} :
              pc'[v] = pc[v] /\ jobCount'[v] = jobCount[v] /\ snap'[v] = snap[v],
           \A i \in 1 .. (2 * MaxTotalJobs) :
              Open(w, i)' <=> Open(w, i) \/ (i > k + Cardinality(Stored) /\ i <= k + MaxTotalJobs),
           \A i \in 1 .. MaxTotalJobs : ~Open(w, k + i)
    PROVE  RoomLeft'
<1> DEFINE r == Cardinality(Stored)
<1>1. r \in Nat /\ MaxTotalJobs \in Nat
  BY StoredFinite, ProcessorAssumption
<1>2. CASE r >= MaxTotalJobs
  <2>1. \A i \in 1 .. (2 * MaxTotalJobs) : Open(w, i)' => Open(w, i)
    BY <1>1, <1>2
  <2>2. Slots' \subseteq Slots
    BY <2>1, SlotsClose
  <2>3. QED BY <2>2, CapClosed
<1>3. CASE r < MaxTotalJobs
  <2>1. ASSUME NEW i \in 1 .. r PROVE <<w, k + i>> \notin Slots'
    <3>1. i \in 1 .. MaxTotalJobs /\ k + i \in 1 .. (2 * MaxTotalJobs) /\ ~(k + i > k + r)
      BY <1>1, <1>3
    <3>2. ~Open(w, k + i)'
      BY <3>1
    <3>3. QED BY <3>2 DEF Slots
  <2>2. Slots' \subseteq SlotIds /\ r \in 0 .. MaxTotalJobs
    BY <1>1, <1>3 DEF Slots, SlotIds
  <2> HIDE DEF r
  <2>3. r + Cardinality(Slots') <= Limit
    BY <2>1, <2>2, CountedOut
  <2>4. QED BY <2>3 DEF r, RoomLeft, Limit
<1>4. QED BY <1>1, <1>2, <1>3

(* CheckCap lets an insert through: slot 1 is kept for it in place of the  *)
(* first one its counter leaves.                                           *)
LEMMA CapLetThrough ==
    ASSUME TypeOK, CapOK, Stored' = Stored, NEW w \in Workers,
           pc[w] = "cap", jobCount[w] < MaxTotalJobs,
           pc' = [pc EXCEPT ![w] = "upsert"], UNCHANGED <<jobCount, snap>>
    PROVE  RoomLeft'
<1> DEFINE c == jobCount[w]
           f == [s \in Slots' |-> IF s = <<w, 1>> THEN <<w, c + 1>> ELSE s]
<1>1. c \in Nat /\ MaxTotalJobs \in Nat /\ pc'[w] = "upsert"
  BY ProcessorAssumption DEF TypeOK
<1>2. \A v \in Workers \ {w} :
         pc'[v] = pc[v] /\ jobCount'[v] = jobCount[v] /\ snap'[v] = snap[v]
  BY DEF TypeOK
<1>3. <<w, c + 1>> \in Slots
  <2>1. c + 1 \in 1 .. (2 * MaxTotalJobs) /\ c + 1 <= MaxTotalJobs /\ c + 1 > c
    BY <1>1
  <2>2. Open(w, c + 1)
    BY <2>1 DEF Open
  <2>3. QED BY <2>1, <2>2 DEF Slots, SlotIds
<1>4. ASSUME NEW s \in Slots', s # <<w, 1>>
      PROVE  s \in Slots /\ s # <<w, c + 1>>
  <2>1. s \in SlotIds /\ Open(s[1], s[2])'
    BY DEF Slots, SlotIds
  <2>2. s[1] \in Workers /\ s[2] \in 1 .. (2 * MaxTotalJobs) /\ s[2] \in Nat /\ s = <<s[1], s[2]>>
    BY <2>1, SlotType
  <2>3. CASE s[1] # w
    BY <1>2, <2>1, <2>2, <2>3, SlotsOfOthers
  <2>4. CASE s[1] = w
    <3>1. s[2] # 1
      BY <1>4, <2>2, <2>4
    <3>2. \/ s[2] <= MaxTotalJobs /\ s[2] >= c + 2
          \/ s[2] > MaxTotalJobs /\ snap[w] # None /\ s[2] > MaxTotalJobs + snap[w]
      BY <1>1, <2>1, <2>4, <3>1 DEF Open
    <3>3. Open(w, s[2]) /\ s[2] # c + 1
      BY <1>1, <2>2, <3>2 DEF Open
    <3>4. QED BY <2>1, <2>2, <2>4, <3>3 DEF Slots
  <2>5. QED BY <2>3, <2>4
<1>5. f \in [Slots' -> Slots] /\ \A a, b \in Slots' : f[a] = f[b] => a = b
  BY <1>3, <1>4
<1>6. Slots \subseteq SlotIds /\ Slots' \subseteq SlotIds
  BY DEF Slots, SlotIds
<1> HIDE DEF f
<1>7. Cardinality(Slots') <= Cardinality(Slots)
  BY <1>5, <1>6, NoMoreSlots
<1>8. QED BY <1>7, CapKept

(* A refresh is stored: the slots it kept open become those of the counter. *)
LEMMA CapRefreshed ==
    ASSUME TypeOK, CapOK, NEW w \in Workers, RefreshStore(w)
    PROVE  RoomLeft'
<1> DEFINE C == MaxTotalJobs
           Stays(s) == s[1] # w \/ (s[2] = 1 /\ pc[w] = "upsert")
           f == [s \in Slots' |-> IF Stays(s) THEN s ELSE <<w, C + s[2]>>]
<1>1. /\ snap[w] \in Nat /\ C \in Nat /\ pc' = pc /\ Stored' = Stored
      /\ jobCount'[w] = snap[w] /\ snap'[w] = None /\ pc[w] \notin {"down", "boot"}
  BY ProcessorAssumption DEF TypeOK, CapOK, RefreshStore, Stored
<1>2. \A v \in Workers \ {w} :
         pc'[v] = pc[v] /\ jobCount'[v] = jobCount[v] /\ snap'[v] = snap[v]
  BY DEF RefreshStore, TypeOK
<1>3. ASSUME NEW s \in Slots', Stays(s) PROVE s \in Slots /\ ~(s[1] = w /\ s[2] > C)
  <2>1. s \in SlotIds /\ Open(s[1], s[2])'
    BY DEF Slots, SlotIds
  <2>2. s[1] \in Workers /\ s[2] \in 1 .. (2 * C) /\ s[2] \in Nat /\ s = <<s[1], s[2]>>
    BY <2>1, SlotType
  <2>3. CASE s[1] # w
    BY <1>2, <2>1, <2>2, <2>3, SlotsOfOthers
  <2>4. CASE s[1] = w /\ s[2] = 1 /\ pc[w] = "upsert"
    <3>1. Open(w, 1)
      BY <2>4 DEF Open
    <3>2. QED BY <1>1, <2>1, <2>2, <2>4, <3>1 DEF Slots
  <2>5. QED BY <1>3, <2>3, <2>4
<1>4. ASSUME NEW s \in Slots', ~Stays(s)
      PROVE  /\ s[1] = w /\ s[2] \in 1 .. C /\ s = <<w, s[2]>>
             /\ <<w, C + s[2]>> \in Slots
  <2>1. s \in SlotIds /\ Open(s[1], s[2])'
    BY DEF Slots, SlotIds
  <2>2. s[1] \in Workers /\ s[2] \in 1 .. (2 * C) /\ s[2] \in Nat /\ s = <<s[1], s[2]>>
    BY <2>1, SlotType
  <2>3. s[1] = w /\ s[2] <= C /\ s[2] > snap[w]
    BY <1>1, <1>4, <2>1, <2>2 DEF Open
  <2>4. C + s[2] \in 1 .. (2 * C) /\ C + s[2] > C /\ C + s[2] > C + snap[w]
    BY <1>1, <2>2, <2>3
  <2>5. Open(w, C + s[2])
    BY <2>4 DEF Open, RefreshStore
  <2>6. QED BY <1>1, <2>2, <2>3, <2>4, <2>5 DEF Slots, SlotIds
<1>5. f \in [Slots' -> Slots]
  BY <1>3, <1>4
<1>6. ASSUME NEW a \in Slots', NEW b \in Slots', f[a] = f[b] PROVE a = b
  <2>1. CASE Stays(a) /\ Stays(b)
    BY <1>6, <2>1
  <2>2. CASE ~Stays(a) /\ ~Stays(b)
    <3>1. C + a[2] = C + b[2] /\ a[2] \in Nat /\ b[2] \in Nat
      BY <1>1, <1>4, <1>6, <2>2
    <3>2. a[2] = b[2]
      BY <1>1, <3>1
    <3>3. a = <<w, a[2]>> /\ b = <<w, b[2]>>
      BY <1>4, <2>2
    <3>4. QED BY <3>2, <3>3
  <2>3. ASSUME NEW x \in Slots', NEW y \in Slots', Stays(x), ~Stays(y), x = <<w, C + y[2]>>
        PROVE  FALSE
    <3>1. x[1] = w /\ x[2] = C + y[2] /\ y[2] \in 1 .. C
      BY <1>4, <2>3
    <3>2. QED BY <1>1, <1>3, <2>3, <3>1
  <2>4. QED BY <1>6, <2>1, <2>2, <2>3
<1>7. Slots \subseteq SlotIds /\ Slots' \subseteq SlotIds
  BY DEF Slots, SlotIds
<1> HIDE DEF f
<1>8. Cardinality(Slots') <= Cardinality(Slots)
  BY <1>5, <1>6, <1>7, NoMoreSlots
<1>9. QED BY <1>1, <1>8, CapKept

(* A step of the process that stores a posting. *)
LEMMA CapUpsert ==
    ASSUME TypeOK, StageOK, CapOK, NEW w \in Workers, Upsert(w),
           MaxTotalJobs > 0, "upsertError" \notin Faults
    PROVE  RoomLeft'
<1> DEFINE g == Page(cur[w])
<1>1. /\ pc[w] = "upsert" /\ pc' = [pc EXCEPT ![w] = "bump"] /\ pc'[w] = "bump"
      /\ UNCHANGED <<jobCount, snap>> /\ g \in Fps
      /\ rows' = [rows EXCEPT ![g] = IF @ = "absent" THEN "fresh" ELSE @]
  BY DEF Upsert, Write, Goto, TypeOK, StageOK
<1>2. \A v \in Workers \ {w} :
         pc'[v] = pc[v] /\ jobCount'[v] = jobCount[v] /\ snap'[v] = snap[v]
  BY <1>1 DEF TypeOK
<1>3. MaxTotalJobs \in Nat /\ jobCount[w] \in Nat
  BY ProcessorAssumption DEF TypeOK
<1>4. Slots' \subseteq Slots
  <2>1. \A i \in 1 .. (2 * MaxTotalJobs) : Open(w, i)' => Open(w, i)
    BY <1>1, <1>3 DEF Open
  <2>2. QED BY <1>2, <2>1, SlotsClose
<1>5. <<w, 1>> \in Slots /\ <<w, 1>> \notin Slots'
  <2>1. Open(w, 1) /\ 1 \in 1 .. (2 * MaxTotalJobs)
    BY <1>1, <1>3 DEF Open
  <2>2. ~(1 >= jobCount[w] + 2) /\ ~(1 > MaxTotalJobs)
    BY <1>3
  <2>3. ~Open(w, 1)'
    BY <1>1, <2>2 DEF Open
  <2>4. QED BY <2>1, <2>3 DEF Slots, SlotIds
<1>6. Cardinality(Slots') <= Cardinality(Slots) - 1
  <2>1. IsFiniteSet(Slots) /\ Cardinality(Slots) \in Nat
    BY SlotsFinite DEF Slots
  <2>2. IsFiniteSet(Slots \ {<<w, 1>>}) /\ Cardinality(Slots \ {<<w, 1>>}) = Cardinality(Slots) - 1
    BY <1>5, <2>1, FS_RemoveElement
  <2>3. Slots' \subseteq Slots \ {<<w, 1>>}
    BY <1>4, <1>5
  <2>4. Cardinality(Slots') <= Cardinality(Slots \ {<<w, 1>>})
    BY <2>2, <2>3, FS_Subset
  <2>5. QED BY <2>2, <2>4
<1>7. /\ Cardinality(Stored') <= Cardinality(Stored) + 1
      /\ Cardinality(Stored') \in Nat /\ Cardinality(Stored) \in Nat
  <2>1. Stored' \subseteq Stored \cup {g} /\ Stored \subseteq Fps
    BY <1>1 DEF Stored, TypeOK
  <2>2. QED BY <1>1, <2>1, RowsAdd
<1>8. Cardinality(Slots) \in Nat /\ Cardinality(Slots') \in Nat /\ Limit \in Nat
  BY SlotsFinite DEF Slots, SlotIds
<1>9. Cardinality(Stored) + Cardinality(Slots) <= Limit
  BY DEF CapOK, RoomLeft
<1>10. QED BY <1>6, <1>7, <1>8, <1>9 DEF RoomLeft, Limit

LEMMA CapStep ==
    ASSUME TypeOK, TypeOK', StageOK, CapOK, [Next]_vars, MaxTotalJobs > 0,
           Faults \cap {"countError", "upsertError"} = {}
    PROVE  CapOK'
<1>1. MaxTotalJobs \in Nat
  BY ProcessorAssumption
<1>2. \A w \in Workers : pc'[w] \in {"down", "boot"} => snap'[w] = None
  <2>1. CASE \E w \in Workers : RefreshRead(w) \/ RefreshStore(w) \/ Crash(w)
    BY <2>1 DEF RefreshRead, RefreshStore, Crash, CapOK, TypeOK
  <2>2. ASSUME NEW w \in Workers, Worker(w) PROVE snap' = snap
    BY <2>2 DEF Worker, Handler, countVars, Start, BootCount, Fetch, IsURLCrawled,
       IsDuplicate, CheckCap, Upsert, UpsertFailed, Bump, Publish, PublishToDLQ, Commit
  <2>3. ASSUME NEW w \in Workers, Worker(w)
        PROVE  \E l : /\ pc' = [pc EXCEPT ![w] = l]
                      /\ l \in {"down", "boot"} => pc[w] \in {"down", "boot"}
    <3>1. CASE Start(w) \/ BootCount(w)
      BY <3>1 DEF Start, BootCount, Goto
    <3>2. CASE IsURLCrawled(w) \/ IsDuplicate(w) \/ CheckCap(w)
      BY <3>2 DEF IsURLCrawled, AfterURL, IsDuplicate, CheckCap, Goto
    <3>3. CASE Upsert(w) \/ Bump(w) \/ Publish(w) \/ PublishToDLQ(w) \/ Commit(w)
      BY <3>3 DEF Upsert, UpsertFailed, Bump, Publish, PublishToDLQ, Commit, Goto
    <3>4. CASE Fetch(w)
      <4>1. pc' = [pc EXCEPT ![w] = "dlq"] \/ pc' = [pc EXCEPT ![w] = "url"]
        BY <3>4 DEF Fetch
      <4>2. QED BY <4>1
    <3>5. QED BY <2>3, <3>1, <3>2, <3>3, <3>4 DEF Worker, Handler
  <2>4. CASE \E w \in Workers : Worker(w)
    BY <2>2, <2>3, <2>4 DEF CapOK, TypeOK
  <2>5. CASE UNCHANGED <<pc, snap>>
    BY <2>5 DEF CapOK
  <2>6. QED
    BY <2>1, <2>4, <2>5 DEF Next, Refresher, vars, countVars, Deliver, GroupRebalance,
       ExpireURL, ExpireFp, Age, runOnce
<1>3. ASSUME NEW w \in Workers, NEW l, Stored' = Stored,
             pc[w] \notin {"upsert", "bump"}, l \notin {"upsert", "bump"},
             pc[w] \in {"down", "boot"} => l \in {"down", "boot"},
             pc' = [pc EXCEPT ![w] = l], UNCHANGED <<jobCount, snap>>
      PROVE  RoomLeft'
  <2>1. pc'[w] = l /\ \A v \in Workers \ {w} : pc'[v] = pc[v]
    BY <1>3 DEF TypeOK
  <2>2. \A i \in 1 .. (2 * MaxTotalJobs) : Open(w, i)' => Open(w, i)
    BY <1>3, <2>1 DEF Open
  <2>3. Slots' \subseteq Slots
    BY <1>3, <2>1, <2>2, SlotsClose
  <2>4. QED BY <1>1, <1>3, <2>3, CapClosed
<1>4. ASSUME NEW w \in Workers, Start(w) PROVE RoomLeft'
  <2>1. /\ pc[w] = "down" /\ pc' = [pc EXCEPT ![w] = "boot"] /\ Stored' = Stored
        /\ jobCount' = [jobCount EXCEPT ![w] = 0] /\ snap' = snap
    BY <1>4 DEF Start, Goto, Stored
  <2>2. \A i \in 1 .. (2 * MaxTotalJobs) : Open(w, i)' => Open(w, i)
    BY <2>1 DEF Open, TypeOK
  <2>3. Slots' \subseteq Slots
    BY <2>1, <2>2, SlotsClose DEF TypeOK
  <2>4. QED BY <1>1, <2>1, <2>3, CapClosed
<1>5. ASSUME NEW w \in Workers, BootCount(w) PROVE RoomLeft'
  <2>1. /\ pc[w] = "boot" /\ pc' = [pc EXCEPT ![w] = "idle"] /\ Stored' = Stored
        /\ jobCount' = [jobCount EXCEPT ![w] = Cardinality(Stored)] /\ snap' = snap
        /\ snap[w] = None
    BY <1>5 DEF BootCount, Goto, Stored, CapOK
  <2>2. Cardinality(Stored) \in Nat
    BY StoredFinite
  <2>3. /\ pc'[w] = "idle" /\ jobCount'[w] = Cardinality(Stored) /\ snap'[w] = None
        /\ \A v \in Workers \ {w} :
              pc'[v] = pc[v] /\ jobCount'[v] = jobCount[v] /\ snap'[v] = snap[v]
    BY <2>1 DEF TypeOK
  <2>4. \A i \in 1 .. (2 * MaxTotalJobs) :
           Open(w, i)' <=> i > Cardinality(Stored) /\ i <= MaxTotalJobs
    BY <2>3 DEF Open
  <2>5. \A i \in 1 .. (2 * MaxTotalJobs) : ~Open(w, i)
    BY <2>1 DEF Open
  <2>6. /\ 0 + Cardinality(Stored) = Cardinality(Stored) /\ 0 + MaxTotalJobs = MaxTotalJobs
        /\ \A i \in 1 .. MaxTotalJobs : 0 + i \in 1 .. (2 * MaxTotalJobs)
    BY <1>1, <2>2
  <2>7. QED BY <1>1, <2>1, <2>3, <2>4, <2>5, <2>6, CapCounted
<1>6. ASSUME NEW w \in Workers, RefreshRead(w) PROVE RoomLeft'
  <2>1. /\ pc' = pc /\ jobCount' = jobCount /\ Stored' = Stored /\ snap[w] = None
        /\ snap' = [snap EXCEPT ![w] = Cardinality(Stored)]
    BY <1>6 DEF RefreshRead, Stored
  <2>2. Cardinality(Stored) \in Nat
    BY StoredFinite
  <2>3. /\ snap'[w] = Cardinality(Stored) /\ snap'[w] # None
        /\ \A v \in Workers \ {w} :
              pc'[v] = pc[v] /\ jobCount'[v] = jobCount[v] /\ snap'[v] = snap[v]
    BY <2>1, <2>2, GroupAssumption DEF TypeOK
  <2>4. \A i \in 1 .. (2 * MaxTotalJobs) :
           /\ i <= MaxTotalJobs + MaxTotalJobs
           /\ i > MaxTotalJobs + Cardinality(Stored) => i > MaxTotalJobs
    BY <1>1, <2>2
  <2>5. \A i \in 1 .. (2 * MaxTotalJobs) :
           Open(w, i)' <=> Open(w, i) \/ (i > MaxTotalJobs + Cardinality(Stored)
                                           /\ i <= MaxTotalJobs + MaxTotalJobs)
    BY <2>1, <2>3, <2>4 DEF Open
  <2>6. \A i \in 1 .. MaxTotalJobs : ~(MaxTotalJobs + i <= MaxTotalJobs) /\ MaxTotalJobs + i # 1
    BY <1>1
  <2>7. \A i \in 1 .. MaxTotalJobs : ~Open(w, MaxTotalJobs + i)
    BY <2>1, <2>6 DEF Open
  <2>8. QED BY <1>1, <2>1, <2>3, <2>5, <2>7, CapCounted
<1>7. ASSUME NEW w \in Workers, RefreshStore(w) PROVE RoomLeft'
  BY <1>1, <1>7, CapRefreshed
<1>8. ASSUME NEW w \in Workers, Crash(w) PROVE RoomLeft'
  <2>1. /\ pc' = [pc EXCEPT ![w] = "down"] /\ Stored' = Stored /\ jobCount' = jobCount
        /\ snap' = [snap EXCEPT ![w] = None]
    BY <1>8 DEF Crash, Stored
  <2>2. \A i \in 1 .. (2 * MaxTotalJobs) : Open(w, i)' => Open(w, i)
    BY <2>1 DEF Open, TypeOK
  <2>3. Slots' \subseteq Slots
    BY <2>1, <2>2, SlotsClose DEF TypeOK
  <2>4. QED BY <1>1, <2>1, <2>3, CapClosed
<1>9. ASSUME NEW w \in Workers, CheckCap(w) PROVE RoomLeft'
  <2>1. pc[w] = "cap" /\ Stored' = Stored /\ UNCHANGED <<jobCount, snap>>
    BY <1>9 DEF CheckCap, Stored, countVars
  <2>2. CASE atCap(w)
    <3>1. pc' = [pc EXCEPT ![w] = "commit"]
      BY <1>9, <2>2 DEF CheckCap, Goto
    <3>2. QED BY <1>3, <2>1, <3>1
  <2>3. CASE ~atCap(w)
    <3>1. pc' = [pc EXCEPT ![w] = "upsert"]
      BY <1>9, <2>3 DEF CheckCap, Goto
    <3>2. jobCount[w] < MaxTotalJobs
      BY <1>1, <2>3 DEF atCap, TypeOK
    <3>3. QED BY <1>1, <2>1, <3>1, <3>2, CapLetThrough
  <2>4. QED BY <2>2, <2>3
<1>10. ASSUME NEW w \in Workers, Upsert(w) PROVE RoomLeft'
  BY <1>1, <1>10, CapUpsert
<1>11. ASSUME NEW w \in Workers, Bump(w) PROVE RoomLeft'
  <2>1. /\ pc[w] = "bump" /\ pc' = [pc EXCEPT ![w] = "publish"] /\ Stored' = Stored
        /\ jobCount' = [jobCount EXCEPT ![w] = @ + 1] /\ snap' = snap
    BY <1>11 DEF Bump, Goto, Stored
  <2>2. /\ pc'[w] = "publish" /\ jobCount'[w] = jobCount[w] + 1 /\ jobCount[w] \in Nat
        /\ \A v \in Workers \ {w} :
              pc'[v] = pc[v] /\ jobCount'[v] = jobCount[v] /\ snap'[v] = snap[v]
    BY <2>1 DEF TypeOK
  <2>3. \A i \in 1 .. (2 * MaxTotalJobs) : i > jobCount[w] + 1 => i >= jobCount[w] + 2
    BY <1>1, <2>2
  <2>4. \A i \in 1 .. (2 * MaxTotalJobs) : Open(w, i)' => Open(w, i)
    BY <2>1, <2>2, <2>3 DEF Open
  <2>5. Slots' \subseteq Slots
    BY <2>2, <2>4, SlotsClose
  <2>6. QED BY <1>1, <2>1, <2>5, CapClosed
<1>12. ASSUME NEW w \in Workers,
              \/ IsURLCrawled(w) \/ IsDuplicate(w) \/ Publish(w) \/ PublishToDLQ(w)
              \/ Commit(w) \/ Fetch(w)
       PROVE  RoomLeft'
  <2>1. /\ Stored' = Stored /\ UNCHANGED <<jobCount, snap>>
        /\ pc[w] \in {"idle", "url", "content", "publish", "dlq", "commit"}
    BY <1>12 DEF IsURLCrawled, IsDuplicate, Publish, PublishToDLQ, Commit, Fetch, Stored,
       countVars
  <2>2. \E l \in {"idle", "url", "content", "cap", "dlq", "commit"} : pc' = [pc EXCEPT ![w] = l]
    BY <1>12 DEF IsURLCrawled, AfterURL, IsDuplicate, Publish, PublishToDLQ, Commit, Fetch, Goto
  <2>3. QED BY <1>3, <2>1, <2>2
<1>13. ASSUME \/ UNCHANGED vars \/ Deliver \/ GroupRebalance \/ runOnce
              \/ \E u \in URLs : ExpireURL(u)
              \/ \E f \in Fps : ExpireFp(f) \/ Age(f)
       PROVE  RoomLeft'
  <2>1. UNCHANGED <<pc, jobCount, snap>> /\ Stored' \subseteq Stored
    BY <1>13 DEF vars, countVars, Deliver, GroupRebalance, runOnce, ExpireURL, ExpireFp, Age,
       Stored, TypeOK
  <2>2. Slots' \subseteq Slots
    BY <2>1 DEF Slots, Open, SlotIds
  <2>3. QED BY <2>1, <2>2, CapClosed
<1>14. ASSUME NEW w \in Workers, Worker(w) \/ Refresher(w) \/ Crash(w) PROVE RoomLeft'
  BY <1>4, <1>5, <1>6, <1>7, <1>8, <1>9, <1>10, <1>11, <1>12, <1>14
  DEF Worker, Handler, Refresher
<1>15. RoomLeft'
  BY <1>13, <1>14 DEF Next
<1>16. QED BY <1>2, <1>15 DEF CapOK

(* For any cap and any number of processes, in any interleaving of their   *)
(* handlers, refreshers, crashes and restarts and the janitor, the table   *)
(* holds at most twice the cap per process, as long as the count at        *)
(* start-up does not fail and no Upsert takes effect and reports an error. *)
THEOREM CapOverrun == Spec => []CapOverrunBounded
<1> DEFINE Tame == MaxTotalJobs > 0 /\ Faults \cap {"countError", "upsertError"} = {}
           I == TypeOK /\ StageOK /\ (Tame => CapOK)
<1>1. Init => I
  <2>1. SUFFICES ASSUME Init PROVE CapOK
    BY TypeInit
  <2>2. Stored = {} /\ Slots = {}
    BY <2>1, SlotType DEF Init, Stored, Slots, Open
  <2>3. QED BY <2>1, <2>2, FS_EmptySet, SlotsFinite DEF CapOK, RoomLeft, Init
<1>2. I /\ [Next]_vars => I'
  BY TypeStep, CapStep
<1>3. I => CapOverrunBounded
  <2>1. SUFFICES ASSUME CapOK PROVE Cardinality(Stored) <= Limit
    BY DEF CapOverrunBounded, Limit
  <2>2. Cardinality(Stored) \in Nat /\ Cardinality(Slots) \in Nat /\ Limit \in Nat
    BY StoredFinite, SlotsFinite DEF Slots
  <2>3. QED BY <2>1, <2>2 DEF CapOK, RoomLeft
<1>4. QED BY <1>1, <1>2, <1>3, PTL DEF Spec

=============================================================================
