--------------------------- MODULE PipelineProofs ---------------------------
(***************************************************************************)
(* Proofs about Pipeline, for any crawlers, processors, partitions,        *)
(* sources, pages and any combination of failures.  The two halves are     *)
(* shown to be Crawler and Processor themselves, so that what is proved of *)
(* each alone holds of the pipeline; the theorems at the end join them     *)
(* over jobs.raw.                                                          *)
(***************************************************************************)
EXTENDS Pipeline, CrawlerProofs

(* The processors' half with the facts proved about it. *)
PP == INSTANCE ProcessorProofs WITH
        Workers <- Processors, Partitions <- RawPartitions, MaxLen <- RawMaxLen,
        Messages <- {RawMessage(u) : u \in URLs},
        MaxTotalJobs <- 0, CleanupEnabled <- FALSE, CleanupRetentionDays <- 0,
        Faults <- ProcFaults, MaxCrashes <- 0,
        log <- rawLog, committed <- rawCommitted, position <- rawPosition,
        owner <- rawOwner, rejoin <- rawRejoin,
        pc <- ppc, cur <- pcur, crashes <- pcrashes, fates <- pfates

(* What Processor assumes of its constants holds of those Pipeline gives   *)
(* it.                                                                     *)
LEMMA RawAssumptions ==
    /\ PP!IsFiniteSet(Processors)
    /\ PP!IsFiniteSet(Fps)
    /\ Garbled \notin Fps
    /\ Unparsable \notin Fps
    /\ {RawMessage(u) : u \in URLs} \subseteq [url : URLs, page : Fps \cup {Garbled, Unparsable}]
    /\ 0 \in Nat
    /\ ProcFaults \subseteq PP!Failure
    /\ RawMaxLen \in Nat
    /\ None \notin Processors
    /\ None \notin Nat
    /\ None \notin RawPartitions \X Nat
<1>1. PP!IsFiniteSet(Processors) /\ PP!IsFiniteSet(Fps)
  BY PipelineAssumption DEF PP!IsFiniteSet, IsFiniteSet
<1>2. {RawMessage(u) : u \in URLs} \subseteq [url : URLs, page : Fps \cup {Garbled, Unparsable}]
  BY PipelineAssumption DEF RawMessage
<1>3. ProcFaults \subseteq PP!Failure
  BY PipelineAssumption DEF PP!Failure, P!Failure
<1>4. QED BY <1>1, <1>2, <1>3, PipelineAssumption, GroupAssumption

-----------------------------------------------------------------------------
(* The halves.                                                             *)

(* Every step of the pipeline is one of the crawlers' half or leaves it    *)
(* alone.                                                                  *)
LEMMA CrawlHalf == ASSUME [PipeNext]_pipeVars PROVE [Next]_vars
<1> USE DEF vars, crawlVars, groupVars, schedVars, workerVars
<1>1. ASSUME NEW b \in Binaries, ProvisionAny(b) PROVE UNCHANGED vars
  BY <1>1 DEF ProvisionAny
<1>2. ASSUME NEW s \in Sources, Enqueue(s) PROVE Next
  BY <1>2 DEF Enqueue, Next
<1>3. ASSUME NEW w \in Workers, CrawlerStep(w) \/ CrawlerCrash(w) PROVE Next
  <2>1. Worker(w) \/ Crash(w)
    BY <1>3 DEF CrawlerStep, CrawlerCrash, PublishPage, Worker, Handler
  <2>2. QED BY <2>1 DEF Next
<1>4. ASSUME NEW w \in Processors, ProcessorStep(w) PROVE UNCHANGED vars
  BY <1>4 DEF ProcessorStep
<1>5. CASE RebalanceCrawlers
  BY <1>5 DEF RebalanceCrawlers, Next
<1>6. CASE RebalanceProcessors
  BY <1>6 DEF RebalanceProcessors
<1>7. CASE UNCHANGED pipeVars
  BY <1>7 DEF pipeVars
<1>8. QED BY <1>1, <1>2, <1>3, <1>4, <1>5, <1>6, <1>7 DEF PipeNext

(* The crawlers and the scheduler of the pipeline behave as Crawler says,  *)
(* so every theorem of CrawlerProofs holds of the pipeline.                *)
THEOREM PipelineCrawls == PipeSpec => Spec
<1>1. PipeInit => Init
  BY DEF PipeInit
<1>2. [PipeNext]_pipeVars => [Next]_vars
  BY CrawlHalf
<1>3. QED BY <1>1, <1>2, PTL DEF PipeSpec, Spec

(* The same definitions reached through the two instances. *)
LEMMA SameWorker ==
    ASSUME NEW w \in Processors, P!Worker(w)
    PROVE  PP!Worker(w)
<1> USE DEF P!Goto, PP!Goto, P!End, PP!End, P!URL, PP!URL, P!Page, PP!Page,
            P!MessageAt, PP!MessageAt, P!redisVars, PP!redisVars,
            P!countVars, PP!countVars, P!groupVars, PP!groupVars
<1>1. P!Start(w) => PP!Start(w)
  BY DEF P!Start, PP!Start, P!Join, PP!Join, P!Stored, PP!Stored
<1>2. P!BootCount(w) => PP!BootCount(w)
  BY DEF P!BootCount, PP!BootCount, P!Stored, PP!Stored, P!Cardinality, PP!Cardinality,
         P!IsFiniteSet, PP!IsFiniteSet
<1>3. P!Fetch(w) => PP!Fetch(w)
  BY DEF P!Fetch, PP!Fetch, P!FetchMessage, PP!FetchMessage
<1>4. P!IsURLCrawled(w) => PP!IsURLCrawled(w)
  BY DEF P!IsURLCrawled, PP!IsURLCrawled, P!SetNX, PP!SetNX, P!SeenURL, PP!SeenURL,
         P!AfterURL, PP!AfterURL
<1>5. P!IsDuplicate(w) => PP!IsDuplicate(w)
  BY DEF P!IsDuplicate, PP!IsDuplicate, P!SetNX, PP!SetNX, P!SeenContent, PP!SeenContent
<1>6. P!CheckCap(w) => PP!CheckCap(w)
  BY DEF P!CheckCap, PP!CheckCap, P!atCap, PP!atCap
<1>7. P!Upsert(w) => PP!Upsert(w)
  BY DEF P!Upsert, PP!Upsert, P!Write, PP!Write, P!UpsertFailed, PP!UpsertFailed
<1>8. P!Bump(w) => PP!Bump(w)
  BY DEF P!Bump, PP!Bump
<1>9. P!Publish(w) => PP!Publish(w)
  BY DEF P!Publish, PP!Publish
<1>10. P!PublishToDLQ(w) => PP!PublishToDLQ(w)
  BY DEF P!PublishToDLQ, PP!PublishToDLQ
<1>11. P!Commit(w) => PP!Commit(w)
  BY DEF P!Commit, PP!Commit, P!CommitMessages, PP!CommitMessages
<1>12. QED
  BY <1>1, <1>2, <1>3, <1>4, <1>5, <1>6, <1>7, <1>8, <1>9, <1>10, <1>11
  DEF P!Worker, PP!Worker, P!Handler, PP!Handler

(* Every step of the pipeline is one of the processors' half, under either *)
(* instance, or leaves it alone: what the crawlers write is a message      *)
(* Processor expects.                                                      *)
LEMMA ProcHalf ==
    ASSUME TypeOK, [PipeNext]_pipeVars
    PROVE  [P!Next]_(P!vars) /\ [PP!Next]_(PP!vars)
<1> USE DEF P!vars, PP!vars, procVars, procWork, P!groupVars, PP!groupVars,
            P!redisVars, PP!redisVars, P!countVars, PP!countVars
<1>1. ASSUME UNCHANGED procVars PROVE UNCHANGED P!vars /\ UNCHANGED PP!vars
  BY <1>1
<1>2. ASSUME NEW w \in Workers, PublishPage(w) PROVE P!Next /\ PP!Next
  <2>1. URL(cur[w]) \in URLs
    BY <1>2, TaskType DEF PublishPage, PublishRaw, TypeOK
  <2>2. PICK p \in RawPartitions : P!Produce(p, RawMessage(URL(cur[w])))
    BY <1>2 DEF PublishPage
  <2>3. P!Deliver
    BY <1>2, <2>1, <2>2 DEF P!Deliver, PublishPage
  <2>4. PP!Deliver
    BY <1>2, <2>1, <2>2 DEF PP!Deliver, PublishPage, P!Produce, PP!Produce
  <2>5. QED BY <2>3, <2>4 DEF P!Next, PP!Next
<1>3. ASSUME NEW w \in Workers, CrawlerStep(w) \/ CrawlerCrash(w), ~PublishPage(w)
      PROVE  UNCHANGED procVars
  BY <1>3 DEF CrawlerStep, CrawlerCrash
<1>4. ASSUME NEW w \in Processors, ProcessorStep(w) PROVE P!Next /\ PP!Next
  BY <1>4, SameWorker DEF ProcessorStep, P!Next, PP!Next
<1>5. ASSUME RebalanceProcessors PROVE P!Next /\ PP!Next
  <2>1. P!GroupRebalance /\ PP!GroupRebalance
    BY <1>5 DEF RebalanceProcessors, P!GroupRebalance, PP!GroupRebalance,
                P!Rebalance, PP!Rebalance, P!Up, PP!Up
  <2>2. QED BY <2>1 DEF P!Next, PP!Next
<1>6. ASSUME (\E b \in Binaries : ProvisionAny(b)) \/ (\E s \in Sources : Enqueue(s))
             \/ RebalanceCrawlers \/ UNCHANGED pipeVars
      PROVE  UNCHANGED procVars
  BY <1>6 DEF ProvisionAny, Enqueue, RebalanceCrawlers, pipeVars
<1>7. QED BY <1>1, <1>2, <1>3, <1>4, <1>5, <1>6 DEF PipeNext

(* The processors of the pipeline behave as Processor says, so every       *)
(* theorem of ProcessorProofs holds of the pipeline.                       *)
THEOREM PipelineProcesses == PipeSpec => P!Spec
<1>1. PipeInit => P!Init
  BY DEF PipeInit
<1>2. TypeOK /\ [PipeNext]_pipeVars => [P!Next]_(P!vars)
  BY ProcHalf
<1>3. QED BY <1>1, <1>2, PipelineCrawls, TypeCorrect, PTL DEF PipeSpec, P!Spec

(* The same, through the instance with the proofs. *)
LEMMA ProcessesProved == PipeSpec => PP!Spec
<1>1. PipeInit => PP!Init
  BY DEF PipeInit, P!Init, PP!Init, P!GroupInit, PP!GroupInit, P!Fate, PP!Fate
<1>2. TypeOK /\ [PipeNext]_pipeVars => [PP!Next]_(PP!vars)
  BY ProcHalf
<1>3. QED BY <1>1, <1>2, PipelineCrawls, TypeCorrect, PTL DEF PipeSpec, PP!Spec

-----------------------------------------------------------------------------
(* Provisioning.  That a ready process has all topics rests on what a      *)
(* starting one has found missing: what it did not find missing exists.    *)

TopicsOK ==
    /\ topics \subseteq requiredTopics
    /\ boot \in [Binaries -> {"down", "create", "ready"}]
    /\ toCreate \in [Binaries -> SUBSET requiredTopics]
    /\ \A b \in Binaries : boot[b] = "create" => requiredTopics \subseteq topics \cup toCreate[b]
    /\ \A b \in Binaries : Ready(b) => topics = requiredTopics

LEMMA TopicsStep ==
    ASSUME TopicsOK, [PipeNext]_pipeVars
    PROVE  TopicsOK' /\ topics \subseteq topics'
<1> USE DEF TopicsOK, Ready
<1>1. ASSUME UNCHANGED topicVars PROVE TopicsOK' /\ topics \subseteq topics'
  BY <1>1 DEF topicVars
<1>2. ASSUME NEW b \in Binaries, ReadPartitions(b) PROVE TopicsOK' /\ topics \subseteq topics'
  BY <1>2 DEF ReadPartitions
<1>3. ASSUME NEW b \in Binaries, CreateTopics(b) PROVE TopicsOK' /\ topics \subseteq topics'
  <2>1. PICK new \in SUBSET (toCreate[b] \ topics) :
          /\ topics' = topics \cup new
          /\ \/ toCreate[b] \subseteq topics' /\ boot' = [boot EXCEPT ![b] = "ready"]
             \/ boot' = [boot EXCEPT ![b] = "down"]
    BY <1>3 DEF CreateTopics
  <2>2. boot[b] = "create" /\ toCreate' = [toCreate EXCEPT ![b] = {}]
    BY <1>3 DEF CreateTopics
  <2>3. topics \subseteq topics' /\ topics' \subseteq requiredTopics
    BY <2>1
  <2>4. \A c \in Binaries : Ready(c)' => topics' = requiredTopics
    BY <2>1, <2>2, <2>3
  <2>5. QED BY <2>1, <2>2, <2>3, <2>4
<1>4. ASSUME NEW w \in Workers, CrawlerCrash(w) PROVE TopicsOK' /\ topics \subseteq topics'
  BY <1>4, PipelineAssumption DEF CrawlerCrash, Exit
<1>5. ASSUME NEW w \in Workers, CrawlerStep(w) PROVE UNCHANGED topicVars
  BY <1>5 DEF CrawlerStep, PublishPage
<1>6. QED
  BY <1>1, <1>2, <1>3, <1>4, <1>5
  DEF PipeNext, ProvisionAny, Provision, Enqueue, ProcessorStep, RebalanceCrawlers,
      RebalanceProcessors, pipeVars

(* Only a process that has come up touches a topic or joins a group. *)
LEMMA UntouchedStep ==
    ASSUME TopicsOK, ProvisionedBeforeUse, [PipeNext]_pipeVars
    PROVE  ProvisionedBeforeUse'
<1>1. CASE topics = requiredTopics
  BY <1>1, TopicsStep DEF TopicsOK, ProvisionedBeforeUse
<1>2. CASE topics # requiredTopics
  <2>1. \A b \in Binaries : ~Ready(b)
    BY <1>2 DEF TopicsOK
  <2>2. Workers \subseteq Binaries /\ Processors \subseteq Binaries /\ scheduler \in Binaries
    BY PipelineAssumption
  <2>3. \A w \in Workers : ~CrawlerStep(w)
    BY <2>1, <2>2 DEF CrawlerStep
  <2>4. \A w \in Processors : ~ProcessorStep(w)
    BY <2>1, <2>2 DEF ProcessorStep
  <2>5. \A s \in Sources : ~Enqueue(s)
    BY <2>1, <2>2 DEF Enqueue
  <2>6. \A w \in Workers : ~CrawlerCrash(w)
    BY <1>2 DEF CrawlerCrash, Crash, ProvisionedBeforeUse, Up
  <2>7. UNCHANGED <<log, rawLog, pc, ppc>>
    BY <2>3, <2>4, <2>5, <2>6
    DEF PipeNext, ProvisionAny, RebalanceCrawlers, RebalanceProcessors, GroupRebalance,
        P!GroupRebalance, Rebalance, P!Rebalance, pipeVars, crawlVars, procVars, procWork,
        workerVars, groupVars
  <2>8. QED BY <1>2, <2>7 DEF ProvisionedBeforeUse, Up, P!Up
<1>3. QED BY <1>1, <1>2

(* Whatever the order in which the binaries come up, whatever a failed     *)
(* start has left behind and however starts interleave, no log is written  *)
(* and no group is joined before every topic exists.                       *)
THEOREM Provisioned == PipeSpec => []ProvisionedBeforeUse
<1>1. PipeInit => TopicsOK /\ ProvisionedBeforeUse
  BY DEF PipeInit, TopicsInit, TopicsOK, Ready, ProvisionedBeforeUse, Init, GroupInit,
         Up, P!Init, P!GroupInit, P!Up
<1>2. TopicsOK /\ ProvisionedBeforeUse /\ [PipeNext]_pipeVars
        => TopicsOK' /\ ProvisionedBeforeUse'
  BY TopicsStep, UntouchedStep
<1>3. QED BY <1>1, <1>2, PTL DEF PipeSpec

-----------------------------------------------------------------------------
(* End to end.  HandedOver joins the halves: what the crawlers count as    *)
(* published is on the processors' topic.                                  *)

HandedOver == \A u \in raw : \E r \in Pages : P!URL(r) = u

(* Pages and its messages are those of the processors' topic. *)
LEMMA SamePages ==
    /\ Pages = PP!Produced
    /\ \A r : /\ P!MessageAt(r) = PP!MessageAt(r)
              /\ P!URL(r) = P!MessageAt(r).url /\ P!Page(r) = P!MessageAt(r).page
              /\ PP!URL(r) = P!URL(r) /\ PP!Page(r) = P!Page(r)
BY DEF Pages, PP!Produced, PP!Id, P!MessageAt, PP!MessageAt, P!URL, PP!URL, P!Page, PP!Page

LEMMA PagesGrow ==
    ASSUME TypeOK, PP!TypeOK, [PipeNext]_pipeVars
    PROVE  /\ Pages \subseteq Pages'
           /\ \A r \in Pages : P!URL(r)' = P!URL(r)
<1>1. [PP!Next]_(PP!vars)
  BY ProcHalf
<1>2. /\ PP!Produced \subseteq PP!Produced'
      /\ \A id \in PP!Produced : PP!MessageAt(id)' = PP!MessageAt(id)
  BY <1>1, RawAssumptions, PP!Monotone
<1>3. Pages' = PP!Produced'
  BY DEF Pages, PP!Produced, PP!Id
<1>4. \A r : P!URL(r)' = PP!MessageAt(r)'.url
  BY DEF P!URL, P!MessageAt, PP!MessageAt
<1>5. QED BY <1>2, <1>3, <1>4, SamePages

(* The page a crawler publishes is the last message of its partition. *)
LEMMA PublishAdds ==
    ASSUME TypeOK, PP!TypeOK, NEW w \in Workers, PublishPage(w)
    PROVE  \E r \in Pages' : P!URL(r)' = URL(cur[w])
<1>1. PICK p \in RawPartitions : P!Produce(p, RawMessage(URL(cur[w])))
  BY DEF PublishPage
<1>2. rawLog[p] \in Seq({RawMessage(u) : u \in URLs}) /\ rawLog \in [RawPartitions -> Seq({RawMessage(u) : u \in URLs})]
  BY DEF PP!TypeOK, PP!GroupTypeOK
<1>3. Len(rawLog[p]) \in Nat /\ Len(rawLog[p]) < RawMaxLen
  BY <1>1, <1>2 DEF P!Produce
<1>4. rawLog'[p] = Append(rawLog[p], RawMessage(URL(cur[w])))
  BY <1>1, <1>2 DEF P!Produce
<1>5. /\ Len(rawLog'[p]) = Len(rawLog[p]) + 1
      /\ rawLog'[p][Len(rawLog[p]) + 1] = RawMessage(URL(cur[w]))
  BY <1>2, <1>3, <1>4
<1> DEFINE r == <<p, Len(rawLog[p]) + 1>>
<1>6. r \in Pages'
  BY <1>3, <1>5, PipelineAssumption DEF Pages
<1>7. ASSUME NEW n, n = Len(rawLog[p]) + 1
      PROVE  P!URL(<<p, n>>)' = URL(cur[w])
  BY <1>5, <1>7 DEF P!URL, P!MessageAt, RawMessage
<1>8. QED BY <1>6, <1>7

LEMMA HandedOverStep ==
    ASSUME TypeOK, PP!TypeOK, HandedOver, [PipeNext]_pipeVars
    PROVE  HandedOver'
<1>1. ASSUME NEW u \in raw PROVE \E r \in Pages' : P!URL(r)' = u
  BY PagesGrow DEF HandedOver
<1>2. ASSUME NEW w \in Workers, PublishPage(w) PROVE HandedOver'
  <2>1. raw' \subseteq raw \cup {URL(cur[w])}
    BY <1>2 DEF PublishPage, PublishRaw
  <2>2. QED BY <1>1, <1>2, <2>1, PublishAdds DEF HandedOver
<1>3. ASSUME ~ \E w \in Workers : PublishPage(w) PROVE raw' = raw
  <2>1. ASSUME NEW w \in Workers, CrawlerStep(w) PROVE raw' = raw
    <3>1. pc[w] # "raw" /\ Worker(w)
      BY <1>3, <2>1 DEF CrawlerStep
    <3>2. QED
      BY <3>1 DEF Worker, Handler, Start, Fetch, respectRateLimit, IsAllowed, Get, WriteDetail,
         FanoutFailed, FanoutDone, PublishRaw, publishToDLQ, Commit
  <2>2. QED
    BY <2>1 DEF PipeNext, ProvisionAny, Enqueue, Schedule, CrawlerCrash, Crash,
       ProcessorStep, RebalanceCrawlers, RebalanceProcessors, GroupRebalance,
       pipeVars, crawlVars, workerVars
<1>4. QED BY <1>1, <1>2, <1>3 DEF HandedOver

(* What Processor keeps of a message is its posting, as the crawlers know  *)
(* it: by URL, with the page that URL has.                                 *)
LEMMA PassedSettled ==
    ASSUME PP!TypeOK, PP!CommittedKept, PP!SavedStored, NEW r \in Pages, Passed(r)
    PROVE  Settled(P!URL(r))
<1>1. /\ r \in PP!Produced /\ r[1] \in RawPartitions /\ r[2] \in 1 .. rawCommitted[r[1]]
      /\ r = <<r[1], r[2]>>
  <2>1. rawCommitted \in [RawPartitions -> Nat]
    BY DEF PP!TypeOK, PP!GroupTypeOK
  <2>2. r[1] \in RawPartitions /\ r[2] \in 1 .. RawMaxLen /\ r = <<r[1], r[2]>>
    BY DEF Pages
  <2>3. QED BY <2>1, <2>2, SamePages, PipelineAssumption DEF Passed
<1>2. PP!Kept(r)
  BY <1>1 DEF PP!CommittedKept
<1>3. PICK j \in PP!Produced :
        /\ PP!URL(j) = PP!URL(r)
        /\ \/ \E k \in pfates["saved"] \cup pfates["dlq"] : PP!SamePosting(k, j)
           \/ \E w \in Processors : PP!HoldsURL(w) /\ PP!SamePosting(pcur[w], j)
  BY <1>2 DEF PP!Kept
<1>4. P!URL(j) = P!URL(r) /\ P!Page(j) = PageOf[P!URL(r)]
  <2>1. PP!MessageAt(j) \in {RawMessage(u) : u \in URLs}
    BY RawAssumptions, PP!MessageType DEF PP!TypeOK
  <2>2. QED BY <1>3, <2>1, SamePages DEF RawMessage
<1>5. ASSUME NEW k, PP!SamePosting(k, j)
      PROVE  OfPosting(k, P!URL(r)) /\ P!Page(k) = PageOf[P!URL(r)]
  BY <1>4, <1>5, SamePages DEF PP!SamePosting, OfPosting
<1>6. ASSUME NEW k \in pfates["saved"], PP!SamePosting(k, j) PROVE Settled(P!URL(r))
  <2>1. P!Page(k) \in P!Stored
    BY SamePages DEF PP!SavedStored, PP!Stored, P!Stored
  <2>2. QED BY <1>5, <1>6, <2>1 DEF Settled
<1>7. ASSUME NEW k \in pfates["dlq"], PP!SamePosting(k, j) PROVE Settled(P!URL(r))
  BY <1>5, <1>7 DEF Settled
<1>8. ASSUME NEW w \in Processors, PP!HoldsURL(w), PP!SamePosting(pcur[w], j)
      PROVE  Settled(P!URL(r))
  <2>1. P!HoldsURL(w)
    BY <1>8, SamePages DEF P!HoldsURL, PP!HoldsURL
  <2>2. QED BY <1>5, <1>8, <2>1 DEF Settled
<1>9. QED BY <1>3, <1>6, <1>7, <1>8

(* Between the commit of a DETAIL task and the row of its posting nothing  *)
(* is dropped, for any crawlers and processors, whatever fails at the      *)
(* crawlers and as long as the processors fail only in benign ways.        *)
THEOREM EndToEnd == PipeSpec => []PostingsKept
<1>1. CASE ~P!Benign
  <2>1. PostingsKept
    BY <1>1 DEF PostingsKept
  <2>2. QED BY <2>1, PTL
<1>2. CASE P!Benign
  <2>1. PP!Benign /\ PP!JanitorOff
    BY <1>2 DEF P!Benign, PP!Benign, PP!JanitorOff
  <2>2. PP!Spec => []PP!TypeOK
    BY RawAssumptions, PP!TypeCorrect
  <2>3. PP!Spec => []PP!CommittedKept
    BY <2>1, RawAssumptions, PP!BenignKeeps
  <2>4. PP!Spec => []PP!SavedStored
    BY <2>1, RawAssumptions, PP!SavedStays
  <2>5. PipeInit => HandedOver
    BY DEF PipeInit, Init, HandedOver
  <2>6. TypeOK /\ PP!TypeOK /\ HandedOver /\ [PipeNext]_pipeVars => HandedOver'
    BY HandedOverStep
  <2>7. PP!TypeOK /\ PP!CommittedKept /\ PP!SavedStored /\ HandedOver /\ CommittedForwarded
          => PostingsKept
    <3>1. SUFFICES ASSUME PP!TypeOK, PP!CommittedKept, PP!SavedStored, HandedOver,
                          CommittedForwarded,
                          NEW p \in Partitions, NEW i \in 1 .. committed[p],
                          ~IsListing(<<p, i>>),
                          <<p, i>> \notin fates["dlq"] \cup fates["disallowed"] \cup fates["lost"]
                   PROVE  PageKept(URL(<<p, i>>))
      BY DEF PostingsKept
    <3>2. URL(<<p, i>>) \in raw
      BY <3>1 DEF CommittedForwarded, Forwarded
    <3>3. QED BY <3>1, <3>2, PassedSettled DEF PageKept, HandedOver
  <2>8. QED
    BY <2>2, <2>3, <2>4, <2>5, <2>6, <2>7, PipelineCrawls, ProcessesProved, TypeCorrect,
       CommitsOnlyForwarded, PTL DEF PipeSpec
<1>3. QED BY <1>1, <1>2

(* From the commit of a LISTING task on nothing is dropped either: every   *)
(* posting it links to has its task on crawl.queue, and where the offsets  *)
(* have passed that, an end or a page that is kept.                        *)
THEOREM ListingsFollowed == PipeSpec => []LinksFollowed
<1>1. TypeOK /\ CommittedForwarded /\ PostingsKept => LinksFollowed
  <2>1. SUFFICES ASSUME TypeOK, CommittedForwarded, PostingsKept, P!Benign,
                        NEW p \in Partitions, NEW i \in 1 .. committed[p], NEW u \in URLs,
                        IsListing(<<p, i>>), LinksTo(URL(<<p, i>>), u),
                        <<p, i>> \notin fates["dlq"] \cup fates["disallowed"] \cup fates["lost"]
                 PROVE  OnItsWay(Source(<<p, i>>), u)
    BY DEF LinksFollowed
  <2>2. PICK d \in Produced : MessageAt(d) = Detail(Source(<<p, i>>), u)
    BY <2>1 DEF CommittedForwarded, Forwarded, Enqueued
  <2>3. d[1] \in Partitions /\ d[2] \in 1 .. MaxLen /\ d = <<d[1], d[2]>>
    BY DEF Produced, Id
  <2>4. ~IsListing(d) /\ URL(d) = u
    BY <2>2 DEF IsListing, URL, Detail
  <2>5. CASE d[2] > committed[d[1]]
    BY <2>2, <2>5 DEF OnItsWay
  <2>6. CASE ~(d[2] > committed[d[1]])
    <3>1. d[2] \in 1 .. committed[d[1]]
      BY <2>1, <2>3, <2>6, GroupAssumption DEF TypeOK, GroupTypeOK
    <3>2. \/ d \in fates["dlq"] \cup fates["disallowed"] \cup fates["lost"]
          \/ PageKept(u)
      BY <2>1, <2>3, <2>4, <3>1 DEF PostingsKept
    <3>3. QED BY <2>2, <3>2 DEF OnItsWay
  <2>7. QED BY <2>5, <2>6
<1>2. QED BY <1>1, PipelineCrawls, TypeCorrect, CommitsOnlyForwarded, EndToEnd, PTL

=============================================================================
