------------------------------ MODULE Pipeline ------------------------------
(***************************************************************************)
(* The whole pipeline from a cold start: scheduler, crawlers and           *)
(* processors, each provisioning the topics before it works, joined by     *)
(* crawl.queue (the log of Crawler) and jobs.raw (the log of Processor).   *)
(*                                                                         *)
(* The crawlers' half is Crawler's own, with its variables; the            *)
(* processors' half is an instance of Processor.  They meet in PublishPage *)
(* alone, where a page that Crawler adds to raw becomes a message of       *)
(* jobs.raw.  Every write to jobs.raw succeeds here: what follows a        *)
(* failure is Crawler's to say.                                            *)
(***************************************************************************)
EXTENDS Crawler, Topics, FiniteSets

CONSTANTS
    Processors, RawPartitions, RawMaxLen,
    PageOf,      \* PageOf[u]: what ParseDetail makes of the page at u
    Fps, Garbled, Unparsable,
    ProcFaults,  \* the failures of the processors' accesses
    scheduler    \* the process of that name

VARIABLES
    rawLog, rawCommitted, rawPosition, rawOwner, rawRejoin,
    ppc, pcur, jobCount, snap, urlKeys, fpKeys, rows, processed, pcrashes,
    pfates, unseen, since

RawMessage(u) == [url |-> u, page |-> PageOf[u]]

P == INSTANCE Processor WITH
        Workers <- Processors, Partitions <- RawPartitions, MaxLen <- RawMaxLen,
        Messages <- {RawMessage(u) : u \in URLs},
        MaxTotalJobs <- 0, CleanupEnabled <- FALSE, CleanupRetentionDays <- 0,
        Faults <- ProcFaults, MaxCrashes <- 0,
        log <- rawLog, committed <- rawCommitted, position <- rawPosition,
        owner <- rawOwner, rejoin <- rawRejoin,
        pc <- ppc, cur <- pcur, crashes <- pcrashes, fates <- pfates

crawlVars == <<groupVars, schedVars, workerVars>>
procWork == <<ppc, pcur, jobCount, snap, urlKeys, fpKeys, rows, processed,
              pcrashes, pfates, unseen, since>>
procVars == <<rawLog, rawCommitted, rawPosition, rawOwner, rawRejoin, procWork>>
pipeVars == <<crawlVars, procVars, topicVars>>

ASSUME PipelineAssumption ==
    /\ Binaries = Workers \cup Processors \cup {scheduler}
    /\ PageOf \in [URLs -> Fps \cup {Garbled, Unparsable}]
    /\ IsFiniteSet(Processors)
    /\ IsFiniteSet(Fps)
    /\ Garbled \notin Fps
    /\ Unparsable \notin Fps
    /\ ProcFaults \subseteq P!Failure
    /\ RawMaxLen \in Nat
    /\ None \notin Processors
    /\ None \notin RawPartitions \X Nat

PipeInit == Init /\ P!Init /\ TopicsInit

-----------------------------------------------------------------------------
ProvisionAny(b) == Provision(b) /\ UNCHANGED <<crawlVars, procVars>>

(* The scheduler enqueues every source when it starts, then by cron. *)
Enqueue(s) ==
    /\ Ready(scheduler)
    /\ Schedule(s)
    /\ UNCHANGED <<procVars, topicVars>>

PublishPageAsync(w) ==
    /\ PublishRaw(w)
    /\ \/ \E p \in RawPartitions : P!Produce(p, RawMessage(URL(cur[w])))
       \/ UNCHANGED <<rawLog, rawCommitted, rawPosition, rawOwner, rawRejoin>>
    /\ UNCHANGED <<procWork, topicVars>>

(* A page goes to jobs.raw, some partition of it. *)
PublishPage(w) ==
    /\ PublishRaw(w)
    /\ \E p \in RawPartitions : P!Produce(p, RawMessage(URL(cur[w])))
    /\ UNCHANGED <<procWork, topicVars>>

CrawlerStep(w) ==
    /\ Ready(w)
    /\ \/ PublishPage(w)
       \/ pc[w] # "raw" /\ Worker(w) /\ UNCHANGED <<procVars, topicVars>>

(* A crawler that is killed or stopped starts from the beginning, topics   *)
(* included.                                                               *)
CrawlerCrash(w) == Crash(w) /\ Exit(w) /\ UNCHANGED procVars

ProcessorStep(w) ==
    /\ Ready(w)
    /\ P!Worker(w)
    /\ UNCHANGED <<crawlVars, topicVars>>

RebalanceCrawlers == GroupRebalance /\ UNCHANGED <<procVars, topicVars>>
RebalanceProcessors == P!GroupRebalance /\ UNCHANGED <<crawlVars, topicVars>>

PipeNext ==
    \/ \E b \in Binaries : ProvisionAny(b)
    \/ \E s \in Sources : Enqueue(s)
    \/ \E w \in Workers : CrawlerStep(w) \/ CrawlerCrash(w)
    \/ \E w \in Processors : ProcessorStep(w)
    \/ RebalanceCrawlers
    \/ RebalanceProcessors

PipeSpec == PipeInit /\ [][PipeNext]_pipeVars

(* Every process is started again, runs and reaches the end of what it     *)
(* does (compose: restart unless-stopped; timeouts on every access); the   *)
(* scheduler enqueues when it starts.                                      *)
PipeFairness ==
    /\ \A b \in Binaries : WF_pipeVars(ProvisionAny(b))
    /\ \A s \in Sources : WF_pipeVars(Enqueue(s))
    /\ \A w \in Workers : WF_pipeVars(CrawlerStep(w))
    /\ \A w \in Processors : WF_pipeVars(ProcessorStep(w))
    /\ WF_pipeVars(RebalanceCrawlers)
    /\ WF_pipeVars(RebalanceProcessors)

FairPipe == PipeSpec /\ PipeFairness

-----------------------------------------------------------------------------
(* Nothing touches a topic before all of them exist, whichever binary      *)
(* comes up first and whatever part of the topics a failed start has left  *)
(* (cmd/crawler/main.go: "every binary that talks to Kafka calls this so   *)
(* cold-start ordering doesn't matter").                                   *)
ProvisionedBeforeUse ==
    \/ topics = requiredTopics
    \/ /\ \A p \in Partitions : log[p] = <<>>
       /\ \A p \in RawPartitions : rawLog[p] = <<>>
       /\ Up = {}
       /\ P!Up = {}

(* The messages of jobs.raw. *)
Pages == {r \in RawPartitions \X (1 .. RawMaxLen) : r[2] <= Len(rawLog[r[1]])}

(* The offsets of jobs.raw have passed message r. *)
Passed(r) == r[2] <= rawCommitted[r[1]]

(* Message r is of the posting at u: it has its URL or its fingerprint. *)
OfPosting(r, u) ==
    P!URL(r) = u \/ (PageOf[u] \in Fps /\ P!Page(r) = PageOf[u])

(* The posting at u has its row, is in jobs.failed, or is in the hands of  *)
(* a processor that has claimed it.                                        *)
Settled(u) ==
    \/ PageOf[u] \in P!Stored
    \/ \E k \in pfates["dlq"] : OfPosting(k, u)
    \/ \E w \in Processors : P!HoldsURL(w) /\ OfPosting(pcur[w], u)

(* The page of u is on jobs.raw, and where the processors' offsets have    *)
(* passed a copy of it the posting is settled.                             *)
PageKept(u) ==
    /\ \E r \in Pages : P!URL(r) = u
    /\ \A r \in Pages : P!URL(r) = u /\ Passed(r) => Settled(u)

(* A committed DETAIL task that was neither skipped, dead-lettered nor     *)
(* refused by the DLQ has its page on jobs.raw, and every copy of that     *)
(* page the processors' offsets have passed left the posting in the jobs   *)
(* table, in jobs.failed or with a processor.  Between the commit of the   *)
(* crawler and the row no step drops a posting, however crawlers crash,    *)
(* both groups rebalance and redeliver, and copies meet each other's dedup *)
(* keys (worker.go of the crawler commits after the write to jobs.raw,     *)
(* that of the processor after the row or the DLQ).  For instances in      *)
(* which the processors fail only in ways that cost no posting.            *)
PostingsKept ==
    P!Benign =>
        \A p \in Partitions : \A i \in 1 .. committed[p] : \A u \in URLs :
            \/ u # URL(<<p, i>>) \/ IsListing(<<p, i>>)
            \/ <<p, i>> \in fates["dlq"] \cup fates["disallowed"] \cup fates["lost"]
            \/ PageKept(u)

(* The posting at u, a detail page of source s, is on its way: its task is *)
(* on crawl.queue, and where the crawlers' offsets have passed that task   *)
(* it was skipped, dead-lettered or lost by the DLQ, or has its page kept. *)
OnItsWay(s, u) ==
    \E id \in Produced :
        /\ MessageAt(id) = Detail(s, u)
        /\ \/ id[2] > committed[id[1]]
           \/ id \in fates["dlq"] \cup fates["disallowed"] \cup fates["lost"]
           \/ PageKept(u)

(* Every posting that a committed listing links to, among the first fanout *)
(* links, is on its way or in the end it should have: a listing is never   *)
(* passed with a part of its batch missing, and no offset of either topic  *)
(* passes a posting that is then nowhere, whatever crashes, redeliveries   *)
(* and second copies there are on two topics (worker.go of the crawler     *)
(* commits a listing after its batch).  Instances as for PostingsKept.     *)
LinksFollowed ==
    P!Benign =>
        \A p \in Partitions : \A i \in 1 .. committed[p] : \A u \in URLs :
            \/ ~IsListing(<<p, i>>) \/ ~LinksTo(URL(<<p, i>>), u)
            \/ <<p, i>> \in fates["dlq"] \cup fates["disallowed"] \cup fates["lost"]
            \/ OnItsWay(Source(<<p, i>>), u)

(* The posting at URL u has arrived: its row is in the table, or its page  *)
(* is in jobs.failed because it cannot be read.                            *)
Arrived(u) ==
    IF PageOf[u] \in Fps
      THEN PageOf[u] \in P!Stored
      ELSE \E id \in pfates["dlq"] : P!URL(id) = u

(* From no topics at all, every posting linked from a listing page of a    *)
(* source arrives, though the binaries come up in any order, starts fail,  *)
(* a crawler stops in the middle of a batch or of a page, the redelivered  *)
(* tasks publish pages twice and the second copy meets the dedup keys of   *)
(* the first.  (For instances in which no other access fails, no page is   *)
(* denied or broken and no processor stops: those may cost a posting.)     *)
EveryPostingStored ==
    \A s \in Sources, l, u \in URLs :
        (l \in generateURLs[s] /\ LinksTo(l, u)) => <>Arrived(u)

=============================================================================
