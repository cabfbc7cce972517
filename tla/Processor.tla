----------------------------- MODULE Processor -----------------------------
(***************************************************************************)
(* The processor workers (internal/processor), one per process, reading    *)
(* jobs.raw as one consumer group, with what they share: the dedup keys in *)
(* Redis, the jobs table, the topics jobs.processed and jobs.failed, and   *)
(* the retention janitor that runs in every processor process.             *)
(*                                                                         *)
(* A raw crawl result is a record of its URL and its page.  The page is    *)
(* the fingerprint its posting hashes to, or Unparsable (ParseDetail or    *)
(* GetSource fails), or Garbled (the message is not JSON).  Two URLs with  *)
(* the same page are one posting listed twice; a URL with two pages was    *)
(* edited between two crawls.                                              *)
(*                                                                         *)
(* Every store access of processMessage is a step of its own, so that      *)
(* other workers, the count refresher, the janitor and crashes come in     *)
(* between.  Computation local to the worker belongs to the access before  *)
(* it.                                                                     *)
(***************************************************************************)
EXTENDS ConsumerGroup, FiniteSets

CONSTANTS
    URLs, Fps, Garbled, Unparsable,
    MaxTotalJobs,          \* cap on stored jobs, 0 = unlimited
    CleanupEnabled,        \* the janitor's configuration
    CleanupRetentionDays,
    Faults,                \* the failures that may happen in this instance
    MaxCrashes             \* bound: worker processes killed or stopped

Failure == {"redisError", "replyLost", "countError", "upsertError",
            "publishError", "dlqError", "commitError", "crash"}

ASSUME ProcessorAssumption ==
    /\ IsFiniteSet(Workers)
    /\ IsFiniteSet(Fps)
    /\ Garbled \notin Fps
    /\ Unparsable \notin Fps
    /\ Messages \subseteq [url : URLs, page : Fps \cup {Garbled, Unparsable}]
    /\ MaxTotalJobs \in Nat
    /\ MaxCrashes \in Nat
    /\ Faults \subseteq Failure

VARIABLES
    pc,         \* pc[w]: where worker w stands
    cur,        \* cur[w]: the message it has in hand, or None
    jobCount,   \* jobCount[w]: its live counter of stored jobs
    snap,       \* snap[w]: the count its refresher has read and not stored
    urlKeys,    \* URLs with a live dedup:url key (24 h)
    fpKeys,     \* fingerprints with a live dedup:job key (7 days)
    rows,       \* rows[f]: the row of fingerprint f in the jobs table
    processed,  \* messages whose job was published to jobs.processed
    crashes,    \* processes killed or stopped so far
    fates,      \* history: how the handling of a message ended
    unseen,     \* history: unseen[w], inserts jobCount[w] does not include
    since       \* history: since[w], inserts since snap[w] was read

redisVars == <<urlKeys, fpKeys>>
countVars == <<jobCount, snap, unseen, since>>
vars == <<groupVars, pc, cur, redisVars, countVars, rows, processed, crashes,
          fates>>

(* The ends of one run of processMessage.  A message may meet several of   *)
(* them, once per delivery.  "swallowed": SETNX set the key, its reply was *)
(* lost and the client's retry found the key taken.  "cut": the process    *)
(* went away after it had claimed a dedup key and before it had saved the  *)
(* job or sent it to the DLQ.                                              *)
Fate == {"dupURL", "dupContent", "capped", "saved", "dlq", "lost",
         "swallowed", "cut"}

(* Handling of a message came to an end of processMessage's own. *)
Handled == UNION {fates[f] : f \in Fate \ {"cut"}}

URL(id) == MessageAt(id).url
Page(id) == MessageAt(id).page

(* The end came after the message had claimed its URL. *)
Spent == {id \in UNION {fates[f] : f \in Fate \ {"dupURL"}} :
            Page(id) # Garbled}

(* The end came after the message had claimed its fingerprint. *)
SpentContent == {id \in UNION {fates[f] : f \in Fate \ {"dupURL", "dupContent"}} :
                   Page(id) \in Fps}

Up == {w \in Workers : pc[w] # "down"}

(* The rows of the jobs table; fingerprint is its UNIQUE key. *)
Stored == {f \in Fps : rows[f] # "absent"}

(* Past IsURLCrawled, before its end: the worker holds its URL. *)
HoldsURL(w) ==
    /\ pc[w] \in {"content", "cap", "upsert", "dlq"}
    /\ Page(cur[w]) # Garbled

(* Past IsDuplicate, before its end: the worker holds its fingerprint. *)
HoldsContent(w) ==
    /\ pc[w] \in {"cap", "upsert", "dlq"}
    /\ Page(cur[w]) \in Fps

TypeOK ==
    /\ GroupTypeOK
    /\ pc \in [Workers -> {"down", "boot", "idle", "url", "content", "cap",
                           "upsert", "bump", "publish", "dlq", "commit"}]
    /\ cur \in [Workers -> Id \cup {None}]
    /\ \A w \in Workers : IF pc[w] \in {"down", "boot", "idle"}
                            THEN cur[w] = None
                            ELSE cur[w] \in Produced
    /\ jobCount \in [Workers -> Nat]
    /\ snap \in [Workers -> Nat \cup {None}]
    /\ urlKeys \subseteq URLs
    /\ fpKeys \subseteq Fps
    /\ rows \in [Fps -> {"absent", "fresh", "old"}]
    /\ processed \subseteq Produced
    /\ crashes \in Nat
    /\ fates \in [Fate -> SUBSET Produced]
    /\ unseen \in [Workers -> SUBSET Fps]
    /\ since \in [Workers -> SUBSET Fps]

Init ==
    /\ GroupInit
    /\ pc = [w \in Workers |-> "down"]
    /\ cur = [w \in Workers |-> None]
    /\ jobCount = [w \in Workers |-> 0]
    /\ snap = [w \in Workers |-> None]
    /\ urlKeys = {}
    /\ fpKeys = {}
    /\ rows = [f \in Fps |-> "absent"]
    /\ processed = {}
    /\ crashes = 0
    /\ fates = [f \in Fate |-> {}]
    /\ unseen = [w \in Workers |-> {}]
    /\ since = [w \in Workers |-> {}]

-----------------------------------------------------------------------------
(* Steps shared by the actions below.                                      *)

(* Worker w, done with the access it stood at, goes on to l. *)
Goto(w, l) ==
    /\ pc' = [pc EXCEPT ![w] = l]
    /\ UNCHANGED <<cur, crashes>>

(* The handling of w's message ends with fate f.  *)
End(w, f) == fates' = [fates EXCEPT ![f] = @ \cup {cur[w]}]

(* Redis SETNX through the client, which resends a command whose reply it  *)
(* did not get: "set" the key was new, "exists" it was not, "error" no     *)
(* attempt was answered, the last of which may have set the key.           *)
SetNX(k, keys) ==
    {[reply |-> IF k \in keys THEN "exists" ELSE "set", keys |-> keys \cup {k}]}
    \cup (IF "replyLost" \in Faults
            THEN {[reply |-> "exists", keys |-> keys \cup {k}]} ELSE {})
    \cup (IF "redisError" \in Faults
            THEN {[reply |-> "error", keys |-> ks] : ks \in {keys, keys \cup {k}}}
            ELSE {})

(* What IsURLCrawled and IsDuplicate answer: an error is not a yes. *)
FailClosed(r) == r.reply # "set"
AnswerIgnored(r) == FALSE
SeenURL(r) == r.reply = "exists"
SeenContent(r) == r.reply = "exists"

(* ParseDetail, after the URL was found to be new. *)
AfterURLUnchecked(w) == "content"
AfterURL(w) == IF Page(cur[w]) = Unparsable THEN "dlq" ELSE "content"

atCap(w) == MaxTotalJobs > 0 /\ jobCount[w] >= MaxTotalJobs

-----------------------------------------------------------------------------
(* The life of a worker process.                                           *)

(* The process starts: its reader joins the group, its counter is zero.    *)
Start(w) ==
    /\ pc[w] = "down"
    /\ Join
    /\ Goto(w, IF MaxTotalJobs > 0 THEN "boot" ELSE "idle")
    /\ jobCount' = [jobCount EXCEPT ![w] = 0]
    /\ unseen' = [unseen EXCEPT ![w] = IF MaxTotalJobs > 0 THEN Stored ELSE {}]
    /\ UNCHANGED <<redisVars, snap, since, rows, processed, fates>>

(* The synchronous refreshCount before the loop.  Nobody reads the counter *)
(* between its Count and its Store.                                        *)
BootCount(w) ==
    /\ pc[w] = "boot"
    /\ \/ /\ jobCount' = [jobCount EXCEPT ![w] = Cardinality(Stored)]
          /\ unseen' = [unseen EXCEPT ![w] = {}]
       \/ /\ "countError" \in Faults
          /\ UNCHANGED <<jobCount, unseen>>
    /\ Goto(w, "idle")
    /\ UNCHANGED <<groupVars, redisVars, snap, since, rows, processed, fates>>

(* The refresher goroutine ticks and reads the number of rows.  (A failed  *)
(* Count changes nothing.)                                                 *)
RefreshRead(w) ==
    /\ MaxTotalJobs > 0
    /\ pc[w] \notin {"down", "boot"}
    /\ snap[w] = None
    /\ snap' = [snap EXCEPT ![w] = Cardinality(Stored)]
    /\ since' = [since EXCEPT ![w] = {}]
    /\ UNCHANGED <<groupVars, pc, cur, redisVars, jobCount, unseen, rows,
                   processed, crashes, fates>>

RefreshStoreOnlyUp(w) ==
    /\ snap[w] # None
    /\ jobCount' = [jobCount EXCEPT ![w] = IF snap[w] > @ THEN snap[w] ELSE @]
    /\ unseen' = [unseen EXCEPT ![w] = since[w]]
    /\ snap' = [snap EXCEPT ![w] = None]
    /\ since' = [since EXCEPT ![w] = {}]
    /\ UNCHANGED <<groupVars, pc, cur, redisVars, rows, processed, crashes,
                   fates>>

(* ... and stores what it read, whatever was added in between. *)
RefreshStore(w) ==
    /\ snap[w] # None
    /\ jobCount' = [jobCount EXCEPT ![w] = snap[w]]
    /\ unseen' = [unseen EXCEPT ![w] = since[w]]
    /\ snap' = [snap EXCEPT ![w] = None]
    /\ since' = [since EXCEPT ![w] = {}]
    /\ UNCHANGED <<groupVars, pc, cur, redisVars, rows, processed, crashes,
                   fates>>

(* The process is killed, or is stopped: on SIGTERM the context every      *)
(* access uses is cancelled, so the handler cannot finish and the offset   *)
(* is not committed.                                                       *)
Crash(w) ==
    /\ "crash" \in Faults
    /\ crashes < MaxCrashes
    /\ crashes' = crashes + 1
    /\ pc[w] # "down"
    /\ Leave(w)
    /\ pc' = [pc EXCEPT ![w] = "down"]
    /\ cur' = [cur EXCEPT ![w] = None]
    /\ IF HoldsURL(w) THEN End(w, "cut") ELSE UNCHANGED fates
    /\ snap' = [snap EXCEPT ![w] = None]
    /\ since' = [since EXCEPT ![w] = {}]
    /\ UNCHANGED <<redisVars, jobCount, unseen, rows, processed>>

-----------------------------------------------------------------------------
(* processMessage, one action per store access.                            *)

(* FetchMessage and the unmarshalling of the message. *)
Fetch(w) ==
    /\ pc[w] = "idle"
    /\ \E p \in Partitions :
          /\ FetchMessage(w, p)
          /\ LET id == <<p, position[p] + 1>>
             IN  /\ cur' = [cur EXCEPT ![w] = id]
                 /\ pc' = [pc EXCEPT ![w] =
                             IF Page(id) = Garbled THEN "dlq" ELSE "url"]
    /\ UNCHANGED <<redisVars, countVars, rows, processed, crashes, fates>>

(* URL dedup; an error counts as "not seen".  Then the page is parsed. *)
IsURLCrawled(w) ==
    /\ pc[w] = "url"
    /\ \E r \in SetNX(URL(cur[w]), urlKeys) :
          /\ urlKeys' = r.keys
          /\ IF SeenURL(r)
               THEN /\ End(w, IF r.keys = urlKeys THEN "dupURL" ELSE "swallowed")
                    /\ Goto(w, "commit")
               ELSE UNCHANGED fates /\ Goto(w, AfterURL(w))
    /\ UNCHANGED <<groupVars, fpKeys, countVars, rows, processed>>

(* Content dedup; an error counts as "not seen". *)
IsDuplicate(w) ==
    /\ pc[w] = "content"
    /\ \E r \in SetNX(Page(cur[w]), fpKeys) :
          /\ fpKeys' = r.keys
          /\ IF SeenContent(r)
               THEN /\ End(w, IF r.keys = fpKeys THEN "dupContent" ELSE "swallowed")
                    /\ Goto(w, "commit")
               ELSE UNCHANGED fates /\ Goto(w, "cap")
    /\ UNCHANGED <<groupVars, urlKeys, countVars, rows, processed>>

(* At the cap the posting is dropped and its offset committed. *)
CheckCap(w) ==
    /\ pc[w] = "cap"
    /\ IF atCap(w) THEN End(w, "capped") /\ Goto(w, "commit")
                   ELSE UNCHANGED fates /\ Goto(w, "upsert")
    /\ UNCHANGED <<groupVars, redisVars, countVars, rows, processed>>

(* INSERT ... ON CONFLICT (fingerprint) DO UPDATE: an update keeps the     *)
(* row's created_at.                                                       *)
Write(f) ==
    /\ rows' = [rows EXCEPT ![f] = IF @ = "absent" THEN "fresh" ELSE @]
    /\ IF MaxTotalJobs > 0 /\ rows[f] = "absent"
         THEN /\ unseen' = [v \in Workers |-> unseen[v] \cup {f}]
              /\ since' = [v \in Workers |-> since[v] \cup {f}]
         ELSE UNCHANGED <<unseen, since>>

(* A job that could not be stored goes to the DLQ. *)
UpsertFailedIgnored(w) == UNCHANGED fates /\ Goto(w, "commit")
UpsertFailed(w) == UNCHANGED fates /\ Goto(w, "dlq")

(* An error may come after the statement took effect. *)
Upsert(w) ==
    /\ pc[w] = "upsert"
    /\ \/ /\ Write(Page(cur[w]))
          /\ End(w, "saved")
          /\ Goto(w, IF MaxTotalJobs > 0 THEN "bump" ELSE "publish")
       \/ /\ "upsertError" \in Faults
          /\ Write(Page(cur[w])) \/ UNCHANGED <<rows, unseen, since>>
          /\ UpsertFailed(w)
    /\ UNCHANGED <<groupVars, redisVars, jobCount, snap, processed>>

BumpForgotten(w) ==
    /\ pc[w] = "bump"
    /\ unseen' = [unseen EXCEPT ![w] = @ \ {Page(cur[w])}]
    /\ Goto(w, "publish")
    /\ UNCHANGED <<groupVars, redisVars, jobCount, snap, since, rows, processed, fates>>

(* jobCount.Add(1), for an update as for an insert. *)
Bump(w) ==
    /\ pc[w] = "bump"
    /\ jobCount' = [jobCount EXCEPT ![w] = @ + 1]
    /\ unseen' = [unseen EXCEPT ![w] = @ \ {Page(cur[w])}]
    /\ Goto(w, "publish")
    /\ UNCHANGED <<groupVars, redisVars, snap, since, rows, processed, fates>>

(* To jobs.processed; a failure is only logged.  No alert matcher is wired. *)
Publish(w) ==
    /\ pc[w] = "publish"
    /\ \/ processed' = processed \cup {cur[w]}
       \/ "publishError" \in Faults /\ UNCHANGED processed
    /\ Goto(w, "commit")
    /\ UNCHANGED <<groupVars, redisVars, countVars, rows, fates>>

(* To jobs.failed; if that fails too the message is lost. *)
PublishToDLQ(w) ==
    /\ pc[w] = "dlq"
    /\ \/ End(w, "dlq")
       \/ "dlqError" \in Faults /\ End(w, "lost")
    /\ Goto(w, "commit")
    /\ UNCHANGED <<groupVars, redisVars, countVars, rows, processed>>

(* The deferred commit; a failure is only logged. *)
Commit(w) ==
    /\ pc[w] = "commit"
    /\ \/ CommitMessages(cur[w])
       \/ "commitError" \in Faults /\ UNCHANGED groupVars
    /\ pc' = [pc EXCEPT ![w] = "idle"]
    /\ cur' = [cur EXCEPT ![w] = None]
    /\ UNCHANGED <<redisVars, countVars, rows, processed, crashes, fates>>

-----------------------------------------------------------------------------
(* The surroundings of the workers.                                        *)

(* The crawler publishes a page it fetched (again, if it was crawled       *)
(* again; a replay from jobs.failed looks the same).                       *)
Deliver ==
    /\ \E p \in Partitions, m \in Messages : Produce(p, m)
    /\ UNCHANGED <<pc, cur, redisVars, countVars, rows, processed, crashes, fates>>

GroupRebalance ==
    /\ Rebalance(Up)
    /\ UNCHANGED <<pc, cur, redisVars, countVars, rows, processed, crashes, fates>>

(* Keys live for a day and for a week: longer than a handler that set one  *)
(* is at work.                                                             *)
ExpireURL(u) ==
    /\ u \in urlKeys
    /\ \A w \in Workers : HoldsURL(w) => URL(cur[w]) # u
    /\ urlKeys' = urlKeys \ {u}
    /\ UNCHANGED <<groupVars, pc, cur, fpKeys, countVars, rows, processed,
                   crashes, fates>>

ExpireFp(f) ==
    /\ f \in fpKeys
    /\ \A w \in Workers : HoldsContent(w) => Page(cur[w]) # f
    /\ fpKeys' = fpKeys \ {f}
    /\ UNCHANGED <<groupVars, pc, cur, urlKeys, countVars, rows, processed,
                   crashes, fates>>

(* created_at of a row falls behind the retention window; only a janitor   *)
(* that runs tells the difference.                                         *)
Age(f) ==
    /\ CleanupEnabled /\ CleanupRetentionDays > 0
    /\ rows[f] = "fresh"
    /\ rows' = [rows EXCEPT ![f] = "old"]
    /\ UNCHANGED <<groupVars, pc, cur, redisVars, countVars, processed,
                   crashes, fates>>

(* The cron of a running processor deletes the rows older than the window. *)
(* (A failed DELETE changes nothing.)                                      *)
runOnce ==
    /\ CleanupEnabled /\ CleanupRetentionDays > 0
    /\ Up # {}
    /\ \E f \in Fps : rows[f] = "old"
    /\ rows' = [f \in Fps |-> IF rows[f] = "old" THEN "absent" ELSE rows[f]]
    /\ UNCHANGED <<groupVars, pc, cur, redisVars, countVars, processed,
                   crashes, fates>>

-----------------------------------------------------------------------------
Handler(w) ==
    \/ IsURLCrawled(w)
    \/ IsDuplicate(w)
    \/ CheckCap(w)
    \/ Upsert(w)
    \/ Bump(w)
    \/ Publish(w)
    \/ PublishToDLQ(w)
    \/ Commit(w)

Worker(w) == Start(w) \/ BootCount(w) \/ Fetch(w) \/ Handler(w)

Refresher(w) == RefreshRead(w) \/ RefreshStore(w)

Next ==
    \/ \E w \in Workers : Worker(w) \/ Refresher(w) \/ Crash(w)
    \/ Deliver
    \/ GroupRebalance
    \/ \E u \in URLs : ExpireURL(u)
    \/ \E f \in Fps : ExpireFp(f) \/ Age(f)
    \/ runOnce

Spec == Init /\ [][Next]_vars

(* A stopped process is restarted, a running one keeps running, the group  *)
(* coordinator finishes a rebalance, the refresher's ticker and the cron   *)
(* keep firing.  Nothing is assumed of the crawler, of key expiry, of the  *)
(* ageing of rows or of failures.                                          *)
Fairness ==
    /\ \A w \in Workers : WF_vars(Worker(w)) /\ WF_vars(Refresher(w))
    /\ WF_vars(GroupRebalance)
    /\ WF_vars(runOnce)

FairSpec == Spec /\ Fairness

-----------------------------------------------------------------------------
(* Safety.                                                                 *)

(* No offset is committed over a message whose handling never came to an   *)
(* end: a failed commit is made good by a later one, a rebalance resumes   *)
(* after the committed messages, and a worker that lost its partition may  *)
(* commit late without harm (worker.go: the deferred commit; consumer.go:  *)
(* CommitInterval 0).                                                      *)
CommittedHandled ==
    \A p \in Partitions : \A i \in 1 .. committed[p] : <<p, i>> \in Handled

(* Some message has claimed URL u: it is still in a worker's hands, or it  *)
(* came to an end of its own after the claim.                              *)
UrlClaimed(u) ==
    \/ \E j \in Spent : URL(j) = u
    \/ \E w \in Workers : HoldsURL(w) /\ URL(cur[w]) = u

FpClaimed(f) ==
    \/ \E j \in SpentContent : Page(j) = f
    \/ \E w \in Workers : HoldsContent(w) /\ Page(cur[w]) = f

(* A message is dropped as "url already processed" only if a message with  *)
(* that URL claimed it.  In particular a Redis error never drops a message *)
(* (worker.go: "proceeding without dedup"), nor does an expired key.       *)
UrlSkipJustified == \A id \in fates["dupURL"] : UrlClaimed(URL(id))

(* The same for "duplicate content": a message with the same fingerprint   *)
(* is being stored or has been disposed of.                                *)
ContentSkipJustified == \A id \in fates["dupContent"] : FpClaimed(Page(id))

(* While Redis answers, two workers never store the same posting at the    *)
(* same time, redelivery after a rebalance included (dedup.go: "SETNX ...  *)
(* is atomic - safe for multiple concurrent workers").                     *)
ExclusiveUpsert ==
    "redisError" \notin Faults =>
        \A v, w \in Workers :
            /\ v # w
            /\ pc[v] \in {"cap", "upsert"}
            /\ pc[w] \in {"cap", "upsert"}
            => Page(cur[v]) # Page(cur[w])

(* The counter that enforces the cap misses only rows inserted while a     *)
(* refresh was under way, by other processes, or by an Upsert that         *)
(* reported an error: counting updates too, storing a snapshot over newer  *)
(* increments and deleting rows never lose another one.                    *)
CounterCoversRows ==
    MaxTotalJobs > 0 =>
        \A w \in Workers : Cardinality(Stored \ unseen[w]) <= jobCount[w]

(* Two messages are of one posting: they are the same, or their pages hash *)
(* to the same fingerprint.  (Pages that cannot be read have none.)        *)
SamePosting(k, j) == k = j \/ (Page(k) = Page(j) /\ Page(k) \in Fps)

(* The posting of message id is in good hands: a message with its URL, or  *)
(* one of the same posting as such a message, was saved, went to the DLQ,  *)
(* or is with a worker that will do the one or the other.                  *)
Kept(id) ==
    \E j \in Produced :
        /\ URL(j) = URL(id)
        /\ \/ \E k \in fates["saved"] \cup fates["dlq"] : SamePosting(k, j)
           \/ \E w \in Workers : HoldsURL(w) /\ SamePosting(cur[w], j)

(* Instances without the failures that cost a posting: no process stops in *)
(* mid-message, the DLQ accepts messages, no SETNX reply is lost, and no   *)
(* cap is set.  Redis, Upsert, Publish and commits may still fail.         *)
Benign ==
    /\ MaxTotalJobs = 0
    /\ Faults \cap {"crash", "dlqError", "replyLost"} = {}

(* Offsets only advance over postings that are kept (consumer.go: "offsets *)
(* only advance after successful processing").  True of Benign instances;  *)
(* false after a crash.                                                    *)
CommittedKept ==
    \A p \in Partitions : \A i \in 1 .. committed[p] : Kept(<<p, i>>)

(* The processor implements the contract of a consumer of its topic: it    *)
(* commits only what it has handled.                                       *)
Contract == INSTANCE AtLeastOnce WITH handled <- Handled

ImplementsAtLeastOnce == Contract!Spec

-----------------------------------------------------------------------------
(* Liveness, under Fairness.                                               *)

(* Every message of the topic is eventually handled, though workers crash, *)
(* partitions move and commits fail.                                       *)
EveryMessageHandled ==
    \A id \in Id : (id \in Produced) ~> (id \in Handled)

(* A worker at its cap while the table is below it takes inserts again     *)
(* (worker.go: "This is self-healing - once the retention cron drops the   *)
(* count below the cap, inserts resume on the next refresh").              *)
CapSelfHeals ==
    \A w \in Workers :
        (atCap(w) /\ Cardinality(Stored) < MaxTotalJobs)
            ~> (~atCap(w) \/ Cardinality(Stored) >= MaxTotalJobs \/ pc[w] = "down")

=============================================================================
