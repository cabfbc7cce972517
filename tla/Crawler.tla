------------------------------ MODULE Crawler ------------------------------
(***************************************************************************)
(* The crawler workers (internal/crawler), one per process, reading        *)
(* crawl.queue as one consumer group.  A LISTING task is fetched, parsed   *)
(* and fanned out into DETAIL tasks on the same topic, so the workers are  *)
(* consumers and producers of one log; a DETAIL task is fetched and        *)
(* forwarded to jobs.raw.                                                  *)
(*                                                                         *)
(* A page is its URL; what ParseListing makes of it is the constant Links. *)
(* Every access of processMessage to the outside is a step.  Crawler       *)
(* statistics are a no-op in cmd/crawler and left out.                     *)
(***************************************************************************)
EXTENDS Scheduler

CONSTANTS
    Origins, Origin,   \* Origin[u]: scheme and host of URL u
    Malformed,         \* URLs that url.Parse refuses
    Denied,            \* origins whose robots.txt forbids "/"
    Disallowed,        \* URLs whose own path robots.txt forbids
    Links,             \* Links[u]: the detail URLs ParseListing finds in page u
    Broken,            \* pages whose ParseListing fails
    Registered,        \* sources with a crawler in the registry
    maxFanout,         \* CRAWLER_MAX_LISTING_FANOUT
    Foreign,           \* tasks put on the topic by hand or by an older release
    MaxCrashes         \* bound: worker processes killed or stopped

defaultListingFanout == 50

(* NewCrawlerWorker's correction of the setting. *)
fanout == IF maxFanout <= 0 THEN defaultListingFanout ELSE maxFanout

ASSUME CrawlerAssumption ==
    /\ Origin \in [URLs -> Origins]
    /\ Links \in [URLs -> Seq(URLs)]
    /\ maxFanout \in Int
    /\ Foreign \subseteq Messages
    /\ Faults \subseteq {"ackLost", "publishError", "limitError", "robotsError",
                         "getError", "dlqError", "commitError", "crash"}
    /\ MaxCrashes \in Nat

VARIABLES
    pc,       \* pc[w]: where worker w stands
    cur,      \* cur[w]: the message it has in hand, or None
    todo,     \* todo[w]: detail URLs of its batch not yet written
    robots,   \* robots[w]: origins whose robots.txt it has cached
    raw,      \* URLs whose page was published to jobs.raw
    crashes,  \* processes killed or stopped so far
    fates     \* history: how the handling of a message ended

vars == <<groupVars, schedVars, pc, cur, todo, robots, raw, crashes, fates>>

(* The ends of processMessage; "lost": the DLQ did not take the message. *)
Fate == {"raw", "fanned", "disallowed", "dlq", "lost"}

Handled == UNION {fates[f] : f \in Fate}

Source(id) == MessageAt(id).source
URL(id) == MessageAt(id).url
IsListing(id) == MessageAt(id).type = "LISTING"

Up == {w \in Workers : pc[w] # "down"}

(* The places where a worker works on a task it has unmarshalled. *)
Working == {"limit", "robots", "get", "fanout", "raw"}

TypeOK ==
    /\ GroupTypeOK
    /\ SchedTypeOK
    /\ pc \in [Workers -> {"down", "idle", "limit", "robots", "get", "fanout",
                           "raw", "dlq", "commit"}]
    /\ cur \in [Workers -> Id \cup {None}]
    /\ \A w \in Workers : IF pc[w] \in {"down", "idle"}
                            THEN cur[w] = None
                            ELSE cur[w] \in Produced
    /\ \A w \in Workers : pc[w] \in Working => MessageAt(cur[w]).type # "garbled"
    /\ todo \in [Workers -> SUBSET URLs]
    /\ \A w \in Workers : todo[w] # {} => pc[w] = "fanout"
    /\ robots \in [Workers -> SUBSET Origins]
    /\ raw \subseteq URLs
    /\ crashes \in Nat
    /\ fates \in [Fate -> SUBSET Produced]

Init ==
    /\ GroupInit
    /\ SchedInit
    /\ pc = [w \in Workers |-> "down"]
    /\ cur = [w \in Workers |-> None]
    /\ todo = [w \in Workers |-> {}]
    /\ robots = [w \in Workers |-> {}]
    /\ raw = {}
    /\ crashes = 0
    /\ fates = [f \in Fate |-> {}]

-----------------------------------------------------------------------------
(* Worker w, done with the access it stood at, goes on to l. *)
Goto(w, l) ==
    /\ pc' = [pc EXCEPT ![w] = l]
    /\ UNCHANGED <<cur, crashes>>

(* The handling of w's message ends with fate f. *)
End(w, f) == fates' = [fates EXCEPT ![f] = @ \cup {cur[w]}]

(* The links of listing page u, cut to the first fanout. *)
AllLinks(u) == {Links[u][i] : i \in 1 .. Len(Links[u])}
OneShort(u) == {Links[u][i] : i \in {j \in 1 .. Len(Links[u]) : j < fanout}}
Trimmed(u) == {Links[u][i] : i \in {j \in 1 .. Len(Links[u]) : j <= fanout}}

-----------------------------------------------------------------------------
(* The life of a worker process.  Its robots.txt cache starts empty.       *)
Start(w) ==
    /\ pc[w] = "down"
    /\ Join
    /\ Goto(w, "idle")
    /\ UNCHANGED <<schedVars, todo, robots, raw, fates>>

(* The process is killed or stopped.  Stopping cancels the context of      *)
(* every access, the DLQ's and the commit's too, so nothing is committed.  *)
Crash(w) ==
    /\ "crash" \in Faults
    /\ crashes < MaxCrashes
    /\ crashes' = crashes + 1
    /\ pc[w] # "down"
    /\ Leave(w)
    /\ pc' = [pc EXCEPT ![w] = "down"]
    /\ cur' = [cur EXCEPT ![w] = None]
    /\ todo' = [todo EXCEPT ![w] = {}]
    /\ robots' = [robots EXCEPT ![w] = {}]
    /\ UNCHANGED <<schedVars, raw, fates>>

-----------------------------------------------------------------------------
(* processMessage.                                                         *)

FetchUnchecked(w) ==
    /\ pc[w] = "idle"
    /\ \E p \in Partitions :
          /\ FetchMessage(w, p)
          /\ cur' = [cur EXCEPT ![w] = <<p, position[p] + 1>>]
          /\ pc' = [pc EXCEPT ![w] = "limit"]
    /\ UNCHANGED <<schedVars, todo, robots, raw, crashes, fates>>

(* FetchMessage and the unmarshalling of the task. *)
Fetch(w) ==
    /\ pc[w] = "idle"
    /\ \E p \in Partitions :
          /\ FetchMessage(w, p)
          /\ LET id == <<p, position[p] + 1>>
             IN  /\ cur' = [cur EXCEPT ![w] = id]
                 /\ pc' = [pc EXCEPT ![w] =
                             IF MessageAt(id).type = "garbled" THEN "dlq" ELSE "limit"]
    /\ UNCHANGED <<schedVars, todo, robots, raw, crashes, fates>>

(* The limiter lets the task through (a poll it refuses changes nothing    *)
(* here), or fails.                                                        *)
respectRateLimit(w) ==
    /\ pc[w] = "limit"
    /\ \/ Goto(w, "robots")
       \/ "limitError" \in Faults /\ Goto(w, "dlq")
    /\ UNCHANGED <<groupVars, schedVars, todo, robots, raw, fates>>

(* The robots.txt of the task's origin is asked about "/", whatever the    *)
(* path of the task.  If it cannot be fetched the page is allowed and      *)
(* nothing is cached.  A URL that does not parse is not allowed.  A task   *)
(* that is not allowed is skipped.                                         *)
IsAllowed(w) ==
    /\ pc[w] = "robots"
    /\ LET u == URL(cur[w])
           o == Origin[u]
       IN  \/ /\ u \notin Malformed
              /\ robots' = [robots EXCEPT ![w] = @ \cup {o}]
              /\ IF o \in Denied THEN End(w, "disallowed") /\ Goto(w, "commit")
                                 ELSE UNCHANGED fates /\ Goto(w, "get")
           \/ /\ u \notin Malformed
              /\ "robotsError" \in Faults
              /\ o \notin robots[w]
              /\ UNCHANGED <<robots, fates>>
              /\ Goto(w, "get")
           \/ /\ u \in Malformed
              /\ UNCHANGED robots
              /\ End(w, "disallowed")
              /\ Goto(w, "commit")
    /\ UNCHANGED <<groupVars, schedVars, todo, raw>>

(* httpClient.Get with its retries, and what follows by the type of the    *)
(* task: a listing is parsed into a batch of detail URLs, cut to fanout;   *)
(* anything else goes to jobs.raw.                                         *)
Get(w) ==
    /\ pc[w] = "get"
    /\ LET id == cur[w]
       IN  \/ /\ "getError" \in Faults
              /\ Goto(w, "dlq")
              /\ UNCHANGED todo
           \/ /\ ~IsListing(id)
              /\ Goto(w, "raw")
              /\ UNCHANGED todo
           \/ /\ IsListing(id)
              /\ Source(id) \in Registered /\ URL(id) \notin Broken
              /\ Goto(w, "fanout")
              /\ todo' = [todo EXCEPT ![w] = Trimmed(URL(id))]
           \/ /\ IsListing(id)
              /\ Source(id) \notin Registered \/ URL(id) \in Broken
              /\ Goto(w, "dlq")
              /\ UNCHANGED todo
    /\ UNCHANGED <<groupVars, schedVars, robots, raw, fates>>

(* fanoutListing's PublishBatch: one DETAIL task is written. *)
WriteDetail(w) ==
    /\ pc[w] = "fanout"
    /\ \E u \in todo[w], p \in Partitions :
          /\ Produce(p, Detail(Source(cur[w]), u))
          /\ \/ todo' = [todo EXCEPT ![w] = @ \ {u}]
             \/ "ackLost" \in Faults /\ UNCHANGED todo
    /\ UNCHANGED <<schedVars, pc, cur, robots, raw, crashes, fates>>

(* ... a part of the batch fails: the listing goes to the DLQ, though some *)
(* of its detail tasks may be on the topic.                                *)
FanoutFailedIgnored(w) ==
    /\ "publishError" \in Faults
    /\ pc[w] = "fanout" /\ todo[w] # {}
    /\ todo' = [todo EXCEPT ![w] = {}]
    /\ End(w, "fanned")
    /\ Goto(w, "commit")
    /\ UNCHANGED <<groupVars, schedVars, robots, raw>>

FanoutFailed(w) ==
    /\ "publishError" \in Faults
    /\ pc[w] = "fanout" /\ todo[w] # {}
    /\ todo' = [todo EXCEPT ![w] = {}]
    /\ Goto(w, "dlq")
    /\ UNCHANGED <<groupVars, schedVars, robots, raw, fates>>

(* ... the whole batch is written (or the page had no links). *)
FanoutDone(w) ==
    /\ pc[w] = "fanout" /\ todo[w] = {}
    /\ End(w, "fanned")
    /\ Goto(w, "commit")
    /\ UNCHANGED <<groupVars, schedVars, todo, robots, raw>>

(* The page goes to jobs.raw.  An error may come after it was written. *)
PublishRaw(w) ==
    /\ pc[w] = "raw"
    /\ \/ /\ raw' = raw \cup {URL(cur[w])}
          /\ End(w, "raw")
          /\ Goto(w, "commit")
       \/ /\ "publishError" \in Faults
          /\ raw' \in {raw, raw \cup {URL(cur[w])}}
          /\ Goto(w, "dlq")
          /\ UNCHANGED fates
    /\ UNCHANGED <<groupVars, schedVars, todo, robots>>

(* To jobs.failed; if that fails too the message is lost. *)
publishToDLQ(w) ==
    /\ pc[w] = "dlq"
    /\ \/ End(w, "dlq")
       \/ "dlqError" \in Faults /\ End(w, "lost")
    /\ Goto(w, "commit")
    /\ UNCHANGED <<groupVars, schedVars, todo, robots, raw>>

(* A failed commit is only logged. *)
Commit(w) ==
    /\ pc[w] = "commit"
    /\ \/ CommitMessages(cur[w])
       \/ "commitError" \in Faults /\ UNCHANGED groupVars
    /\ pc' = [pc EXCEPT ![w] = "idle"]
    /\ cur' = [cur EXCEPT ![w] = None]
    /\ UNCHANGED <<schedVars, todo, robots, raw, crashes, fates>>

-----------------------------------------------------------------------------
workerVars == <<pc, cur, todo, robots, raw, crashes, fates>>

Schedule(s) == SchedulerStep(s) /\ UNCHANGED workerVars

(* A task that neither the scheduler nor a worker of this release wrote. *)
Deliver ==
    /\ \E p \in Partitions, m \in Foreign : Produce(p, m)
    /\ UNCHANGED <<schedVars, workerVars>>

GroupRebalance == Rebalance(Up) /\ UNCHANGED <<schedVars, workerVars>>

Handler(w) ==
    \/ respectRateLimit(w)
    \/ IsAllowed(w)
    \/ Get(w)
    \/ WriteDetail(w)
    \/ FanoutFailed(w)
    \/ FanoutDone(w)
    \/ PublishRaw(w)
    \/ publishToDLQ(w)
    \/ Commit(w)

Worker(w) == Start(w) \/ Fetch(w) \/ Handler(w)

Next ==
    \/ \E w \in Workers : Worker(w) \/ Crash(w)
    \/ \E s \in Sources : Schedule(s)
    \/ Deliver
    \/ GroupRebalance

Spec == Init /\ [][Next]_vars

-----------------------------------------------------------------------------
(* Safety.                                                                 *)

(* No offset is committed over a task whose handling never came to an end. *)
CommittedHandled ==
    \A p \in Partitions : \A i \in 1 .. committed[p] : <<p, i>> \in Handled

(* Task m is on the topic. *)
Enqueued(m) == \E id \in Produced : MessageAt(id) = m

(* Page l links to u, among the first fanout links. *)
LinksTo(l, u) == \E i \in 1 .. Len(Links[l]) : i <= fanout /\ Links[l][i] = u

(* What task id asked for has been passed on: its page to jobs.raw, or one *)
(* DETAIL task for each of the first fanout links of its page.             *)
Forwarded(id) ==
    IF IsListing(id)
      THEN \A u \in URLs : LinksTo(URL(id), u) => Enqueued(Detail(Source(id), u))
      ELSE URL(id) \in raw

(* A committed task was passed on in full, went to the DLQ, was skipped,   *)
(* or was lost because the DLQ failed as well.  A crash, a rebalance, a    *)
(* batch cut short or a failed commit never turns into a task that is      *)
(* committed and half done (worker.go: errors go to the DLQ before the     *)
(* commit).                                                                *)
CommittedForwarded ==
    \A p \in Partitions : \A i \in 1 .. committed[p] :
        \/ Forwarded(<<p, i>>)
        \/ <<p, i>> \in fates["dlq"] \cup fates["disallowed"] \cup fates["lost"]

(* A DETAIL task comes from a LISTING task of the same source on the       *)
(* topic, as one of the first fanout links of its page (worker.go:         *)
(* "Bounds the blast radius of a broken selector").  It holds across       *)
(* redelivery: a listing fanned out twice adds no other URLs.              *)
DetailsLinked ==
    \A id \in Produced :
        \/ MessageAt(id).type # "DETAIL"
        \/ MessageAt(id) \in Foreign
        \/ \E l \in Produced : /\ IsListing(l)
                               /\ Source(l) = Source(id)
                               /\ LinksTo(URL(l), URL(id))

(* A page is fetched only if robots.txt allows its path (worker.go: "path  *)
(* disallowed by robots.txt - skipping"; robots.go: "IsAllowed returns     *)
(* true if the given path may be crawled according to the target domain's  *)
(* robots.txt").                                                           *)
RobotsRespected ==
    "robotsError" \notin Faults =>
        \A w \in Workers : pc[w] = "get" => URL(cur[w]) \notin Disallowed

(* The crawler implements the contract of a consumer of its topic. *)
Contract == INSTANCE AtLeastOnce WITH handled <- Handled

ImplementsAtLeastOnce == Contract!Spec

-----------------------------------------------------------------------------
(* Every posting linked from a listing on the topic eventually reaches     *)
(* jobs.raw, by way of a second round through the topic, though workers    *)
(* crash in the middle of a batch and partitions move.  (Under Pipeline's  *)
(* fairness, for instances in which nothing else fails and no page is      *)
(* denied or broken: such tasks end in the DLQ or are skipped.)            *)
EveryPostingCrawled ==
    \A s \in Sources, l, u \in URLs :
        LinksTo(l, u) => (Enqueued(Listing(s, l)) ~> u \in raw)

=============================================================================
