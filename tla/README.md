# TLA+ models of jobcrawler

jobcrawler crawls job boards. Four kinds of processes work on Kafka topics, a
Redis and a PostgreSQL that they share:

```
scheduler --LISTING--> crawl.queue --> crawler --> jobs.raw --> processor --> jobs table, jobs.processed
                          ^               |                        |                |
                          +----DETAIL-----+                        +--> Redis keys  +--> API (cache, rate limit)
                                   errors of crawler and processor --> jobs.failed (DLQ)
```

This directory holds TLA+ modules that model the parts of the program in which
processes interleave, fail and restart, the TLC configurations that check them
on small instances, and TLAPS proofs that extend the central results to every
instance. `PROJECT.json` maps each definition to the lines it models.

## Inventory

| Component | State | Operations | Hard behaviour | What makes it correct |
|---|---|---|---|---|
| Kafka consumer group (`pkg/kafka`) | log, committed offset and position per partition, assignment | fetch, commit, produce, join, leave, rebalance | redelivery, late commits of evicted workers | offsets pass only handled messages |
| Processor worker (`internal/processor`) | message in hand, live job counter; shared: dedup keys, jobs table | `processMessage`, `refreshCount`, DLQ, commit | two workers with one message, SETNX whose reply is lost, stop between claim and save, snapshot of the count stored over newer increments | nothing dropped without reason, one writer per posting, counter covers rows, everything handled in the end |
| Job repository, write side | rows by fingerprint with their age | `Upsert`, `Count`, `DeleteOlderThan` | error after effect | see processor |
| Janitor (`internal/janitor`) | none (cron) | `runOnce` | races the counter | the cap heals |
| Scheduler (`internal/scheduler`) | batches under way | `EnqueueSource` | batch partly written, overlapping runs | listings reach the topic or the error is logged |
| Crawler worker (`internal/crawler`) | message in hand, batch of detail URLs, robots cache | `processMessage`, `fanoutListing` | reads and writes one topic; batch cut short; crash inside it | a committed task is forwarded in full or accounted for; every posting is crawled |
| Robots checker, HTTP client (`pkg/httputil`) | cache per origin | `IsAllowed`, `Get` | fail open on errors | forbidden paths are not fetched |
| Rate limiter (`pkg/redis`) | sorted set per key | `Allow` | pipeline is no transaction, old time stamps | overshoot bounded |
| API process (`cmd/api`, `pkg/shutdown`, `internal/handler`) | stage of main, pools, server, hooks | boot, serve, signal, hooks, deadline | hooks run at once while requests are in flight, hanging hooks | shutdown ends, drains; Redis is optional |
| Cached job service (`internal/service`) | cache entries with TTL | `Search`, `GetByID`, `GetStats`, `Invalidate` | readers that fill the cache with what they read before a change | staleness bounded, deleted jobs leave the cache |
| Topic provisioning (`pkg/kafka/admin.go`) | topics | `CreateTopics` | all binaries at once, topics created in part | nothing used before it exists, a failed start is made good |
| Parsers and normalizer (`internal/crawler`, `internal/processor`) | none (pure) | `ParseListing`, `ParseDetail`, five normalisers | fallbacks for pages that look different | no link lost or made up |
| Search (`internal/handler`, `internal/service`, `internal/repository`) | none of its own: the table, and one cache entry per page | query parameters, cache read, count, page, cache write | two statements on a table that changes; pages of one search cached at different times; three places that bound the page size | a page is what it says, fresh pages together hold every match |
| Alert matcher | none | `FindMatchingAlerts`, `NotifyMatches` | a second implementation of the search filter; not wired: `cmd/processor` passes nil | picks at least what search finds |
| Config, logging, tracing, metrics, migrations | none that other parts depend on | plumbing | - | - |

## Modules

| Module | Models |
|---|---|
| `ConsumerGroup` | one topic and its consumer group: `log`, `committed`, `position`, `owner`, `rejoin` |
| `AtLeastOnce` | abstract: a consumer commits only what it has handled |
| `Processor` | processor workers, janitor, dedup keys and the jobs table, on `ConsumerGroup` |
| `Scheduler` | the producer of crawl.queue, on `ConsumerGroup` |
| `Crawler` | scheduler and crawler workers composed on one topic, extends `Scheduler` |
| `RateLimiter` | one key of the sliding-window limiter and its callers |
| `ApiServer` | one API process from start-up to exit, with requests in flight |
| `CachedJobs` | the cache-aside reads, the cache and the age of what is in it |
| `Topics` | provisioning of the topics by every binary that uses them |
| `Pipeline` | scheduler, crawlers and processors composed over both topics, from a cold start; extends `Crawler` and `Topics`, instantiates `Processor` |
| `Postings` | parsers and normalizer as operators |
| `JobSearch` | the table between its writers and a client that pages through a search, the cache in between, and the alert matcher's filter; extends `Postings` |
| `MC...` | small instances for TLC |
| `...Proofs` | theorems and their proofs |

**ConsumerGroup.** A message is a pair of partition and number. `Produce` may
use any partition: the writer's `LeastBytes` balancer ignores keys (the comment
at `scheduler.go:107` expects otherwise). `Rebalance` models the coordinator:
any assignment to the members that are up, reading resumes at the committed
offset. `CommitMessages` stores what it is sent, also from a worker that has
lost the partition and also backwards, which is the weakest behaviour a broker
may show.

**Processor.** `pc[w]` is the store access worker `w` stands at; there is one
action per access of `processMessage`: `IsURLCrawled`, `IsDuplicate`,
`CheckCap`, `Upsert`, `Bump`, `Publish`, `PublishToDLQ`, `Commit`. Local
computation (unmarshalling, `ParseDetail`, normalising) belongs to the access
before it. A page is abstracted to the fingerprint its posting hashes to, or
`Unparsable`, or `Garbled`. `SetNX` gives the outcomes of Redis through a client
that resends: new, taken, error with or without effect, and "taken" by the
client's own lost first attempt. An Upsert error may come after its effect. The
refresher's read and store are two actions. `Crash` stands for a kill and for
SIGTERM: `main` cancels the context that every access uses, the DLQ's and the
commit's too. `fates`, `unseen` and `since` are history variables, read by no
guard. Keys do not expire under a handler that has just set them
(`ExpireURL`, `ExpireFp`): they live for a day and for a week. A failed `Count`
of the refresher and a failed `DELETE` change nothing and have no step.

**Scheduler, Crawler.** A page is its URL; `Links[u]` is what `ParseListing`
finds in it. A `PublishBatch` is written message by message (`WriteListing`,
`WriteDetail`), each to any partition, perhaps twice after a lost
acknowledgement, and may stop in the middle (`DropListing`, `FanoutFailed`,
`Crash`). `IsAllowed` asks about "/" as the code does, keeps the cache per origin
and fails open. `Get` is the outcome of the HTTP client with its retries.
Statistics are no-ops in `cmd/crawler`, and so is the limiter at present; its
failure is a step all the same.

**RateLimiter.** The commands of the pipeline are actions of their own, because
`Pipeline()` is not a transaction; EXPIRE is merged with the ZADD before it.
Time is kept as ages, which stop at `MaxAge`, where no call can tell
them apart. Calls have identities: the collision of two members made from the
clock is not modelled. Requests that pass because Redis failed are not counted
as allowed.

**ApiServer.** main's stages with `connectWithRetry`, the server's goroutine,
the signal (which kills the process while nobody listens for it), one goroutine
per hook, the deadline, and the request path rate limit - cache - database.
"job" requests stand for the three endpoints. What is cached is left open here.

**CachedJobs.** An answer is known by its age: 0 while the table still says the
same, then 1 and one more for each tick since the statement that changed the
table. So a stored age is a relation between the cache and the table, and no
contents are needed. A request is a `CacheGet`, a `Query`, for searches and
statistics a `QueryMore` (count and page, or the other aggregates, are further
statements), and a `CacheSet`; each may fail, and none succeeds after the
request's deadline (a SET under way at the deadline ends with the client's read
and write timeouts; `Timeout` is to be read as including them). An answer made
of several statements is as old as the first.
`Write` is any `Upsert` or `DeleteOlderThan`; which jobs there are is kept, so
that `GetByID` finds a row or not, and for how long a deleted one has been gone
(`gone`, history that no guard reads, counted up to `Forgetting`). `Invalidate` removes one entry per step, as
its DELs and its SCAN do, between the steps of readers.

**Topics, Pipeline.** A binary reads which topics exist, then asks for the
missing ones; meanwhile others may have created them, and a request may create
some and fail for others, after which the process exits and is started again.
Nothing works before its process is `Ready`. In `Pipeline` the crawlers' half is
`Crawler` with its own variables and the processors' half an instance of
`Processor`; they meet in `PublishPage`, which joins the crawler's `PublishRaw`
with a `Produce` on jobs.raw.

**Postings, JobSearch.** Texts are sequences of the parts that the code's
patterns tell apart; a page is its links, or its selectors' texts and JSON-LD
entities. `ParseListing` is the code's pass over the links, written as a
recursive function (`Targets`): a link of the wanted kind is appended unless its
target has been seen. `JobSearch` turns such pages into rows (`Discover`, `Store`:
parse, normalise, `Upsert` with the columns it leaves alone) and lets one client
ask for pages: `JobHandler.Search`'s parameters, then `CachedJobService.Search`:
a cache read under a key made of the whole filter (`CacheHit`, `CacheMiss`), the
count, the page with its order, limit and offset, and the write to the cache,
which may fail. Rows may come and go between any two of these. `Store` is one
step with or without effect: an Upsert that errors may be either, and what
becomes of its message is `Processor`'s subject, as are the dedup keys; a page
seen again reaches the table. Several pages may be pending at once, for any
number of processors. `created[i]` is `NOW()` at the insert, which two rows may
share; the janitor deletes by it. Order among rows that the sort column does not
tell apart is left open, as SQL does.

What an answer is worth is kept as its age: fresh while the table is as the
count found it, old once it has changed, torn if it changed before the page was
read. `age` is that of the answer in hand, every entry of the cache has its own,
and `Changed` ages them with every write; `age`, `moved` and `shown` are history
that no guard reads. Entries expire at any moment (`Expire`), so the model has
pages of every mixture of ages that the minute of `TTLCacheSearch` allows, and
more. One client stands for all: it may close a search and open another, and
whatever others leave in the cache it could have left there itself.

The matcher's filter is a pair of operators (`matchesFilter`,
`FindMatchingAlerts`) beside search's. `NotifyMatches` is left out: no binary
runs it, it drops the errors of its publishes, and a stop or an error between
the Upsert and it loses the notification, so it has no promise to check.

## Runs

`tlc -config <run>.cfg <module>`.

| Run | Checks | Instance |
|---|---|---|
| `processor_dedup` | `TypeOK`, `CommittedHandled`, `UrlSkipJustified`, `ContentSkipJustified`, `ImplementsAtLeastOnce` | 2 workers, 2 messages, one posting under two URLs and an unparsable page, Redis, Upsert and DLQ failures, 1 crash |
| `processor_kept` | `CommittedKept`, `ExclusiveUpsert` | 2 workers, 2 messages of five kinds, Upsert, publish and commit failures |
| `processor_live` | `CounterCoversRows`, `EveryMessageHandled`, `CapSelfHeals` | 1 worker, cap 1, janitor, 2 postings, count errors, 1 crash and restart; fair |
| `processor_crash_loss` | `CommittedKept` is violated | 1 worker, 1 message, 1 crash |
| `crawler_forward` | `TypeOK`, `CommittedForwarded`, `DetailsLinked`, `ImplementsAtLeastOnce` | 1 worker, every failure, stray messages, a denied origin, a malformed URL, 3 links cut to 2, 1 crash |
| `crawler_robots` | `RobotsRespected` is violated | 1 worker, one forbidden page |
| `pipeline_cold` | `ProvisionedBeforeUse`, `PostingsKept`, `LinksFollowed`, `EveryPostingStored`, `EveryPostingCrawled` | scheduler, 1 crawler, 1 processor, no topics at first; a listing with 3 links, 2 of them one posting and 1 unreadable; 1 failed start, 1 crash of the crawler; fair |
| `limiter_window` | `TypeOK`, `OvershootBounded` | 2 callers, limit 2, window 2, delay 1, 5 calls, failures |
| `api_stop` | `TypeOK`, `ExitDrained`, `RedisOptional`, `ShutdownEnds`, `BootEnds` | 2 requests, 3 attempts, every failure; fair |
| `api_closed` | `ShutdownServes` is violated | 1 request |
| `cache_stale` | `TypeOK`, `StalenessBounded`, `ForgottenInTime` | 2 requests, 1 job, 1 filter, TTLs of 1 and 2 ticks, deadline 1, failures of both stores |
| `search_pages` | `TypeOK`, `ListingComplete`, `PageHonest`, `PagesComplete`, `AlertsNotNarrower` | listings of up to 3 links to 4 URLs, pages in several versions, 4 queries, 6 alerts, at most 2 rows a page, 2 cached answers |

What they show:

- A message is never committed unhandled, in spite of redelivery, late commits
  and crashes, and both workers implement the same abstract contract.
- A message is skipped as a duplicate only if some message claimed its key; an
  error of Redis never skips one.
- `processor_crash_loss`: the claim outlives the worker. The redelivered message
  is its own duplicate and its posting is lost, although `consumer.go:44` says
  that offsets only advance after successful processing. `CommittedKept` holds
  when no process stops in mid-message and the DLQ works (`Benign`). For the
  same reason a message replayed from the DLQ within a day is skipped.
- The counter behind the cap misses only rows inserted while a refresh was under
  way, by other processes, or by an Upsert that reported an error, and a worker
  at its cap recovers. The cap itself is soft: check, insert and count are three
  steps, every process counts for itself, and a refresh may put back a count from
  before a process's own inserts. But each process fills it at most twice, so the
  table never holds more than twice the cap per process (`CapOverrunBounded`),
  unless the count at start-up failed or an Upsert took effect and reported an
  error.
- A task of crawl.queue that is committed has been forwarded in full, or went to
  the DLQ, was disallowed, or was lost by the DLQ; a batch cut short is never
  taken for a whole one.
- `crawler_robots`: `worker.go:151` asks about "/" for every URL.
- Between the commit of the crawler and the row nothing drops a posting: a
  committed detail task that was not refused or dead-lettered has its page on
  jobs.raw, and the processors' offsets pass that page only when its posting is
  stored, in the DLQ, or with a processor that has claimed it (`PostingsKept`).
  The same from one topic earlier: no link of a committed listing, among its
  first `fanout`, is without a detail task unless the listing itself was refused
  or dead-lettered, and none of those tasks is passed with its posting nowhere
  (`LinksFollowed`).
- From a cold start, binaries in any order, every posting behind a listing ends
  as a row or, if its page cannot be read, in the DLQ: a crawler's crash repeats
  a listing or a page, and the second copy meets the keys of a first that was
  stored. This is for instances in which no other access fails and no processor
  stops; those may cost a posting, as `processor_crash_loss` shows.
- Interleaved pipelines exceed the limit by at most one call per other caller.
- The API's shutdown ends and drains, but its hooks run at the same time
  (`api_closed`: the pool may close under an accepted request).
- No answer was out of date for longer than its TTL plus one request's deadline:
  a slow reader may store what it saw before the change, over a newer entry too,
  and after `Invalidate` as well. The same answer is not stored twice over, so
  the ages of readers do not add up. A deleted job is out of the cache after its
  TTL and one deadline, for as long as it has no row.
- Pages of a search whose two statements saw one table agree with their number,
  size and total, and do so for as long as the cache serves them. Going through
  them shows every match once if all of them still tell of the table as it is,
  from the cache or not, and the sort column tells the matches apart. Neither
  condition can go: a first page from the cache and a second from the table
  repeat and omit rows when the table changed between the two reads, even if
  that was before the client came; `StalenessBounded` limits the difference.
- The matcher's filter is no narrower than search's, for filters without a
  query.

Seen on the way, and not the subject of a run: refused polls are recorded, so
the loop at `crawler/worker.go:312` would starve itself (`rate_limiter.go:55`;
the limiter is not wired in `cmd/crawler`); the probes are behind the rate limit
(`router.go:67`); the default sort column `published_at` is set by no code, so
pages of a default search may repeat and omit rows (`job_repo.go:177`); the
offset of a huge page number wraps (`job_repo.go:174`); the matcher ignores
location and sources and takes any of the tags where the search takes all, so
that it is wider than search although `alert.go:14` calls the two identical; a
notification that fails is not "picked up by the next run"
(`alert_matcher.go:77`), as there is none; `Upsert` does not
take over edits of a posting, which `ttl.go` expects; salaries in JSON-LD are
not parsed; `NormalizeTitle` cuts titles at a hyphen; pages without a title share
one fingerprint; `CreateTopics` relies on kafka-go to pass over topics that exist
already.

**Bounds.** `MaxLen`, `RawMaxLen`, `MaxCrashes`, `MaxExits`, `MaxTicks`, `Calls`,
`MaxDelay`, `MaxEntries` and `maxAttempts` are the only bounds on what may happen; the rest are
sizes of the constants' sets. Two messages per partition let a late commit move
an offset back and a failed commit be made good; two workers make every eviction
and redelivery; one crash is enough for a claim to outlive its owner; three
places on crawl.queue hold a listing and its batch, and in `pipeline_cold` eight
have room for a listing, the part of its batch before the crash and the whole
one after it. Five calls are limit + 2 callers + 1 more than the property needs.
In `cache_stale` a TTL of two ticks is longer than a deadline, so that an entry
may be filled late, expire and be filled again. Three rows on pages of two make
a full and a partial page, two cached answers hold both pages of a search at
different ages, and `MaxInt` 15 lets an offset wrap. `Forgetting`
ends the count of `gone` where `ForgottenInTime` has no more to ask.
Interleavings of two crawlers on their own topic are too many for TLC; the
theorems on `Crawler` hold for every set of workers. The safety results on
`Processor`, `Crawler`, `RateLimiter`, `ApiServer`, `CachedJobs`, `Pipeline`
and `JobSearch` do not depend on these bounds: they are proved (below).
Symmetry is used over workers and callers, in runs without liveness only.

Deadlock is not reported where the system may come to rest: a topic that is full
to its bound and handled, an API process that has exited, listings and clients
that have come to their end. The limiter never stops, and its run checks for
deadlock.

**Fairness.** A worker process is restarted and keeps running (Kubernetes and
compose restart policies), also after a start that failed; the group coordinator
completes a rebalance, tickers and crons fire, the scheduler enqueues every
source as it starts, goroutines are scheduled, deadlines pass. Nothing is assumed
of clients, of failures, of expiry of the dedup keys, of signals or of hooks that hang. Only weak fairness is used.

## Proofs

`tlapm <module>.tla`. All theorems hold for every number of workers, partitions,
messages, callers and every set of failures.

| Theorem | Argument |
|---|---|
| `ProcessorProofs!TypeCorrect` | `TypeOK` and `StageOK`: what each `pc` implies about the page in hand |
| `ProcessorProofs!CommitsOnlyHandled` | `OffsetsOK`: every fetched message below a position is handled or the one in its owner's hands; a message at "commit" and all below it are handled |
| `ProcessorProofs!ProcessorRefines` | the steps map to `Produce`, `Handle`, `Commit` or stuttering, from the same invariant |
| `ProcessorProofs!SkipsJustified` | `ClaimsOK`: every live key, of URL or content, has a claimant |
| `ProcessorProofs!UpsertsExclusive` | `ExclusiveOK`: without Redis errors a worker past the content check is the only one with its fingerprint, whose key is alive |
| `ProcessorProofs!BenignKeeps` | `NothingLost`: in a `Benign` instance every live key, and every end, leads to a posting that is kept |
| `ProcessorProofs!CounterCovers` | `CounterOK`: the same bound for the refresher's snapshot |
| `ProcessorProofs!CapOverrun` | `CapOK`: each process has two slots per row of the cap, one for its counter and one for a refresh under way; a slot is open while its insert may still come, and rows plus open slots never exceed all slots. An insert closes one, a count that is read takes as many out as there are rows, storing it maps its slots one to one onto the counter's |
| `ProcessorProofs!SavedStays` | `SavedStored`: the fingerprint of a message that was saved has a row; without a janitor no step empties one |
| `CrawlerProofs!TypeCorrect` | direct |
| `CrawlerProofs!CommitsOnlyForwarded` | `ForwardOK`: the part of a batch that is no longer to do is on the topic; ends imply forwarding |
| `CrawlerProofs!DetailsAreLinked` | batches consist of links of the listing in hand |
| `CrawlerProofs!CrawlerRefines` | as for the processor |
| `RateLimiterProofs!TypeCorrect` | direct |
| `RateLimiterProofs!OvershootIsBounded` | `BoundOK`: calls allowed within the window are recorded in the set or about to be answered; counts those that passed the check before being recorded, at most one per caller |
| `CachedJobsProofs!TypeCorrect` | direct |
| `CachedJobsProofs!AnswersFresh` | `SeenOK`: what a request holds is no older than the request; `AgeOK`: an entry's age and the life it has left add up to no more than TTL plus deadline, which a tick keeps, as it adds to one what it takes from the other |
| `CachedJobsProofs!ForgetsInTime` | `GoneOK`: what is held of a job without a row, in the cache or by a request, is older than the job has been gone; with `AgeOK` nothing of that age is left after TTL and deadline |
| `ApiServerProofs!TypeCorrect` | `StageOK`: an attempt is left while main connects |
| `ApiServerProofs!CleanExitDrains` | `DrainOK`: once the server's hook has begun the server is closed for good, so requests only become fewer; when it has returned before the deadline there are none |
| `ApiServerProofs!RedisNeverFatal` | with `StageOK`: a pool that is closed stays closed, as only a shutdown closes it |
| `PipelineProofs!PipelineCrawls`, `PipelineProcesses` | every step of the pipeline is a step of one half, of both (`PublishPage`), or of neither |
| `PipelineProofs!Provisioned` | `TopicsOK`: topics are never deleted, a binary about to create some has every other in front of it, and one that is ready saw all of them exist |
| `PipelineProofs!EndToEnd` | `HandedOver`: a page in `raw` has a message on jobs.raw; the rest is `CommitsOnlyForwarded` of the one half and `BenignKeeps` and `SavedStays` of the other, through the two theorems above |
| `PipelineProofs!ListingsFollowed` | `CommitsOnlyForwarded` puts the detail tasks of a committed listing on the topic, `EndToEnd` says what has become of those that are committed |
| `JobSearchProofs!TypeCorrect` | `TableOK`: rows are jobs under some URL, one per fingerprint; `CacheOK` and `ClientOK`: each entry, and the answer in hand, is an `AnswerOK` to its filter; `ClientOK` also has what each stage implies of filter and count |
| `JobSearchProofs!PagesHonest` | `AnswerOK`: an answer that is not torn is honest, one that is fresh is what the table gives now (`Current`). A write to the table costs answers their freshness only (`AnswerAged`); without one they keep all (`AnswerKept`). What is left is `SelectAnswers`: an undisturbed count is the number of matches, an order has each match once, limit and offset cut a piece of it, and `LastPage`: page k has something left for it just if k is at most the number of pages |
| `JobSearchProofs!AllShown` | `WalkOK`: what was shown is the beginning of every order the search has, as long as the pages so far; a fresh answer, from the cache or not, is the next piece (`WalkShow`), as its key is the whole filter (`KeyIsFilter`); `OneOrder`: if the column tells the matches apart there is only one |
| `JobSearchProofs!ListingsComplete` | `PassedOK`: after i links the pass holds the targets of the wanted links among them, each once, in the order of their first appearance; carried from i to i + 1 (`PassedStep`) and to all i by `CountUp` |
| `JobSearchProofs!AlertsPicked` | criterion by criterion: all of some tags, not none, is one of them, the rest is the same or left out |

`ConsumerGroupProofs` holds the lemmas on the log that both workers' proofs use.
The invariants themselves are not inductive: `CommittedHandled`, for one, says
nothing of positions, from which the next commit comes. The assumptions are the
named `ASSUME`s of the modules (types of the constants, finiteness where
cardinalities are taken); TLC evaluates them in the runs. Two of them say more:
`SearchAssumption` that `Atoi` yields no more than an int, and
`PostingsAssumption` that amounts of money are natural numbers and that there
are no more fingerprints than an int can count. That there are finitely many
workers and processors is needed for `CapOverrun` only, whose bound counts them.

`Kept`, in which `BenignKeeps` is stated, asks for a message of the same posting
(`SamePosting`): pages that cannot be read are nobody's duplicate, and only their
own message can keep them. `EndToEnd` rests on this.

No induction rule can be used with these provers, but a smallest exception can:
`CountUp` takes the smallest number outside of a set that holds 0 and every
successor, and finds that there is none. So what the pass of `ParseListing`
computes is proved for every listing, as the pass is a function on numbers whose
values a set can be defined from. `OneOrder` avoids an induction likewise: where two orders differ, `WFMin` gives the first
place at which they do, each has what the other has there at some later place,
and the keys of the two contradict each other. That `Orders` is not empty, that
is that every finite set can be sorted, is not needed either: `WalkOK` speaks of
every order, and a fresh answer had one (`Current`).

Only model-checked: the liveness properties (`EveryMessageHandled`,
`CapSelfHeals`, `EveryPostingCrawled`, `EveryPostingStored`, `ShutdownEnds`,
`BootEnds`), which need fairness and are out of the prover's reach.
`LinksFollowed` is the safety that stands behind two of them: a posting on its
way to the table is never dropped. Every invariant that a run checks is
stated by a theorem. `SavedStays` and `CapOverrun` are proved and have no run: the
bound of the latter takes more postings than an instance with two processes has
room for.

## Not modelled

- HTML parsing, canonical URLs and external ids (which nothing reads),
  currencies, title case and the truncation of columns: no property depends on
  them.
- What the aggregates of `GetStats` compute: SQL. That they are several
  statements is in `CachedJobs`.
- The HTTP client's three attempts, TLS fingerprinting, headers, redirects: the
  attempts are made in one call and leave no state behind, the rest is I/O. Only
  the outcome of `Get` is modelled. `retry.go` has no caller.
- `realIP`, which picks the limiter's key, and middlewares that only observe.
- `NotifyMatches` of the alert matcher, which no binary runs (above).
- Configuration, logging, tracing, metrics, migrations and the connection of the
  database: plumbing; settings that matter are constants.

## Order of work and what is open

The modules were written along the way of a posting, and each was checked and
proved about before the next: `ConsumerGroup` and `Processor` first, as losing
or doubling postings is the worst the program can do, then `Crawler` with
`Scheduler`, the limiter, the API process and its cache, `Pipeline`, which puts
the workers together, and last `Postings` and `JobSearch`.

Open:

1. `CapOverrunBounded` leaves out instances with a failing count at start-up or
   an Upsert that takes effect and reports an error. With a bound on the number
   of such failures it could be extended by as many rows.
2. `LinksFollowed` and `PostingsKept` are for `Benign` processors without a
   janitor. A crash of a processor really loses postings
   (`processor_crash_loss`); once claim and save change places in the code, the
   condition on crashes should go.
3. The attempts of the HTTP client and the limiter in front of it are outcomes
   here; they deserve steps of their own once the limiter is wired.
