----------------------------- MODULE Scheduler -----------------------------
(***************************************************************************)
(* The scheduler (internal/scheduler), the producer of crawl.queue.  It    *)
(* keeps no state but the batches it is publishing: a cron job per source, *)
(* and every start of the process, sends one LISTING task per listing page *)
(* of the source in one PublishBatch.                                      *)
(*                                                                         *)
(* A batch is not atomic: the writer splits it over partitions, and each   *)
(* part is written, or fails, by itself.  Runs of one source may overlap   *)
(* (cron does not wait for the last one), so owed counts copies.           *)
(***************************************************************************)
EXTENDS ConsumerGroup, Integers

CONSTANTS
    Sources, URLs,
    generateURLs,  \* generateURLs[s]: the listing pages of source s
    Faults,        \* the failures that may happen in this instance
    MaxTicks       \* bound: cron ticks and starts of the scheduler

VARIABLES
    owed,   \* owed[s][u]: LISTING tasks of batches under way, not yet written
    ticks   \* cron ticks and starts so far

schedVars == <<owed, ticks>>

(* domain.CrawlTask.  Garbled stands for a message that is not one. *)
Listing(s, u) == [type |-> "LISTING", source |-> s, url |-> u]
Detail(s, u) == [type |-> "DETAIL", source |-> s, url |-> u]

Task == [type : {"LISTING", "DETAIL", "", "garbled"}, source : Sources, url : URLs]

ASSUME SchedulerAssumption ==
    /\ generateURLs \in [Sources -> SUBSET URLs]
    /\ Messages = Task
    /\ MaxTicks \in Nat

SchedTypeOK ==
    /\ owed \in [Sources -> [URLs -> Nat]]
    /\ ticks \in Nat

SchedInit ==
    /\ owed = [s \in Sources |-> [u \in URLs |-> 0]]
    /\ ticks = 0

(* The cron entry of s fires, or the process starts: EnqueueSource makes   *)
(* the batch.  A source without listing pages is an error and sends none.  *)
EnqueueSource(s) ==
    /\ ticks < MaxTicks
    /\ ticks' = ticks + 1
    /\ owed' = [owed EXCEPT ![s] =
                  [u \in URLs |-> IF u \in generateURLs[s] THEN @[u] + 1 ELSE @[u]]]
    /\ UNCHANGED groupVars

(* A task of a batch is written to some partition.  After a lost           *)
(* acknowledgement the writer sends it again.                              *)
WriteListing(s, u, p) ==
    /\ owed[s][u] > 0
    /\ Produce(p, Listing(s, u))
    /\ \/ owed' = [owed EXCEPT ![s][u] = @ - 1]
       \/ "ackLost" \in Faults /\ UNCHANGED owed
    /\ UNCHANGED ticks

(* A task of a batch could not be written, or the scheduler was stopped;   *)
(* the error is only logged, the next tick sends the source again.         *)
DropListing(s, u) ==
    /\ "publishError" \in Faults
    /\ owed[s][u] > 0
    /\ owed' = [owed EXCEPT ![s][u] = @ - 1]
    /\ UNCHANGED <<groupVars, ticks>>

(* The batch under way goes on. *)
Batch(s) ==
    \E u \in URLs : DropListing(s, u) \/ \E p \in Partitions : WriteListing(s, u, p)

SchedulerStep(s) == EnqueueSource(s) \/ Batch(s)

=============================================================================
