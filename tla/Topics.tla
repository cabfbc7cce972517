------------------------------- MODULE Topics -------------------------------
(***************************************************************************)
(* Topic provisioning (pkg/kafka/admin.go): every binary that talks to     *)
(* Kafka calls CreateTopics before anything else, and exits if that fails, *)
(* to be started again by its supervisor.  Binaries start in any order and *)
(* at the same time, so the topics one of them found missing may exist by  *)
(* the time it asks for them.                                              *)
(***************************************************************************)
EXTENDS Naturals

CONSTANTS
    Binaries,         \* the processes that provision topics
    requiredTopics,
    ProvisionFaults,  \* the failures that may happen in this instance
    MaxExits          \* bound: starts that fail

ASSUME TopicsAssumption ==
    /\ ProvisionFaults \subseteq {"createError"}
    /\ MaxExits \in Nat

VARIABLES
    topics,    \* the topics that exist
    boot,      \* boot[b]: "down", about to "create" topics, or "ready"
    toCreate,  \* toCreate[b]: what b found missing
    exits      \* starts that failed so far

topicVars == <<topics, boot, toCreate, exits>>

TopicsInit ==
    /\ topics = {}
    /\ boot = [b \in Binaries |-> "down"]
    /\ toCreate = [b \in Binaries |-> {}]
    /\ exits = 0

Ready(b) == boot[b] = "ready"

(* The process starts and reads which topics there are.  (If it cannot, it *)
(* exits, which changes nothing.)                                          *)
ReadPartitions(b) ==
    /\ boot[b] = "down"
    /\ LET missing == requiredTopics \ topics
       IN  /\ toCreate' = [toCreate EXCEPT ![b] = missing]
           /\ boot' = [boot EXCEPT ![b] = IF missing = {} THEN "ready" ELSE "create"]
    /\ UNCHANGED <<topics, exits>>

(* The controller creates the topics it was asked for one by one; those    *)
(* that another binary has created since are no error.  If it fails for    *)
(* one of them, others may have been created, and the process exits.       *)
CreateTopicsIgnoresErrors(b) ==
    /\ boot[b] = "create"
    /\ \E new \in SUBSET (toCreate[b] \ topics) :
          /\ topics' = topics \cup new
          /\ \/ toCreate[b] \subseteq topics' /\ exits' = exits
             \/ /\ "createError" \in ProvisionFaults /\ exits < MaxExits
                /\ exits' = exits + 1
          /\ boot' = [boot EXCEPT ![b] = "ready"]
    /\ toCreate' = [toCreate EXCEPT ![b] = {}]

CreateTopics(b) ==
    /\ boot[b] = "create"
    /\ \E new \in SUBSET (toCreate[b] \ topics) :
          /\ topics' = topics \cup new
          /\ \/ /\ toCreate[b] \subseteq topics'
                /\ boot' = [boot EXCEPT ![b] = "ready"]
                /\ UNCHANGED exits
             \/ /\ "createError" \in ProvisionFaults
                /\ exits < MaxExits
                /\ exits' = exits + 1
                /\ boot' = [boot EXCEPT ![b] = "down"]
    /\ toCreate' = [toCreate EXCEPT ![b] = {}]

Provision(b) == ReadPartitions(b) \/ CreateTopics(b)

(* The process is gone. *)
Exit(b) ==
    /\ boot' = [boot EXCEPT ![b] = "down"]
    /\ toCreate' = [toCreate EXCEPT ![b] = {}]
    /\ UNCHANGED <<topics, exits>>

=============================================================================
