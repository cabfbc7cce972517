--------------------------- MODULE ConsumerGroup ---------------------------
(***************************************************************************)
(* One Kafka topic and the consumer group that reads it, as the workers    *)
(* see both through pkg/kafka/consumer.go.  Messages of a partition are    *)
(* numbered from 1; committed[p] is how many of them the group has         *)
(* committed, position[p] how many the present owner of p has fetched.     *)
(*                                                                         *)
(* The reader is configured with CommitInterval 0 and StartOffset          *)
(* FirstOffset: nothing is committed behind a worker's back and a group    *)
(* without commits starts at the first message.                            *)
(***************************************************************************)
EXTENDS Naturals, Sequences

CONSTANTS
    Workers,     \* the processes that may join the group
    Partitions,  \* the partitions of the topic
    Messages,    \* what producers may put on the topic
    MaxLen,      \* bound: messages per partition
    None         \* no worker, no message in hand, no pending value

ASSUME GroupAssumption ==
    /\ MaxLen \in Nat
    /\ None \notin Workers
    /\ None \notin Nat
    /\ None \notin Partitions \X Nat

VARIABLES
    log,        \* log[p]: the messages written to partition p
    committed,  \* committed[p]: messages of p the group has committed
    position,   \* position[p]: messages of p its owner has fetched
    owner,      \* owner[p]: the worker p is assigned to, or None
    rejoin      \* a member joined or left and the group has not rebalanced

groupVars == <<log, committed, position, owner, rejoin>>

(* A message is known by its partition and its number. *)
Id == Partitions \X (1 .. MaxLen)

Produced == {id \in Id : id[2] <= Len(log[id[1]])}

MessageAt(id) == log[id[1]][id[2]]

GroupTypeOK ==
    /\ log \in [Partitions -> Seq(Messages)]
    /\ \A p \in Partitions : Len(log[p]) <= MaxLen
    /\ committed \in [Partitions -> Nat]
    /\ position \in [Partitions -> Nat]
    /\ owner \in [Partitions -> Workers \cup {None}]
    /\ rejoin \in BOOLEAN

GroupInit ==
    /\ log = [p \in Partitions |-> <<>>]
    /\ committed = [p \in Partitions |-> 0]
    /\ position = [p \in Partitions |-> 0]
    /\ owner = [p \in Partitions |-> None]
    /\ rejoin = FALSE

(* A producer appends a message.  The writer balances by bytes, so any     *)
(* partition may receive it.                                               *)
Produce(p, m) ==
    /\ Len(log[p]) < MaxLen
    /\ log' = [log EXCEPT ![p] = Append(@, m)]
    /\ UNCHANGED <<committed, position, owner, rejoin>>

Join ==
    /\ rejoin' = TRUE
    /\ UNCHANGED <<log, committed, position, owner>>

Leave(w) ==
    /\ owner' = [p \in Partitions |-> IF owner[p] = w THEN None ELSE owner[p]]
    /\ rejoin' = TRUE
    /\ UNCHANGED <<log, committed, position>>

RebalanceFromEnd(members) ==
    /\ rejoin
    /\ rejoin' = FALSE
    /\ owner' \in [Partitions -> IF members = {} THEN {None} ELSE members]
    /\ position' = [p \in Partitions |-> Len(log[p])]
    /\ UNCHANGED <<log, committed>>

RebalanceForgetsOffsets(members) ==
    /\ rejoin
    /\ rejoin' = FALSE
    /\ owner' \in [Partitions -> IF members = {} THEN {None} ELSE members]
    /\ committed' = [p \in Partitions |-> 0]
    /\ position' = [p \in Partitions |-> 0]
    /\ UNCHANGED log

RebalanceKeepsPosition(members) ==
    /\ rejoin
    /\ rejoin' = FALSE
    /\ owner' \in [Partitions -> IF members = {} THEN {None} ELSE members]
    /\ UNCHANGED <<log, committed, position>>

(* A new generation: every partition gets some member, and reading resumes *)
(* after the committed messages, whatever the former owner had fetched.    *)
Rebalance(members) ==
    /\ rejoin
    /\ rejoin' = FALSE
    /\ owner' \in [Partitions -> IF members = {} THEN {None} ELSE members]
    /\ position' = committed
    /\ UNCHANGED <<log, committed>>

FetchMessageAutoCommit(w, p) ==
    /\ owner[p] = w
    /\ position[p] < Len(log[p])
    /\ position' = [position EXCEPT ![p] = @ + 1]
    /\ committed' = [committed EXCEPT ![p] = position[p] + 1]
    /\ UNCHANGED <<log, owner, rejoin>>

(* w receives the next message of p, which becomes <<p, position'[p]>>.    *)
FetchMessage(w, p) ==
    /\ owner[p] = w
    /\ position[p] < Len(log[p])
    /\ position' = [position EXCEPT ![p] = @ + 1]
    /\ UNCHANGED <<log, committed, owner, rejoin>>

(* The broker stores the offset it is sent: also from a worker that has    *)
(* lost the partition in the meantime, also when it lies behind the stored *)
(* one.                                                                    *)
CommitMessages(id) ==
    /\ committed' = [committed EXCEPT ![id[1]] = id[2]]
    /\ UNCHANGED <<log, position, owner, rejoin>>

=============================================================================
