------------------------ MODULE ConsumerGroupProofs ------------------------
(***************************************************************************)
(* Facts about a topic that the proofs of its consumers share.             *)
(***************************************************************************)
EXTENDS ConsumerGroup, TLAPS

(* Writing a message leaves the messages that are there alone. *)
LEMMA ProduceKeeps ==
    ASSUME GroupTypeOK, NEW p \in Partitions, NEW m \in Messages, Produce(p, m)
    PROVE  /\ GroupTypeOK'
           /\ Produced \subseteq Produced'
           /\ \A id \in Produced : MessageAt(id)' = MessageAt(id)
<1>1. log' = [log EXCEPT ![p] = Append(log[p], m)]
  BY DEF Produce
<1>2. Len(log'[p]) = Len(log[p]) + 1 /\ Len(log[p]) \in Nat /\ Len(log[p]) < MaxLen
  BY <1>1, GroupAssumption DEF Produce, GroupTypeOK
<1>3. \A q \in Partitions : /\ Len(log[q]) \in Nat /\ Len(log'[q]) \in Nat
                             /\ Len(log[q]) <= Len(log'[q]) /\ Len(log'[q]) <= MaxLen
  BY <1>1, <1>2, GroupAssumption DEF GroupTypeOK
<1>4. log' \in [Partitions -> Seq(Messages)]
  BY <1>1 DEF GroupTypeOK
<1>5. GroupTypeOK'
  BY <1>3, <1>4 DEF GroupTypeOK, Produce
<1>6. Produced \subseteq Produced'
  BY <1>3, GroupAssumption DEF Produced, Id
<1>7. ASSUME NEW id \in Produced PROVE MessageAt(id)' = MessageAt(id)
  <2>1. id[1] \in Partitions /\ id[2] \in 1 .. Len(log[id[1]])
    BY <1>3, GroupAssumption DEF Produced, Id
  <2>2. CASE id[1] # p
    BY <2>1, <2>2, <1>1 DEF MessageAt, GroupTypeOK
  <2>3. CASE id[1] = p
    BY <2>1, <2>3, <1>1 DEF MessageAt, GroupTypeOK
  <2>4. QED BY <2>2, <2>3
<1>8. QED BY <1>5, <1>6, <1>7

LEMMA LogKeeps ==
    ASSUME UNCHANGED log
    PROVE  Produced' = Produced /\ \A id : MessageAt(id)' = MessageAt(id)
BY DEF Produced, MessageAt

LEMMA GroupInitType == ASSUME GroupInit PROVE GroupTypeOK
<1>1. <<>> \in Seq(Messages) /\ Len(<<>>) = 0
  OBVIOUS
<1>2. log \in [Partitions -> Seq(Messages)]
  BY <1>1 DEF GroupInit
<1>3. \A p \in Partitions : Len(log[p]) <= MaxLen
  BY <1>1, GroupAssumption DEF GroupInit
<1>4. QED BY <1>2, <1>3 DEF GroupInit, GroupTypeOK

(* A message of the topic, taken apart. *)
LEMMA ProducedParts ==
    ASSUME GroupTypeOK, NEW id \in Produced
    PROVE  /\ id \in Id /\ id[1] \in Partitions /\ id[2] \in Nat
           /\ id[2] \in 1 .. Len(log[id[1]])
           /\ id = <<id[1], id[2]>>
           /\ id # None
           /\ MessageAt(id) \in Messages
<1>1. id \in Id /\ id[1] \in Partitions /\ id[2] \in 1 .. MaxLen /\ id = <<id[1], id[2]>>
  BY DEF Produced, Id
<1>2. id[2] \in 1 .. Len(log[id[1]]) /\ log[id[1]] \in Seq(Messages)
  BY <1>1, GroupAssumption DEF Produced, GroupTypeOK
<1>3. MessageAt(id) \in Messages
  BY <1>2 DEF MessageAt
<1>4. id \in Partitions \X Nat
  BY <1>1, GroupAssumption
<1>5. QED BY <1>1, <1>2, <1>3, <1>4, GroupAssumption

(* The message a worker fetches is one of the topic. *)
LEMMA FetchProduces ==
    ASSUME GroupTypeOK, NEW w, NEW p \in Partitions, FetchMessage(w, p)
    PROVE  /\ GroupTypeOK' /\ UNCHANGED log
           /\ <<p, position[p] + 1>> \in Produced
<1>1. position[p] \in Nat /\ Len(log[p]) \in Nat /\ Len(log[p]) <= MaxLen
  BY DEF GroupTypeOK
<1>2. <<p, position[p] + 1>> \in Produced
  BY <1>1, GroupAssumption DEF FetchMessage, Produced, Id
<1>3. GroupTypeOK'
  BY <1>1 DEF FetchMessage, GroupTypeOK
<1>4. QED BY <1>2, <1>3 DEF FetchMessage

=============================================================================
