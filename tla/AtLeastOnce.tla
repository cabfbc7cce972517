---------------------------- MODULE AtLeastOnce ----------------------------
(***************************************************************************)
(* What a consumer of this system promises its topic: a message is handled *)
(* at least once before the group's offset moves past it.  pkg/kafka says  *)
(* of CommitMessages "Call this only after the message has been fully      *)
(* processed (or sent to DLQ)".  Handling is abstract here: handled grows  *)
(* by messages that exist, in any order and again after a redelivery.      *)
(* Offsets may move backwards (a late commit of an evicted worker), never  *)
(* over a message nobody has handled.                                      *)
(***************************************************************************)
EXTENDS Naturals, Sequences

CONSTANTS Partitions, Messages

VARIABLES log, handled, committed

vars == <<log, handled, committed>>

Init ==
    /\ log = [p \in Partitions |-> <<>>]
    /\ handled = {}
    /\ committed = [p \in Partitions |-> 0]

Produce ==
    /\ \E p \in Partitions, m \in Messages :
          log' = [log EXCEPT ![p] = Append(@, m)]
    /\ UNCHANGED <<handled, committed>>

Handle ==
    /\ \E p \in Partitions : \E n \in 1 .. Len(log[p]) :
          handled' = handled \cup {<<p, n>>}
    /\ UNCHANGED <<log, committed>>

Commit ==
    /\ \E p \in Partitions : \E n \in 1 .. Len(log[p]) :
          /\ \A i \in 1 .. n : <<p, i>> \in handled
          /\ committed' = [committed EXCEPT ![p] = n]
    /\ UNCHANGED <<log, handled>>

Next == Produce \/ Handle \/ Commit

Spec == Init /\ [][Next]_vars

=============================================================================
