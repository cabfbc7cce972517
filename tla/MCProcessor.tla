---------------------------- MODULE MCProcessor ----------------------------
(* Small instances of Processor for TLC. *)
EXTENDS Processor, TLC

CONSTANTS w1, w2, p1, p2, u1, u2, f1, f2

Symmetry == Permutations(Workers)

(* One posting listed under two URLs, one URL whose page changed, one page *)
(* that does not parse and one message that is not JSON.                   *)
MixedMessages ==
    {[url |-> u1, page |-> f1], [url |-> u2, page |-> f1],
     [url |-> u1, page |-> f2], [url |-> u2, page |-> Unparsable],
     [url |-> u2, page |-> Garbled]}

(* One posting under two URLs, and one that does not parse. *)
TwinMessages ==
    {[url |-> u1, page |-> f1], [url |-> u2, page |-> f1],
     [url |-> u2, page |-> Unparsable]}

OneMessage == {[url |-> u1, page |-> f1]}

(* Postings of their own, for the cap. *)
DistinctMessages ==
    {[url |-> u1, page |-> f1], [url |-> u2, page |-> f2]}

=============================================================================
