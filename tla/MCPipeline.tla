---------------------------- MODULE MCPipeline ----------------------------
(* A small instance of Pipeline for TLC. *)
EXTENDS Pipeline, TLC

CONSTANTS c1, x1, p1, q1, s1, l1, d1, d2, d3, o1, f1, tq, tr

Processes == Workers \cup Processors \cup {scheduler}

(* The listing l1 links to three postings: d1 and d2 are one posting under *)
(* two URLs, the page of d3 cannot be read.                                *)
OnePage == s1 :> {l1}
OneHost == [u \in URLs |-> o1]
Linked == [u \in URLs |-> IF u = l1 THEN <<d1, d2, d3>> ELSE <<>>]
Parsed == [u \in URLs |-> IF u \in {d1, d2} THEN f1 ELSE Unparsable]

NoStrays == {}

===========================================================================
