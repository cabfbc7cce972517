----------------------------- MODULE MCCrawler -----------------------------
(* Small instances of Crawler for TLC. *)
EXTENDS Crawler, TLC

CONSTANTS w1, p1, s1, s2, l1, l2, d1, d2, d3, o1, o2

(* l1 is the listing page of s1, l2 that of s2. *)
Pages == s1 :> {l1} @@ s2 :> {l2}

Hosts == [u \in URLs |-> IF u = l2 THEN o2 ELSE o1]

(* l1 links to three postings; a listing without links is no error. *)
ThreeLinks == [u \in URLs |-> IF u = l1 THEN <<d1, d2, d3>> ELSE <<>>]

(* A message that is no task, and a task of the release before CrawlType. *)
Strays == {[type |-> "garbled", source |-> s1, url |-> l1],
           [type |-> "", source |-> s1, url |-> d1]}
NoStrays == {}

=============================================================================
