-------------------------- MODULE JobSearchProofs --------------------------
(***************************************************************************)
(* Proofs about JobSearch, for any pages, listings, searches, alerts, page *)
(* sizes and sizes of an int.                                              *)
(***************************************************************************)
EXTENDS JobSearch, FiniteSetTheorems, SequenceTheorems, WellFoundedInduction, TLAPS

-----------------------------------------------------------------------------
(* Arithmetic.                                                             *)

(* The smaller of two numbers. *)
LEMMA MinOfTwo ==
    ASSUME NEW a \in Int, NEW b \in Int
    PROVE  Min({a, b}) = IF a <= b THEN a ELSE b
<1>1. \A x \in {a, b} : (\A y \in {a, b} : x <= y) <=> x = IF a <= b THEN a ELSE b
  OBVIOUS
<1>2. (IF a <= b THEN a ELSE b) \in {a, b}
  OBVIOUS
<1>3. QED BY <1>1, <1>2 DEF Min

(* The larger of two numbers. *)
LEMMA MaxOfTwo ==
    ASSUME NEW a \in Int, NEW b \in Int
    PROVE  Max({a, b}) = IF a >= b THEN a ELSE b
<1>1. \A x \in {a, b} : (\A y \in {a, b} : x >= y) <=> x = IF a >= b THEN a ELSE b
  OBVIOUS
<1>2. (IF a >= b THEN a ELSE b) \in {a, b}
  OBVIOUS
<1>3. QED BY <1>1, <1>2 DEF Max

(* What SearchAssumption says of sizes. *)
LEMMA Sizes ==
    /\ MaxInt \in Nat
    /\ MaxPerPage \in Nat \ {0} /\ MaxPerPage <= MaxInt
    /\ DefaultPerPage \in 1 .. MaxPerPage
<1>1. MaxInt \in Nat /\ MaxPerPage \in 1 .. MaxInt /\ DefaultPerPage \in 1 .. MaxPerPage
  BY SearchAssumption
<1>2. QED BY <1>1

(* A number that an int can hold does not wrap. *)
LEMMA NoWrap ==
    ASSUME NEW n \in 0 .. MaxInt
    PROVE  Int64(n) = n
<1>1. MaxInt \in Nat
  BY SearchAssumption
<1>2. \A a, d \in Nat : a < d => a % d = a
  OBVIOUS
<1>3. n + MaxInt + 1 \in Nat /\ 2 * MaxInt + 2 \in Nat /\ n + MaxInt + 1 < 2 * MaxInt + 2
  BY <1>1
<1>4. (n + MaxInt + 1) % (2 * MaxInt + 2) = n + MaxInt + 1
  BY <1>2, <1>3
<1>5. QED BY <1>1, <1>4 DEF Int64

(* A product grows with its factors. *)
LEMMA ProductGrows ==
    ASSUME NEW a \in Nat, NEW b \in Nat, NEW d \in Nat, a <= b
    PROVE  a * d \in Nat /\ b * d \in Nat /\ a * d <= b * d
OBVIOUS

(* A set of natural numbers that is not empty has a least element. *)
LEMMA Least ==
    ASSUME NEW T \in SUBSET Nat, T # {}
    PROVE  \E m \in T : \A n \in T : m <= n
<1> DEFINE R == {ss \in Nat \X Nat : ss[1] < ss[2]}
<1>1. IsWellFoundedOn(R, Nat)
  BY NatLessThanWellFounded DEF OpToRel
<1> HIDE DEF R
<1>2. PICK m \in T : \A n \in T : <<n, m>> \notin R
  BY <1>1, WFMin
<1>3. \A n, k \in Nat : n < k => <<n, k>> \in R
  BY DEF R
<1>4. \A n \in T : ~(n < m) /\ n \in Nat /\ m \in Nat
  BY <1>2, <1>3
<1>5. \A n \in T : m <= n
  BY <1>4
<1>6. QED BY <1>5

(* Counting up from 0: whatever holds of 0, and of a number's successor    *)
(* when it holds of the number, has no smallest exception.                 *)
LEMMA CountUp ==
    ASSUME NEW n \in Nat, NEW T, 0 \in T, \A i \in 0 .. n : i < n /\ i \in T => i + 1 \in T
    PROVE  \A i \in 0 .. n : i \in T
<1> DEFINE Bad == {i \in 0 .. n : i \notin T}
<1>1. SUFFICES ASSUME Bad # {} PROVE FALSE
  OBVIOUS
<1>2. Bad \in SUBSET Nat
  OBVIOUS
<1>3. PICK m \in Bad : \A k \in Bad : m <= k
  BY <1>1, <1>2, Least
<1>4. m \in 0 .. n /\ m \notin T /\ m # 0
  BY <1>3
<1>5. m - 1 \in 0 .. n /\ m - 1 < n /\ m - 1 \notin Bad
  BY <1>3, <1>4
<1>6. m - 1 + 1 \in T
  BY <1>5
<1>7. QED BY <1>4, <1>6

(* The last page is the last that something is left for. *)
LEMMA LastPage ==
    ASSUME NEW n \in Nat, NEW d \in Nat \ {0}, NEW k \in Nat \ {0}
    PROVE  /\ TotalPages(n, d) \in Nat
           /\ k <= TotalPages(n, d) <=> (k - 1) * d < n
<1> DEFINE q == (n + d - 1) \div d
<1>1. n + d - 1 \in Nat /\ k - 1 \in Nat
  OBVIOUS
<1>2. /\ q \in Nat
      /\ q * d <= n + d - 1
      /\ n + d - 1 < q * d + d
  <2>1. \A a \in Nat : /\ a \div d \in Nat
                       /\ (a \div d) * d <= a
                       /\ a < (a \div d) * d + d
    OBVIOUS
  <2>2. QED BY <1>1, <2>1
<1> HIDE DEF q
<1>3. CASE k <= q
  <2>1. (k - 1) * d + d <= q * d
    <3>1. (k - 1) * d + d = k * d
      OBVIOUS
    <3>2. k * d <= q * d
      BY <1>2, <1>3, ProductGrows
    <3>3. QED BY <3>1, <3>2
  <2>2. (k - 1) * d \in Nat /\ q * d \in Nat
    BY <1>1, <1>2, ProductGrows
  <2>3. (k - 1) * d < n
    BY <1>2, <2>1, <2>2
  <2>4. QED BY <1>2, <1>3, <2>3 DEF TotalPages, q
<1>4. CASE ~(k <= q)
  <2>1. q <= k - 1
    BY <1>2, <1>4
  <2>2. q * d \in Nat /\ (k - 1) * d \in Nat /\ q * d <= (k - 1) * d
    BY <1>1, <1>2, <2>1, ProductGrows
  <2>3. ~((k - 1) * d < n)
    BY <1>2, <2>2
  <2>4. QED BY <1>2, <1>4, <2>3 DEF TotalPages, q
<1>5. QED BY <1>3, <1>4

-----------------------------------------------------------------------------
(* Rows.                                                                   *)

(* A row is a job, under any of the URLs its posting was seen at. *)
Row == {[j EXCEPT !.url = u] : j \in Job, u \in URLs}

(* All that searches look at. *)
SameContent(r, j) ==
    /\ r.fp = j.fp /\ r.source = j.source /\ r.title = j.title /\ r.city = j.city
    /\ r.remote = j.remote /\ r.salaryMin = j.salaryMin
    /\ r.description = j.description /\ r.tags = j.tags

Columns == {"fp", "url", "source", "title", "city", "remote", "salaryMin", "salaryMax",
            "description", "tags"}

(* What processMessage makes of a page is a full row under the page's URL. *)
LEMMA JobShape ==
    ASSUME NEW u \in URLs, NEW j \in JobsAt[u]
    PROVE  /\ j \in Job /\ j.url = u /\ DOMAIN j = Columns
           /\ j = [c \in Columns |-> j[c]]
<1>1. PICK page \in PageAt[u] : j = Normalised(u, page)
  BY DEF JobsAt
<1>2. j.url = u /\ DOMAIN j = Columns /\ j = [c \in Columns |-> j[c]]
  BY <1>1 DEF Normalised, Columns
<1>3. QED BY <1>2 DEF Job

(* Every job comes from a page, and has all columns. *)
LEMMA InJob ==
    ASSUME NEW j \in Job
    PROVE  /\ \E u \in URLs : j \in JobsAt[u]
           /\ j.fp \in Fp /\ j.url \in URLs
           /\ DOMAIN j = Columns /\ j = [c \in Columns |-> j[c]]
<1>1. PICK u \in URLs : j \in JobsAt[u]
  BY DEF Job
<1>2. QED BY <1>1, JobShape DEF Fp

(* An UPDATE of the url leaves the content alone. *)
LEMMA UpdatedRow ==
    ASSUME NEW j, DOMAIN j = Columns, j = [c \in Columns |-> j[c]], NEW u
    PROVE  /\ [j EXCEPT !.url = u] = [c \in Columns |-> IF c = "url" THEN u ELSE j[c]]
           /\ SameContent([j EXCEPT !.url = u], j)
           /\ [j EXCEPT !.url = u].url = u
BY DEF SameContent, Columns

(* A row has all columns, and may be given any URL. *)
LEMMA RowShape ==
    ASSUME NEW r \in Row
    PROVE  /\ DOMAIN r = Columns /\ r = [c \in Columns |-> r[c]]
           /\ r.url \in URLs /\ r.fp \in Fp
           /\ r.salaryMin \in Seq(Nat)
           /\ \A u \in URLs : [r EXCEPT !.url = u] \in Row
<1>1. PICK j \in Job, u \in URLs : r = [j EXCEPT !.url = u]
  BY DEF Row
<1>2. DOMAIN j = Columns /\ j = [c \in Columns |-> j[c]] /\ j.fp \in Fp
  BY InJob
<1>3. r = [c \in Columns |-> IF c = "url" THEN u ELSE j[c]] /\ SameContent(r, j) /\ r.url = u
  BY <1>1, <1>2, UpdatedRow
<1>4. DOMAIN r = Columns /\ r = [c \in Columns |-> r[c]]
  BY <1>3
<1>5. ASSUME NEW v \in URLs PROVE [r EXCEPT !.url = v] \in Row
  <2>1. [r EXCEPT !.url = v] = [c \in Columns |-> IF c = "url" THEN v ELSE r[c]]
    BY <1>4, UpdatedRow
  <2>2. [j EXCEPT !.url = v] = [c \in Columns |-> IF c = "url" THEN v ELSE j[c]]
    BY <1>2, UpdatedRow
  <2>3. [r EXCEPT !.url = v] = [j EXCEPT !.url = v]
    BY <1>3, <2>1, <2>2
  <2>4. QED BY <2>3 DEF Row
<1>6. r.salaryMin \in Seq(Nat)
  BY <1>3, PostingsAssumption DEF SameContent
<1>7. QED BY <1>2, <1>3, <1>4, <1>5, <1>6 DEF SameContent

(* A job can be inserted as it is. *)
LEMMA JobIsRow == Job \subseteq Row
<1>1. SUFFICES ASSUME NEW j \in Job PROVE j \in Row
  OBVIOUS
<1>2. DOMAIN j = Columns /\ j = [c \in Columns |-> j[c]] /\ j.url \in URLs
  BY InJob
<1>3. j = [j EXCEPT !.url = j.url]
  BY <1>2, UpdatedRow
<1>4. QED BY <1>2, <1>3 DEF Row

-----------------------------------------------------------------------------
(* ParseListing.  Its one pass over the links is a recursive function of   *)
(* the number of links passed; what it has found after each of them is     *)
(* shown by counting up.                                                   *)

PassLink(links, kept, urls, i) ==
    IF links[i] \in kept /\ ~Contains(urls, links[i].url)
      THEN Append(urls, links[i].url) ELSE urls

IsPass(f, links, kept, m) ==
    f = [i \in 0 .. m |-> IF i = 0 THEN <<>> ELSE PassLink(links, kept, f[i - 1], i)]

(* Where the first of the kept links to u is. *)
FirstLink(links, kept, u) == SelectInSeq(links, LAMBDA l : l \in kept /\ l.url = u)

(* What the pass has found among the first i links. *)
PassedOK(links, kept, urls, i) ==
    /\ urls \in Seq({links[j].url : j \in 1 .. Len(links)})
    /\ \A j \in 1 .. i : links[j] \in kept => Contains(urls, links[j].url)
    /\ \A k \in 1 .. Len(urls) : FirstLink(links, kept, urls[k]) \in 1 .. i
    /\ \A k, m \in 1 .. Len(urls) :
          k < m => FirstLink(links, kept, urls[k]) < FirstLink(links, kept, urls[m])

(* The pass can be made to the end. *)
LEMMA PassExists ==
    ASSUME NEW n \in Nat, NEW links, NEW kept
    PROVE  \E f : IsPass(f, links, kept, n)
<1> DEFINE T == {m \in 0 .. n : \E f : IsPass(f, links, kept, m)}
<1>1. 0 \in T
  <2>1. IsPass([i \in 0 .. 0 |-> <<>>], links, kept, 0)
    BY DEF IsPass
  <2>2. QED BY <2>1
<1>2. ASSUME NEW m \in 0 .. n, m < n, m \in T PROVE m + 1 \in T
  <2>1. PICK f : IsPass(f, links, kept, m)
    BY <1>2
  <2> DEFINE g == [i \in 0 .. m + 1 |-> IF i <= m THEN f[i] ELSE PassLink(links, kept, f[m], i)]
  <2>2. \A i \in 0 .. m : f[i] = IF i = 0 THEN <<>> ELSE PassLink(links, kept, f[i - 1], i)
    BY <2>1 DEF IsPass
  <2>3. \A i \in 0 .. m : g[i] = f[i]
    OBVIOUS
  <2>4. \A i \in 0 .. m + 1 : g[i] = IF i = 0 THEN <<>> ELSE PassLink(links, kept, g[i - 1], i)
    <3>1. SUFFICES ASSUME NEW i \in 0 .. m + 1
                   PROVE  g[i] = IF i = 0 THEN <<>> ELSE PassLink(links, kept, g[i - 1], i)
      OBVIOUS
    <3>2. CASE i <= m
      <4>1. i \in 0 .. m /\ (i # 0 => i - 1 \in 0 .. m)
        BY <3>2
      <4> HIDE DEF g
      <4>2. QED BY <2>2, <2>3, <4>1
    <3>3. CASE ~(i <= m)
      <4>1. i = m + 1 /\ i # 0 /\ i - 1 = m /\ m \in 0 .. m
        BY <3>3
      <4>2. g[i] = PassLink(links, kept, f[m], i)
        BY <3>3
      <4>3. g[i - 1] = f[m]
        BY <2>3, <4>1
      <4> HIDE DEF g
      <4>4. QED BY <4>1, <4>2, <4>3
    <3>4. QED BY <3>2, <3>3
  <2>5. g = [i \in 0 .. m + 1 |-> g[i]]
    OBVIOUS
  <2> HIDE DEF g
  <2>6. IsPass(g, links, kept, m + 1)
    BY <2>4, <2>5 DEF IsPass
  <2>7. QED BY <1>2, <2>6
<1> HIDE DEF T
<1>3. n \in T
  BY <1>1, <1>2, CountUp
<1>4. QED BY <1>3 DEF T

(* The first of the kept links to u is the smallest of their places. *)
LEMMA FirstLinkIs ==
    ASSUME NEW L, NEW links \in Seq(L), NEW kept, NEW u
    PROVE  \/ /\ FirstLink(links, kept, u) = 0
              /\ \A j \in 1 .. Len(links) : ~(links[j] \in kept /\ links[j].url = u)
           \/ /\ FirstLink(links, kept, u) \in 1 .. Len(links)
              /\ links[FirstLink(links, kept, u)] \in kept
              /\ links[FirstLink(links, kept, u)].url = u
              /\ \A j \in 1 .. Len(links) :
                    links[j] \in kept /\ links[j].url = u => FirstLink(links, kept, u) <= j
<1> DEFINE I == {j \in 1 .. Len(links) : links[j] \in kept /\ links[j].url = u}
<1>1. FirstLink(links, kept, u) = IF I # {} THEN Min(I) ELSE 0
  BY DEF FirstLink, SelectInSeq
<1>2. ASSUME I # {} PROVE Min(I) \in I /\ \A j \in I : Min(I) <= j
  <2>1. I \in SUBSET Nat
    OBVIOUS
  <2> HIDE DEF I
  <2>2. \E m \in I : \A j \in I : m <= j
    BY <1>2, <2>1, Least
  <2>3. QED BY <2>2 DEF Min
<1>3. CASE I = {}
  BY <1>1, <1>3
<1>4. CASE I # {}
  <2>1. /\ FirstLink(links, kept, u) \in I
        /\ \A j \in I : FirstLink(links, kept, u) <= j
    BY <1>1, <1>2, <1>4
  <2>2. QED BY <2>1
<1>5. QED BY <1>3, <1>4

(* Passing one more link. *)
LEMMA PassedStep ==
    ASSUME NEW L, NEW links \in Seq(L), NEW kept, NEW i \in 0 .. Len(links), i < Len(links),
           NEW urls, PassedOK(links, kept, urls, i)
    PROVE  PassedOK(links, kept, PassLink(links, kept, urls, i + 1), i + 1)
<1> DEFINE U == {links[j].url : j \in 1 .. Len(links)}
           l == links[i + 1]
           First(u) == FirstLink(links, kept, u)
<1>1. /\ urls \in Seq(U) /\ Len(urls) \in Nat /\ i + 1 \in 1 .. Len(links) /\ l.url \in U
      /\ Len(links) \in Nat
  BY DEF PassedOK
<1>2. /\ \A j \in 1 .. i : links[j] \in kept => Contains(urls, links[j].url)
      /\ \A k \in 1 .. Len(urls) : First(urls[k]) \in 1 .. i
      /\ \A k, m \in 1 .. Len(urls) : k < m => First(urls[k]) < First(urls[m])
  BY DEF PassedOK
<1>3. CASE ~(l \in kept /\ ~Contains(urls, l.url))
  <2>1. PassLink(links, kept, urls, i + 1) = urls
    BY <1>3 DEF PassLink
  <2>2. \A j \in 1 .. i + 1 : links[j] \in kept => Contains(urls, links[j].url)
    <3>1. \A j \in 1 .. i + 1 : j \in 1 .. i \/ j = i + 1
      OBVIOUS
    <3>2. QED BY <1>2, <1>3, <3>1
  <2>3. \A k \in 1 .. Len(urls) : First(urls[k]) \in 1 .. i + 1
    BY <1>2
  <2>4. QED BY <1>1, <1>2, <2>1, <2>2, <2>3 DEF PassedOK
<1>4. CASE l \in kept /\ ~Contains(urls, l.url)
  <2> DEFINE new == Append(urls, l.url)
  <2>1. PassLink(links, kept, urls, i + 1) = new
    BY <1>4 DEF PassLink
  <2>2. /\ new \in Seq(U) /\ Len(new) = Len(urls) + 1
        /\ \A k \in 1 .. Len(urls) : new[k] = urls[k]
        /\ new[Len(urls) + 1] = l.url
    <3> HIDE DEF U, l
    <3>1. QED BY <1>1, AppendProperties
  <2> HIDE DEF new
  <2>3. \A k \in 1 .. Len(new) : k \in 1 .. Len(urls) \/ k = Len(urls) + 1
    BY <1>1, <2>2
  <2>4. First(l.url) = i + 1
    <3>1. \A j \in 1 .. i : ~(links[j] \in kept /\ links[j].url = l.url)
      BY <1>2, <1>4
    <3>2. /\ First(l.url) \in 1 .. Len(links) /\ First(l.url) <= i + 1
          /\ links[First(l.url)] \in kept /\ links[First(l.url)].url = l.url
      BY <1>1, <1>4, FirstLinkIs
    <3> HIDE DEF First
    <3>3. First(l.url) \notin 1 .. i
      BY <3>1, <3>2
    <3>4. QED BY <1>1, <3>2, <3>3
  <2> HIDE DEF First
  <2>5. \A j \in 1 .. i + 1 : links[j] \in kept => Contains(new, links[j].url)
    <3>1. \A j \in 1 .. i + 1 : j \in 1 .. i \/ j = i + 1
      OBVIOUS
    <3>2. \A u : Contains(urls, u) => Contains(new, u)
      BY <1>1, <2>2 DEF Contains
    <3>3. Contains(new, l.url)
      <4>1. Len(urls) + 1 \in 1 .. Len(new)
        BY <1>1, <2>2
      <4>2. QED BY <2>2, <4>1 DEF Contains
    <3>4. QED BY <1>2, <3>1, <3>2, <3>3
  <2>6. \A k \in 1 .. Len(new) : First(new[k]) \in 1 .. i + 1
    <3>1. \A k \in 1 .. Len(urls) : First(new[k]) \in 1 .. i
      BY <1>2, <2>2
    <3>2. First(new[Len(urls) + 1]) = i + 1
      BY <2>2, <2>4
    <3>3. \A x \in 1 .. i : x \in 1 .. i + 1
      OBVIOUS
    <3>4. i + 1 \in 1 .. i + 1
      OBVIOUS
    <3>5. QED BY <2>3, <3>1, <3>2, <3>3, <3>4
  <2>7. \A k, m \in 1 .. Len(new) : k < m => First(new[k]) < First(new[m])
    <3>1. SUFFICES ASSUME NEW k \in 1 .. Len(new), NEW m \in 1 .. Len(new), k < m
                   PROVE  First(new[k]) < First(new[m])
      OBVIOUS
    <3>2. k \in 1 .. Len(urls)
      BY <1>1, <2>2, <3>1
    <3>3. CASE m \in 1 .. Len(urls)
      BY <1>2, <2>2, <3>1, <3>2, <3>3
    <3>4. CASE m = Len(urls) + 1
      <4>1. First(new[k]) \in 1 .. i /\ First(new[m]) = i + 1
        BY <1>2, <2>2, <2>4, <3>2, <3>4
      <4>2. QED BY <4>1
    <3>5. QED BY <2>3, <3>3, <3>4
  <2>8. QED BY <2>1, <2>2, <2>5, <2>6, <2>7 DEF PassedOK, First
<1>5. QED BY <1>3, <1>4

(* Targets finds the targets of all kept links, in the order of the first  *)
(* link to each.                                                           *)
LEMMA TargetsFound ==
    ASSUME NEW L, NEW links \in Seq(L), NEW kept
    PROVE  PassedOK(links, kept, Targets(links, kept), Len(links))
<1> DEFINE n == Len(links)
<1>1. n \in Nat
  OBVIOUS
<1>2. PICK f : IsPass(f, links, kept, n) /\ Targets(links, kept) = f[n]
  <2>1. PICK g : IsPass(g, links, kept, n)
    BY <1>1, PassExists
  <2>2. QED BY <2>1 DEF IsPass, PassLink, Targets
<1>3. /\ f[0] = <<>>
      /\ \A i \in 0 .. n : i < n => f[i + 1] = PassLink(links, kept, f[i], i + 1)
  <2>1. \A i \in 0 .. n : f[i] = IF i = 0 THEN <<>> ELSE PassLink(links, kept, f[i - 1], i)
    BY <1>2 DEF IsPass
  <2>2. \A i \in 0 .. n : i < n => i + 1 \in 0 .. n /\ i + 1 # 0 /\ i + 1 - 1 = i
    BY <1>1
  <2>3. 0 \in 0 .. n
    BY <1>1
  <2>4. QED BY <2>1, <2>2, <2>3
<1> DEFINE T == {i \in 0 .. n : PassedOK(links, kept, f[i], i)}
<1>4. 0 \in T
  <2>1. Len(<<>>) = 0 /\ <<>> \in Seq({links[j].url : j \in 1 .. Len(links)})
    OBVIOUS
  <2>2. 1 .. 0 = {} /\ 0 \in 0 .. n
    BY <1>1
  <2> HIDE DEF n
  <2>3. PassedOK(links, kept, <<>>, 0)
    BY <2>1, <2>2 DEF PassedOK
  <2>4. QED BY <1>3, <2>2, <2>3
<1>5. \A i \in 0 .. n : i < n /\ i \in T => i + 1 \in T
  BY <1>1, <1>3, PassedStep
<1> HIDE DEF T
<1>6. n \in T
  <2> HIDE DEF n
  <2>1. \A i \in 0 .. n : i \in T
    BY <1>1, <1>4, <1>5, CountUp
  <2>2. QED BY <1>1, <2>1
<1>7. QED BY <1>2, <1>6 DEF T

(* ... and nothing else. *)
LEMMA TargetsAre ==
    ASSUME NEW L, NEW links \in Seq(L), NEW kept \in SUBSET ToSet(links)
    PROVE  ToSet(Targets(links, kept)) = {l.url : l \in kept}
<1> DEFINE t == Targets(links, kept)
           First(u) == FirstLink(links, kept, u)
<1>1. /\ t \in Seq({links[j].url : j \in 1 .. Len(links)})
      /\ \A j \in 1 .. Len(links) : links[j] \in kept => Contains(t, links[j].url)
      /\ \A k \in 1 .. Len(t) : First(t[k]) \in 1 .. Len(links)
  BY TargetsFound DEF PassedOK
<1>2. DOMAIN t = 1 .. Len(t) /\ DOMAIN links = 1 .. Len(links) /\ Len(links) \in Nat
  BY <1>1
<1>3. \A k \in 1 .. Len(t) : links[First(t[k])] \in kept /\ links[First(t[k])].url = t[k]
  <2>1. SUFFICES ASSUME NEW k \in 1 .. Len(t)
                 PROVE  links[First(t[k])] \in kept /\ links[First(t[k])].url = t[k]
    OBVIOUS
  <2>2. First(t[k]) # 0
    BY <1>1
  <2>3. QED BY <2>2, FirstLinkIs
<1> HIDE DEF t, First
<1>4. ASSUME NEW l \in kept PROVE l.url \in ToSet(t)
  <2>1. PICK j \in 1 .. Len(links) : links[j] = l
    BY <1>2 DEF ToSet
  <2>2. QED BY <1>1, <1>2, <2>1 DEF Contains, ToSet
<1>5. ASSUME NEW u \in ToSet(t) PROVE u \in {l.url : l \in kept}
  <2>1. PICK k \in 1 .. Len(t) : t[k] = u
    BY <1>2 DEF ToSet
  <2>2. QED BY <1>3, <2>1
<1>6. QED BY <1>4, <1>5 DEF t

(* The links that ParseListing is after. *)
Wanted(listing) ==
    IF listing.source = "STEPSTONE" /\ Cards(listing.links) # {} THEN Cards(listing.links)
    ELSE Details(listing.links)

(* ParseListing makes one pass for them. *)
LEMMA ListingPass ==
    ASSUME NEW L, NEW listing, listing.links \in Seq(L)
    PROVE  /\ ParseListing(listing.source, listing.links) = Targets(listing.links, Wanted(listing))
           /\ Wanted(listing) \subseteq ToSet(listing.links)
<1>1. /\ Cards(listing.links) \subseteq ToSet(listing.links)
      /\ Details(listing.links) \subseteq ToSet(listing.links)
  BY DEF Cards, Details
<1>2. ToSet(Targets(listing.links, Cards(listing.links))) = {l.url : l \in Cards(listing.links)}
  BY <1>1, TargetsAre
<1>3. Targets(listing.links, Cards(listing.links)) \in
          Seq({listing.links[j].url : j \in 1 .. Len(listing.links)})
  BY TargetsFound DEF PassedOK
<1>4. Targets(listing.links, Cards(listing.links)) = <<>> <=> Cards(listing.links) = {}
  <2>1. \A t : t \in Seq({listing.links[j].url : j \in 1 .. Len(listing.links)})
               => (t = <<>> <=> ToSet(t) = {})
    <3>1. SUFFICES ASSUME NEW U, NEW t \in Seq(U) PROVE t = <<>> <=> ToSet(t) = {}
      OBVIOUS
    <3>2. t = <<>> <=> DOMAIN t = {}
      BY EmptySeq
    <3>3. QED BY <3>2 DEF ToSet
  <2>2. QED BY <1>2, <1>3, <2>1
<1>5. QED BY <1>1, <1>4 DEF ParseListing, Wanted

-----------------------------------------------------------------------------
(* The table.                                                              *)

(* The listing pages there may be. *)
Crawlable == UNION {ToSet(pages) : pages \in Listings}

UniqueFps == \A i, k \in 1 .. Len(table) : table[i].fp = table[k].fp => i = k

TableOK ==
    /\ listings \in Seq(Crawlable)
    /\ pending \subseteq URLs
    /\ table \in Seq(Row)
    /\ UniqueFps
    /\ created \in Seq(Nat) /\ Len(created) = Len(table)

(* A listing page is of a known source and leads to known URLs. *)
LEMMA InCrawlable ==
    ASSUME NEW l \in Crawlable
    PROVE  /\ l.source \in DOMAIN Selectors
           /\ l.links \in Seq([url : URLs, card : BOOLEAN, detail : BOOLEAN])
           /\ ToSet(ParseListing(l.source, l.links)) \subseteq URLs
<1>1. PICK pages \in Listings : l \in ToSet(pages)
  BY DEF Crawlable
<1> DEFINE Link == [url : URLs, card : BOOLEAN, detail : BOOLEAN]
<1>2. l.source \in DOMAIN Selectors /\ l.links \in Seq(Link)
  <2> DEFINE S == [source : DOMAIN Selectors, links : Seq(Link)]
  <2>1. pages \in Seq(S)
    BY PostingsAssumption
  <2>2. \A x \in S : x.source \in DOMAIN Selectors /\ x.links \in Seq(Link)
    OBVIOUS
  <2> HIDE DEF S
  <2>3. \A i \in DOMAIN pages : pages[i] \in S
    BY <2>1
  <2>4. QED BY <1>1, <2>2, <2>3 DEF ToSet
<1>3. \A x \in Link : x.url \in URLs
  OBVIOUS
<1> HIDE DEF Link
<1>4. \A x \in ToSet(l.links) : x \in Link
  BY <1>2 DEF ToSet
<1>5. ToSet(ParseListing(l.source, l.links)) = {x.url : x \in Wanted(l)}
  BY <1>2, ListingPass, TargetsAre
<1>6. Wanted(l) \subseteq ToSet(l.links)
  BY <1>2, ListingPass
<1>7. QED BY <1>2, <1>3, <1>4, <1>5, <1>6 DEF Link

(* Whatever there is to crawl consists of listing pages. *)
LEMMA CrawlableInit == Listings \subseteq Seq(Crawlable)
<1>1. SUFFICES ASSUME NEW pages \in Listings PROVE pages \in Seq(Crawlable)
  OBVIOUS
<1>2. \A i \in DOMAIN pages : pages[i] \in Crawlable
  BY DEF Crawlable, ToSet
<1>3. Len(pages) \in Nat /\ DOMAIN pages = 1 .. Len(pages) /\ pages = [i \in 1 .. Len(pages) |-> pages[i]]
  BY PostingsAssumption
<1>4. QED BY <1>2, <1>3

(* The fingerprints of a table are those of its rows. *)
LEMMA InFps ==
    ASSUME NEW t \in Seq(Row)
    PROVE  /\ \A f : f \in Fps(t) <=> \E i \in 1 .. Len(t) : t[i].fp = f
           /\ Fps(t) \subseteq Fp
<1>1. \A f : f \in Fps(t) <=> \E i \in 1 .. Len(t) : t[i].fp = f
  BY DEF Fps, ToSet
<1>2. \A i \in 1 .. Len(t) : t[i] \in Row
  OBVIOUS
<1>3. QED BY <1>1, <1>2, RowShape

(* INSERT ... ON CONFLICT. *)
LEMMA UpsertKeeps ==
    ASSUME table \in Seq(Row), UniqueFps, NEW j \in Job, table' = UpsertRow(j)
    PROVE  /\ table' \in Seq(Row)
           /\ UniqueFps'
           /\ Len(table') >= Len(table) /\ Len(table') \in Nat
           /\ \A i \in 1 .. Len(table) : SameContent(table'[i], table[i])
           /\ \A i \in 1 .. Len(table') : i > Len(table) => table'[i] = j
<1>1. Len(table) \in Nat /\ \A i \in 1 .. Len(table) : table[i] \in Row
  OBVIOUS
<1>2. CASE j.fp \in Fps(table)
  <2>1. table' = [i \in 1 .. Len(table) |-> IF table[i].fp = j.fp
                                              THEN [table[i] EXCEPT !.url = j.url] ELSE table[i]]
    BY <1>2 DEF UpsertRow
  <2>2. Len(table') = Len(table)
    BY <1>1, <2>1
  <2>3. ASSUME NEW i \in 1 .. Len(table)
        PROVE  table'[i] \in Row /\ SameContent(table'[i], table[i])
    <3>1. /\ [table[i] EXCEPT !.url = j.url] \in Row
          /\ SameContent([table[i] EXCEPT !.url = j.url], table[i])
      BY <1>1, RowShape, UpdatedRow, InJob
    <3>2. SameContent(table[i], table[i])
      BY DEF SameContent
    <3>3. QED BY <1>1, <2>1, <3>1, <3>2
  <2>4. table' \in Seq(Row)
    BY <1>1, <2>1, <2>3
  <2>5. UniqueFps'
    BY <2>2, <2>3 DEF UniqueFps, SameContent
  <2>6. QED BY <1>1, <2>2, <2>3, <2>4, <2>5
<1>3. CASE j.fp \notin Fps(table)
  <2>1. table' = Append(table, j) /\ j \in Row
    BY <1>3, JobIsRow DEF UpsertRow
  <2>2. /\ table' \in Seq(Row) /\ Len(table') = Len(table) + 1
        /\ \A i \in 1 .. Len(table) : table'[i] = table[i]
        /\ table'[Len(table) + 1] = j
    BY <1>1, <2>1
  <2>3. \A i \in 1 .. Len(table) : table[i].fp # j.fp
    BY <1>3, InFps
  <2>4. UniqueFps'
    BY <1>1, <2>2, <2>3 DEF UniqueFps
  <2>5. QED BY <1>1, <2>2, <2>4 DEF SameContent
<1>4. QED BY <1>2, <1>3

(* DELETE of the oldest rows. *)
LEMMA DeleteKeeps ==
    ASSUME table \in Seq(Row), UniqueFps, NEW n \in 1 .. Len(table),
           table' = SubSeq(table, n + 1, Len(table))
    PROVE  /\ table' \in Seq(Row)
           /\ UniqueFps'
           /\ Len(table') = Len(table) - n
           /\ \A i \in 1 .. Len(table') : i + n \in 1 .. Len(table) /\ table'[i] = table[i + n]
<1>1. Len(table) \in Nat /\ n \in Nat /\ \A i \in 1 .. Len(table) : table[i] \in Row
  OBVIOUS
<1>2. Len(table') = Len(table) - n
  BY <1>1
<1>3. \A i \in 1 .. Len(table') : i + n \in 1 .. Len(table) /\ table'[i] = table[i + n]
  BY <1>1, <1>2
<1>4. table' \in Seq(Row)
  BY <1>1
<1>5. UniqueFps'
  BY <1>1, <1>2, <1>3 DEF UniqueFps
<1>6. QED BY <1>2, <1>3, <1>4, <1>5

(* Every row has the time it was created at. *)
LEMMA StampsKeep ==
    ASSUME table \in Seq(Row), created \in Seq(Nat), Len(created) = Len(table),
           NEW j, NEW t \in Now, table' = UpsertRow(j), created' = Stamped(j, t)
    PROVE  created' \in Seq(Nat) /\ Len(created') = Len(table')
<1>1. Len(table) \in Nat
  OBVIOUS
<1>2. CASE j.fp \in Fps(table)
  <2>1. table' = [i \in 1 .. Len(table) |-> IF table[i].fp = j.fp
                                              THEN [table[i] EXCEPT !.url = j.url] ELSE table[i]]
    BY <1>2 DEF UpsertRow
  <2>2. Len(table') = Len(table)
    BY <1>1, <2>1
  <2>3. QED BY <1>2, <2>2 DEF Stamped
<1>3. CASE j.fp \notin Fps(table)
  <2>1. t \in Nat
    <3>1. CASE created = <<>>
      BY <3>1 DEF Now
    <3>2. CASE created # <<>>
      <4>1. created[Len(created)] \in Nat
        BY <3>2
      <4>2. QED BY <3>2, <4>1 DEF Now
    <3>3. QED BY <3>1, <3>2
  <2>2. table' = Append(table, j) /\ created' = Append(created, t)
    BY <1>3 DEF UpsertRow, Stamped
  <2>3. Len(table') = Len(table) + 1
    BY <2>2
  <2>4. QED BY <2>1, <2>2, <2>3
<1>4. QED BY <1>2, <1>3

(* The table begins empty. *)
LEMMA TableInit == ASSUME Init PROVE TableOK
<1>1. listings \in Seq(Crawlable)
  BY CrawlableInit DEF Init
<1>2. table = <<>> /\ created = <<>> /\ <<>> \in Seq(Row) /\ <<>> \in Seq(Nat) /\ Len(<<>>) = 0
  BY DEF Init
<1>3. QED BY <1>1, <1>2 DEF Init, TableOK, UniqueFps

(* Every step keeps the table's types and its unique index. *)
LEMMA TableStep ==
    ASSUME TableOK, [Next]_vars
    PROVE  TableOK'
<1> USE DEF TableOK
<1>1. ASSUME UNCHANGED tableVars PROVE TableOK'
  BY <1>1 DEF tableVars, UniqueFps
<1>2. ASSUME Discover PROVE TableOK'
  <2>1. Head(listings) \in Crawlable /\ Tail(listings) \in Seq(Crawlable)
    BY <1>2, EmptySeq, HeadTailProperties DEF Discover
  <2>2. pending' \subseteq URLs
    BY <1>2, <2>1, InCrawlable DEF Discover
  <2>3. QED BY <1>2, <2>1, <2>2 DEF Discover, UniqueFps
<1>3. ASSUME NEW u \in URLs, Store(u) PROVE TableOK'
  <2>1. pending' \subseteq URLs /\ UNCHANGED listings
    BY <1>3 DEF Store
  <2>2. CASE UNCHANGED <<table, created>>
    BY <2>1, <2>2 DEF UniqueFps
  <2>3. CASE ~UNCHANGED <<table, created>>
    <3>1. PICK j \in JobsAt[u], t \in Now : table' = UpsertRow(j) /\ created' = Stamped(j, t)
      BY <1>3, <2>3 DEF Store
    <3>2. j \in Job
      BY JobShape
    <3>3. table' \in Seq(Row) /\ UniqueFps'
      BY <3>1, <3>2, UpsertKeeps
    <3>4. created' \in Seq(Nat) /\ Len(created') = Len(table')
      BY <3>1, StampsKeep
    <3>5. QED BY <2>1, <3>3, <3>4
  <2>4. QED BY <2>2, <2>3
<1>4. ASSUME DeleteOlderThan PROVE TableOK'
  <2>1. PICK n \in 1 .. Len(table) : /\ table' = SubSeq(table, n + 1, Len(table))
                                     /\ created' = SubSeq(created, n + 1, Len(created))
    BY <1>4 DEF DeleteOlderThan
  <2>2. table' \in Seq(Row) /\ UniqueFps' /\ Len(table') = Len(table) - n
    BY <2>1, DeleteKeeps
  <2>3. created' \in Seq(Nat) /\ Len(created') = Len(created) - n
    <3>1. Len(created) \in Nat /\ n \in 1 .. Len(created)
      OBVIOUS
    <3>2. QED BY <2>1, <3>1
  <2>4. QED BY <1>4, <2>2, <2>3 DEF DeleteOlderThan
<1>5. ASSUME (\E q \in Queries : Open(q)) \/ NextPage \/ Close \/ CacheHit \/ CacheMiss
             \/ CountMatches \/ SelectPage \/ SearchFails \/ CacheSet \/ Expire \/ UNCHANGED vars
      PROVE  UNCHANGED tableVars
  BY <1>5 DEF Open, NextPage, Close, CacheHit, CacheMiss, CountMatches, SelectPage, SearchFails,
              CacheSet, Expire, vars
<1>6. QED BY <1>1, <1>2, <1>3, <1>4, <1>5 DEF Next

-----------------------------------------------------------------------------
(* Alerts.                                                                 *)

(* Without a query the matcher asks for less than search does. *)
LEMMA SearchedMatches ==
    ASSUME NEW r, NEW w, w.query = <<>>, Satisfies(r, w)
    PROVE  matchesFilter(r, w)
<1>1. w.tags # {} => hasTagIntersection(r.tags, w.tags)
  BY DEF Satisfies, hasTagIntersection
<1>2. QED BY <1>1 DEF Satisfies, matchesFilter

(* For any rows and alerts: the matcher's own reading of a filter without  *)
(* a query is no narrower than that of search.                             *)
THEOREM AlertsPicked == Spec => []AlertsNotNarrower
<1>1. AlertsNotNarrower
  BY SearchedMatches DEF AlertsNotNarrower, FindMatchingAlerts
<1>2. QED BY <1>1, PTL

-----------------------------------------------------------------------------
(* Counting and ordering matches.                                          *)

(* Rows and matches can be counted in an int. *)
LEMMA Counts ==
    ASSUME TableOK
    PROVE  /\ Cardinality(Fps(table)) = Len(table)
           /\ Len(table) \in 0 .. MaxInt
           /\ \A w : /\ Matches(w) \subseteq 1 .. Len(table)
                     /\ IsFiniteSet(Matches(w))
                     /\ Cardinality(Matches(w)) \in 0 .. MaxInt
<1> DEFINE n == Len(table)
           f == [i \in 1 .. n |-> table[i].fp]
<1>1. n \in Nat /\ \A i \in 1 .. n : table[i] \in Row
  BY DEF TableOK
<1>2. f \in Injection(1 .. n, Fp) /\ f \in Bijection(1 .. n, Fps(table))
  <2>1. \A i \in 1 .. n : f[i] \in Fp /\ f[i] \in Fps(table)
    BY <1>1, RowShape, InFps DEF TableOK
  <2>2. IsInjective(f)
    BY DEF TableOK, UniqueFps, IsInjective
  <2>3. \A x \in Fps(table) : \E i \in 1 .. n : f[i] = x
    BY InFps DEF TableOK
  <2>4. QED BY <2>1, <2>2, <2>3 DEF Injection, Surjection, Bijection
<1>3. Cardinality(Fps(table)) = n
  BY <1>1, <1>2, FS_CountingElements DEF ExistsBijection
<1>4. Cardinality(1 .. n) = n /\ IsFiniteSet(1 .. n)
  BY <1>1, FS_Interval
<1>5. Cardinality(1 .. n) <= Cardinality(Fp) /\ Cardinality(Fp) \in Nat
  BY <1>2, PostingsAssumption, FS_Injection, FS_CardinalityType
<1>6. n \in 0 .. MaxInt
  BY <1>1, <1>4, <1>5, PostingsAssumption, Sizes
<1>7. ASSUME NEW w
      PROVE  /\ Matches(w) \subseteq 1 .. n
             /\ IsFiniteSet(Matches(w))
             /\ Cardinality(Matches(w)) \in 0 .. MaxInt
  <2>1. Matches(w) \subseteq 1 .. n
    BY DEF Matches
  <2>2. IsFiniteSet(Matches(w)) /\ Cardinality(Matches(w)) <= Cardinality(1 .. n)
    BY <1>4, <2>1, FS_Subset
  <2>3. Cardinality(Matches(w)) \in Nat
    BY <2>2, FS_CardinalityType
  <2>4. QED BY <1>1, <1>4, <1>6, <2>1, <2>2, <2>3, Sizes
<1>8. QED BY <1>3, <1>6, <1>7

(* An order of a finite set has each of its elements once. *)
LEMMA OrderShape ==
    ASSUME NEW S, IsFiniteSet(S), NEW sort, NEW s \in Orders(S, sort)
    PROVE  /\ s \in Seq(S) /\ Len(s) = Cardinality(S) /\ Len(s) \in Nat
           /\ \A i, j \in 1 .. Len(s) : s[i] = s[j] => i = j
           /\ \A x \in S : \E i \in 1 .. Len(s) : s[i] = x
<1> DEFINE n == Cardinality(S)
<1>1. n \in Nat
  BY FS_CardinalityType
<1>2. s \in [1 .. n -> S] /\ \A i, j \in 1 .. n : i # j => s[i] # s[j]
  BY DEF Orders, SetToSeqs
<1>3. s \in Seq(S) /\ Len(s) = n
  BY <1>1, <1>2
<1>4. s \in Injection(1 .. n, S)
  BY <1>2 DEF Injection, IsInjective
<1>5. Cardinality(1 .. n) = n
  BY <1>1, FS_Interval
<1>6. s \in Surjection(1 .. n, S)
  BY <1>4, <1>5, FS_Injection
<1>7. \A x \in S : \E i \in 1 .. n : s[i] = x
  BY <1>6 DEF Surjection
<1>8. QED BY <1>1, <1>2, <1>3, <1>7

(* LIMIT k OFFSET o. *)
LEMMA LimitedPage ==
    ASSUME NEW S, NEW s \in Seq(S), NEW k \in Nat \ {0}, NEW o \in Nat
    PROVE  /\ Limited(s, k, o) \in Seq(S)
           /\ Len(Limited(s, k, o)) = IF o >= Len(s) THEN 0
                                      ELSE IF o + k <= Len(s) THEN k ELSE Len(s) - o
           /\ \A i \in 1 .. Len(Limited(s, k, o)) :
                 o + i \in 1 .. Len(s) /\ Limited(s, k, o)[i] = s[o + i]
<1> DEFINE m == IF o + k <= Len(s) THEN o + k ELSE Len(s)
<1>1. Len(s) \in Nat
  OBVIOUS
<1>2. Limited(s, k, o) = SubSeq(s, o + 1, m) /\ m \in 0 .. Len(s)
  BY <1>1, MinOfTwo DEF Limited
<1>3. CASE o >= Len(s)
  <2>1. SubSeq(s, o + 1, m) = <<>>
    BY <1>1, <1>2, <1>3
  <2>2. QED BY <1>2, <1>3, <2>1
<1>4. CASE o < Len(s)
  <2>1. m - o \in Nat /\ o + 1 \in 1 .. Len(s)
    BY <1>1, <1>4
  <2>2. /\ SubSeq(s, o + 1, m) \in Seq(S) /\ Len(SubSeq(s, o + 1, m)) = m - o
        /\ \A i \in 1 .. (m - o) : SubSeq(s, o + 1, m)[i] = s[o + i]
    <3>1. o + 1 \in 1 .. Len(s) + 1 /\ m \in o .. Len(s)
      BY <1>1, <1>2, <1>4, <2>1
    <3> HIDE DEF m
    <3>2. SubSeq(s, o + 1, m) \in Seq(S)
      BY <1>1, <3>1
    <3>3. Len(SubSeq(s, o + 1, m)) = m - o
      BY <1>1, <3>1
    <3>4. \A i \in 1 .. (m - o) : SubSeq(s, o + 1, m)[i] = s[o + i]
      BY <1>1, <3>1
    <3>5. QED BY <3>2, <3>3, <3>4
  <2>3. m - o = IF o + k <= Len(s) THEN k ELSE Len(s) - o
    BY <1>1
  <2>4. \A i \in 1 .. m - o : o + i \in 1 .. Len(s)
    BY <1>1, <1>2, <2>1
  <2> HIDE DEF m
  <2>5. QED BY <1>1, <1>2, <1>4, <2>2, <2>3, <2>4
<1>5. QED BY <1>1, <1>3, <1>4

(* Keys of any sort column can be compared. *)
LEMMA SortKeyType ==
    ASSUME TableOK, NEW i \in 1 .. Len(table), NEW sort
    PROVE  SortKey(i, sort) \in Int
<1>1. table[i] \in Row
  BY DEF TableOK
<1>2. CASE Column(sort) = "created_at"
  <2>1. created[i] \in Nat
    BY DEF TableOK
  <2>2. QED BY <1>2, <2>1 DEF SortKey
<1>3. CASE Column(sort) = "salary_min"
  <2>1. table[i].salaryMin \in Seq(Nat)
    BY <1>1, RowShape
  <2>2. table[i].salaryMin # <<>> => table[i].salaryMin[1] \in Int
    BY <2>1
  <2>3. MaxSalary + 1 \in Int
    BY SearchAssumption
  <2>4. SortKey(i, sort) = IF table[i].salaryMin = <<>> THEN MaxSalary + 1
                           ELSE table[i].salaryMin[1]
    BY <1>3 DEF SortKey
  <2>5. QED BY <2>2, <2>3, <2>4
<1>4. CASE Column(sort) = "title"
  <2> DEFINE I == {k \in 1 .. Len(TitleOrder) : TitleOrder[k] = table[i].title}
  <2>1. SortKey(i, sort) = IF I # {} THEN Min(I) ELSE 0
    BY <1>4 DEF SortKey, SelectInSeq
  <2>2. I \subseteq Nat
    BY SearchAssumption
  <2>3. I # {} => \E m \in I : \A n \in I : m <= n
    BY <2>2, Least
  <2>4. I # {} => Min(I) \in I
    BY <2>3 DEF Min
  <2>5. QED BY <2>1, <2>2, <2>4
<1>5. CASE Column(sort) = "published_at"
  BY <1>5, SearchAssumption DEF SortKey
<1>6. QED BY <1>2, <1>3, <1>4, <1>5 DEF Column, Sorts

(* Where two orders of a set differ for the first time, the one has at a   *)
(* later place what the other has there.                                   *)
LEMMA LaterPlace ==
    ASSUME NEW n \in Nat, NEW s, NEW t,
           \A i, j \in 1 .. n : t[i] = t[j] => i = j,
           NEW m \in 1 .. n, \A i \in 1 .. n : i < m => s[i] = t[i],
           s[m] # t[m], NEW a \in 1 .. n, s[a] = t[m]
    PROVE  m < a
<1>1. a # m
  OBVIOUS
<1>2. ~(a < m)
  <2>1. SUFFICES ASSUME a < m PROVE FALSE
    OBVIOUS
  <2>2. s[a] = t[a]
    BY <2>1
  <2>3. t[a] = t[m]
    BY <2>2
  <2>4. QED BY <2>1, <2>3
<1>3. QED BY <1>1, <1>2

(* When the column tells the elements apart there is one order. *)
LEMMA OneOrder ==
    ASSUME TableOK, NEW S, S \subseteq 1 .. Len(table), IsFiniteSet(S), NEW sort,
           \A i, j \in S : i # j => SortKey(i, sort) # SortKey(j, sort),
           NEW s \in Orders(S, sort), NEW t \in Orders(S, sort)
    PROVE  s = t
<1> DEFINE n == Cardinality(S)
           K == [i \in S |-> SortKey(i, sort)]
           Ahead(a, b) == IF Ascending(sort) THEN K[a] < K[b] ELSE K[a] > K[b]
<1>1. \A i \in S : K[i] \in Int
  BY SortKeyType
<1>2. \A i, j \in S : i # j => K[i] # K[j]
  OBVIOUS
<1>3. /\ n \in Nat /\ s \in Seq(S) /\ t \in Seq(S) /\ Len(s) = n /\ Len(t) = n
      /\ \A i, j \in 1 .. n : s[i] = s[j] => i = j
      /\ \A i, j \in 1 .. n : t[i] = t[j] => i = j
      /\ \A x \in S : \E i \in 1 .. n : s[i] = x
      /\ \A x \in S : \E i \in 1 .. n : t[i] = x
  BY OrderShape
<1>4. \A i \in 1 .. n : s[i] \in S /\ t[i] \in S
  BY <1>3
<1>5. /\ \A i, j \in 1 .. n : i < j => IF Ascending(sort) THEN K[s[i]] <= K[s[j]] ELSE K[s[i]] >= K[s[j]]
      /\ \A i, j \in 1 .. n : i < j => IF Ascending(sort) THEN K[t[i]] <= K[t[j]] ELSE K[t[i]] >= K[t[j]]
  BY <1>3, <1>4 DEF Orders
<1> HIDE DEF K
<1>6. /\ \A i, j \in 1 .. n : i < j => Ahead(s[i], s[j])
      /\ \A i, j \in 1 .. n : i < j => Ahead(t[i], t[j])
  <2>1. ASSUME NEW i \in 1 .. n, NEW j \in 1 .. n, i < j
        PROVE  Ahead(s[i], s[j]) /\ Ahead(t[i], t[j])
    <3>1. i # j
      BY <1>3, <2>1
    <3>2. K[s[i]] # K[s[j]] /\ K[t[i]] # K[t[j]]
      BY <1>2, <1>3, <1>4, <3>1
    <3>3. K[s[i]] \in Int /\ K[s[j]] \in Int /\ K[t[i]] \in Int /\ K[t[j]] \in Int
      BY <1>1, <1>4
    <3>4. QED BY <1>5, <2>1, <3>2, <3>3
  <2>2. QED BY <2>1
<1>7. ASSUME NEW m \in 1 .. n, s[m] # t[m], \A i \in 1 .. n : i < m => s[i] = t[i]
      PROVE  FALSE
  <2>1. PICK a \in 1 .. n : s[a] = t[m]
    BY <1>3, <1>4
  <2>2. PICK b \in 1 .. n : t[b] = s[m]
    BY <1>3, <1>4
  <2>3. m < a
    BY <1>3, <1>7, <2>1, LaterPlace
  <2>4. m < b
    BY <1>3, <1>7, <2>2, LaterPlace
  <2>5. Ahead(s[m], t[m]) /\ Ahead(t[m], s[m])
    BY <1>6, <2>1, <2>2, <2>3, <2>4
  <2>6. K[s[m]] \in Int /\ K[t[m]] \in Int
    BY <1>1, <1>4
  <2>7. QED BY <2>5, <2>6
<1>8. \A i \in 1 .. n : s[i] = t[i]
  <2> DEFINE T == {i \in 1 .. n : s[i] # t[i]}
  <2>1. SUFFICES ASSUME T # {} PROVE FALSE
    OBVIOUS
  <2>2. T \subseteq Nat
    BY <1>3
  <2>3. PICK m \in T : \A i \in T : m <= i
    BY <2>1, <2>2, Least
  <2>4. \A i \in 1 .. n : i < m => s[i] = t[i]
    BY <2>2, <2>3
  <2>5. QED BY <1>7, <2>3, <2>4
<1>9. QED BY <1>3, <1>8

-----------------------------------------------------------------------------
(* Answers.                                                                *)

(* The rows that a search finds, and the orders they may come in. *)
Hits(f) == Cardinality(Matches(f.where))
Ordered(f) == Orders(Matches(f.where), f.sort)

(* How many of them come before its page. *)
Begin(f) == (f.page - 1) * f.perPage

(* A filter that can be served. *)
FilterOK(f) ==
    /\ f = [where |-> f.where, sort |-> f.sort, page |-> f.page, perPage |-> f.perPage]
    /\ f.page \in 1 .. MaxInt /\ f.perPage \in 1 .. MaxPerPage

(* Answer r to f is the one that the table gives now: it has the next      *)
(* piece of the one order there is.                                        *)
Current(f, r) ==
    /\ r.totalPages = TotalPages(Hits(f), f.perPage)
    /\ Ordered(f) # {}
    /\ Distinguishes(f) /\ Begin(f) <= Hits(f) =>
          /\ Len(r.jobs) = IF Begin(f) + f.perPage <= Hits(f) THEN f.perPage ELSE Hits(f) - Begin(f)
          /\ \A s \in Ordered(f) : \A i \in 1 .. Len(r.jobs) : r.jobs[i] = table[s[Begin(f) + i]].fp

(* What an answer of age a is worth, in the cache or out of it. *)
AnswerOK(f, r, a) ==
    /\ a \in Age
    /\ r.jobs \in Seq(Fp) /\ Len(r.jobs) <= r.perPage
    /\ r.page = f.page /\ r.perPage = f.perPage
    /\ r.totalPages \in 0 .. MaxInt
    /\ a # "torn" => Honest(r)
    /\ a = "fresh" => Current(f, r)

CacheOK == \A e \in cache : FilterOK(e.key) /\ AnswerOK(e.key, e.result, e.age)

ClientOK ==
    /\ at \in {"idle", "get", "count", "page", "set", "shown"}
    /\ FilterOK(filter)
    /\ total \in 0 .. MaxInt
    /\ Len(resp.jobs) <= resp.perPage
    /\ shown \in Seq(Fp)
    /\ age \in Age /\ moved \in BOOLEAN
    /\ at = "idle" => shown = <<>>
    /\ at \in {"idle", "get", "count"} => age = "fresh"
    /\ age # "fresh" => moved
    /\ at = "page" => age # "old" /\ (age = "fresh" => total = Hits(filter))
    /\ at \in {"set", "shown"} => AnswerOK(filter, resp, age)

(* All of it depends on the table, the criteria and the sort order. *)
LEMMA SameSearch ==
    ASSUME UNCHANGED <<table, created>>, NEW f
    PROVE  /\ Hits(f)' = Hits(f) /\ Ordered(f)' = Ordered(f)
           /\ Distinguishes(f)' <=> Distinguishes(f)
<1>1. Matches(f.where)' = Matches(f.where)
  BY DEF Matches
<1>2. \A i : SortKey(i, f.sort)' = SortKey(i, f.sort)
  BY DEF SortKey
<1>3. Hits(f)' = Hits(f)
  BY <1>1 DEF Hits
<1>4. Ordered(f)' = Ordered(f)
  BY <1>1, <1>2 DEF Ordered, Orders
<1>5. QED BY <1>1, <1>2, <1>3, <1>4 DEF Distinguishes

(* An answer keeps its worth while the table does not change ... *)
LEMMA AnswerKept ==
    ASSUME UNCHANGED <<table, created>>, NEW f, NEW r, NEW a, AnswerOK(f, r, a)
    PROVE  AnswerOK(f, r, a)'
<1>1. Current(f, r)' <=> Current(f, r)
  BY SameSearch DEF Current, Begin
<1>2. QED BY <1>1 DEF AnswerOK

(* ... and what is left of it does not depend on the table. *)
LEMMA AnswerAged ==
    ASSUME NEW f, NEW r, NEW a, AnswerOK(f, r, a)
    PROVE  AnswerOK(f, r, Aged(a))'
BY DEF AnswerOK, Aged, Age

(* The numbers of a request. *)
LEMMA Numbers ==
    ASSUME ClientOK
    PROVE  /\ filter.page \in Nat \ {0} /\ filter.page <= MaxInt
           /\ filter.perPage \in Nat \ {0} /\ filter.perPage <= MaxPerPage
           /\ total \in Nat /\ total <= MaxInt
<1>1. /\ filter.page \in 1 .. MaxInt /\ filter.perPage \in 1 .. MaxPerPage
      /\ total \in 0 .. MaxInt
  BY DEF ClientOK, FilterOK
<1>2. QED BY <1>1, Sizes

(* The number of matches. *)
LEMMA HitsCount ==
    ASSUME TableOK
    PROVE  Hits(filter) \in Nat /\ Hits(filter) <= MaxInt
<1>1. Hits(filter) \in 0 .. MaxInt
  BY Counts DEF Hits
<1>2. QED BY <1>1, Sizes

(* The first element of a sequence is one of its concatenation with another. *)
LEMMA FirstOfBoth ==
    ASSUME NEW S, NEW a \in Seq(S), NEW b \in Seq(S), a # <<>>
    PROVE  a[1] \in ToSet(a \o b)
<1>1. Len(a) \in Nat /\ Len(a) >= 1 /\ Len(b) \in Nat
  OBVIOUS
<1>2. 1 \in 1 .. Len(a) + Len(b) /\ 1 <= Len(a)
  BY <1>1
<1>3. a \o b \in Seq(S) /\ Len(a \o b) = Len(a) + Len(b)
  BY ConcatProperties
<1>4. (a \o b)[1] = a[1]
  BY <1>2, ConcatProperties
<1>5. DOMAIN (a \o b) = 1 .. Len(a) + Len(b)
  BY <1>3
<1>6. QED BY <1>2, <1>4, <1>5 DEF ToSet

(* Whatever the query string says, the filter is one that can be served. *)
LEMMA ParsedFilter ==
    ASSUME NEW q \in Queries
    PROVE  /\ ParseFilter(q).page \in 1 .. MaxInt
           /\ ParseFilter(q).perPage \in 1 .. MaxPerPage
<1>1. /\ q.page \in Seq(Int) /\ q.perPage \in Seq(Int)
      /\ \A n \in ToSet(q.page \o q.perPage) : n <= MaxInt
      /\ MaxInt \in Nat /\ MaxPerPage \in 1 .. MaxInt /\ DefaultPerPage \in 1 .. MaxPerPage
  BY SearchAssumption
<1>2. q.page # <<>> => q.page[1] \in Int /\ q.page[1] <= MaxInt
  <2>1. SUFFICES ASSUME q.page # <<>> PROVE q.page[1] \in Int /\ q.page[1] <= MaxInt
    OBVIOUS
  <2>2. Len(q.page) \in Nat /\ Len(q.page) >= 1 /\ q.page[1] \in Int
    BY <1>1, <2>1
  <2>4. q.page[1] \in ToSet(q.page \o q.perPage)
    BY <1>1, <2>1, FirstOfBoth
  <2>5. QED BY <1>1, <2>2, <2>4
<1>3. q.perPage # <<>> => q.perPage[1] \in Int
  BY <1>1
<1>4. Positive(q.page, 1) \in 1 .. MaxInt
  BY <1>1, <1>2 DEF Positive
<1>5. Cap(Positive(q.perPage, DefaultPerPage)) \in 1 .. MaxPerPage
  BY <1>1, <1>3 DEF Positive, Cap
<1>6. QED BY <1>4, <1>5 DEF ParseFilter

(* There are no more pages than matches. *)
LEMMA FewPages ==
    ASSUME NEW n \in Nat, NEW d \in Nat \ {0}
    PROVE  TotalPages(n, d) \in 0 .. n
<1>1. TotalPages(n, d) \in Nat
  BY LastPage
<1>2. CASE TotalPages(n, d) = 0
  BY <1>2
<1>3. CASE TotalPages(n, d) # 0
  <2> DEFINE k == TotalPages(n, d)
  <2>1. k \in Nat \ {0} /\ k <= k
    BY <1>1, <1>3
  <2> HIDE DEF k
  <2>2. (k - 1) * d < n
    BY <2>1, LastPage DEF k
  <2>3. (k - 1) * 1 <= (k - 1) * d
    BY <2>1
  <2>4. (k - 1) * d \in Nat /\ (k - 1) * 1 = k - 1
    BY <2>1
  <2>5. k <= n
    BY <2>1, <2>2, <2>3, <2>4
  <2>6. QED BY <2>1, <2>5 DEF k
<1>4. QED BY <1>2, <1>3

(* The page that the statement returns, from any offset that is not        *)
(* negative, whether the product has wrapped or not.                       *)
LEMMA Selected ==
    ASSUME TableOK, ClientOK, Offset(filter) >= 0,
           NEW order \in Orders(Matches(filter.where), filter.sort),
           NEW jobs, jobs = LET page == Limited(order, PageSize(filter), Offset(filter))
                            IN  [i \in 1 .. Len(page) |-> table[page[i]].fp]
    PROVE  /\ PageSize(filter) = filter.perPage /\ Offset(filter) \in Nat
           /\ jobs \in Seq(Fp)
           /\ Len(jobs) = IF Offset(filter) >= Hits(filter) THEN 0
                          ELSE IF Offset(filter) + filter.perPage <= Hits(filter) THEN filter.perPage
                          ELSE Hits(filter) - Offset(filter)
           /\ \A i \in 1 .. Len(jobs) : /\ Offset(filter) + i \in 1 .. Len(order)
                                        /\ jobs[i] = table[order[Offset(filter) + i]].fp
<1> DEFINE S == Matches(filter.where)
           k == filter.perPage
           o == Offset(filter)
           page == Limited(order, k, o)
<1>1. MaxInt \in Nat /\ MaxPerPage \in Nat /\ k \in Nat \ {0} /\ k <= MaxPerPage
  BY Numbers, Sizes
<1>2. PageSize(filter) = k
  BY <1>1, MinOfTwo DEF PageSize
<1>3. o \in Nat
  <2>1. Max({filter.page, 1}) \in Int
    BY MaxOfTwo DEF ClientOK, FilterOK
  <2>2. (Max({filter.page, 1}) - 1) * k \in Int
    BY <1>1, <2>1
  <2>3. \A n \in Int : Int64(n) \in Int
    BY <1>1 DEF Int64
  <2>4. o \in Int
    BY <1>2, <2>2, <2>3 DEF Offset
  <2>5. QED BY <2>4
<1>4. S \subseteq 1 .. Len(table) /\ IsFiniteSet(S)
  BY Counts
<1>5. order \in Seq(S) /\ Len(order) = Hits(filter)
  BY <1>4, OrderShape DEF Hits
<1> HIDE DEF o, k, S
<1>6. /\ page \in Seq(S)
      /\ Len(page) = IF o >= Hits(filter) THEN 0 ELSE IF o + k <= Hits(filter) THEN k ELSE Hits(filter) - o
      /\ \A i \in 1 .. Len(page) : o + i \in 1 .. Len(order) /\ page[i] = order[o + i]
  <2>1. k \in Nat \ {0} /\ o \in Nat /\ order \in Seq(S)
    BY <1>1, <1>3, <1>5
  <2>2. /\ page \in Seq(S)
        /\ Len(page) = IF o >= Len(order) THEN 0
                       ELSE IF o + k <= Len(order) THEN k ELSE Len(order) - o
        /\ \A i \in 1 .. Len(page) : o + i \in 1 .. Len(order) /\ page[i] = order[o + i]
    <3>1. page \in Seq(S)
      BY <2>1, LimitedPage
    <3>2. Len(page) = IF o >= Len(order) THEN 0
                      ELSE IF o + k <= Len(order) THEN k ELSE Len(order) - o
      BY <2>1, LimitedPage
    <3>3. \A i \in 1 .. Len(page) : o + i \in 1 .. Len(order) /\ page[i] = order[o + i]
      BY <2>1, LimitedPage
    <3>4. QED BY <3>1, <3>2, <3>3
  <2> HIDE DEF page
  <2>3. QED BY <1>5, <2>2
<1>7. jobs = [i \in 1 .. Len(page) |-> table[page[i]].fp]
  BY <1>2 DEF o, k
<1> HIDE DEF page
<1>8. \A i \in 1 .. Len(page) : table[page[i]].fp \in Fp
  <2>1. \A i \in 1 .. Len(page) : page[i] \in 1 .. Len(table)
    <3>1. \A i \in 1 .. Len(page) : page[i] \in S
      BY <1>6
    <3>2. QED BY <1>4, <3>1
  <2>2. \A i \in 1 .. Len(table) : table[i] \in Row
    BY DEF TableOK
  <2>3. QED BY <2>1, <2>2, RowShape
<1>9. jobs \in Seq(Fp) /\ Len(jobs) = Len(page)
  <2>1. Len(page) \in Nat
    BY <1>6
  <2>2. QED BY <1>7, <1>8, <2>1
<1>10. QED BY <1>2, <1>3, <1>6, <1>7, <1>9 DEF k, o

(* Where the product of page and size has not wrapped. *)
LEMMA ExactOffset ==
    ASSUME ClientOK, (filter.page - 1) * filter.perPage <= MaxInt
    PROVE  /\ Offset(filter) = (filter.page - 1) * filter.perPage
           /\ Offset(filter) \in Nat
<1> DEFINE p == filter.page
           k == filter.perPage
<1>1. MaxInt \in Nat /\ MaxPerPage \in Nat /\ p \in Nat \ {0} /\ k \in Nat \ {0} /\ k <= MaxPerPage
  BY Numbers, Sizes
<1>2. PageSize(filter) = k
  BY <1>1, MinOfTwo DEF PageSize
<1>3. Max({p, 1}) = p
  BY <1>1, MaxOfTwo
<1>4. (p - 1) * k \in Nat
  BY <1>1
<1>5. (p - 1) * k \in 0 .. MaxInt
  BY <1>1, <1>4
<1>6. Offset(filter) = Int64((p - 1) * k)
  BY <1>2, <1>3 DEF Offset
<1>7. QED BY <1>4, <1>5, <1>6, NoWrap

(* The statement's page is an answer to the search: honest, unless the     *)
(* table changed after the count, and current, if it has not changed.      *)
LEMMA SelectAnswers ==
    ASSUME TableOK, ClientOK, SelectPage, NEW r, r = resp'
    PROVE  AnswerOK(filter, r, age)
<1>1. PICK order \in Ordered(filter) :
        LET page == Limited(order, PageSize(filter), Offset(filter))
        IN  r = [jobs |-> [i \in 1 .. Len(page) |-> table[page[i]].fp],
                 total |-> total, page |-> filter.page, perPage |-> filter.perPage,
                 totalPages |-> TotalPages(total, filter.perPage)]
  BY DEF SelectPage, Ordered
<1>2. at = "page" /\ Offset(filter) >= 0 /\ age \in {"fresh", "torn"}
  BY DEF SelectPage, ClientOK, Age
<1> DEFINE page == Limited(order, PageSize(filter), Offset(filter))
           jobs == [i \in 1 .. Len(page) |-> table[page[i]].fp]
           n == Hits(filter)
           p == filter.page
           k == filter.perPage
           o == (p - 1) * k
<1>3. /\ r.jobs = jobs /\ r.total = total /\ r.page = p /\ r.perPage = k
      /\ r.totalPages = TotalPages(total, k)
  BY <1>1
<1>4. /\ jobs \in Seq(Fp) /\ Offset(filter) \in Nat
      /\ Len(jobs) = IF Offset(filter) >= n THEN 0
                     ELSE IF Offset(filter) + k <= n THEN k ELSE n - Offset(filter)
      /\ \A i \in 1 .. Len(jobs) : jobs[i] = table[order[Offset(filter) + i]].fp
  BY <1>2, Selected DEF Ordered
<1>5. /\ p \in Nat \ {0} /\ k \in Nat \ {0} /\ total \in Nat /\ total <= MaxInt /\ MaxInt \in Nat
      /\ n \in Nat /\ n <= MaxInt
  BY HitsCount, Numbers, Sizes
<1>6. age = "fresh" => total = n
  BY <1>2 DEF ClientOK
<1> HIDE DEF jobs, n, p, k
<1>7. r.jobs \in Seq(Fp) /\ Len(r.jobs) <= r.perPage
  BY <1>3, <1>4, <1>5
<1>8. r.totalPages \in 0 .. MaxInt
  <2>1. TotalPages(total, k) \in 0 .. total
    BY <1>5, FewPages
  <2>2. QED BY <1>3, <1>5, <2>1
<1>9. o \in Nat /\ p * k \in Nat /\ o <= p * k /\ p * k = o + k
  BY <1>5
<1>10. o <= MaxInt => Offset(filter) = o
  BY ExactOffset DEF p, k
<1>11. ASSUME age = "fresh" PROVE Honest(r)
  <2>1. SUFFICES ASSUME p * k <= MaxInt
                 PROVE  /\ Len(jobs) = Max({0, Min({total - o, k})})
                        /\ p <= TotalPages(total, k) <=> jobs # <<>>
    BY <1>3 DEF Honest
  <2>2. Offset(filter) = o
    BY <1>5, <1>9, <1>10, <2>1
  <2>3. p <= TotalPages(total, k) <=> o < total
    BY <1>5, LastPage
  <2> HIDE DEF o
  <2>4. Len(jobs) = IF o >= total THEN 0 ELSE IF o + k <= total THEN k ELSE total - o
    BY <1>4, <1>6, <1>11, <2>2
  <2>5. /\ Min({total - o, k}) = IF total - o <= k THEN total - o ELSE k
        /\ Min({total - o, k}) \in Int
    <3>1. total - o \in Int /\ k \in Int
      BY <1>5, <1>9
    <3>2. Min({total - o, k}) = IF total - o <= k THEN total - o ELSE k
      BY <3>1, MinOfTwo
    <3>3. QED BY <3>1, <3>2
  <2>6. Max({0, Min({total - o, k})}) = IF 0 >= Min({total - o, k}) THEN 0 ELSE Min({total - o, k})
    BY <2>5, MaxOfTwo
  <2>7. Len(jobs) = Max({0, Min({total - o, k})})
    BY <1>5, <1>9, <2>4, <2>5, <2>6
  <2>8. jobs # <<>> <=> Len(jobs) # 0
    BY <1>4, EmptySeq
  <2>9. QED BY <1>5, <1>9, <2>3, <2>4, <2>7, <2>8
<1>12. ASSUME age = "fresh" PROVE Current(filter, r)
  <2>1. ASSUME Distinguishes(filter), o <= n
        PROVE  /\ Len(jobs) = IF o + k <= n THEN k ELSE n - o
               /\ \A s \in Ordered(filter) : \A i \in 1 .. Len(jobs) : jobs[i] = table[s[o + i]].fp
    <3>1. Offset(filter) = o
      BY <1>5, <1>9, <1>10, <2>1
    <3>2. \A s \in Ordered(filter) : s = order
      <4>1. IsFiniteSet(Matches(filter.where)) /\ Matches(filter.where) \subseteq 1 .. Len(table)
        BY Counts
      <4>2. QED BY <2>1, <4>1, OneOrder DEF Distinguishes, Ordered
    <3> HIDE DEF o
    <3>3. Len(jobs) = IF o + k <= n THEN k ELSE n - o
      BY <1>4, <1>5, <1>9, <2>1, <3>1
    <3>4. \A i \in 1 .. Len(jobs) : jobs[i] = table[order[o + i]].fp
      BY <1>4, <3>1
    <3>5. QED BY <3>2, <3>3, <3>4
  <2>2. Begin(filter) = o
    BY DEF Begin, p, k
  <2>3. r.totalPages = TotalPages(n, k) /\ Ordered(filter) # {}
    BY <1>3, <1>6, <1>12
  <2> HIDE DEF o
  <2>4. QED BY <1>3, <2>1, <2>2, <2>3 DEF Current, n, k
<1>13. QED BY <1>2, <1>3, <1>7, <1>8, <1>11, <1>12 DEF AnswerOK, Age, p, k

(* The filter a client begins with can be served. *)
LEMMA DefaultFilter == FilterOK(NoFilter)
BY Sizes DEF NoFilter, FilterOK

(* A request that fails or ends leaves a client that may begin again. *)
LEMMA ClientReset ==
    ASSUME Reset
    PROVE  ClientOK'
<1>1. total' = 0 /\ 0 \in 0 .. MaxInt /\ <<>> \in Seq(Fp)
  BY Sizes DEF Reset
<1>2. FilterOK(filter)'
  BY DefaultFilter DEF Reset, FilterOK
<1>3. Len(resp'.jobs) <= resp'.perPage
  BY Sizes DEF Reset, NoResult
<1>4. QED BY <1>1, <1>2, <1>3 DEF Reset, ClientOK, Age

(* The key of an entry is all of the filter. *)
LEMMA KeyIsFilter ==
    ASSUME FilterOK(filter)
    PROVE  searchCacheKey(filter) = filter
BY DEF FilterOK, searchCacheKey

(* Every step keeps the answers in the cache. *)
LEMMA CacheStep ==
    ASSUME CacheOK, ClientOK, [Next]_vars
    PROVE  CacheOK'
<1>1. ASSUME Changed PROVE CacheOK'
  <2>1. SUFFICES ASSUME NEW e \in cache'
                 PROVE  FilterOK(e.key) /\ AnswerOK(e.key, e.result, e.age)'
    BY DEF CacheOK, FilterOK
  <2>2. PICK d \in cache : e = [key |-> d.key, result |-> d.result, age |-> Aged(d.age)]
    BY <1>1 DEF Changed
  <2>3. FilterOK(d.key) /\ AnswerOK(d.key, d.result, d.age)
    BY DEF CacheOK
  <2>4. AnswerOK(d.key, d.result, Aged(d.age))'
    BY <2>3, AnswerAged
  <2>5. e.key = d.key /\ e.result = d.result /\ e.age = Aged(d.age)
    BY <2>2
  <2>6. QED BY <2>3, <2>4, <2>5
<1>2. ASSUME UNCHANGED <<table, created>>,
             \A e \in cache' : FilterOK(e.key) /\ AnswerOK(e.key, e.result, e.age)
      PROVE  CacheOK'
  <2>1. \A e \in cache' : AnswerOK(e.key, e.result, e.age)'
    BY <1>2, AnswerKept
  <2>2. QED BY <1>2, <2>1 DEF CacheOK, FilterOK
<1>3. ASSUME UNCHANGED <<table, created>>, cache' \subseteq cache PROVE CacheOK'
  BY <1>2, <1>3 DEF CacheOK
<1>4. ASSUME CacheSet PROVE CacheOK'
  <2>1. UNCHANGED <<table, created>>
    BY <1>4 DEF CacheSet, tableVars
  <2>2. FilterOK(filter) /\ AnswerOK(filter, resp, age) /\ searchCacheKey(filter) = filter
    BY <1>4, KeyIsFilter DEF CacheSet, ClientOK
  <2>3. ASSUME NEW e \in cache', e \notin cache
        PROVE  e.key = filter /\ e.result = resp /\ e.age = age
    <3>1. e = [key |-> searchCacheKey(filter), result |-> resp, age |-> age]
      BY <1>4, <2>3 DEF CacheSet
    <3>2. QED BY <2>2, <3>1
  <2>4. \A e \in cache' : FilterOK(e.key) /\ AnswerOK(e.key, e.result, e.age)
    BY <2>2, <2>3 DEF CacheOK
  <2>5. QED BY <1>2, <2>1, <2>4
<1>5. ASSUME NEW u \in URLs, Store(u) PROVE CacheOK'
  <2>1. Changed \/ UNCHANGED <<table, created, cache>>
    BY <1>5 DEF Store
  <2>2. QED BY <1>1, <1>3, <2>1
<1>6. ASSUME Expire PROVE CacheOK'
  BY <1>3, <1>6 DEF Expire, tableVars
<1>7. ASSUME \/ Discover \/ \E q \in Queries : Open(q)
             \/ NextPage \/ Close \/ CacheHit \/ CacheMiss
             \/ CountMatches \/ SelectPage \/ SearchFails \/ UNCHANGED vars
      PROVE  UNCHANGED <<table, created, cache>>
  BY <1>7 DEF Discover, Open, NextPage, Close, CacheHit, CacheMiss, CountMatches, SelectPage,
              SearchFails, vars, tableVars
<1>8. DeleteOlderThan => Changed
  BY DEF DeleteOlderThan
<1>9. QED BY <1>1, <1>3, <1>4, <1>5, <1>6, <1>7, <1>8 DEF Next

(* Every step keeps the client's request, and the answer it has. *)
LEMMA ClientStep ==
    ASSUME TableOK, CacheOK, ClientOK, [Next]_vars
    PROVE  ClientOK'
<1>1. ASSUME Changed PROVE ClientOK'
  <2>1. /\ UNCHANGED <<at, filter, total, resp>> /\ shown' = <<>>
        /\ moved' = (moved \/ at # "idle")
        /\ age' = CASE at = "page" -> "torn"
                    [] at \in {"set", "shown"} -> Aged(age)
                    [] OTHER -> age
    BY <1>1 DEF Changed
  <2>2. at \in {"set", "shown"} => AnswerOK(filter, resp, age)'
    <3>1. SUFFICES ASSUME at \in {"set", "shown"} PROVE AnswerOK(filter, resp, age)'
      OBVIOUS
    <3>2. age' = Aged(age)
      BY <2>1, <3>1
    <3>3. AnswerOK(filter, resp, age)
      BY <3>1 DEF ClientOK
    <3>4. QED BY <2>1, <3>2, <3>3, AnswerAged
  <2>3. /\ age' \in Age /\ moved' \in BOOLEAN
        /\ at \in {"idle", "get", "count"} => age' = "fresh"
        /\ at = "page" => age' = "torn"
        /\ age' # "fresh" => moved'
    BY <2>1 DEF ClientOK, Age, Aged
  <2>4. FilterOK(filter)' /\ <<>> \in Seq(Fp)
    BY <2>1 DEF ClientOK, FilterOK
  <2>5. QED BY <2>1, <2>2, <2>3, <2>4 DEF ClientOK
<1>2. ASSUME UNCHANGED <<table, created, clientVars>> PROVE ClientOK'
  <2>1. UNCHANGED <<at, filter, total, resp, age, moved, shown>>
    BY <1>2 DEF clientVars
  <2>2. Hits(filter)' = Hits(filter)
    BY <1>2, <2>1, SameSearch
  <2>3. at \in {"set", "shown"} => AnswerOK(filter, resp, age)'
    BY <1>2, <2>1, AnswerKept DEF ClientOK
  <2>4. FilterOK(filter)'
    BY <2>1 DEF ClientOK, FilterOK
  <2>5. QED BY <2>1, <2>2, <2>3, <2>4 DEF ClientOK
<1>3. ASSUME NEW q \in Queries, Open(q) PROVE ClientOK'
  <2>1. filter' = ParseFilter(q)
    BY <1>3 DEF Open
  <2>2. FilterOK(filter)'
    <3>1. filter' = [where |-> filter'.where, sort |-> filter'.sort, page |-> filter'.page,
                     perPage |-> filter'.perPage]
      BY <2>1 DEF ParseFilter
    <3>2. QED BY <2>1, <3>1, ParsedFilter DEF FilterOK
  <2>3. UNCHANGED <<total, resp, shown, age>> /\ at' = "get" /\ moved' \in BOOLEAN /\ at = "idle"
    BY <1>3 DEF Open
  <2>4. QED BY <2>2, <2>3 DEF ClientOK
<1>4. ASSUME NextPage PROVE ClientOK'
  <2>1. /\ filter' = [filter EXCEPT !.page = resp.page + 1] /\ resp.page < resp.totalPages
        /\ at = "shown" /\ at' = "get" /\ age' = "fresh" /\ UNCHANGED <<total, resp, shown, moved>>
    BY <1>4 DEF NextPage
  <2>2. resp.page = filter.page /\ resp.totalPages \in 0 .. MaxInt
    BY <2>1 DEF ClientOK, AnswerOK
  <2>3. filter' = [where |-> filter.where, sort |-> filter.sort, page |-> filter.page + 1,
                   perPage |-> filter.perPage]
    BY <2>1, <2>2 DEF ClientOK, FilterOK
  <2>4. filter.page + 1 \in 1 .. MaxInt
    BY <2>1, <2>2, Numbers, Sizes
  <2>5. FilterOK(filter)'
    BY <2>3, <2>4 DEF ClientOK, FilterOK
  <2>6. QED BY <2>1, <2>5 DEF ClientOK, Age
<1>5. ASSUME CacheHit PROVE ClientOK'
  <2>1. PICK e \in cache :
          /\ e.key = searchCacheKey(filter) /\ resp' = e.result /\ age' = e.age
          /\ moved' = (moved \/ e.age # "fresh") /\ Show(e.result.jobs)
    BY <1>5 DEF CacheHit
  <2>2. at' = "shown" /\ UNCHANGED <<table, created, filter, total>>
    BY <1>5 DEF CacheHit, tableVars
  <2>3. e.key = filter /\ FilterOK(filter)'
    BY <2>1, <2>2, KeyIsFilter DEF ClientOK, FilterOK
  <2>4. AnswerOK(filter, e.result, e.age)
    BY <2>3 DEF CacheOK
  <2>5. AnswerOK(filter, resp, age)'
    BY <2>1, <2>2, <2>4, AnswerKept
  <2>6. shown' \in Seq(Fp)
    <3>1. e.result.jobs \in Seq(Fp) /\ shown \in Seq(Fp)
      BY <2>4 DEF AnswerOK, ClientOK
    <3>2. QED BY <2>1, <3>1, ConcatProperties DEF Show
  <2>7. age' \in Age /\ Len(resp'.jobs) <= resp'.perPage
    BY <2>1, <2>4 DEF AnswerOK
  <2>8. moved' \in BOOLEAN /\ (age' # "fresh" => moved')
    BY <2>1 DEF ClientOK
  <2>9. QED BY <2>2, <2>3, <2>5, <2>6, <2>7, <2>8 DEF ClientOK
<1>6. ASSUME CacheMiss PROVE ClientOK'
  <2>1. at = "get" /\ at' = "count" /\ UNCHANGED <<filter, total, resp, shown, age, moved>>
    BY <1>6 DEF CacheMiss
  <2>2. FilterOK(filter)'
    BY <2>1 DEF ClientOK, FilterOK
  <2>3. QED BY <2>1, <2>2 DEF ClientOK
<1>7. ASSUME CountMatches PROVE ClientOK'
  <2>1. /\ UNCHANGED <<table, created, filter, resp, shown, age, moved>> /\ total' = Hits(filter)
        /\ at = "count" /\ at' = "page"
    BY <1>7 DEF CountMatches, tableVars, Hits
  <2>2. Hits(filter)' = Hits(filter)
    BY <2>1, SameSearch
  <2>3. Hits(filter) \in 0 .. MaxInt
    BY Counts DEF Hits
  <2>4. FilterOK(filter)'
    BY <2>1 DEF ClientOK, FilterOK
  <2>5. QED BY <2>1, <2>2, <2>3, <2>4 DEF ClientOK
<1>8. ASSUME SelectPage PROVE ClientOK'
  <2>1. /\ at' = "set" /\ total' = 0 /\ at = "page"
        /\ UNCHANGED <<table, created, filter, shown, age, moved>>
    BY <1>8 DEF SelectPage, tableVars
  <2>2. AnswerOK(filter, resp', age)
    BY <1>8, SelectAnswers
  <2>3. AnswerOK(filter, resp, age)'
    BY <2>1, <2>2, AnswerKept
  <2>4. Len(resp'.jobs) <= resp'.perPage /\ 0 \in 0 .. MaxInt
    BY <2>2, Sizes DEF AnswerOK
  <2>5. FilterOK(filter)'
    BY <2>1 DEF ClientOK, FilterOK
  <2>6. QED BY <2>1, <2>3, <2>4, <2>5 DEF ClientOK
<1>9. ASSUME CacheSet PROVE ClientOK'
  <2>1. /\ at = "set" /\ at' = "shown" /\ Show(resp.jobs)
        /\ UNCHANGED <<table, created, filter, total, resp, age, moved>>
    BY <1>9 DEF CacheSet, tableVars
  <2>2. AnswerOK(filter, resp, age)
    BY <2>1 DEF ClientOK
  <2>3. AnswerOK(filter, resp, age)'
    BY <2>1, <2>2, AnswerKept
  <2>4. shown' \in Seq(Fp)
    <3>1. resp.jobs \in Seq(Fp) /\ shown \in Seq(Fp)
      BY <2>2 DEF AnswerOK, ClientOK
    <3>2. QED BY <2>1, <3>1, ConcatProperties DEF Show
  <2>5. FilterOK(filter)'
    BY <2>1 DEF ClientOK, FilterOK
  <2>6. QED BY <2>1, <2>3, <2>4, <2>5 DEF ClientOK
<1>10. ASSUME NEW u \in URLs, Store(u) PROVE Changed \/ UNCHANGED <<table, created, clientVars>>
  BY <1>10 DEF Store
<1>11. ASSUME Discover \/ Expire \/ UNCHANGED vars PROVE UNCHANGED <<table, created, clientVars>>
  BY <1>11 DEF Discover, Expire, vars, tableVars
<1>12. DeleteOlderThan => Changed
  BY DEF DeleteOlderThan
<1>13. Close \/ SearchFails => Reset
  BY DEF Close, SearchFails
<1>14. QED
  BY <1>1, <1>2, <1>3, <1>4, <1>5, <1>6, <1>7, <1>8, <1>9, <1>10, <1>11, <1>12, <1>13,
     ClientReset DEF Next

(* The table, the cache and the client are well formed at all times. *)
LEMMA Always == Spec => [](TableOK /\ CacheOK /\ ClientOK)
<1>1. Init => TableOK /\ CacheOK /\ ClientOK
  <2>1. SUFFICES ASSUME Init PROVE TableOK /\ CacheOK /\ ClientOK
    OBVIOUS
  <2>2. at = "idle" /\ filter = NoFilter /\ total = 0 /\ resp = NoResult
        /\ shown = <<>> /\ age = "fresh" /\ moved = FALSE /\ cache = {}
    BY <2>1 DEF Init
  <2>3. 0 \in 0 .. MaxInt /\ <<>> \in Seq(Fp) /\ Len(NoResult.jobs) <= NoResult.perPage
    BY Sizes DEF NoResult
  <2>4. FilterOK(filter)
    BY <2>2, DefaultFilter
  <2>5. ClientOK
    BY <2>2, <2>3, <2>4 DEF ClientOK, Age
  <2>6. QED BY <2>1, <2>2, <2>5, TableInit DEF CacheOK
<1>2. TableOK /\ CacheOK /\ ClientOK /\ [Next]_vars => TableOK' /\ CacheOK' /\ ClientOK'
  BY TableStep, CacheStep, ClientStep
<1>3. QED BY <1>1, <1>2, PTL DEF Spec

(* The types of TypeOK, that no fingerprint has two rows, and that a page  *)
(* holds no more than its size, in the cache or out of it, for any         *)
(* requests.                                                               *)
THEOREM TypeCorrect == Spec => []TypeOK
<1>1. TableOK /\ CacheOK /\ ClientOK => TypeOK
  <2>1. SUFFICES ASSUME TableOK, CacheOK, ClientOK PROVE TypeOK
    OBVIOUS
  <2>2. \A l \in ToSet(listings) : l.source \in DOMAIN Selectors
    <3>1. \A l \in ToSet(listings) : l \in Crawlable
      BY <2>1 DEF TableOK, ToSet
    <3>2. QED BY <3>1, InCrawlable
  <2>3. \A i \in 1 .. Len(table) : table[i].url \in URLs /\ table[i].fp \in Fp
    <3>1. \A i \in 1 .. Len(table) : table[i] \in Row
      BY <2>1 DEF TableOK
    <3>2. QED BY <3>1, RowShape
  <2>4. Cardinality(Fps(table)) = Len(table)
    BY <2>1, Counts
  <2>5. \A e \in cache : e.age \in Age /\ Len(e.result.jobs) <= e.key.perPage
    BY <2>1 DEF CacheOK, AnswerOK
  <2>6. ToSet(shown) \subseteq Fp
    BY <2>1 DEF ClientOK, ToSet
  <2>7. total \in Nat
    BY <2>1 DEF ClientOK
  <2>8. filter.page \in 1 .. MaxInt /\ filter.perPage \in 1 .. MaxPerPage
    BY <2>1 DEF ClientOK, FilterOK
  <2>9. QED BY <2>1, <2>2, <2>3, <2>4, <2>5, <2>6, <2>7, <2>8 DEF TypeOK, TableOK, ClientOK
<1>2. QED BY <1>1, Always, PTL

(* For any table, search, page number and page size, and from the cache as *)
(* well, a page holds what is left for it.                                 *)
THEOREM PagesHonest == Spec => []PageHonest
<1>1. ClientOK => PageHonest
  BY DEF ClientOK, AnswerOK, PageHonest
<1>2. QED BY <1>1, Always, PTL

-----------------------------------------------------------------------------
(* Paging from the first page on.  While all that was shown is fresh, it   *)
(* is the beginning of the one order that the search has.                  *)

(* How much of it the pages up to the client's make. *)
Reached == IF at # "shown" THEN Begin(filter)
           ELSE IF Begin(filter) + filter.perPage <= Hits(filter)
                THEN Begin(filter) + filter.perPage ELSE Hits(filter)

Walked(n) ==
    /\ Len(shown) = n
    /\ \A s \in Ordered(filter) : \A m \in 1 .. n : shown[m] = table[s[m]].fp

WalkOK ==
    at # "idle" /\ ~moved =>
        /\ Begin(filter) <= Hits(filter)
        /\ Distinguishes(filter) => Walked(Reached)

(* Whoever asks for a page after a current one asks for a part of the      *)
(* order that exists, and for the next.                                    *)
LEMMA WalkNext ==
    ASSUME TableOK, ClientOK, WalkOK, NextPage
    PROVE  WalkOK'
<1> DEFINE n == Hits(filter)
           p == filter.page
           k == filter.perPage
<1>1. /\ at = "shown" /\ resp.page < resp.totalPages /\ at' = "get"
      /\ UNCHANGED <<table, created, shown, moved>>
      /\ filter' = [filter EXCEPT !.page = resp.page + 1]
  BY DEF NextPage, tableVars
<1>2. SUFFICES ASSUME ~moved PROVE WalkOK'
  BY <1>1 DEF WalkOK
<1>3. /\ resp.page = p /\ resp.totalPages = TotalPages(n, k)
      /\ Begin(filter) <= n /\ (Distinguishes(filter) => Walked(Reached))
  BY <1>1, <1>2 DEF WalkOK, ClientOK, AnswerOK, Current
<1>4. filter' = [where |-> filter.where, sort |-> filter.sort, page |-> p + 1, perPage |-> k]
  BY <1>1, <1>3 DEF ClientOK, FilterOK
<1>5. n \in Nat /\ p \in Nat \ {0} /\ k \in Nat \ {0}
  BY HitsCount, Numbers, Sizes
<1>6. /\ Hits(filter)' = n /\ Ordered(filter)' = Ordered(filter)
      /\ Distinguishes(filter)' <=> Distinguishes(filter)
  <2>1. /\ filter'.where = filter.where /\ filter'.sort = filter.sort
        /\ UNCHANGED <<table, created>>
    BY <1>1, <1>4
  <2>2. Matches(filter.where)' = Matches(filter.where)
    BY <2>1 DEF Matches
  <2>3. \A i : SortKey(i, filter.sort)' = SortKey(i, filter.sort)
    BY <2>1 DEF SortKey
  <2>4. Hits(filter)' = n
    BY <2>2 DEF Hits
  <2>5. Ordered(filter)' = Ordered(filter)
    BY <2>1, <2>2, <2>3 DEF Ordered, Orders
  <2>6. QED BY <2>2, <2>3, <2>4, <2>5 DEF Distinguishes
<1>7. Begin(filter)' = p * k /\ Begin(filter) + k = p * k /\ p * k \in Nat
  <2>1. Begin(filter)' = (p + 1 - 1) * k
    <3>1. filter'.page = p + 1 /\ filter'.perPage = k
      BY <1>4
    <3> HIDE DEF p, k
    <3>2. QED BY <1>5, <3>1 DEF Begin
  <2>2. p + 1 - 1 = p
    BY <1>5
  <2>3. (p - 1) * k + k = p * k /\ p * k \in Nat
    BY <1>5
  <2>4. QED BY <2>1, <2>2, <2>3 DEF Begin
<1> HIDE DEF n, p, k
<1>8. p * k < n
  <2>1. p + 1 \in Nat \ {0} /\ p + 1 - 1 = p
    BY <1>5
  <2>2. TotalPages(n, k) \in Nat /\ (p + 1 <= TotalPages(n, k) <=> (p + 1 - 1) * k < n)
    BY <1>5, <2>1, LastPage
  <2>3. p + 1 <= TotalPages(n, k)
    BY <1>1, <1>3, <1>5, <2>2
  <2>4. QED BY <2>1, <2>2, <2>3
<1>9. p * k <= n
  BY <1>5, <1>7, <1>8
<1>10. Reached = p * k
  BY <1>1, <1>7, <1>9 DEF Reached, n, k
<1>11. Reached' = p * k
  BY <1>1, <1>7 DEF Reached
<1>12. ASSUME Distinguishes(filter) PROVE Walked(Reached)'
  <2>1. Walked(p * k)
    BY <1>3, <1>10, <1>12
  <2>2. UNCHANGED <<table, shown>>
    BY <1>1
  <2>3. QED BY <1>6, <1>11, <2>1, <2>2 DEF Walked
<1>13. QED BY <1>6, <1>7, <1>9, <1>12 DEF WalkOK

(* A current answer, from the cache or not, is the next piece. *)
LEMMA WalkShow ==
    ASSUME TableOK, ClientOK, WalkOK, at \in {"get", "set"}, at' = "shown",
           UNCHANGED <<table, created, filter>>,
           NEW r, r.jobs \in Seq(Fp), Show(r.jobs), ~moved' => ~moved /\ Current(filter, r)
    PROVE  WalkOK'
<1> DEFINE n == Hits(filter)
           k == filter.perPage
           o == Begin(filter)
           jobs == r.jobs
<1>1. SUFFICES ASSUME ~moved' PROVE WalkOK'
  BY DEF WalkOK
<1>2. o <= n /\ (Distinguishes(filter) => Walked(o)) /\ Current(filter, r)
  BY <1>1 DEF WalkOK, Reached
<1>3. /\ Hits(filter)' = n /\ Ordered(filter)' = Ordered(filter) /\ Begin(filter)' = o
      /\ Distinguishes(filter)' <=> Distinguishes(filter)
  BY SameSearch DEF Begin
<1>4. n \in Nat /\ k \in Nat \ {0} /\ o \in Nat
  <2>1. filter.page \in Nat \ {0} /\ k \in Nat \ {0} /\ n \in Nat
    BY HitsCount, Numbers
  <2>2. (filter.page - 1) * k \in Nat
    BY <2>1
  <2>3. QED BY <2>1, <2>2 DEF Begin
<1>5. Reached' = IF o + k <= n THEN o + k ELSE n
  BY <1>3 DEF Reached
<1>6. ASSUME Distinguishes(filter) PROVE Walked(Reached)'
  <2>1. /\ jobs \in Seq(Fp)
        /\ Len(jobs) = IF o + k <= n THEN k ELSE n - o
        /\ \A s \in Ordered(filter) : \A i \in 1 .. Len(jobs) : jobs[i] = table[s[o + i]].fp
    BY <1>2, <1>6 DEF Current
  <2>2. /\ shown \in Seq(Fp) /\ Len(shown) = o
        /\ \A s \in Ordered(filter) : \A m \in 1 .. o : shown[m] = table[s[m]].fp
    BY <1>2, <1>6 DEF Walked, ClientOK
  <2>3. shown' = shown \o jobs
    BY <1>1 DEF Show
  <2> HIDE DEF jobs, o, k, n
  <2>4. /\ Len(shown') = o + Len(jobs)
        /\ \A i \in 1 .. o + Len(jobs) : shown'[i] = IF i <= o THEN shown[i] ELSE jobs[i - o]
    <3>1. /\ Len(shown \o jobs) = Len(shown) + Len(jobs)
          /\ \A i \in 1 .. Len(shown) + Len(jobs) :
                (shown \o jobs)[i] = IF i <= Len(shown) THEN shown[i] ELSE jobs[i - Len(shown)]
      BY <2>1, <2>2, ConcatProperties, Zenon
    <3>2. QED BY <2>2, <2>3, <3>1, Zenon
  <2>5. o + Len(jobs) = Reached'
    BY <1>2, <1>4, <1>5, <2>1
  <2>6. ASSUME NEW s \in Ordered(filter), NEW m \in 1 .. o + Len(jobs)
        PROVE  shown'[m] = table[s[m]].fp
    <3>1. CASE m <= o
      BY <1>4, <2>2, <2>4, <3>1
    <3>2. CASE ~(m <= o)
      <4>1. m - o \in 1 .. Len(jobs) /\ o + (m - o) = m
        BY <1>4, <2>1, <3>2
      <4>2. shown'[m] = jobs[m - o]
        BY <2>4, <3>2
      <4>3. QED BY <2>1, <4>1, <4>2
    <3>3. QED BY <3>1, <3>2
  <2>7. QED BY <1>3, <2>4, <2>5, <2>6 DEF Walked
<1>7. QED BY <1>2, <1>3, <1>6 DEF WalkOK

(* Every step keeps what was shown the beginning of the order. *)
LEMMA WalkStep ==
    ASSUME TableOK, CacheOK, ClientOK, WalkOK, [Next]_vars
    PROVE  WalkOK'
<1>1. ASSUME UNCHANGED <<table, created, filter, shown, moved>>, at \notin {"idle", "shown"} \/ at' = at,
             at' = "shown" => at = "shown"
      PROVE  WalkOK'
  <2>1. /\ Hits(filter)' = Hits(filter) /\ Ordered(filter)' = Ordered(filter)
        /\ Distinguishes(filter)' <=> Distinguishes(filter)
    BY <1>1, SameSearch
  <2>2. Begin(filter)' = Begin(filter) /\ Reached' = Reached
    BY <1>1, <2>1 DEF Begin, Reached
  <2>3. Walked(Reached)' <=> Walked(Reached)
    BY <1>1, <2>1, <2>2 DEF Walked
  <2>4. QED BY <1>1, <2>1, <2>2, <2>3 DEF WalkOK
<1>2. ASSUME at' = "idle" \/ moved' PROVE WalkOK'
  BY <1>2 DEF WalkOK
<1>3. ASSUME NEW q \in Queries, Open(q) PROVE WalkOK'
  <2>1. SUFFICES ASSUME ~moved' PROVE WalkOK'
    BY <1>2
  <2>2. /\ at = "idle" /\ at' = "get" /\ shown' = shown /\ filter'.page = 1
        /\ UNCHANGED <<table, created>>
    BY <1>3, <2>1 DEF Open, tableVars
  <2>3. shown' = <<>> /\ Len(<<>>) = 0
    BY <2>2 DEF ClientOK
  <2>4. Begin(filter)' = 0
    <3>1. filter'.perPage \in Nat
      BY <1>3, ParsedFilter, Sizes DEF Open
    <3>2. QED BY <2>2, <3>1 DEF Begin
  <2>5. Hits(filter)' >= 0
    <3>1. Hits(filter)' = Cardinality(Matches(filter'.where))
      BY <2>2 DEF Hits, Matches
    <3>2. Hits(filter)' \in 0 .. MaxInt
      BY <3>1, Counts
    <3>3. QED BY <3>2
  <2>6. Reached' = 0
    BY <2>2, <2>4 DEF Reached
  <2>7. Walked(Reached)'
    BY <2>3, <2>6 DEF Walked
  <2>8. QED BY <2>4, <2>5, <2>7 DEF WalkOK
<1>4. ASSUME CacheHit PROVE WalkOK'
  <2>1. PICK e \in cache :
          /\ e.key = searchCacheKey(filter)
          /\ moved' = (moved \/ e.age # "fresh") /\ Show(e.result.jobs)
    BY <1>4 DEF CacheHit
  <2>2. at = "get" /\ at' = "shown" /\ UNCHANGED <<table, created, filter>>
    BY <1>4 DEF CacheHit, tableVars
  <2>3. e.key = filter
    BY <2>1, KeyIsFilter DEF ClientOK
  <2>4. AnswerOK(filter, e.result, e.age)
    BY <2>3 DEF CacheOK
  <2>5. /\ e.result.jobs \in Seq(Fp)
        /\ ~moved' => ~moved /\ Current(filter, e.result)
    BY <2>1, <2>4 DEF AnswerOK
  <2>6. QED BY <2>1, <2>2, <2>5, WalkShow
<1>5. ASSUME CacheSet PROVE WalkOK'
  <2>1. /\ at = "set" /\ at' = "shown" /\ UNCHANGED <<table, created, filter, moved>>
        /\ Show(resp.jobs)
    BY <1>5 DEF CacheSet, tableVars
  <2>2. resp.jobs \in Seq(Fp) /\ (~moved' => ~moved /\ Current(filter, resp))
    BY <2>1 DEF ClientOK, AnswerOK
  <2>3. QED BY <2>1, <2>2, WalkShow
<1>6. ASSUME Changed PROVE at' = "idle" \/ moved'
  BY <1>6 DEF Changed
<1>7. ASSUME NEW u \in URLs, Store(u) PROVE Changed \/ UNCHANGED <<table, created, clientVars>>
  BY <1>7 DEF Store
<1>8. ASSUME Discover \/ Expire \/ UNCHANGED vars \/ UNCHANGED <<table, created, clientVars>>
      PROVE  UNCHANGED <<table, created, at, filter, shown, moved>>
  BY <1>8 DEF Discover, Expire, vars, tableVars, clientVars
<1>9. ASSUME CacheMiss \/ CountMatches \/ SelectPage
      PROVE  /\ UNCHANGED <<table, created, filter, shown, moved>>
             /\ at \notin {"idle", "shown"} /\ at' # "shown"
  BY <1>9 DEF CacheMiss, CountMatches, SelectPage, tableVars
<1>10. DeleteOlderThan => Changed
  BY DEF DeleteOlderThan
<1>11. Close \/ SearchFails => at' = "idle"
  BY DEF Close, SearchFails, Reset
<1>12. QED
  BY <1>1, <1>2, <1>3, <1>4, <1>5, <1>6, <1>7, <1>8, <1>9, <1>10, <1>11, WalkNext DEF Next

(* For any table, search and page size: a client that pages to the end,    *)
(* by a column that tells the matches apart and by answers, cached or not, *)
(* that are still fresh, has seen each match once and nothing else.        *)
THEOREM AllShown == Spec => []PagesComplete
<1>1. TableOK /\ ClientOK /\ WalkOK => PagesComplete
  <2> DEFINE n == Hits(filter)
             p == filter.page
             k == filter.perPage
             S == Matches(filter.where)
  <2>1. SUFFICES ASSUME TableOK, ClientOK, WalkOK, at = "shown", ~moved,
                        resp.page >= resp.totalPages, Distinguishes(filter)
                 PROVE  ToSet(shown) = {table[i].fp : i \in S} /\ Len(shown) = n
    BY DEF PagesComplete, Hits
  <2>2. n \in Nat /\ p \in Nat \ {0} /\ k \in Nat \ {0} /\ IsFiniteSet(S)
    BY <2>1, Counts, HitsCount, Numbers
  <2>3. /\ resp.page = p /\ resp.totalPages = TotalPages(n, k)
        /\ Ordered(filter) # {} /\ Walked(Reached)
    BY <2>1 DEF WalkOK, ClientOK, AnswerOK, Current
  <2>4. Begin(filter) + k = p * k /\ p * k \in Nat
    <3>1. (p - 1) * k + k = p * k /\ p * k \in Nat
      BY <2>2
    <3>2. QED BY <3>1 DEF Begin
  <2>5. ~(p * k < n)
    <3> HIDE DEF n, p, k
    <3>1. p + 1 \in Nat \ {0} /\ p + 1 - 1 = p
      BY <2>2
    <3>2. TotalPages(n, k) \in Nat /\ (p + 1 <= TotalPages(n, k) <=> (p + 1 - 1) * k < n)
      BY <2>2, <3>1, LastPage
    <3>3. ~(p + 1 <= TotalPages(n, k))
      BY <2>1, <2>2, <2>3, <3>2
    <3>4. QED BY <3>1, <3>2, <3>3
  <2>6. Reached = n
    <3>1. Reached = IF p * k <= n THEN p * k ELSE n
      BY <2>1, <2>4 DEF Reached
    <3> HIDE DEF n, p, k
    <3>2. QED BY <2>2, <2>4, <2>5, <3>1
  <2>7. PICK s : s \in Ordered(filter)
    BY <2>3
  <2>8. /\ s \in Seq(S) /\ Len(s) = n
        /\ \A x \in S : \E i \in 1 .. n : s[i] = x
    BY <2>2, <2>7, OrderShape DEF Ordered, Hits
  <2>9. Len(shown) = n /\ \A m \in 1 .. n : shown[m] = table[s[m]].fp
    BY <2>3, <2>6, <2>7 DEF Walked
  <2>10. \A m \in 1 .. n : s[m] \in S
    BY <2>8
  <2>11. DOMAIN shown = 1 .. n
    BY <2>1, <2>9 DEF ClientOK
  <2>12. ToSet(shown) = {table[i].fp : i \in S}
    BY <2>8, <2>9, <2>10, <2>11 DEF ToSet
  <2>13. QED BY <2>9, <2>12
<1>2. Init => WalkOK
  BY DEF Init, WalkOK
<1>3. TableOK /\ CacheOK /\ ClientOK /\ WalkOK /\ [Next]_vars => WalkOK'
  BY WalkStep
<1>4. QED BY <1>1, <1>2, <1>3, Always, PTL DEF Spec

-----------------------------------------------------------------------------
(* For any listing page of a known source: ParseListing returns the links  *)
(* it is after, all of them, each once and in page order.                  *)
THEOREM ListingsComplete == Spec => []ListingComplete
<1>1. ASSUME TableOK, listings # <<>> PROVE ListingComplete
  <2> DEFINE listing == Head(listings)
             links == listing.links
             found == ParseListing(listing.source, links)
             First(u) == FirstLink(links, Wanted(listing), u)
  <2>1. listing \in Crawlable
    BY <1>1, EmptySeq, HeadTailProperties DEF TableOK
  <2> DEFINE Link == [url : URLs, card : BOOLEAN, detail : BOOLEAN]
  <2>2. links \in Seq(Link)
    BY <2>1, InCrawlable
  <2> HIDE DEF Link, listing
  <2>3. found = Targets(links, Wanted(listing)) /\ Wanted(listing) \subseteq ToSet(links)
    BY <2>2, ListingPass
  <2>4. ToSet(found) = {l.url : l \in Wanted(listing)}
    BY <2>2, <2>3, TargetsAre
  <2>5. \A i, j \in 1 .. Len(found) : i < j => First(found[i]) < First(found[j])
    BY <2>2, <2>3, TargetsFound DEF PassedOK
  <2>6. Wanted(listing) = IF listing.source = "STEPSTONE" /\ {l \in ToSet(links) : l.detail /\ l.card} # {}
                            THEN {l \in ToSet(links) : l.detail /\ l.card}
                            ELSE {l \in ToSet(links) : l.detail}
    <3>1. Cards(links) = {l \in ToSet(links) : l.detail /\ l.card}
      BY DEF Cards, Details
    <3>2. QED BY <3>1 DEF Wanted, Details
  <2> DEFINE wanted == IF listing.source = "STEPSTONE" /\ {l \in ToSet(links) : l.detail /\ l.card} # {}
                         THEN {l \in ToSet(links) : l.detail /\ l.card}
                         ELSE {l \in ToSet(links) : l.detail}
  <2>7. /\ ToSet(found) = {l.url : l \in wanted}
        /\ \A i, j \in 1 .. Len(found) : i < j =>
              SelectInSeq(links, LAMBDA l : l \in wanted /\ l.url = found[i])
              < SelectInSeq(links, LAMBDA l : l \in wanted /\ l.url = found[j])
    <3>1. Wanted(listing) = wanted
      BY <2>6
    <3> HIDE DEF wanted, found
    <3>2. \A u : First(u) = SelectInSeq(links, LAMBDA l : l \in wanted /\ l.url = u)
      BY <3>1 DEF FirstLink, SelectInSeq
    <3> HIDE DEF First
    <3>3. QED BY <2>4, <2>5, <3>1, <3>2
  <2> HIDE DEF found, wanted
  <2>8. QED BY <2>7, Zenon DEF ListingComplete, listing, found, wanted
<1>2. ListingComplete \/ listings # <<>>
  BY DEF ListingComplete
<1>3. TableOK => ListingComplete
  BY <1>1, <1>2
<1>4. QED BY <1>3, Always, PTL

=============================================================================
