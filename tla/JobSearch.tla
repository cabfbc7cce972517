----------------------------- MODULE JobSearch ------------------------------
(***************************************************************************)
(* The jobs table between its writers and its readers: a processor stores  *)
(* the postings of the pages it is given, the janitor deletes the oldest   *)
(* rows, and a client pages through the results of a search.  An answer is *)
(* made by two statements, a count and a page, or comes from the cache     *)
(* that the API keeps in Redis.                                            *)
(*                                                                         *)
(* The table is the sequence of its rows in order of created_at.  Numbers  *)
(* in a request are <<n>>, or <<>> where strconv.Atoi has none.            *)
(***************************************************************************)
EXTENDS Postings

CONSTANTS
    Listings,        \* what there may be to crawl: sequences of listing
                     \* pages, each with its source and links
    PageAt,          \* PageAt[u]: the versions of the detail page at u
    Queries,         \* what clients ask for, before it is parsed
    Alerts,          \* the alerts there are
    DefaultPerPage, MaxPerPage,
    MaxSalary,       \* largest INTEGER of the database
    MaxInt,          \* largest int of the API
    TitleOrder,      \* the database's collation, a sequence of titles
    MaxEntries       \* bound: answers in the cache at one time

URLs == DOMAIN PageAt

Sorts == {"published_at", "created_at", "salary_min", "title"}

(* Atoi yields an int, or an error that counts as no number. *)
ASSUME SearchAssumption ==
    /\ MaxInt \in Nat /\ MaxSalary \in Nat /\ MaxPerPage \in 1 .. MaxInt
    /\ DefaultPerPage \in 1 .. MaxPerPage
    /\ TitleOrder \in Seq(ToSet(TitleOrder))
    /\ \A q \in Queries :
          /\ q.page \in Seq(Int) /\ q.perPage \in Seq(Int)
          /\ \A n \in ToSet(q.page \o q.perPage) : n <= MaxInt

VARIABLES
    listings,   \* the listing pages left to crawl
    pending,    \* URLs of postings to be processed
    table,      \* the rows of jobs
    created,    \* created[i]: the created_at of row i
    cache,      \* the answers in Redis, each with its key and its age
    at,         \* where the client's request stands
    filter,     \* its SearchFilter
    total,      \* what it has counted
    resp,       \* its SearchResult
    age,        \* history: the age of the answer in hand
    moved,      \* history: of what was shown since page 1, not all is fresh
    shown       \* history: if it is, the fingerprints shown since page 1

tableVars == <<listings, pending, table, created>>
clientVars == <<at, filter, total, resp, age, moved, shown>>
vars == <<tableVars, cache, clientVars>>

(* An answer is fresh as long as the table is as the count found it, and   *)
(* old when the table has changed; torn, when it did so before the page    *)
(* was read.                                                               *)
Age == {"fresh", "old", "torn"}

-----------------------------------------------------------------------------
(* SearchFilter, from JobHandler.Search.                                   *)

CapDropped(n) == n
Cap(n) == IF n > MaxPerPage THEN MaxPerPage ELSE n

(* Values that are no numbers or out of range leave the default. *)
Positive(raw, default) == IF raw # <<>> /\ raw[1] >= 1 THEN raw[1] ELSE default

ParseFilter(q) ==
    [where |-> q.where, sort |-> q.sort,
     page |-> Positive(q.page, 1), perPage |-> Cap(Positive(q.perPage, DefaultPerPage))]

(* What a request without parameters asks for. *)
NoWhere == [query |-> <<>>, location |-> "", remote |-> "", salaryMin |-> 0,
            sources |-> {}, tags |-> {}]
NoFilter == [where |-> NoWhere, sort |-> <<>>, page |-> 1, perPage |-> DefaultPerPage]

NoResult == [jobs |-> <<>>, total |-> 0, page |-> 1, perPage |-> DefaultPerPage, totalPages |-> 0]

(* The words of a row that full-text search looks at. *)
TitleWords(row) == [i \in 1 .. Len(row.title) |-> row.title[i][2]]

(* The WHERE clause; an empty criterion is left out.  A row without a      *)
(* minimum salary fails any.                                               *)
Satisfies(row, w) ==
    /\ ToSet(w.query) \subseteq ToSet(TitleWords(row) \o row.description)
    /\ w.location # "" => Occurs(w.location, row.city)
    /\ w.remote # "" => row.remote = w.remote
    /\ w.salaryMin > 0 => row.salaryMin # <<>> /\ row.salaryMin[1] >= w.salaryMin
    /\ w.sources # {} => row.source \in w.sources
    /\ w.tags \subseteq row.tags

Matches(w) == {i \in 1 .. Len(table) : Satisfies(table[i], w)}

(* ORDER BY.  The column is one of Sorts or published_at, which            *)
(* processMessage never sets; NULL is larger than any value.               *)
Column(sort) == IF sort # <<>> /\ sort[1] \in Sorts THEN sort[1] ELSE "published_at"
Ascending(sort) == sort # <<>> /\ sort[1] \in Sorts /\ sort[2] = "asc"

SortKey(i, sort) ==
    CASE Column(sort) = "created_at"   -> created[i]
      [] Column(sort) = "salary_min"   -> IF table[i].salaryMin = <<>> THEN MaxSalary + 1
                                          ELSE table[i].salaryMin[1]
      [] Column(sort) = "title"        -> SelectInSeq(TitleOrder, LAMBDA t : t = table[i].title)
      [] Column(sort) = "published_at" -> MaxSalary + 1

(* Every order the database may give: rows with equal keys come in any. *)
Orders(S, sort) ==
    {s \in SetToSeqs(S) : \A i, j \in 1 .. Len(s) : i < j =>
        IF Ascending(sort) THEN SortKey(s[i], sort) <= SortKey(s[j], sort)
                           ELSE SortKey(s[i], sort) >= SortKey(s[j], sort)}

(* int arithmetic wraps. *)
Int64(n) == ((n + MaxInt + 1) % (2 * MaxInt + 2)) - MaxInt - 1

(* The repository bounds page and size once more, for its statement alone. *)
PageSize(f) == IF f.perPage < 1 THEN DefaultPerPage ELSE Min({f.perPage, MaxPerPage})

OffsetOneTooFar(f) == Int64(f.page * PageSize(f))
Offset(f) == Int64((Max({f.page, 1}) - 1) * PageSize(f))

(* LIMIT and OFFSET. *)
Limited(s, limit, offset) == SubSeq(s, offset + 1, Min({offset + limit, Len(s)}))

TotalPages(n, perPage) == (n + perPage - 1) \div perPage

(* The key is a hash of the filter's JSON, which has all of its fields. *)
searchCacheKeyNoPage(f) ==
    [where |-> f.where, sort |-> f.sort, page |-> 1, perPage |-> f.perPage]

searchCacheKey(f) ==
    [where |-> f.where, sort |-> f.sort, page |-> f.page, perPage |-> f.perPage]

-----------------------------------------------------------------------------
(* The alert matcher, which no binary is given.                            *)

(* The words stand next to each other in the text, or in parts of its words. *)
Phrase(text, words) ==
    \E i \in 0 .. Len(text) - Len(words) :
        \A k \in 1 .. Len(words) : Occurs(words[k], text[i + k])

hasTagIntersection(jobTags, filterTags) == jobTags \cap filterTags # {}

matchesFilterAbove(j, w) ==
    /\ w.query # <<>> => Phrase(TitleWords(j), w.query) \/ Phrase(j.description, w.query)
    /\ w.tags # {} => hasTagIntersection(j.tags, w.tags)
    /\ w.remote # "" => j.remote = w.remote
    /\ w.salaryMin > 0 => j.salaryMin # <<>> /\ j.salaryMin[1] > w.salaryMin

(* The phrase in title or description, a tag in common, the remote type,   *)
(* the salary.  Location and sources of the filter are not looked at.      *)
matchesFilter(j, w) ==
    /\ w.query # <<>> => Phrase(TitleWords(j), w.query) \/ Phrase(j.description, w.query)
    /\ w.tags # {} => hasTagIntersection(j.tags, w.tags)
    /\ w.remote # "" => j.remote = w.remote
    /\ w.salaryMin > 0 => j.salaryMin # <<>> /\ j.salaryMin[1] >= w.salaryMin

FindMatchingAlerts(j) ==
    {a \in Alerts : a.frequency = "IMMEDIATE" /\ a.active /\ matchesFilter(j, a.where)}

-----------------------------------------------------------------------------
(* What processMessage makes of the pages there are. *)
JobsAt == [u \in URLs |-> {Normalised(u, page) : page \in PageAt[u]}]

Job == UNION {JobsAt[u] : u \in URLs}
Fp == {j.fp : j \in Job}

(* Listings link to pages that PageAt knows, amounts of money are numbers, *)
(* and the rows can be counted in an int.                                  *)
ASSUME PostingsAssumption ==
    /\ Listings \subseteq Seq([source : DOMAIN Selectors,
                               links : Seq([url : URLs, card : BOOLEAN, detail : BOOLEAN])])
    /\ \A j \in Job : j.salaryMin \in Seq(Nat)
    /\ IsFiniteSet(Fp) /\ Cardinality(Fp) <= MaxInt

Fps(rows) == {r.fp : r \in ToSet(rows)}

TypeOK ==
    /\ \A l \in ToSet(listings) : l.source \in DOMAIN Selectors
    /\ pending \subseteq URLs
    /\ \A i \in 1 .. Len(table) : table[i].url \in URLs /\ table[i].fp \in Fp
    /\ Cardinality(Fps(table)) = Len(table)
    /\ Len(created) = Len(table)
    /\ \A e \in cache : e.age \in Age /\ Len(e.result.jobs) <= e.key.perPage
    /\ at \in {"idle", "get", "count", "page", "set", "shown"}
    /\ filter.page \in 1 .. MaxInt /\ filter.perPage \in 1 .. MaxPerPage
    /\ total \in Nat
    /\ Len(resp.jobs) <= resp.perPage
    /\ ToSet(shown) \subseteq Fp
    /\ age \in Age /\ moved \in BOOLEAN

Init ==
    /\ listings \in Listings
    /\ pending = {} /\ table = <<>> /\ created = <<>> /\ cache = {}
    /\ at = "idle" /\ filter = NoFilter /\ total = 0 /\ resp = NoResult
    /\ shown = <<>> /\ age = "fresh" /\ moved = FALSE

-----------------------------------------------------------------------------
(* The writers.                                                            *)

(* The table changes under the client and under the answers in the cache. *)
Aged(a) == IF a = "fresh" THEN "old" ELSE a

Changed ==
    /\ cache' = {[key |-> e.key, result |-> e.result, age |-> Aged(e.age)] : e \in cache}
    /\ age' = CASE at = "page" -> "torn"
                [] at \in {"set", "shown"} -> Aged(age)
                [] OTHER -> age
    /\ moved' = (moved \/ at # "idle")
    /\ shown' = <<>>
    /\ UNCHANGED <<at, filter, total, resp>>

(* A crawler parses a listing page. *)
Discover ==
    /\ listings # <<>>
    /\ pending' = pending \cup ToSet(ParseListing(Head(listings).source, Head(listings).links))
    /\ listings' = Tail(listings)
    /\ UNCHANGED <<table, created, cache, clientVars>>

(* The CHECK constraints of the table. *)
Fits(j) ==
    /\ \A n \in ToSet(j.salaryMin \o j.salaryMax) : n <= MaxSalary
    /\ j.salaryMin # <<>> /\ j.salaryMax # <<>> => j.salaryMax[1] >= j.salaryMin[1]

(* A row with the fingerprint keeps all it has but its url. *)
UpsertRow(j) ==
    IF j.fp \in Fps(table)
      THEN [i \in 1 .. Len(table) |-> IF table[i].fp = j.fp THEN [table[i] EXCEPT !.url = j.url]
                                                           ELSE table[i]]
      ELSE Append(table, j)

(* NOW() of an INSERT: not before the last one, and perhaps the same. *)
Now == IF created = <<>> THEN {0} ELSE {created[Len(created)], created[Len(created)] + 1}

Stamped(j, t) == IF j.fp \in Fps(table) THEN created ELSE Append(created, t)

(* A processor, past the dedup keys (new, expired or unavailable), stores  *)
(* the posting at u.  The Upsert takes effect, whether or not it reports   *)
(* an error then, or it does not: the table refuses the row, or the        *)
(* statement fails.  Where the message goes is Processor's subject.        *)
Store(u) ==
    /\ u \in pending
    /\ pending' = pending \ {u}
    /\ \/ /\ \E j \in JobsAt[u], t \in Now :
                /\ Fits(j)
                /\ table' = UpsertRow(j)
                /\ created' = Stamped(j, t)
          /\ Changed
       \/ UNCHANGED <<table, created, cache, clientVars>>
    /\ UNCHANGED listings

(* The janitor deletes the rows created before some moment. *)
DeleteOlderThan ==
    /\ \E n \in 1 .. Len(table) :
          /\ n < Len(table) => created[n] < created[n + 1]
          /\ table' = SubSeq(table, n + 1, Len(table))
          /\ created' = SubSeq(created, n + 1, Len(created))
    /\ Changed
    /\ UNCHANGED <<listings, pending>>

-----------------------------------------------------------------------------
(* The client.                                                             *)

(* It sends a search ... *)
Open(q) ==
    /\ at = "idle"
    /\ at' = "get"
    /\ filter' = ParseFilter(q)
    /\ moved' = (ParseFilter(q).page # 1)
    /\ UNCHANGED <<tableVars, cache, total, resp, shown, age>>

(* ... or asks for the page after the one it is shown. *)
NextPage ==
    /\ at = "shown"
    /\ resp.page < resp.totalPages
    /\ at' = "get"
    /\ filter' = [filter EXCEPT !.page = resp.page + 1]
    /\ age' = "fresh"
    /\ UNCHANGED <<tableVars, cache, total, resp, shown, moved>>

Reset ==
    /\ at' = "idle" /\ filter' = NoFilter /\ total' = 0 /\ resp' = NoResult
    /\ shown' = <<>> /\ age' = "fresh" /\ moved' = FALSE

Close == at = "shown" /\ Reset /\ UNCHANGED <<tableVars, cache>>

(* The client is shown jobs. *)
Show(jobs) == shown' = IF moved' THEN <<>> ELSE shown \o jobs

(* CachedJobService.Search: an entry with the filter's key is the answer.  *)
CacheHit ==
    /\ at = "get"
    /\ \E e \in cache :
          /\ e.key = searchCacheKey(filter)
          /\ resp' = e.result
          /\ age' = e.age
          /\ moved' = (moved \/ e.age # "fresh")
          /\ Show(e.result.jobs)
    /\ at' = "shown"
    /\ UNCHANGED <<tableVars, cache, filter, total>>

(* Without one, or when Redis fails, the table is asked. *)
CacheMiss ==
    /\ at = "get"
    /\ at' = "count"
    /\ UNCHANGED <<tableVars, cache, filter, total, resp, shown, age, moved>>

CountMatches ==
    /\ at = "count"
    /\ at' = "page"
    /\ total' = Cardinality(Matches(filter.where))
    /\ UNCHANGED <<tableVars, cache, filter, resp, shown, age, moved>>

SelectPage ==
    /\ at = "page"
    /\ Offset(filter) >= 0
    /\ \E order \in Orders(Matches(filter.where), filter.sort) :
          LET page == Limited(order, PageSize(filter), Offset(filter))
          IN  resp' = [jobs |-> [i \in 1 .. Len(page) |-> table[page[i]].fp],
                       total |-> total, page |-> filter.page, perPage |-> filter.perPage,
                       totalPages |-> TotalPages(total, filter.perPage)]
    /\ at' = "set"
    /\ total' = 0
    /\ UNCHANGED <<tableVars, cache, filter, shown, age, moved>>

(* A statement fails; the one with a negative offset always does.  Errors  *)
(* are not cached.                                                         *)
SearchFails == at \in {"count", "page"} /\ Reset /\ UNCHANGED <<tableVars, cache>>

(* The answer is stored, or not, and shown. *)
CacheSet ==
    /\ at = "set"
    /\ LET others == {e \in cache : e.key # searchCacheKey(filter)}
       IN  \/ /\ Cardinality(others) < MaxEntries
              /\ cache' = others \cup {[key |-> searchCacheKey(filter), result |-> resp, age |-> age]}
           \/ UNCHANGED cache
    /\ at' = "shown"
    /\ UNCHANGED <<tableVars, filter, total, resp, age, moved>>
    /\ Show(resp.jobs)

(* Redis drops an entry whose time is up. *)
Expire ==
    /\ \E e \in cache : cache' = cache \ {e}
    /\ UNCHANGED <<tableVars, clientVars>>

-----------------------------------------------------------------------------
Next ==
    \/ Discover
    \/ \E u \in URLs : Store(u)
    \/ DeleteOlderThan
    \/ \E q \in Queries : Open(q)
    \/ NextPage
    \/ Close
    \/ CacheHit
    \/ CacheMiss
    \/ CountMatches
    \/ SelectPage
    \/ SearchFails
    \/ CacheSet
    \/ Expire

Spec == Init /\ [][Next]_vars

-----------------------------------------------------------------------------
(* What ParseListing returns, against its comments in stepstone.go,        *)
(* xing.go and indeed.go: detail links only, each once, in page order; all *)
(* of them, except that STEPSTONE's links outside of job cards count only  *)
(* when no card has any - then they do, so that a page with detail links   *)
(* never comes out empty.                                                  *)
ListingComplete ==
    listings # <<>> =>
        LET listing == Head(listings)
            found == ParseListing(listing.source, listing.links)
            links == ToSet(listing.links)
            cards == {l \in links : l.detail /\ l.card}
            wanted == IF listing.source = "STEPSTONE" /\ cards # {} THEN cards
                      ELSE {l \in links : l.detail}
            First(u) == SelectInSeq(listing.links, LAMBDA l : l \in wanted /\ l.url = u)
        IN  /\ ToSet(found) = {l.url : l \in wanted}
            /\ \A i, j \in 1 .. Len(found) : i < j => First(found[i]) < First(found[j])

(* Page r holds exactly the matches that its number and size and the total *)
(* leave for it, and is empty only beyond the reported last page.  Not for *)
(* page numbers whose offset wraps.                                        *)
Honest(r) ==
    r.page * r.perPage <= MaxInt =>
        LET left == r.total - (r.page - 1) * r.perPage
        IN  /\ Len(r.jobs) = Max({0, Min({left, r.perPage})})
            /\ r.page <= r.totalPages <=> r.jobs # <<>>

(* A page of results, from the table or from the cache, whose two          *)
(* statements saw the same table is honest: handler, service and           *)
(* repository agree on the size they work with (job_handler.go,            *)
(* postgres_job_service.go and job_repo.go each bound it or divide by it). *)
PageHonest == at = "shown" /\ age # "torn" => Honest(resp)

(* The column tells the matches apart. *)
Distinguishes(f) ==
    \A i, j \in Matches(f.where) : i # j => SortKey(i, f.sort) # SortKey(j, f.sort)

(* A client that goes from page 1 to the last page, and whose pages all    *)
(* tell of the table as it is, whether the cache had them or not, has seen *)
(* every match once and nothing else - in an order whose column tells the  *)
(* matches apart.  (The default order does not: its column is NULL in      *)
(* every row, and pages may then repeat and omit rows; so may pages of     *)
(* different ages, for as long as an entry lives.)                         *)
PagesComplete ==
    at = "shown" /\ ~moved /\ resp.page >= resp.totalPages /\ Distinguishes(filter) =>
        /\ ToSet(shown) = {table[i].fp : i \in Matches(filter.where)}
        /\ Len(shown) = Cardinality(Matches(filter.where))

(* The filter of an alert is matched against jobs by code of its own,      *)
(* which is no narrower than search: a row that search finds by the filter *)
(* is one that the matcher picks.  It is wider, although alert.go calls    *)
(* the two identical: the matcher leaves out location and source and asks  *)
(* for one of the tags.  Filters with a query are not compared, since      *)
(* search stems words and the matcher looks for the phrase.                *)
AlertsNotNarrower ==
    \A a \in Alerts, i \in 1 .. Len(table) :
        /\ a.frequency = "IMMEDIATE" /\ a.active /\ a.where.query = <<>>
        /\ Satisfies(table[i], a.where)
        => a \in FindMatchingAlerts(table[i])

=============================================================================
