------------------------------ MODULE Postings ------------------------------
(***************************************************************************)
(* From a page to a row: the source parsers (internal/crawler) and the     *)
(* normalizer (internal/processor), which are pure functions.              *)
(*                                                                         *)
(* Every text is a sequence of the parts that these functions tell apart,  *)
(* and <<>> is the empty text, which stands for one that is missing too:   *)
(*   title        parts <<kind, word>>: a plain "word", an "other" one     *)
(*                (C++, one with an umlaut), a "dash", a gender "note"     *)
(*   location     <<"remote", ...>>, or the city and what follows it       *)
(*   salary       <<form, low, high>>, the form being the way it is put    *)
(*   description  words                                                    *)
(*                                                                         *)
(* A detail page has its source, the texts it shows and where (text, a     *)
(* function from selectors to texts) and its JSON-LD entities (ld).        *)
(***************************************************************************)
EXTENDS Integers, SequencesExt

CONSTANTS
    techKeywords, remoteFullKeywords, remotePartialKeywords,
    Substrings   \* Substrings[w]: what occurs inside of word w

-----------------------------------------------------------------------------
(* ParseListing.  A link has its target, whether it sits in a job card,    *)
(* and whether it has the shape of a detail link: the path of STEPSTONE    *)
(* and XING, a data-jk of INDEED that is an id and not the placeholder.    *)

(* One pass over the links: the targets of those in kept, each once. *)
Targets(links, kept) ==
    LET urls[i \in 0 .. Len(links)] ==
            IF i = 0 THEN <<>>
            ELSE IF links[i] \in kept /\ ~Contains(urls[i - 1], links[i].url)
              THEN Append(urls[i - 1], links[i].url)
              ELSE urls[i - 1]
    IN  urls[Len(links)]

Details(links) == {l \in ToSet(links) : l.detail}
Cards(links) == {l \in Details(links) : l.card}

ParseListingCardsOnly(source, links) ==
    Targets(links, IF source = "STEPSTONE" THEN Cards(links) ELSE Details(links))

(* STEPSTONE looks at job cards first, and at every link if that finds     *)
(* nothing; the others look at every link.                                 *)
ParseListing(source, links) ==
    LET found == Targets(links, Cards(links))
    IN  IF source = "STEPSTONE" /\ found # <<>> THEN found
                                                ELSE Targets(links, Details(links))

-----------------------------------------------------------------------------
(* ParseDetail.                                                            *)

(* The first JobPosting among the JSON-LD blocks, of which each is an      *)
(* entity or a list of them; none for STEPSTONE, which strips scripts.     *)
findJobPosting(page) ==
    IF page.source = "STEPSTONE" THEN <<>>
    ELSE SelectSeq(page.ld, LAMBDA e : e.type = "JobPosting")

(* jobLocation is one place or a list: the first that has a locality. *)
firstLocality(places) ==
    LET named == SelectSeq(places, LAMBDA p : p # <<>>)
    IN  IF named = <<>> THEN <<>> ELSE named[1]

(* baseSalary is passed on as the JSON it is. *)
formatSalary(salary) == IF salary = <<>> THEN <<>> ELSE <<"json", salary[1], salary[2]>>

LDText(page, field) ==
    LET jp == findJobPosting(page)
    IN  IF jp = <<>> THEN <<>>
        ELSE CASE field = "location" -> firstLocality(jp[1].location)
               [] field = "salary"   -> formatSalary(jp[1].salary)
               [] OTHER              -> jp[1][field]

(* Where each source looks for a field, besides JSON-LD, in that order. *)
Selectors ==
    [STEPSTONE |->
       [title       |-> <<"h1", "og:title">>,
        company     |-> <<"header-company-name", "list-icons_company-name">>,
        location    |-> <<"job-ad-header-city", "list-icons_location">>,
        salary      |-> <<"salary">>,
        description |-> <<"text-description", "main">>],
     XING |->
       [title       |-> <<"job-details-title", "h1", "og:title">>,
        company     |-> <<"company-info-name">>,
        location    |-> <<"company-card-location">>,
        salary      |-> <<"salary-card">>,
        description |-> <<"expandable-content">>],
     INDEED |->
       [title       |-> <<"JobInfoHeader-title", "h1", "og:title">>,
        company     |-> <<"inlineHeader-companyName">>,
        location    |-> <<"inlineHeader-companyLocation", "JobInfoHeader-companyLocation">>,
        salary      |-> <<>>,
        description |-> <<>>]]

Shown(page, selector) ==
    IF selector \in DOMAIN page.text THEN page.text[selector] ELSE <<>>

(* The JSON-LD text of a field, or the first selector that shows one. *)
Field(page, field) ==
    LET places == SelectSeq(Selectors[page.source][field], LAMBDA s : Shown(page, s) # <<>>)
    IN  IF LDText(page, field) # <<>> THEN LDText(page, field)
        ELSE IF places # <<>> THEN Shown(page, places[1]) ELSE <<>>

(* A page without any of it (a challenge page, say) is no error. *)
ParseDetail(page) ==
    [title |-> Field(page, "title"), company |-> Field(page, "company"),
     location |-> Field(page, "location"), salary |-> Field(page, "salary"),
     description |-> Field(page, "description")]

(* What makes two postings the same, and the unique key of their row. *)
Fingerprint(job) == <<job.title, job.company, job.location>>

-----------------------------------------------------------------------------
(* The normalizer.                                                         *)

(* The last dash is cut off with all that follows it, if that is plain     *)
(* words; then every gender note.                                          *)
NormalizeTitle(title) ==
    LET i == SelectLastInSeq(title, LAMBDA part : part[1] = "dash")
        tail == SubSeq(title, i + 1, Len(title))
        noise == i > 0 /\ tail # <<>> /\ \A part \in ToSet(tail) : part[1] = "word"
    IN  SelectSeq(IF noise THEN SubSeq(title, 1, i - 1) ELSE title,
                  LAMBDA part : part[1] # "note")

(* "Remote ..." is Remote; else what stands before a comma or slash. *)
NormalizeLocation(location) ==
    IF location = <<>> THEN ""
    ELSE IF location[1] = "remote" THEN "Remote" ELSE location[1]

(* Keywords are looked for anywhere, inside of other words too. *)
Occurs(x, word) == x = word \/ (word \in DOMAIN Substrings /\ x \in Substrings[word])

Found(keywords, words) == {k \in keywords : \E w \in words : Occurs(k, w)}

DetectRemote(description) ==
    IF Found(remoteFullKeywords, ToSet(description)) # {} THEN "FULL"
    ELSE IF Found(remotePartialKeywords, ToSet(description)) # {} THEN "PARTIAL"
    ELSE "NONE"

ExtractTags(title, description) ==
    Found(techKeywords, {part[2] : part \in ToSet(title)} \cup ToSet(description))

(* A pair of amounts, <<>> for one that is not known: "range" is           *)
(* "60.000 - 80.000 EUR", "short" is in thousands, "up to" has no minimum; *)
(* anything else, JSON too, is not understood.                             *)
ParseSalary(salary) ==
    IF salary = <<>> THEN [min |-> <<>>, max |-> <<>>]
    ELSE CASE salary[1] = "range" -> [min |-> <<salary[2]>>, max |-> <<salary[3]>>]
           [] salary[1] = "short" -> [min |-> <<1000 * salary[2]>>, max |-> <<1000 * salary[3]>>]
           [] salary[1] = "up to" -> [min |-> <<>>, max |-> <<salary[3]>>]
           [] OTHER               -> [min |-> <<>>, max |-> <<>>]

(* The job processMessage makes of the page found at url. *)
Normalised(url, page) ==
    LET raw == ParseDetail(page)
        salary == ParseSalary(raw.salary)
    IN  [fp |-> Fingerprint(raw), url |-> url, source |-> page.source,
         title |-> NormalizeTitle(raw.title), city |-> NormalizeLocation(raw.location),
         remote |-> DetectRemote(raw.description),
         salaryMin |-> salary.min, salaryMax |-> salary.max,
         description |-> raw.description,
         tags |-> ExtractTags(raw.title, raw.description)]

=============================================================================
