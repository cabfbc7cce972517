---------------------------- MODULE MCJobSearch ----------------------------
(* A small instance of JobSearch for TLC. *)
EXTENDS JobSearch

Word(w) == <<"word", w>>
Part == [dash |-> <<"dash", "-">>, note |-> <<"note", "m/w/d">>]

Inside == [javascript |-> {"java"}, hamburg |-> {"burg"}]

(* u1 and u4 are one posting, the second with another salary, unless u4    *)
(* shows its salary the wrong way round.  The salary of u2 stands in       *)
(* JSON-LD, where the posting is the second entity and names its city in   *)
(* the second place.                                                       *)
P1 == [source |-> "STEPSTONE", ld |-> <<>>,
       text |-> [h1 |-> <<Word("golang"), Part.dash, Word("hamburg")>>] @@
                ("header-company-name" :> <<"acme">>) @@
                ("job-ad-header-city" :> <<"hamburg", "germany">>) @@
                ("salary" :> <<"short", 60, 80>>) @@
                ("text-description" :> <<"java", "hybrid">>)]
P4 == [P1 EXCEPT !.text["salary"] = <<"range", 70000, 90000>>]
P2 == [source |-> "XING",
       ld |-> <<[type |-> "WebSite"],
                [type |-> "JobPosting", title |-> <<Word("javascript"), Part.note>>,
                 company |-> <<>>, location |-> << <<>>, <<"remote", "berlin">> >>,
                 salary |-> <<50000, 70000>>, description |-> <<"anywhere", "hybrid">>]>>,
       text |-> ("company-info-name" :> <<"beta">>) @@ ("salary-card" :> <<"range", 50000, 70000>>)]
P3 == [source |-> "INDEED", ld |-> <<>>,
       text |-> ("h1" :> <<Word("golang")>>) @@
                ("JobInfoHeader-companyLocation" :> <<"berlin">>)]
Bad == [source |-> "STEPSTONE", ld |-> <<>>,
        text |-> ("og:title" :> <<Word("java")>>) @@ ("salary" :> <<"range", 80000, 60000>>)]

Versions == [u1 |-> {P1}, u2 |-> {P2}, u3 |-> {P3}, u4 |-> {P4, Bad}]

(* One listing page of up to three links, or one for every source. *)
Link(u, card, detail) == [url |-> u, card |-> card, detail |-> detail]
Card(u) == Link(u, TRUE, TRUE)
Stepstone == {Card("u1"), Link("u1", FALSE, TRUE), Link("u4", FALSE, TRUE), Link("u4", TRUE, FALSE)}
Xing == {Card("u2"), Link("u2", FALSE, TRUE), Link("u2", TRUE, FALSE)}
Page(source, links) == [source |-> source, links |-> links]
Crawls ==
    {<<Page("STEPSTONE", links)>> : links \in BoundedSeq(Stepstone, 3)} \cup
    {<<Page("XING", links)>> : links \in BoundedSeq(Xing, 2)} \cup
    {<<Page("STEPSTONE", <<Card("u1")>>), Page("XING", <<Card("u2")>>),
       Page("INDEED", <<Card("u3")>>)>>}

Everything == NoWhere
Narrow == [query |-> <<"golang">>, location |-> "burg", remote |-> "PARTIAL", salaryMin |-> 60000,
           sources |-> {"STEPSTONE"}, tags |-> {"golang", "java"}]
Java == [Everything EXCEPT !.tags = {"java"}]
Paid == [Everything EXCEPT !.salaryMin = 60000]

Ask(w, sort, page, perPage) == [where |-> w, sort |-> sort, page |-> page, perPage |-> perPage]
Searches ==
    {Ask(Everything, <<"created_at", "desc">>, <<0>>, <<9>>),
     Ask(Java, <<"title", "asc">>, <<1>>, <<1>>),
     Ask(Narrow, <<"company", "asc">>, <<2>>, <<0>>),
     Ask(Everything, <<"salary_min", "asc">>, <<9>>, <<9>>)}

Alert(w, f, active) == [where |-> w, frequency |-> f, active |-> active]
Saved == {Alert(Java, "IMMEDIATE", TRUE), Alert(Paid, "IMMEDIATE", TRUE),
          Alert([Narrow EXCEPT !.query = <<>>], "IMMEDIATE", TRUE),
          Alert([Java EXCEPT !.query = <<"java">>], "IMMEDIATE", TRUE),
          Alert(Everything, "DAILY", TRUE), Alert(Everything, "IMMEDIATE", FALSE)}

Collation == << <<Word("golang")>>, <<Word("java")>>, <<Word("javascript")>> >>

=============================================================================
