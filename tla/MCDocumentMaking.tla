-------------------------- MODULE MCDocumentMaking --------------------------
(***************************************************************************)
(* Instances of DocumentMaking for TLC.                                    *)
(***************************************************************************)
EXTENDS DocumentMaking, TLC

CONSTANTS p, q, x, y, z,
          title, take, s1, s2, s3, s4, s5, r1, r2, quiz1, quiz2, quiz3,
          g1, g2, e1, html, pptx, t1, t2, c1, c2, m1, m2, m3, i1, i2, d1, d2, d3

\* A file of up to two pages, and one of a single page.
MCMaxPages == <<2, 1>>

-----------------------------------------------------------------------------
Good == [wants |-> <<{p}, {}>>, roster |-> {p}, justified |-> TRUE, argued |-> TRUE]
OffRoster == [Good EXCEPT !.wants = <<{p}, {q}>>]
Label == [Good EXCEPT !.argued = FALSE]
MCPlans == {Good, OffRoster, Label}

\* A raw slide of section i; section 9 is out of range.
Raw(id, type, i) ==
    [id |-> id, type |-> type, index |-> i, tag |-> NoSection, loose |-> FALSE,
     people |-> {}, thesis |-> TRUE, facts |-> {}, clash |-> FALSE]
With(raw, who) == [raw EXCEPT !.people = who]
Bare(raw) == [raw EXCEPT !.thesis = FALSE]
Loose(raw, i) == [raw EXCEPT !.index = 9, !.tag = i, !.loose = TRUE]
Shows(raw, facts) == [raw EXCEPT !.facts = facts]

Opening == Raw(s1, "title", 9)
Figure == With(Raw(s2, "gallery", 1), {p})
Words == Raw(s3, "words", 2)

\* As planned; without a title, behind a hollow divider; dense opening; with
\* breaks for the interactive slides; authors on a credits slide; a section
\* missing; the figure missing; a stranger in section 2, in none, under a loose
\* name; a tagged title in a failing section; nothing but hollow dividers.
Structures ==
    {<<Opening, Figure, Words>>,
     <<Bare(Raw(s1, "break", 1)), Figure, Words, Raw(s4, "break", 2)>>,
     <<Opening, With(Raw(s4, "timeline", 1), {p}), Raw(s5, "timeline", 2), Words, Figure>>,
     <<Opening, Figure, Raw(s4, "break", 2), Words, Raw(s5, "break", 2)>>,
     <<Opening, Figure, Words, With(Raw(s4, "team", 9), {q})>>,
     <<Opening, Figure>>,
     <<Opening, With(Words, {q})>>,
     <<Opening, With(Figure, {}), Words>>,
     <<Opening, Figure, With(Raw(s4, "timeline", 2), {q}), Words>>,
     <<Opening, Figure, Words, With(Raw(s4, "gallery", 9), {q})>>,
     <<Opening, Figure, Words, Loose(With(Raw(s4, "gallery", 9), {q}), 2)>>,
     <<Raw(s1, "title", 2), Figure, With(Raw(s4, "gallery", 2), {q})>>,
     <<Bare(Raw(s1, "break", 1))>>,
     <<>>}

Repairs ==
    {<<With(Raw(r1, "gallery", 1), {p})>>,
     <<Raw(r2, "words", 2)>>,
     <<With(Raw(r1, "gallery", 1), {q}), Raw(r2, "words", 2)>>,
     <<Raw(r1, "words", 2), Raw(r2, "break", 2)>>,
     <<Bare(Raw(r2, "break", 2)), With(Raw(r1, "timeline", 1), {p})>>}

\* Something for the critic to find, and a fact a claim supports.
Unsupported ==
    {<<Opening, Shows(Figure, {x}), [Shows(Words, {y, z}) EXCEPT !.clash = TRUE]>>,
     <<Opening, Figure, Shows(Words, {x, y})>>}

MCDrafts == Structures \cup Repairs \cup Unsupported

\* A slide written again may be sound, lose its figure, keep or change what it
\* shows, or break its own rules.
Again(type, who, facts) == Shows(With(Raw(s5, type, 1), who), facts)
MCRewrites ==
    {Again("gallery", {p}, {}), Again("gallery", {}, {}), Again("gallery", {q}, {}),
     Again("gallery", {p}, {x}), Again("words", {}, {}), Again("words", {p}, {x}),
     Again("words", {}, {y})}

Proposals == [handle : 2..3, token : Tokens \cup {Clash}]
MCReadings == {S \in SUBSET Proposals : Cardinality(S) <= 2}
MCClaimSets == {{z}}

-----------------------------------------------------------------------------
\* An opening, a slide with a figure, one without images; an edit of the last two.
MCOrder == <<s1, s2, s3>>
MCFixes == [e \in Edits |-> <<s2, s3>>]
MCRequested == [o \in Runs |-> Formats]

-----------------------------------------------------------------------------
\* Two people and a figure on one slide; of one person the years are given.
MCShownOn == [i \in ImageSlots |-> s1]
Alive(born, died) == [born |-> born, died |-> died]
MCLived == (i1 :> Alive(10, 17) @@ i2 :> Alive(Unknown, Unknown))
MCOverlaps == [i \in Drawn |-> <<1, 2>>]

Picture(marks) == [portrait |-> TRUE, raster |-> TRUE, large |-> TRUE, marks |-> marks]
Someone(label, born, picture) ==
    [human |-> TRUE, label |-> label, lived |-> Alive(born, Unknown), words |-> 0,
     image |-> picture]

\* Nobody by that name; the person; a namesake before the person; a year off by
\* one before the year itself, one without a label; files that must not be used.
MCResults ==
    {<<[Someone("exact", 10, Picture({"pd"})) EXCEPT !.human = FALSE],
       Someone("none", Unknown, Picture({"pd"}))>>,
     <<[Someone("exact", 10, Picture({"by"})) EXCEPT !.lived.died = 17]>>,
     <<Someone("exact", 30, Picture({"pd"})), Someone("exact", Unknown, Picture({"by"}))>>,
     <<Someone("loose", 11, Picture({"pd"})), Someone("none", 10, Picture({"by"})),
       [Someone("empty", Unknown, Picture({"pd", "restricted"})) EXCEPT !.words = 3]>>,
     <<Someone("exact", Unknown, [Picture({"pd"}) EXCEPT !.portrait = FALSE])>>,
     <<Someone("loose", Unknown, Picture({"by", "sharealike"}))>>}

-----------------------------------------------------------------------------
\* The same paper as two services know it, and two more with a title like its own.
Paper == [valid |-> TRUE, title |-> 1..5, doi |-> d2, cites |-> 120, age |-> 2,
          authors |-> TRUE, extras |-> {"abstract", "pdf"}, apt |-> TRUE, brief |-> FALSE]
Copy == [Paper EXCEPT !.doi = d3, !.cites = Untold, !.extras = {}]
Like == [Paper EXCEPT !.title = 1..4, !.doi = NoDoi, !.cites = 60, !.age = 4]
MCFound ==
    {<<Paper, Like>>,
     <<Copy, [Like EXCEPT !.title = (1..4) \cup {6}, !.age = Untold, !.cites = 100],
       [Like EXCEPT !.valid = FALSE]>>}
MCLower == d2 :> d2 @@ d3 :> d2

Says(topics) ==
    [strength |-> 0, length |-> 5, statistic |-> FALSE, law |-> FALSE, words |-> topics]
Chapter(marks, topics, has) ==
    [marks |-> marks, legal |-> FALSE, input |-> FALSE, ready |-> 2, words |-> topics,
     claims |-> has]

\* Behind an abstract, a review that lacks numbers, and a section of no meaning; a legal
\* discussion with a stronger claim, and a section that lacks nothing.
MCOutlines ==
    {<<Chapter({"abstract"}, {1}, <<>>),
       Chapter({"literature", "introduction"}, {1}, <<[Says({1}) EXCEPT !.statistic = TRUE]>>),
       Chapter({"discussion"}, {}, <<>>)>>,
     <<[Chapter({"discussion", "results"}, {2},
                <<Says({5}), [Says({3}) EXCEPT !.strength = 1]>>)
            EXCEPT !.legal = TRUE, !.ready = 3],
       Chapter({"methodology"}, {2}, <<>>)>>}

MCDomains == <<"economics", "legal", "medical">>
Shares(economics, legal, medical) ==
    "economics" :> economics @@ "legal" :> legal @@ "medical" :> medical
MCKeywordShares == {Shares(0, 0, 0), Shares(5, 0, 50), Shares(20, 20, 0)}
MCProvidersOf ==
    "economics" :> <<"world_bank", "academic">> @@ "legal" :> <<"lex_uz", "academic">>
        @@ "medical" :> <<"pubmed", "academic">> @@ "general" :> <<"academic">>
MCPopular == <<1>>
MCApis == <<"semantic", "crossref">>

-----------------------------------------------------------------------------
\* One claim in every chunk, of one file and of two; and chunks with two, none and
\* one, the last of them of a second file.
Passage(key, n) == [key |-> key, claims |-> n]
MCSources ==
    {<<Passage(0, 1), Passage(1, 1)>>,
     <<Passage(0, 1), Passage(1, 1), Passage(0, 1)>>,
     <<Passage(0, 2), Passage(1, 0), Passage(0, 1)>>}

\* The template of a referat, the middle one of its sections with two parts.
Section(subs) == [abstract |-> FALSE, subs |-> subs]
MCTemplate == <<Section(1), Section(2), Section(1)>>

\* Nothing; one section; a middle section of three; abstracts where none belong.
Part(uses) == [titled |-> FALSE, uses |-> uses]
Abstract(uses) == [titled |-> TRUE, uses |-> uses]
MCOutlineAnswers ==
    {<<>>,
     <<<<Part({c1})>>>>,
     (2 :> <<Abstract({c1})>>),
     <<<<Part({})>>, <<Part({c1})>>, <<>>>>,
     <<<<Abstract({})>>, <<Part({c1}), Part({}), Part({c2})>>, <<Part({})>>>>,
     <<<<Part({})>>, <<Part({}), Abstract({c2})>>, <<Abstract({})>>>>}

Text(marks, refs) == [marks |-> marks, refs |-> refs]
MCTexts == {NoText, Text(<<m1, m2>>, 2), Text(<<m2, m3>>, 0)}

\* The metadata of the second source could not be used; nor those of the first.
MCBibliographies == {<<1, 3>>, <<2>>}
=============================================================================
