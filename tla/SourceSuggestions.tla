-------------------------- MODULE SourceSuggestions -------------------------
(***************************************************************************)
(* Sources the user did not upload (SuggestionEngine): for each section of *)
(* an outline that needs any, the providers of the article's domains are   *)
(* asked a few queries at once, and the best of what they find is offered  *)
(* to the user.  What is approved enters the evidence matrix               *)
(* (SuggestionIntegrator).  Scores are in thousandths.  No provider gives a *)
(* law's number yet, so what the engine adds for one is left out.           *)
(***************************************************************************)
EXTENDS Integers, Sequences, FiniteSets, SequencesExt

CONSTANTS
    Outlines,           \* what the sections of an article may be
    Domains,            \* the domains, in the order of their names
    General,
    KeywordShares,      \* what share of each domain's keywords the texts may hold
    ProvidersOf,        \* the registry: the providers of a domain
    Topics,             \* the words of titles and of queries
    Popular,            \* the words that name an indicator, in order
    Apis,               \* the APIs of the federated search, in order
    Found,              \* what a search may find: sequences of items
    Ages,               \* of an indicator's value
    Untold,
    NoDoi,
    Lower,              \* Lower[d]: the DOI d in lower case
    RelevanceThreshold,
    PerSection,         \* MAX_SUGGESTIONS_PER_SECTION
    MaxConcurrent,      \* MAX_CONCURRENT_PROVIDERS
    PerCall,            \* _PROVIDER_MAX_RESULTS
    MaxApproved         \* bound: suggestions approved at once

\* A publication as a search finds it: the words of its title (without those that
\* carry no meaning), the extras that come with it, whether its abstract speaks of
\* the section, whether title and text together make a claim.
Items ==
    [valid : BOOLEAN, title : SUBSET Topics, doi : DOMAIN Lower \cup {NoDoi},
     cites : Nat \cup {Untold}, age : Nat \cup {Untold}, authors : BOOLEAN,
     extras : SUBSET {"abstract", "pdf", "journal"}, apt : BOOLEAN, brief : BOOLEAN]

SectionClaims ==
    [strength : 0..2, length : Nat, statistic : BOOLEAN, law : BOOLEAN,
     words : SUBSET Topics]

\* A section: the kinds its title, thesis and purpose have a keyword of, whether one
\* of them is legal, what it still asks of the user, how many entries are ready.
ArticleSections ==
    [marks : SUBSET {"abstract", "conclusion", "literature", "discussion",
                     "methodology", "results", "introduction"},
     legal : BOOLEAN, input : BOOLEAN, ready : Nat, words : SUBSET Topics,
     claims : Seq(SectionClaims)]

ASSUME SuggestionsAssumption ==
    /\ Outlines \subseteq Seq(ArticleSections)
    /\ Domains \in Seq(ToSet(Domains)) /\ KeywordShares \subseteq [ToSet(Domains) -> Nat]
    /\ ProvidersOf \in [ToSet(Domains) \cup {General} ->
            Seq({"pubmed", "world_bank", "lex_uz", "academic"}) \ {<<>>}]
    /\ Popular \in Seq(Topics)
    /\ Apis \in Seq({"semantic", "arxiv", "openalex", "crossref"})
    /\ Found \subseteq Seq(Items) /\ Ages \subseteq Nat
    /\ {RelevanceThreshold, PerSection, MaxConcurrent, PerCall, MaxApproved}
            \subseteq Nat \ {0}

VARIABLES
    upc,                \* where the suggestions are
    sections,           \* the outline
    domains,            \* those of the article, the strongest first
    turn,               \* the section to look at next
    searches,           \* the calls for the last section, in the order they were made
    offered,            \* what was made of them
    collected,          \* the report: the sections that got suggestions
    errors,             \* its errors: the providers that raised
    entries             \* the entries made of what was approved

suggestionVars ==
    <<upc, sections, domains, turn, searches, offered, collected, errors, entries>>

Providers == {"pubmed", "world_bank", "lex_uz", "academic"}
Queries == [words : SUBSET Topics, statistics : BOOLEAN]
Suggestions == [item : Items, from : Providers, score : Nat]
BusySteps == {"esearch", "efetch", "indicator", "catalogue", "fallback", "federated"}
SearchOver == {"answered", "raised"}
Searches ==
    [provider : Providers, query : Queries, step : BusySteps \cup SearchOver \cup {"queued"},
     todo : Seq(Topics), got : Seq(Suggestions)]

NothingOffered == [top |-> <<>>, searched |-> <<>>]

SuggestionsTypeOK ==
    /\ upc \in {"detect", "section", "search", "done"}
    /\ sections \in Outlines \cup {<<>>}
    /\ domains \in Seq(ToSet(Domains) \cup {General})
    /\ turn \in 1..(Len(sections) + 1)
    /\ searches \in Seq(Searches)
    /\ offered \in [top : Seq(Suggestions), searched : Seq(Providers)]
    /\ collected \in Seq([section : DOMAIN sections, top : Seq(Suggestions)])
    /\ errors \in Seq(Providers)
    /\ entries \in Seq(Suggestions \X Nat)

SuggestionsInit ==
    /\ upc = "detect"
    /\ sections = <<>> /\ domains = <<>>
    /\ turn = 1 /\ searches = <<>> /\ offered = NothingOffered
    /\ collected = <<>> /\ errors = <<>> /\ entries = <<>>

-----------------------------------------------------------------------------
(***************************************************************************)
(* Sequences with an order of their own                                    *)
(***************************************************************************)

\* The elements at some of the places, in their order.
Those(s, places) == FlattenSeq([k \in DOMAIN s |-> IF k \in places THEN <<s[k]>> ELSE <<>>])

\* The elements, each where it first stands.
Distinct(s) == Those(s, {k \in DOMAIN s : \A l \in 1..(k - 1) : s[l] # s[k]})

Pairs(s) == (DOMAIN s) \X (DOMAIN s)

\* Sorted, where before tells of which two places the first one's element comes first;
\* those of equal rank stay as they were.
Sorted(s, before) ==
    LET ahead(i) == {j \in DOMAIN s :
                        <<j, i>> \in before \/ (<<i, j>> \notin before /\ j < i)}
    IN  [n \in DOMAIN s |-> s[CHOOSE i \in DOMAIN s : Cardinality(ahead(i)) = n - 1]]

\* One after the other: an element like one that is there takes the place of the first
\* of these if it is worth more, and is dropped otherwise.
Merged(old, new, alike, worth) ==
    LET merged[n \in 0..Len(new)] ==
            IF n = 0 THEN old
            ELSE LET m == merged[n - 1]
                     like == {i \in DOMAIN m : <<m[i], new[n]>> \in alike}
                     first == CHOOSE i \in like : \A j \in like : i <= j
                 IN IF like = {} THEN Append(m, new[n])
                    ELSE IF worth[new[n]] > worth[m[first]] THEN [m EXCEPT ![first] = new[n]]
                    ELSE m
    IN  merged[Len(new)]

FirstOf(s, n) == SubSeq(s, 1, IF Len(s) < n THEN Len(s) ELSE n)

\* What a condition is worth.
Bonus(condition, n) == IF condition THEN n ELSE 0
Within(n) == IF n < 0 THEN 0 ELSE IF n > 1000 THEN 1000 ELSE n

-----------------------------------------------------------------------------
(***************************************************************************)
(* DomainDetector, ProviderRegistry                                        *)
(***************************************************************************)

\* The domains whose share is more than a tenth of the largest one.
Detected(share) ==
    LET most == CHOOSE n \in Range(share) : \A m \in Range(share) : m <= n
        strong == Those(Domains, {k \in DOMAIN Domains : share[Domains[k]] * 10 > most})
    IN  Sorted(strong, {p \in Pairs(strong) : share[strong[p[1]]] > share[strong[p[2]]]})

\* The providers of the three strongest, or of none in particular.
ChosenProviders ==
    LET active == IF domains = <<>> THEN <<General>> ELSE FirstOf(domains, 3)
        all == FlattenSeq([i \in DOMAIN active |-> ProvidersOf[active[i]]])
    IN  Distinct(all)

DetectDomains ==
    /\ upc = "detect"
    /\ sections' \in Outlines
    /\ \E share \in KeywordShares : domains' = Detected(share)
    /\ upc' = "section"
    /\ UNCHANGED <<turn, searches, offered, collected, errors, entries>>

-----------------------------------------------------------------------------
(***************************************************************************)
(* What a section needs, and what is asked for it                          *)
(***************************************************************************)

\* In this order: "Discussion of Findings" is a discussion.
KindOrder == <<"abstract", "conclusion", "literature", "discussion", "methodology",
               "results", "introduction">>
KindOf(s) ==
    LET kinds == Those(KindOrder, {k \in DOMAIN KindOrder : KindOrder[k] \in s.marks})
    IN  IF kinds = <<>> THEN "other" ELSE Head(kinds)

ThinEvidence(s) ==
    CASE KindOf(s) = "literature" -> TRUE
      [] KindOf(s) = "discussion" -> s.ready < 3
      [] KindOf(s) \in {"methodology", "results"} -> s.input
      [] OTHER -> s.ready < 2

Needs(s) ==
    LET has == ToSet(s.claims) IN
    IF KindOf(s) \in {"abstract", "conclusion"} THEN {}
    ELSE UNION {
        IF ThinEvidence(s) THEN {"thin"} ELSE {},
        IF has # {} /\ \A c \in has : c.strength = 0 THEN {"weak"} ELSE {},
        IF \E c \in has : c.statistic THEN {"statistics"} ELSE {},
        IF s.legal /\ ~ \E c \in has : c.law THEN {"law"} ELSE {}}

\* The words of the strongest claim, of these the longest, of these the first.
BestClaim(s) ==
    LET priority(k) == 1000 * s.claims[k].strength + s.claims[k].length
    IN  Head(Sorted(s.claims, {p \in Pairs(s.claims) : priority(p[1]) > priority(p[2])}))

\* SuggestionQueryBuilder: no two queries are equal.  The first one is blank when the
\* section's words say nothing.
QueriesFor(s) ==
    LET Ask(words, statistics) == [words |-> words, statistics |-> statistics]
        claim == IF s.claims = <<>> THEN {} ELSE BestClaim(s).words
    IN  Distinct(
            <<Ask(s.words, FALSE)>>
            \o (IF claim = {} THEN <<>> ELSE <<Ask(claim, FALSE)>>)
            \o (IF "statistics" \in Needs(s) /\ s.words # {} THEN <<Ask(s.words, TRUE)>>
                ELSE <<>>))

\* Every provider with every query.
SearchesFor(s) ==
    FlattenSeq([i \in DOMAIN ChosenProviders |-> [j \in DOMAIN QueriesFor(s) |->
        [provider |-> ChosenProviders[i], query |-> QueriesFor(s)[j],
         step |-> "queued", todo |-> <<>>, got |-> <<>>]]])

ConsiderSection ==
    /\ upc = "section" /\ turn \in DOMAIN sections
    /\ offered' = NothingOffered
    /\ IF Needs(sections[turn]) = {}
       THEN turn' = turn + 1 /\ searches' = <<>> /\ UNCHANGED upc
       ELSE searches' = SearchesFor(sections[turn]) /\ upc' = "search" /\ UNCHANGED turn
    /\ UNCHANGED <<sections, domains, collected, errors, entries>>

-----------------------------------------------------------------------------
(***************************************************************************)
(* The providers                                                           *)
(***************************************************************************)

SearchGoes(k, from, to) ==
    /\ upc = "search" /\ searches[k].step = from
    /\ searches' = [searches EXCEPT ![k] = to]
    /\ UNCHANGED <<upc, sections, domains, turn, offered, collected, errors, entries>>

Answered(k, got) == [searches[k] EXCEPT !.step = "answered", !.todo = <<>>, !.got = got]
Proceeds(k, step, todo) == [searches[k] EXCEPT !.step = step, !.todo = todo]

\* _match_popular_indicators
Indicators(query) ==
    FirstOf(Those(Popular, {k \in DOMAIN Popular : Popular[k] \in query.words}), PerCall)

\* The semaphore lets them in as they were made.  A stub, and a provider asked for
\* nothing, answers without a request.
StartSearch(k) ==
    LET c == searches[k] IN
    /\ Cardinality({l \in DOMAIN searches : searches[l].step \in BusySteps}) < MaxConcurrent
    /\ \A l \in 1..(k - 1) : searches[l].step # "queued"
    /\ SearchGoes(k, "queued",
          IF c.provider = "lex_uz" \/ c.query.words = {} THEN Answered(k, <<>>)
          ELSE IF c.provider = "pubmed" THEN Proceeds(k, "esearch", <<>>)
          ELSE IF c.provider = "academic" THEN Proceeds(k, "federated", <<>>)
          ELSE IF Indicators(c.query) # <<>>
               THEN Proceeds(k, "indicator", Indicators(c.query))
          ELSE Proceeds(k, "catalogue", <<>>))

\* What of a publication each service knows.
SeenBy(service, item) ==
    [item EXCEPT
        !.cites = IF service \in {"semantic", "openalex"} THEN @ ELSE Untold,
        !.extras = CASE service = "arxiv" -> @ \ {"journal"}
                     [] service = "crossref" -> @ \cap {"journal"}
                     [] service = "pubmed" -> @ \cap {"abstract"}
                     [] OTHER -> @]

\* Without a title or an id an item is passed over, and with CrossRef without a DOI.
Parsed(service, items) ==
    Those([n \in DOMAIN items |-> SeenBy(service, items[n])],
          {n \in DOMAIN items :
              items[n].valid /\ (service = "crossref" => items[n].doi # NoDoi)})

Recent(item, years) == item.age # Untold /\ item.age <= years
Cited(item, times) == item.cites # Untold /\ item.cites >= times

\* A request that fails, or gives what cannot be read, finds nothing.
Esearch(k) ==
    \/ SearchGoes(k, "esearch", Proceeds(k, "efetch", <<>>))
    \/ SearchGoes(k, "esearch", Answered(k, <<>>))

\* From the first to the last one loses half.
PubmedScore(papers, i) ==
    LET paper == papers[i]
        rank == IF Len(papers) = 1 THEN 0 ELSE (500 * (i - 1)) \div (Len(papers) - 1)
    IN  Within(1000 - rank + Bonus(Recent(paper, 5), 100) + Bonus(paper.doi # NoDoi, 100)
                    + Bonus("abstract" \in paper.extras /\ paper.apt, 50))

Articles(papers) ==
    [i \in DOMAIN papers |->
        [item |-> papers[i], from |-> "pubmed", score |-> PubmedScore(papers, i)]]

Efetch(k) ==
    \E items \in Found \cup {<<>>} :
        SearchGoes(k, "efetch", Answered(k, Articles(Parsed("pubmed", items))))

\* The latest value of an indicator, as a suggestion.
Value(topic, age, base) ==
    LET item == [valid |-> TRUE, title |-> {topic}, doi |-> NoDoi, cites |-> Untold,
                 age |-> age, authors |-> FALSE, extras |-> {}, apt |-> FALSE,
                 brief |-> FALSE]
    IN  [item |-> item, from |-> "world_bank",
         score |-> Within(base + Bonus(Recent(item, 3), 100))]

\* One indicator after the other; only when none has a value, the catalogue is asked.
FetchIndicator(k) ==
    LET c == searches[k]
        rest == Tail(c.todo)
    IN \E age \in Ages \cup {Untold} :
        LET got == IF age = Untold THEN c.got
                   ELSE Append(c.got, Value(Head(c.todo), age, 800))
        IN SearchGoes(k, "indicator",
              IF rest # <<>> THEN [c EXCEPT !.todo = rest, !.got = got]
              ELSE IF got # <<>> THEN Answered(k, got)
              ELSE Proceeds(k, "catalogue", <<>>))

\* The first of a page of indicators with a word of the query in its name.
SearchCatalogue(k) ==
    \/ \E w \in searches[k].query.words :
        SearchGoes(k, "catalogue", Proceeds(k, "fallback", <<w>>))
    \/ SearchGoes(k, "catalogue", Answered(k, <<>>))

FetchFallback(k) ==
    \E age \in Ages \cup {Untold} :
        SearchGoes(k, "fallback", Answered(k,
            IF age = Untold THEN <<>> ELSE <<Value(Head(searches[k].todo), age, 600)>>))

-----------------------------------------------------------------------------
(***************************************************************************)
(* The federated search, and its bridge                                    *)
(***************************************************************************)

Richness(p) ==
    Bonus("abstract" \in p.extras, 4) + Bonus("pdf" \in p.extras, 3)
    + Bonus(p.cites # Untold, 2) + Bonus("journal" \in p.extras, 1)
    + Bonus(p.authors, 1) + Bonus(p.age # Untold, 1)

\* Those cited most, then the newest; a number that is not known comes last.
RanksBefore(p, r) ==
    LET More(m, n) == m # Untold /\ (n = Untold \/ m > n)
        Newer(m, n) == m # Untold /\ (n = Untold \/ m < n)
    IN  More(p.cites, r.cites) \/ (p.cites = r.cites /\ Newer(p.age, r.age))

\* Of papers with one DOI the richest is kept; without one they are all kept.
Federated(answers) ==
    LET all == FlattenSeq([i \in DOMAIN Apis |-> Parsed(Apis[i], answers[Apis[i]])])
        named == Those(all, {k \in DOMAIN all : all[k].doi # NoDoi})
        unnamed == Those(all, {k \in DOMAIN all : all[k].doi = NoDoi})
        oneDoi == {p \in ToSet(named) \X ToSet(named) : Lower[p[1].doi] = Lower[p[2].doi]}
        merged == Merged(<<>>, named, oneDoi, [p \in ToSet(named) |-> Richness(p)]) \o unnamed
    IN  FirstOf(Sorted(merged, {p \in Pairs(merged) : RanksBefore(merged[p[1]], merged[p[2]])}),
                PerCall)

AcademicScore(p) ==
    Within(700 + Bonus(Cited(p, 100), 150) + Bonus(Recent(p, 5), 100)
               + Bonus(p.doi # NoDoi, 50))

Bridged(papers) ==
    [i \in DOMAIN papers |->
        [item |-> papers[i], from |-> "academic", score |-> AcademicScore(papers[i])]]

\* The APIs are asked at once, and waited for; one that fails, or raises, is left out.
FederatedSearch(k) ==
    \E answers \in [ToSet(Apis) -> Found \cup {<<>>}] :
        SearchGoes(k, "federated", Answered(k, Bridged(Federated(answers))))

\* Anything a provider does not catch.
ProviderRaises(k) ==
    \E step \in BusySteps :
        SearchGoes(k, step, [searches[k] EXCEPT !.step = "raised", !.todo = <<>>, !.got = <<>>])

SearchStep(k) ==
    \/ StartSearch(k)
    \/ Esearch(k) \/ Efetch(k)
    \/ FetchIndicator(k) \/ SearchCatalogue(k) \/ FetchFallback(k)
    \/ FederatedSearch(k)
    \/ ProviderRaises(k)

-----------------------------------------------------------------------------
(***************************************************************************)
(* The choice                                                              *)
(***************************************************************************)

\* _compute_composite_score
Composite(s, needs) ==
    [s EXCEPT !.score =
        Within(@ + Bonus("statistics" \in needs /\ s.from = "world_bank", 150)
                 + Bonus(Recent(s.item, 3), 50) + Bonus(s.item.doi # NoDoi, 50)
                 + Bonus(Cited(s.item, 51), 50) - Bonus(~s.item.authors, 100))]

\* Four fifths of the words of two titles are common to them.
SimilarTitles(s, t) ==
    LET a == s.item.title
        b == t.item.title
    IN  a # {} /\ b # {} /\ 5 * Cardinality(a \cap b) >= 4 * Cardinality(a \cup b)

\* First by DOI, then by title, the better one each time.
Deduped(all) ==
    LET ones == ToSet(all)
        named == Those(all, {k \in DOMAIN all : all[k].item.doi # NoDoi})
        unnamed == Those(all, {k \in DOMAIN all : all[k].item.doi = NoDoi})
        oneDoi == {p \in ToSet(named) \X ToSet(named) : p[1].item.doi = p[2].item.doi}
        similar == {p \in ones \X ones : SimilarTitles(p[1], p[2])}
        worth == [s \in ones |-> s.score]
    IN  Merged(Merged(<<>>, named, oneDoi, worth), unnamed, similar, worth)

\* Mutant: read back query by query.
ProviderAt_ByQuery(k) == ChosenProviders[((k - 1) % Len(ChosenProviders)) + 1]

\* The outcomes are read back by their number, provider by provider.
ProviderAt(k) ==
    ChosenProviders[((k - 1) \div Len(QueriesFor(sections[turn]))) + 1]

Scored(s) ==
    LET raw == FlattenSeq([k \in DOMAIN searches |-> searches[k].got])
    IN  [i \in DOMAIN raw |-> Composite(raw[i], Needs(s))]

BestFor(s) ==
    LET all == Scored(s)
        good == Deduped(Those(all, {k \in DOMAIN all : all[k].score >= RelevanceThreshold}))
    IN  FirstOf(Sorted(good, {p \in Pairs(good) : good[p[1]].score > good[p[2]].score}),
                PerSection)

EndedAs(step) ==
    Those([k \in DOMAIN searches |-> k], {k \in DOMAIN searches : searches[k].step = step})
Searched ==
    Those(ChosenProviders, {i \in DOMAIN ChosenProviders :
        \E k \in ToSet(EndedAs("answered")) : ProviderAt(k) = ChosenProviders[i]})
Raised == [i \in DOMAIN EndedAs("raised") |-> ProviderAt(EndedAs("raised")[i])]

RankSection ==
    /\ upc = "search" /\ \A k \in DOMAIN searches : searches[k].step \in SearchOver
    /\ offered' = [top |-> BestFor(sections[turn]), searched |-> Searched]
    /\ errors' = errors \o Raised
    /\ collected' = IF offered'.top = <<>> THEN collected
                    ELSE Append(collected, [section |-> turn, top |-> offered'.top])
    /\ turn' = turn + 1 /\ upc' = "section"
    /\ UNCHANGED <<sections, domains, searches, entries>>

-----------------------------------------------------------------------------
(***************************************************************************)
(* SuggestionIntegrator                                                    *)
(***************************************************************************)

\* What the user may approve, with the section he wants it in; 0 names none.
Approvals ==
    LET all == UNION {ToSet(collected[n].top) : n \in DOMAIN collected}
    IN  UNION {[1..n -> all \X (0..Len(sections))] : n \in 0..MaxApproved}

\* Each approved one by itself: a section that is none, or too short a text, fails.
IntegrateBatch ==
    /\ upc = "section" /\ turn > Len(sections)
    /\ \E approved \in Approvals :
        entries' = Those(approved, {n \in DOMAIN approved :
                                       approved[n][2] # 0 /\ ~approved[n][1].item.brief})
    /\ upc' = "done"
    /\ UNCHANGED <<sections, domains, turn, searches, offered, collected, errors>>

SuggestionsWork ==
    \/ DetectDomains \/ ConsiderSection
    \/ \E k \in DOMAIN searches : SearchStep(k)
    \/ RankSection \/ IntegrateBatch

SuggestionsNext == SuggestionsWork \/ (upc = "done" /\ UNCHANGED suggestionVars)

-----------------------------------------------------------------------------
(***************************************************************************)
(* Properties                                                              *)
(***************************************************************************)

\* Whatever order the calls answer in, and whichever of them raise: a section is
\* offered the best of what was found for it, best first and no DOI twice; what is good
\* enough and still not offered is worth no more than the last of a full list, or
\* than one offered that a chain of alike titles and DOIs leads to.  And every call is
\* told of its own provider: it is named as searched when one of its calls answered,
\* and among the errors once for each that raised.
SuggestionsAreTheBest ==
    upc = "section" /\ searches # <<>> =>
        LET good == {t \in ToSet(Scored(sections[turn - 1])) : t.score >= RelevanceThreshold}
            Alike(s, t) ==
                (s.item.doi # NoDoi /\ s.item.doi = t.item.doi) \/ SimilarTitles(s, t)
            \* those in every set that has t and all that is like one of its own
            chained(t) ==
                {c \in good : \A S \in SUBSET good :
                    t \in S /\ (\A h \in good : (\E u \in S : Alike(h, u)) => h \in S) => c \in S}
            top == offered.top
            ended(p, step) ==
                {k \in DOMAIN searches : searches[k].provider = p /\ searches[k].step = step}
            raised == UNION {ended(p, "raised") : p \in Providers}
            told(p) == {n \in DOMAIN errors :
                            n > Len(errors) - Cardinality(raised) /\ errors[n] = p}
        IN
        /\ Len(top) <= PerSection /\ ToSet(top) \subseteq good
        /\ \A i, j \in DOMAIN top : i < j =>
            /\ top[i].score >= top[j].score
            /\ top[i].item.doi = NoDoi \/ top[i].item.doi # top[j].item.doi
        /\ \A t \in good :
            \/ Len(top) = PerSection /\ Last(top).score >= t.score
            \/ \E c \in ToSet(top) : c.score >= t.score /\ c \in chained(t)
        /\ \A p \in Providers :
            /\ p \in ToSet(offered.searched) <=> ended(p, "answered") # {}
            /\ Cardinality(told(p)) = Cardinality(ended(p, "raised"))
=============================================================================
