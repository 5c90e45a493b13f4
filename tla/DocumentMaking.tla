--------------------------- MODULE DocumentMaking ---------------------------
(***************************************************************************)
(* The machines behind one generation.  SourceReading turns the uploaded   *)
(* files into evidence.  EditorialPass writes a deck from it, DeckOutputs  *)
(* illustrates, saves, renders and stores it, ImageFinding is its image    *)
(* stage from inside, BrainTurns talks to the model about it.              *)
(* ArticleInterview asks the user about the evidence, SourceSuggestions    *)
(* looks for more of it, ArticleMaking writes an article.  They share no   *)
(* variable: what one hands to the next (a deck, an answer, an error) is   *)
(* there any choice of its environment.  So a behaviour runs one of them,  *)
(* part, and the others rest in their initial states.                      *)
(***************************************************************************)
EXTENDS SourceReading, EditorialPass, DeckOutputs, ImageFinding, BrainTurns,
        ArticleInterview, ArticleMaking, SourceSuggestions

VARIABLE part

deckVars == <<editorialVars, outputVars, imageVars, brainVars>>
textVars == <<interviewVars, suggestionVars, articleVars>>
vars == <<part, readingVars, deckVars, textVars>>

Parts ==
    {"sources", "editorial", "outputs", "images", "turns", "interview", "suggestions",
     "article"}

TypeOK ==
    /\ part \in Parts
    /\ ReadingTypeOK
    /\ EditorialTypeOK
    /\ OutputsTypeOK
    /\ ImagesTypeOK
    /\ TurnsTypeOK
    /\ InterviewTypeOK
    /\ SuggestionsTypeOK
    /\ ArticleTypeOK

OneOf(S) == CHOOSE e \in S : TRUE

\* What a part chooses at its start it chooses only when it runs.
Init ==
    /\ part \in Parts
    /\ ReadingInit
    /\ part # "sources" => ~ofJob
    /\ EditorialInit
    /\ part # "editorial" => claims = NoClaims
    /\ OutputsInit
    /\ ImagesInit
    /\ part # "images" => notes = [s \in Illustrated |-> <<>>]
    /\ TurnsInit
    /\ InterviewInit
    /\ part # "interview" => passages = OneOf(Sources) /\ asked = MaxQuestions
    /\ SuggestionsInit
    /\ ArticleInit
    /\ part # "article" => bibliography = OneOf(Bibliographies)

InSources(A) ==
    part = "sources" /\ A /\ UNCHANGED <<part, deckVars, textVars>>
InDeck(A) ==
    A /\ UNCHANGED <<part, readingVars, textVars>>
InEditorial(A) ==
    part = "editorial" /\ InDeck(A) /\ UNCHANGED <<outputVars, imageVars, brainVars>>
InOutputs(A) ==
    part = "outputs" /\ InDeck(A) /\ UNCHANGED <<editorialVars, imageVars, brainVars>>
InImages(A) ==
    part = "images" /\ InDeck(A) /\ UNCHANGED <<editorialVars, outputVars, brainVars>>
InTurns(A) ==
    part = "turns" /\ InDeck(A) /\ UNCHANGED <<editorialVars, outputVars, imageVars>>
InText(A) ==
    A /\ UNCHANGED <<part, readingVars, deckVars>>
InInterview(A) ==
    part = "interview" /\ InText(A) /\ UNCHANGED <<suggestionVars, articleVars>>
InSuggestions(A) ==
    part = "suggestions" /\ InText(A) /\ UNCHANGED <<interviewVars, articleVars>>
InArticle(A) ==
    part = "article" /\ InText(A) /\ UNCHANGED <<interviewVars, suggestionVars>>

Next ==
    \/ InSources(ReadingNext)
    \/ InEditorial(EditorialNext)
    \/ InOutputs(OutputsNext)
    \/ InImages(ImagesNext)
    \/ InTurns(TurnsNext)
    \/ InInterview(InterviewNext)
    \/ InSuggestions(SuggestionsNext)
    \/ InArticle(ArticleNext)

\* Every request for an image, every call of a model and every page's recognition has a timeout, and so has
\* the creation of a cache; who waits for the cache's lock gets it.  Nothing is
\* owed to a run of the outputs: its process may die; nor to an interview: its
\* user may leave; nor to suggestions, which wait for their user in the end.
Fairness ==
    /\ WF_readingVars(part = "sources" /\ ReadingWork)
    /\ WF_editorialVars(part = "editorial" /\ Work)
    /\ WF_imageVars(part = "images" /\ \E i \in ImageSlots : ImageStep(i))
    /\ WF_brainVars(part = "turns" /\ \E t \in Turns : TurnStep(t))
    /\ WF_articleVars(part = "article" /\ ArticleWork)

Spec == Init /\ [][Next]_vars /\ Fairness

-----------------------------------------------------------------------------

\* Neither the cutting of a page, nor the pass's retries and the brain's attempts,
\* nor a turn's retries, throttling, fallback and iterations go on for ever: every
\* upload ends in evidence or in an error, every generation in a deck, an article
\* or an error (which the caller refunds), every image in a url or none, every turn
\* in an answer.
EveryoneIsAnswered ==
    <>(/\ part = "sources" => spc \in ReadingOver
       /\ part = "editorial" => pc \in Ended
       /\ part = "images" => ImagesDone
       /\ part = "turns" => \A t \in Turns : TurnOver(t)
       /\ part = "article" => apc \in ArticleOver)
=============================================================================
