-------------------------- MODULE ArticleInterview --------------------------
(***************************************************************************)
(* The interview of an article: ResearchInterviewEngine and the evidence   *)
(* matrix its answers promote.  What ArticleFlow does with the answers of  *)
(* two overlapping messages is not repeated here: one answer is scored     *)
(* after the other.                                                        *)
(***************************************************************************)
EXTENDS Integers, Sequences, FiniteSets, SequencesExt

CONSTANTS
    Sources,            \* the chunks a source may have, in the order of its files:
                        \* each one's index in its file, and its number of claims
    MaxQuestions        \* GUIDED_QUESTION_COUNT

ASSUME InterviewAssumption ==
    /\ \A s \in Sources : s \in Seq([key : Nat, claims : Nat])
    /\ MaxQuestions \in Nat \ {0}

VARIABLES
    passages,           \* the chunks of the source
    evidence,           \* the entries of the matrix, in the order of the claims
    asked,              \* questions that are still to be put
    judged              \* the scored answer whose effect is being worked in

interviewVars == <<passages, evidence, asked, judged>>

Chunks == DOMAIN passages

\* Files sent to the bot have no row when they are read: a chunk goes by its index
\* alone, which chunks of other files have too, and the last of them is found.
KeysOf(cs) == {passages[c].key : c \in cs}
LastUnder(key, cs) ==
    CHOOSE c \in cs : passages[c].key = key /\ \A d \in cs : passages[d].key = key => d <= c

\* An entry stands for one claim, read in chunk "of", and is filed under "chunk".
Entry == [of : Chunks, chunk : Chunks, ready : BOOLEAN, answered : BOOLEAN]

\* Whether the scores add up to PROMOTE_SCORE_THRESHOLD, and the chunks the
\* scorer says the answer used; none of either when it could not be asked.
Verdict == [strong : BOOLEAN, used : SUBSET Chunks]
DefaultVerdict == [strong |-> FALSE, used |-> {}]
Unjudged == [strong |-> FALSE, used |-> {0}]

InterviewTypeOK ==
    /\ passages \in Sources
    /\ evidence \in Seq(Entry)
    /\ asked \in 0..MaxQuestions
    /\ judged \in Verdict \cup {Unjudged}

\* A claim of an uploaded file is never ready from the start: the orchestrators
\* pass a quality of MEDIUM for every source.
InitialEntry(c) ==
    [of |-> c, chunk |-> LastUnder(passages[c].key, Chunks), ready |-> FALSE, answered |-> FALSE]
InitialEvidence ==
    FlattenSeq([c \in Chunks |-> [k \in 1..passages[c].claims |-> InitialEntry(c)]])

\* generate_questions: the model's, or the ones kept for when it fails.
InterviewInit ==
    /\ passages \in Sources
    /\ evidence = InitialEvidence
    /\ asked \in 1..MaxQuestions
    /\ judged = Unjudged

-----------------------------------------------------------------------------

MayAnswer == asked > 0 /\ judged = Unjudged

\* score_answer
ScoreAnswer ==
    /\ MayAnswer
    /\ judged' \in Verdict
    /\ UNCHANGED <<passages, evidence, asked>>

\* Neither call gave an object, or one raised.
ScoreByDefault ==
    /\ MayAnswer
    /\ judged' = DefaultVerdict
    /\ UNCHANGED <<passages, evidence, asked>>

\* Skipped; or the balance or the grant of the free credit raised, and the
\* answer is lost.
PassQuestion ==
    /\ asked > 0
    /\ asked' = asked - 1
    /\ judged' = Unjudged
    /\ UNCHANGED <<passages, evidence>>

\* _chunk_uuid_map pairs the chunks with the first entries, in their order, and
\* the scorer's references are looked up in it by key.
Paired == Chunks \cap DOMAIN evidence
ChunkMap(key) == evidence[LastUnder(key, Paired)].chunk
ResolvedChunks(used) == {ChunkMap(key) : key \in KeysOf(used) \cap KeysOf(Paired)}

\* Mutant: the last score decides.
Apply_LastScore(e) ==
    IF e.chunk \notin ResolvedChunks(judged.used) THEN e
    ELSE [e EXCEPT !.answered = TRUE, !.ready = judged.strong]

\* _apply_answer: an entry that is ready stays so, and a weak answer is linked.
Apply(e) ==
    IF e.chunk \notin ResolvedChunks(judged.used) THEN e
    ELSE [e EXCEPT !.answered = TRUE, !.ready = @ \/ judged.strong]

\* process_answer, and the handler's step to the next question.
UpdateWithAnswer ==
    /\ judged # Unjudged
    /\ evidence' = [k \in DOMAIN evidence |-> Apply(evidence[k])]
    /\ asked' = asked - 1
    /\ judged' = Unjudged
    /\ UNCHANGED passages

InterviewStep == ScoreAnswer \/ ScoreByDefault \/ PassQuestion \/ UpdateWithAnswer
InterviewNext == InterviewStep \/ (asked = 0 /\ UNCHANGED interviewVars)

-----------------------------------------------------------------------------

\* The engine pairs the chunks with the first entries of the matrix ("we aim for
\* a 1:1 map in entry order").  Where there is one claim in every chunk, an answer
\* is worked into every entry whose claim was read in a chunk that goes by the key
\* of one it used, and into no other: with one file those are exactly the chunks it
\* used.  A strong answer makes them ready, no other does, and nothing it reaches
\* is taken back.
OneClaimEach == \A c \in Chunks : passages[c].claims = 1
Reached(e) == passages[e.of].key \in KeysOf(judged.used)

\* Wherever an answer lands, the matrix keeps its entries, what is ready or linked
\* stays so, and only a strong answer makes an entry ready.
AnswersReachTheirEvidence ==
    [][/\ evidence' # evidence =>
            /\ Len(evidence') = Len(evidence)
            /\ \A k \in DOMAIN evidence :
                /\ evidence'[k].of = evidence[k].of /\ evidence'[k].chunk = evidence[k].chunk
                /\ evidence[k].ready => evidence'[k].ready
                /\ evidence[k].answered => evidence'[k].answered
                /\ ~evidence[k].ready /\ evidence'[k].ready => judged.strong
       /\ UpdateWithAnswer /\ OneClaimEach =>
            \A k \in DOMAIN evidence :
                /\ evidence'[k].answered <=> evidence[k].answered \/ Reached(evidence[k])
                /\ evidence'[k].ready <=>
                    evidence[k].ready \/ (Reached(evidence[k]) /\ judged.strong)
      ]_interviewVars
=============================================================================
