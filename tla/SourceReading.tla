---------------------------- MODULE SourceReading ---------------------------
(***************************************************************************)
(* From uploaded files to evidence: process_sources of the article and the *)
(* presentation orchestrator, the SourcePipeline it runs on every file     *)
(* (validate, parse, recognise, cut into chunks, extract claims), and the  *)
(* evidence matrix built from the result.  A page is the number of its     *)
(* characters; where a sentence or a word ends, what is recognised, what a *)
(* file turns out to be and what a model answers is nondeterministic.      *)
(***************************************************************************)
EXTENDS Integers, Sequences, FiniteSets, SequencesExt

CONSTANTS
    Uploads,            \* how many files the user sent
    MaxPages,           \* of each file
    Lengths,            \* of a page
    MaxClaims,          \* of a chunk
    Density,            \* TEXT_DENSITY_THRESHOLD
    ChunkSize, ChunkOverlap, MinChunkSize

ASSUME ReadingAssumption ==
    /\ Uploads \in Nat \ {0} /\ MaxPages \in [1..Uploads -> Nat \ {0}] /\ MaxClaims \in Nat
    /\ Lengths \subseteq Nat /\ 0 \in Lengths
    /\ Density \in Nat \ {0}
    /\ MinChunkSize \in Nat \ {0} /\ ChunkOverlap \in Nat
    /\ ChunkSize \in Nat /\ ChunkSize > ChunkOverlap + MinChunkSize

VARIABLES
    spc,                \* the stage the file is at
    ofJob,             \* a job's files, with rows and keys, or the bot's
    file,               \* the file being processed
    pages, page,        \* its pages, and the one at work
    start,              \* where the next chunk of the page starts
    pieces,             \* its chunks so far
    found,              \* SourceProcessingResult.claims,
    kept,               \* .chunks,
    metas, ids,         \* .metadata and .source_ids,
    failures,           \* .failed_sources
    registered,         \* sources rows the run inserted
    matrix              \* the entries of the evidence matrix

documentVars == <<pages, page, start, pieces>>
resultVars == <<found, kept, metas, ids, failures, registered>>
readingVars == <<spc, ofJob, file, documentVars, resultVars, matrix>>

ReadingOver == {"done", "nothing", "raised"}
ReadingStages == {"fetch", "validate", "parse", "recognise", "cut", "extract", "collect", "matrix"}
                    \cup ReadingOver

Page == [text : Lengths, needsOcr : BOOLEAN, isOcr : BOOLEAN]

\* Characters from + 1 to to of a page.
Piece == [page : Nat, from : Nat, to : Nat]

\* What a chunk answers to: its index in its file, and the row of its file.
Chunk == [file : 1..Uploads, index : Nat, source : 0..Uploads]
Claim == [file : 1..Uploads, index : Nat, key : Nat \X (0..Uploads)]

ReadingTypeOK ==
    /\ spc \in ReadingStages /\ ofJob \in BOOLEAN
    /\ file \in 1..Uploads
    /\ pages \in Seq(Page) /\ page \in 0..(Len(pages) + 1)
    /\ start \in Nat /\ pieces \in Seq(Piece)
    /\ found \in Seq(Claim) /\ kept \in Seq(Chunk)
    /\ metas \in Seq(1..Uploads) /\ ids \in Seq(1..Uploads)
    /\ failures \subseteq 1..Uploads /\ registered \subseteq 1..Uploads
    /\ matrix \in Seq(Chunk)

ReadingInit ==
    /\ spc = "fetch" /\ ofJob \in BOOLEAN
    /\ file = 1
    /\ pages = <<>> /\ page = 0 /\ start = 0 /\ pieces = <<>>
    /\ found = <<>> /\ kept = <<>> /\ metas = <<>> /\ ids = <<>>
    /\ failures = {} /\ registered = {}
    /\ matrix = <<>>

ReadOn(s) == spc' = s /\ UNCHANGED <<ofJob, file>>

-----------------------------------------------------------------------------
(***************************************************************************)
(* One file: fetch, validate, parse                                        *)
(***************************************************************************)

\* process_sources raises when no file gave any text.
NextFile(chunks, claims) ==
    /\ pages' = <<>> /\ page' = 0 /\ start' = 0 /\ pieces' = <<>>
    /\ UNCHANGED ofJob
    /\ IF file < Uploads THEN file' = file + 1 /\ spc' = "fetch"
       ELSE /\ UNCHANGED file
            /\ spc' = IF chunks = <<>> /\ claims = <<>> THEN "nothing" ELSE "matrix"

\* A file that cannot be had, is rejected or breaks its parser is named, and
\* the next one is taken.
Drop(s) ==
    /\ spc = s
    /\ failures' = failures \cup {file}
    /\ NextFile(kept, found)
    /\ UNCHANGED <<found, kept, metas, ids, registered, matrix>>

FetchSource ==
    /\ spc = "fetch" /\ ReadOn("validate")
    /\ UNCHANGED <<documentVars, resultVars, matrix>>

FetchFails == Drop("fetch")

\* FileValidationService.validate
ValidateSource ==
    /\ spc = "validate" /\ ReadOn("parse")
    /\ UNCHANGED <<documentVars, resultVars, matrix>>

SourceRejected == Drop("validate")

EmbeddedPage(n, dense) == [text |-> n, needsOcr |-> dense /\ n < Density, isOcr |-> FALSE]
EmptyPage == EmbeddedPage(0, FALSE)
EmbeddedPages(dense) ==
    UNION {[1..n -> {EmbeddedPage(t, dense) : t \in Lengths}] : n \in 1..MaxPages[file]}

\* Pages that raise are left out, and a document that cannot be opened has none.
ParsePdf == pages' \in EmbeddedPages(TRUE) \cup {<<>>}
ParsePptx == pages' \in EmbeddedPages(FALSE) \cup {<<>>}

\* Word, spreadsheet and text files have at least one page, if an empty one.
ParseDocx == pages' \in EmbeddedPages(FALSE) \cup {<<EmptyPage>>, <<>>}
ParseXlsx == pages' \in EmbeddedPages(FALSE) \cup {<<EmptyPage>>, <<>>}
ParseText == pages' \in EmbeddedPages(FALSE)

ParseImage == pages' = <<[text |-> 0, needsOcr |-> TRUE, isOcr |-> FALSE]>>

ParseSource ==
    /\ spc = "parse"
    /\ ParsePdf \/ ParsePptx \/ ParseDocx \/ ParseXlsx \/ ParseText \/ ParseImage
    /\ ReadOn(IF \E k \in DOMAIN pages' : pages'[k].needsOcr THEN "recognise" ELSE "cut")
    /\ page' = 1
    /\ UNCHANGED <<start, pieces, resultVars, matrix>>

ParseRaises == Drop("parse")

-----------------------------------------------------------------------------
(***************************************************************************)
(* OCRService.process_parsed_source                                        *)
(***************************************************************************)

\* Not needed, no image of the page, no Tesseract, a timeout, a failure or too
\* little confidence: the page stays as it was.
KeepPage ==
    /\ spc = "recognise" /\ page <= Len(pages)
    /\ page' = page + 1
    /\ ReadOn("recognise")
    /\ UNCHANGED <<pages, start, pieces, resultVars, matrix>>

\* What was recognised, be it nothing, replaces what was embedded.
RecognisePage ==
    /\ spc = "recognise" /\ page <= Len(pages) /\ pages[page].needsOcr
    /\ \E t \in Lengths :
        pages' = [pages EXCEPT ![page] = [text |-> t, needsOcr |-> FALSE, isOcr |-> TRUE]]
    /\ page' = page + 1
    /\ ReadOn("recognise")
    /\ UNCHANGED <<start, pieces, resultVars, matrix>>

Recognised ==
    /\ spc = "recognise" /\ page > Len(pages)
    /\ page' = 1
    /\ ReadOn("cut")
    /\ UNCHANGED <<pages, start, pieces, resultVars, matrix>>

-----------------------------------------------------------------------------
(***************************************************************************)
(* SourceChunker                                                           *)
(***************************************************************************)

\* A sentence ends, or failing that a word, or else the window does: no split
\* point leaves less than two characters.
SplitPoints == (start + 2)..(start + ChunkSize)

\* The next chunk overlaps this one, unless that would not get it any further.
NextStart(split) == IF split - ChunkOverlap <= start THEN split ELSE split - ChunkOverlap

Emit(to) == pieces' = Append(pieces, [page |-> page, from |-> start, to |-> to])

NextPage == page' = page + 1 /\ start' = 0

\* A tail that would be shorter than a chunk may be goes with this one.
MergeTail(split) == Emit(pages[page].text) /\ NextPage

CutChunk ==
    /\ spc = "cut" /\ page <= Len(pages)
    /\ LET n == pages[page].text IN
       IF n = 0 THEN NextPage /\ UNCHANGED pieces
       ELSE IF start + ChunkSize >= n THEN Emit(n) /\ NextPage
       ELSE \E split \in SplitPoints :
                IF n - split < MinChunkSize THEN MergeTail(split)
                ELSE /\ Emit(split)
                     /\ start' = NextStart(split)
                     /\ UNCHANGED page
    /\ ReadOn("cut")
    /\ UNCHANGED <<pages, resultVars, matrix>>

\* Without a chunk no claim is asked for.
CutDone ==
    /\ spc = "cut" /\ page > Len(pages)
    /\ ReadOn(IF pieces = <<>> THEN "collect" ELSE "extract")
    /\ UNCHANGED <<documentVars, resultVars, matrix>>

-----------------------------------------------------------------------------
(***************************************************************************)
(* ClaimExtractor, and what process_sources keeps                          *)
(***************************************************************************)

SourceRow == IF ofJob THEN file ELSE 0

\* Mutant: chunks are numbered from one where claims are.
ClaimKey_FromOne(i) == <<i, SourceRow>>

\* A job's files have their row's id written before the index.
ClaimKey(i) == <<i - 1, SourceRow>>

ClaimsOf(counts) ==
    FlattenSeq([i \in DOMAIN counts |->
        [k \in 1..counts[i] |-> [file |-> file, index |-> i - 1, key |-> ClaimKey(i)]]])

\* Five chunks at a time are asked about, and the answers joined in their order;
\* one that cannot be parsed twice has no claims.
ExtractClaims ==
    /\ spc = "extract"
    /\ \E counts \in [DOMAIN pieces -> 0..MaxClaims] : found' = found \o ClaimsOf(counts)
    /\ ReadOn("collect")
    /\ UNCHANGED <<documentVars, kept, metas, ids, failures, registered, matrix>>

\* An API error of one of the calls is raised: the whole file counts as failed.
ExtractRaises == Drop("extract")

ChunksOf ==
    [i \in DOMAIN pieces |-> [file |-> file, index |-> i - 1, source |-> SourceRow]]

\* The rest of _process_one_source.  A row that cannot be inserted is only
\* logged.
CollectSource ==
    /\ spc = "collect"
    /\ kept' = kept \o ChunksOf
    /\ metas' = Append(metas, file)
    /\ ids' = Append(ids, file)
    /\ registered' \in {registered} \cup (IF ofJob THEN {} ELSE {registered \cup {file}})
    /\ NextFile(kept', found)
    /\ UNCHANGED <<found, failures, matrix>>

\* The free credit's grant raises: the upload of all files fails.
CollectRaises ==
    /\ spc = "collect"
    /\ ReadOn("raised")
    /\ UNCHANGED <<documentVars, resultVars, matrix>>

-----------------------------------------------------------------------------
(***************************************************************************)
(* EvidenceMatrixBuilder.build_from_claims                                 *)
(***************************************************************************)

\* _build_chunk_lookup registers a chunk under its index and under the id of its
\* row, and a later one with the same name replaces it.
AnswersTo(c, key) == key = <<c.index, 0>>
Resolves(key) == \E k \in DOMAIN kept : AnswersTo(kept[k], key)
ChunkUnder(key) ==
    kept[CHOOSE k \in DOMAIN kept :
            /\ AnswersTo(kept[k], key)
            /\ \A l \in DOMAIN kept : AnswersTo(kept[l], key) => l <= k]

\* A claim whose chunk is not found has no entry.
BuildMatrix ==
    /\ spc = "matrix"
    /\ matrix' = FlattenSeq([k \in DOMAIN found |->
                    IF Resolves(found[k].key) THEN <<ChunkUnder(found[k].key)>> ELSE <<>>])
    /\ ReadOn("done")
    /\ UNCHANGED <<documentVars, resultVars>>

-----------------------------------------------------------------------------
ReadingWork ==
    \/ FetchSource \/ FetchFails \/ ValidateSource \/ SourceRejected
    \/ ParseSource \/ ParseRaises
    \/ KeepPage \/ RecognisePage \/ Recognised
    \/ CutChunk \/ CutDone
    \/ ExtractClaims \/ ExtractRaises
    \/ CollectSource \/ CollectRaises
    \/ BuildMatrix

ReadingNext == ReadingWork \/ (spc \in ReadingOver /\ UNCHANGED readingVars)

-----------------------------------------------------------------------------
(***************************************************************************)
(* Properties                                                              *)
(***************************************************************************)

\* Cutting a page into chunks loses none of its text and ends: the chunks come in
\* the order of the pages, and those of a page start at its first character, each
\* starts after the one before it and no later than where that one ended, the last
\* ends the page, and none is longer than a window and the tail that may be merged
\* into it.
CutsKeepTheText ==
    LET Continues(k) == k > 1 /\ pieces[k - 1].page = pieces[k].page IN
    spc = "extract" =>
        /\ \A p \in DOMAIN pages :
            pages[p].text > 0 <=> \E k \in DOMAIN pieces : pieces[k].page = p
        /\ \A k \in DOMAIN pieces :
            LET c == pieces[k] IN
            /\ c.to - c.from < ChunkSize + MinChunkSize
            /\ IF Continues(k)
               THEN c.from > pieces[k - 1].from /\ c.from <= pieces[k - 1].to
               ELSE c.from = 0 /\ (k > 1 => c.page > pieces[k - 1].page)
            /\ k = Len(pieces) \/ ~Continues(k + 1) => c.to = pages[c.page].text

\* The cuts of every page keep its text.  However its files fail, a batch accounts
\* for each exactly once: it is named as failed and leaves nothing behind, or its
\* metadata and its id stand at the same place of the two lists the interview reads
\* side by side, with its chunks and claims; and while the bot reads a single file,
\* every claim's entry in the evidence matrix leads back to the chunk it was
\* extracted from.
EvidenceIsTraceable ==
    LET read == {ids[k] : k \in DOMAIN ids} IN
    /\ CutsKeepTheText
    /\ spc \in {"matrix", "done", "nothing"} =>
            /\ metas = ids /\ Cardinality(read) = Len(ids)
            /\ read \cup failures = 1..Uploads /\ read \cap failures = {}
            /\ \A k \in DOMAIN kept : kept[k].file \in read
            /\ \A k \in DOMAIN found : \E c \in DOMAIN kept :
                kept[c].file = found[k].file /\ kept[c].index = found[k].index
            /\ spc = "done" /\ ~ofJob /\ Len(ids) = 1 =>
                /\ Len(matrix) = Len(found)
                /\ \A k \in DOMAIN matrix :
                    matrix[k].file = found[k].file /\ matrix[k].index = found[k].index
=============================================================================
