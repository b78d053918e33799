------------------------------- MODULE Indexing -------------------------------
(***************************************************************************)
(* What a processing job writes: the successive versions of one file of a  *)
(* tenant, cut into chunks, filtered, compared with the version before,    *)
(* embedded in batches and stored (process_document, steps 3 to 9, with    *)
(* documents/chunker.py, processing/chunk_validator.py,                    *)
(* processing/incremental.py and embeddings/).                             *)
(*                                                                         *)
(* One worker runs one job at a time here, and versions are deleted        *)
(* between jobs; jobs that overlap, crash, come twice or lose a document   *)
(* under way are DocumentPipeline's, which counts chunks where this module *)
(* looks into them.                                                        *)
(*                                                                         *)
(* A passage stands for the text of a chunk, and is spelled in units of    *)
(* text; the splitter of LangChain is external, and a file comes with the  *)
(* passages that it cuts and the places it cuts them from: they may        *)
(* overlap.  A document is the number of its version.                      *)
(***************************************************************************)
EXTENDS Naturals, Sequences, SequencesExt

CONSTANTS
  Units,         \* pieces of text
  Passages,      \* the texts of chunks
  Spelled,       \* Spelled[p]: the units of p
  Measure,       \* Measure[p]: what is counted in p: tokens, chars, alpha, ...
  Files,         \* [content, texts, cuts, prefix]: the units of the file, what the splitter
                 \* cuts from it and where, the context of its user metadata
  MinTokens,     \* CHUNK_CONFIG["min_chunk_size"]
  BatchSize,     \* EMBEDDING_BATCH_SIZE
  BatchRetries,  \* MAX_BATCH_RETRIES
  CallRetries,   \* EmbeddingsClient.max_retries
  MaxVersions    \* bound: uploads of the file

Counts == {"tokens", "chars", "alpha", "words", "unique", "repeated", "url"}

None == 0

\* The units of text i of f are those of the file from the k-th on.
StandsAt(f, i, k) ==
  LET text == Spelled[f.texts[i]]
  IN  /\ k + Len(text) - 1 <= Len(f.content)
      /\ \A j \in 1 .. Len(text) : f.content[k + j - 1] = text[j]

\* The splitter cuts from the front to the back; a text that it changes, by trimming or
\* joining, has no place of its own.
ASSUME IndexingAssumption ==
  /\ Spelled \in [Passages -> Seq(Units)]
  /\ Measure \in [Passages -> [Counts -> Nat]]
  /\ \A f \in Files :
       /\ f.content \in Seq(Units)
       /\ f.texts \in Seq(Passages)
       /\ f.cuts \in [1 .. Len(f.texts) -> 0 .. Len(f.content)]
       /\ \A i \in 1 .. Len(f.texts) : f.cuts[i] # None =>
            StandsAt(f, i, f.cuts[i]) /\ \A j \in 1 .. i - 1 : f.cuts[j] < f.cuts[i]
  /\ MinTokens \in Nat
  /\ BatchSize \in Nat \ {0}
  /\ BatchRetries \in Nat \ {0}
  /\ CallRetries \in Nat \ {0}
  /\ MaxVersions \in Nat

VARIABLES
  phase,      \* how far the job of the latest version is
  file,       \* the versions uploaded, in order
  status,     \* documents.status of each
  count,      \* documents.chunk_count of each
  chunks,     \* chunk_data_list
  scores,     \* quality_scores
  toEmbed,    \* chunks_to_embed
  ownScores,  \* filtered_scores
  stale,      \* the rows to delete
  kept,       \* unchanged_count
  vectors,    \* all_embeddings
  attempt,    \* of the batch
  call,       \* of the request inside the attempt
  rows        \* the chunks table

job == <<chunks, scores, toEmbed, ownScores, stale, kept, vectors, attempt, call>>
indexVars == <<phase, file, status, count, job, rows>>

Versions == 1 .. Len(file)
Current  == Len(file)

ChunkData == [content : Passages, index : Nat, start : Nat]

Row == [doc : 1 .. MaxVersions, content : Passages, index : Nat, start : Nat,
        vector : {f.prefix : f \in Files} \X Passages, score : Nat]

IndexTypeOK ==
  /\ phase \in {"idle", "parse", "diff", "embed", "store"}
  /\ file \in Seq(Files) /\ Len(file) <= MaxVersions
  /\ status \in [Versions -> {"processing", "completed", "failed", "deleted"}]
  /\ count \in [Versions -> Nat]
  /\ chunks \in Seq(ChunkData) /\ toEmbed \in Seq(ChunkData)
  /\ scores \in Seq(Nat) /\ ownScores \in Seq(Nat)
  /\ stale \subseteq Row /\ kept \in Nat
  /\ vectors \in Seq({f.prefix : f \in Files} \X Passages)
  /\ attempt \in 1 .. BatchRetries /\ call \in 1 .. CallRetries
  /\ rows \subseteq Row

JobReset ==
  /\ chunks' = <<>> /\ scores' = <<>> /\ toEmbed' = <<>> /\ ownScores' = <<>>
  /\ stale' = {} /\ kept' = 0 /\ vectors' = <<>> /\ attempt' = 1 /\ call' = 1

IndexInit ==
  /\ phase = "idle" /\ file = <<>> /\ status = <<>> /\ count = <<>>
  /\ chunks = <<>> /\ scores = <<>> /\ toEmbed = <<>> /\ ownScores = <<>>
  /\ stale = {} /\ kept = 0 /\ vectors = <<>> /\ attempt = 1 /\ call = 1
  /\ rows = {}

-----------------------------------------------------------------------------
(***************************************************************************)
(* Cutting: create_chunks.                                                 *)
(***************************************************************************)

\* A mutant looks for every text from the beginning of the file.
StartsAnew(f) ==
  [i \in 1 .. Len(f.texts) |->
     LET found == {k \in 1 .. Len(f.content) : StandsAt(f, i, k)}
     IN  IF found = {} THEN None ELSE Min(found)]

\* Where the search finds the text of each chunk, None where it does not.  It goes on one
\* place behind the beginning of the last text found, and so inside of that text.
Starts(f) ==
  LET cursor[i \in 0 .. Len(f.texts)] ==
        IF i = 0 THEN 0
        ELSE LET later == {k \in cursor[i - 1] + 1 .. Len(f.content) : StandsAt(f, i, k)}
             IN  IF later = {} THEN cursor[i - 1] ELSE Min(later)
  IN  [i \in 1 .. Len(f.texts) |->
         IF cursor[i] = cursor[i - 1] THEN None ELSE cursor[i]]

\* Texts that are too small are left out, but for the last one.
LargeEnough(f) ==
  {i \in 1 .. Len(f.texts) : \/ Measure[f.texts[i]].tokens >= MinTokens
                             \/ i = Len(f.texts)}

\* A comprehension with a condition: f[i] for every i in I, in order.
Nth(I, k) == CHOOSE i \in I : Cardinality({j \in I : j < i}) = k - 1

Picked(f, I) == [k \in 1 .. Cardinality(I) |-> f[Nth(I, k)]]

CreateChunks ==
  [f \in Files |->
     [k \in 1 .. Cardinality(LargeEnough(f)) |->
        LET i == Nth(LargeEnough(f), k)
        IN  [content |-> f.texts[i], index |-> k - 1, start |-> Starts(f)[i]]]]

-----------------------------------------------------------------------------
(***************************************************************************)
(* Quality: ChunkValidator, with its ratios as integer inequalities.       *)
(***************************************************************************)

Valid(p) ==
  LET m == Measure[p] IN
    /\ m.chars > 0
    /\ 10 * m.alpha >= 4 * m.chars     \* MIN_ALPHA_RATIO
    /\ m.words >= 8                    \* MIN_WORD_COUNT
    /\ m.unique >= 5                   \* MIN_UNIQUE_WORDS
    /\ 10 * m.repeated <= 3 * m.chars  \* MAX_REPEATED_CHAR_RATIO
    /\ 10 * m.url <= 6 * m.chars       \* MAX_URL_RATIO

\* The score of a valid passage, in thousandths, each of its terms rounded down.
Score(p) ==
  LET m == Measure[p] IN
    (500 * m.alpha) \div m.chars + (300 * m.unique) \div m.words
      + 4 * Min({m.words, 50})

\* filter_chunks of what create_chunks makes of f.
FilterChunks ==
  [f \in Files |->
     LET cs == CreateChunks[f] IN Picked(cs, {i \in DOMAIN cs : Valid(cs[i].content)})]

-----------------------------------------------------------------------------
(***************************************************************************)
(* The difference to the version before: compute_diff.                     *)
(***************************************************************************)

\* The latest completed version, None when there is none.
Previous ==
  LET completed == {d \in Versions : status[d] = "completed"}
  IN  IF completed = {} THEN None ELSE Max(completed)

RowsOf(d) == {r \in rows : r.doc = d}
ContentsOf(S) == {x.content : x \in S}

\* get_existing_chunks keeps one row for each content, whichever comes last.
Existing(d) ==
  {S \in SUBSET RowsOf(d) : /\ ContentsOf(S) = ContentsOf(RowsOf(d))
                            /\ Cardinality(S) = Cardinality(ContentsOf(S))}

\* new_hash_map keeps the last chunk of each content.
LastOfEach(cs) ==
  {cs[i] : i \in {j \in DOMAIN cs :
                    \A k \in DOMAIN cs : cs[k].content = cs[j].content => k <= j}}

NewChunks(cs, old) == {c \in LastOfEach(cs) : c.content \notin ContentsOf(old)}

StaleRows(cs, old) == {r \in old : r.content \notin ContentsOf(Range(cs))}

\* A mutant counts every chunk of the new version that the old one has.
KeptCountEvery(cs, old) ==
  Cardinality({i \in DOMAIN cs : cs[i].content \in ContentsOf(old)})

KeptCount(cs, old) == Cardinality({r \in old : r.content \in ContentsOf(Range(cs))})

\* The scores of the chunks to embed, in the order of chunk_data_list.
ScoresOf(some) == Picked(scores, {i \in DOMAIN chunks : chunks[i] \in Range(some)})

-----------------------------------------------------------------------------
(***************************************************************************)
(* The job.                                                                *)
(***************************************************************************)

\* An upload, which check_duplicate refuses when a version with the same bytes is there
\* and has not failed.
Upload(f) ==
  /\ phase = "idle"
  /\ Len(file) < MaxVersions
  /\ \A d \in Versions : file[d].content = f.content => status[d] \in {"failed", "deleted"}
  /\ phase' = "parse"
  /\ file' = Append(file, f)
  /\ status' = Append(status, "processing")
  /\ count' = Append(count, 0)
  /\ UNCHANGED <<job, rows>>

\* A version is deleted, and its chunks with it.
DeleteVersion(d) ==
  /\ phase = "idle"
  /\ status[d] # "deleted"
  /\ status' = [status EXCEPT ![d] = "deleted"]
  /\ rows' = rows \ RowsOf(d)
  /\ UNCHANGED <<phase, file, count, job>>

\* The handler of every exception: nothing of the job is kept but the failure.  A handler
\* that fails in its turn leaves the job behind, which is DocumentPipeline's.
Fail ==
  /\ phase' = "idle"
  /\ status' = [status EXCEPT ![Current] = "failed"]
  /\ JobReset
  /\ UNCHANGED <<file, count, rows>>

\* Download, parse, cut and filter.  A file of which nothing is left fails.
Chunk ==
  /\ phase = "parse"
  /\ LET good == FilterChunks[file[Current]]
     IN  IF good = <<>>
         THEN Fail
         ELSE /\ phase' = "diff"
              /\ chunks' = good
              /\ scores' = [i \in DOMAIN good |-> Score(good[i].content)]
              /\ UNCHANGED <<file, status, count, rows, toEmbed, ownScores, stale, kept,
                             vectors, attempt, call>>

\* Storage or the parser does not answer, the database fails in the comparison with the
\* version before, or the last transaction cannot commit: as whenever it has rows to
\* delete (see Store).
Break ==
  /\ phase \in {"parse", "diff", "store"}
  /\ Fail

\* The chunks to embed come out of a set of hashes, in any order.
Diff ==
  /\ phase = "diff"
  /\ phase' = "embed"
  /\ IF Previous = None
     THEN /\ toEmbed' = chunks
          /\ ownScores' = scores
          /\ stale' = {}
          /\ kept' = 0
     ELSE \E old \in Existing(Previous) :
            /\ toEmbed' \in SetToSeqs(NewChunks(chunks, old))
            /\ ownScores' = ScoresOf(toEmbed')
            /\ stale' = StaleRows(chunks, old)
            /\ kept' = KeptCount(chunks, old)
  /\ UNCHANGED <<file, status, count, rows, chunks, scores, vectors, attempt, call>>

-----------------------------------------------------------------------------
(***************************************************************************)
(* Embedding: generate_embeddings_for_chunks, batch by batch, around       *)
(* EmbeddingsClient.embed.  The vector of a text is the text itself.       *)
(***************************************************************************)

Prefix == file[Current].prefix

BatchEnd == Min({Len(vectors) + BatchSize, Len(toEmbed)})

Batch == SubSeq(toEmbed, Len(vectors) + 1, BatchEnd)

\* A mutant puts the answer of a later batch in front of those before it.
JoinReversed(all, answer) == answer \o all

Join(all, answer) == all \o answer

Text(c) == <<Prefix, c.content>>

Embedding == phase = "embed" /\ Len(vectors) < Len(toEmbed)

\* The service answers with one vector for each text, in order; for Jina they are
\* sorted by their index first.
EmbedAnswers ==
  /\ Embedding
  /\ vectors' = Join(vectors, [i \in 1 .. Len(Batch) |-> Text(Batch[i])])
  /\ attempt' = 1
  /\ call' = 1
  /\ UNCHANGED <<phase, file, status, count, rows, chunks, scores, toEmbed, ownScores, stale,
                 kept>>

\* A mutant counts the failure that is one too many as a retry.
AttemptFailsLate ==
  IF attempt > BatchRetries
  THEN Fail
  ELSE /\ attempt' = attempt + 1
       /\ call' = 1
       /\ UNCHANGED <<phase, file, status, count, rows, chunks, scores, toEmbed, ownScores,
                      stale, kept, vectors>>

\* A mutant never gives up.
AttemptFailsAgain ==
  /\ attempt' = IF attempt = BatchRetries THEN 1 ELSE attempt + 1
  /\ call' = 1
  /\ UNCHANGED <<phase, file, status, count, rows, chunks, scores, toEmbed, ownScores, stale,
                 kept, vectors>>

\* The attempt at the batch has failed: another one, or the job fails.
AttemptFails ==
  IF attempt = BatchRetries
  THEN Fail
  ELSE /\ attempt' = attempt + 1
       /\ call' = 1
       /\ UNCHANGED <<phase, file, status, count, rows, chunks, scores, toEmbed, ownScores,
                      stale, kept, vectors>>

\* A timeout, a refused connection or an answer of 500 and more: the client asks again.
EmbedUnreachable ==
  /\ Embedding
  /\ IF call = CallRetries
     THEN AttemptFails
     ELSE /\ call' = call + 1
          /\ UNCHANGED <<phase, file, status, count, rows, chunks, scores, toEmbed, ownScores,
                         stale, kept, vectors, attempt>>

\* Any other error is the batch's to repeat.
EmbedRefused ==
  /\ Embedding
  /\ AttemptFails

Embedded ==
  /\ phase = "embed"
  /\ Len(vectors) = Len(toEmbed)
  /\ phase' = "store"
  /\ UNCHANGED <<file, status, count, job, rows>>

-----------------------------------------------------------------------------

\* zip(chunks_to_embed, embeddings, filtered_scores)
NewRows ==
  {[doc |-> Current, content |-> toEmbed[i].content, index |-> toEmbed[i].index,
    start |-> toEmbed[i].start, vector |-> vectors[i], score |-> ownScores[i]] :
     i \in DOMAIN toEmbed \cap DOMAIN vectors \cap DOMAIN ownScores}

\* One transaction: the new rows come, the document is completed.  Stale rows never go:
\* text() does not bind the parameter of "ANY(:ids::uuid[])", the database refuses the
\* statement, and the version fails.
Store ==
  /\ phase = "store"
  /\ stale = {}
  /\ phase' = "idle"
  /\ rows' = rows \cup NewRows
  /\ status' = [status EXCEPT ![Current] = "completed"]
  /\ count' = [count EXCEPT ![Current] = Len(toEmbed) + kept]
  /\ JobReset
  /\ UNCHANGED file

Work ==
  \/ Break
  \/ Chunk
  \/ Diff
  \/ EmbedRefused
  \/ EmbedUnreachable
  \/ EmbedAnswers
  \/ Embedded
  \/ Store

Manage == (\E f \in Files : Upload(f)) \/ (\E d \in Versions : DeleteVersion(d))

IndexNext == Work \/ Manage

IndexSpec == IndexInit /\ [][IndexNext]_indexVars

-----------------------------------------------------------------------------
(***************************************************************************)
(* Properties.                                                             *)
(***************************************************************************)

\* Every stored vector is the embedding of the content of its row with the context of
\* its document, whatever batch it came in, however often that was repeated and in
\* which order the difference came out (tasks.py, steps 7b and 8).
EmbeddedRight == \A r \in rows : r.vector = <<file[r.doc].prefix, r.content>>

\* The search finds no text that the splitter has changed.
Traceable(f) ==
  \A i \in 1 .. Len(f.texts) : f.cuts[i] = None =>
    \A k \in 1 .. Len(f.content) : ~ StandsAt(f, i, k)

\* A chunk that has a position stands there, and the positions of a document's chunks
\* grow with their numbers, so that repeats of one text have different ones.  Where no
\* changed text is found by accident, every chunk that was cut from the file has a
\* position, at the place it was cut from or before, in the text of the chunk before
\* (create_chunks' search_from).
PositionsTrue ==
  \A r \in rows :
    LET f == file[r.doc]
        i == Nth(LargeEnough(f), r.index + 1)
    IN  /\ r.start # None => StandsAt(f, i, r.start)
        /\ (Traceable(f) /\ f.cuts[i] # None) => r.start \in 1 .. f.cuts[i]
        /\ \A s \in RowsOf(r.doc) :
             (r.index < s.index /\ None \notin {r.start, s.start}) => r.start < s.start

Completes(d) == d \in Versions /\ status[d] = "processing" /\ status'[d] = "completed"

\* When a version is completed, all its valid passages are searchable, in rows of its own
\* or of the version before, which has no others, and its chunk count is the number of its
\* own rows and of the contents it shares.
AllSearchable ==
  \A d \in Versions : Completes(d) =>
    LET good == ContentsOf(Range(FilterChunks[file[d]]))
        own  == {r \in rows' : r.doc = d}
        prev == {r \in rows' : r.doc = Previous}
    IN  /\ good \subseteq ContentsOf(own \cup prev)
        /\ ContentsOf(prev) \subseteq good
        /\ count'[d] = Cardinality(own)
             + Cardinality(good \cap (ContentsOf(prev) \ ContentsOf(own)))

CompletionFaithful == [][AllSearchable]_indexVars

\* tasks.py says of filtered_scores that they match chunks_to_embed: every row has the
\* quality score of its own content.
ScoresBelong == \A r \in rows : r.score = Score(r.content)

\* Every upload is completed or fails: the retries of the batches and of the calls in
\* them come to an end.
JobsSettle == []<>(\A d \in Versions : status[d] # "processing")
=============================================================================
