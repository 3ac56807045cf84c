--------------------------- MODULE IngestPipeline ---------------------------
(***************************************************************************)
(* Ingestion of one corpus (a space tree or a website) into one knowledge  *)
(* store collection: IngestEngine (pipeline/engine.py) running the steps   *)
(* of pipeline/steps.py as the two ingest plugins compose them.            *)
(*                                                                         *)
(* A run is one handle() call.  Every call to the store, the embeddings or *)
(* the LLM may fail, a run may be cut off at any await (pipeline_timeout,  *)
(* a crash, a shutdown), and runs follow one another or, because ingest    *)
(* events are acknowledged early (Delivery), overlap in several slots.     *)
(* A piece stands for a chunk's text with the metadata that its content    *)
(* hash covers; a summary or the overview is identified with the content   *)
(* that it covers, which is less than all where calls of its model failed. *)
(***************************************************************************)
EXTENDS Naturals, FiniteSets

CONSTANTS
    Doc,         \* document ids
    Piece,       \* chunk content hashes, up to the document id
    Corpora,     \* what the fetch may return: the pieces of each document
    Run,         \* slots for concurrent ingestions of the collection
    Threshold,   \* summary_chunk_threshold
    BatchSize,   \* ingest_batch_size
    NoBok        \* the store has no overview entry

NoCorpus == [d \in Doc |-> {}]
ASSUME ConstantsOK ==
    /\ IsFiniteSet(Doc) /\ IsFiniteSet(Piece)
    /\ Corpora \subseteq [Doc -> SUBSET Piece]
    /\ Threshold \in Nat \ {0} /\ BatchSize \in Nat \ {0}
    /\ NoBok \notin [Doc -> SUBSET Piece]

VARIABLES
    stored,     \* store: content entries (document, piece)
    summary,    \* store: pieces covered by each document's summary, {} if it has none
    bok,        \* store: the overview, as the part of the corpus it covers
    run,        \* the runs
    latest,     \* history: the corpus of the run that started last
    faulted     \* history: some external call failed or a run was cut off
vars == <<stored, summary, bok, run, latest, faulted>>
store == <<stored, summary, bok>>

Entry == Doc \X Piece
Docs(c) == {d \in Doc : c[d] # {}}     \* a document without text is not ingested
Content(c) == {e \in Entry : e[2] \in c[e[1]]}
EntriesOf(D) == {e \in Entry : e[1] \in D}

-----------------------------------------------------------------------------
(* The pipeline context.                                                   *)

NoChanges == [ran |-> FALSE, changed |-> {}, orphans |-> {}, stale |-> {}, removed |-> {}]
Merge(a, b) ==
    [ran |-> a.ran \/ b.ran, changed |-> a.changed \cup b.changed,
     orphans |-> a.orphans \cup b.orphans, stale |-> a.stale \cup b.stale,
     removed |-> a.removed \cup b.removed]
Changes == [ran : BOOLEAN, changed : SUBSET Doc, orphans : SUBSET Entry,
            stale : SUBSET Doc, removed : SUBSET Doc]

PC == {"idle", "readAll", "readDoc", "summarize", "store", "overview",
       "cleanup", "sweep", "sweepSummary", "done"}
RunState == [
    pc : PC,
    corpus : Corpora \cup {NoCorpus},   \* documents, as fetched
    todo : SUBSET Doc,                  \* documents in later batches
    batch : SUBSET Doc,                 \* documents of the current batch
    scan : SUBSET Doc,                  \* documents a loop has still to visit
    unchanged : SUBSET Entry,           \* unchanged_chunk_hashes of the batch
    fresh : [Doc -> SUBSET Piece],      \* what the new summary chunks cover
    swept : SUBSET Doc,                 \* the document whose summary is deleted next
    ctx : Changes, total : Changes,     \* the batch's findings, all findings
    errs : BOOLEAN,                     \* context.errors is not empty
    outcome : {"none", "success", "failure"}]
IdleRun == [pc |-> "idle", corpus |-> NoCorpus, todo |-> {}, batch |-> {}, scan |-> {},
            unchanged |-> {}, fresh |-> NoCorpus, swept |-> {}, ctx |-> NoChanges, total |-> NoChanges,
            errs |-> FALSE, outcome |-> "none"]

TypeOK ==
    /\ stored \in SUBSET Entry
    /\ summary \in [Doc -> SUBSET Piece]
    /\ bok \in [Doc -> SUBSET Piece] \cup {NoBok}
    /\ run \in [Run -> RunState]
    /\ latest \in Corpora \cup {NoCorpus}
    /\ faulted \in BOOLEAN
    /\ \A r \in Run : (run[r].pc = "done") <=> (run[r].outcome # "none")

Init ==
    /\ stored = {} /\ summary = [d \in Doc |-> {}] /\ bok = NoBok
    /\ run = [r \in Run |-> IdleRun]
    /\ latest = NoCorpus /\ faulted = FALSE

At(r, p) == run[r].pc = p
Active(r) == run[r].pc \notin {"idle", "done"}
Goto(r, p) == run' = [run EXCEPT ![r].pc = p]
Fault == faulted' = TRUE

\* The next batch, in the order the documents were fetched; any order here.
Batches(D) == {B \in SUBSET D : B # {} /\ (B = D \/ Cardinality(B) = BatchSize)
                                       /\ Cardinality(B) <= BatchSize}
\* Go on with the next batch, or with the finalize steps.
Advance(s) ==
    IF s.todo = {} THEN {[s EXCEPT !.pc = "overview", !.batch = {}]}
    ELSE {[s EXCEPT !.pc = "readAll", !.batch = B, !.todo = @ \ B] : B \in Batches(s.todo)}

\* handle(): the corpus has been fetched.  Without documents only change
\* detection and cleanup run.
Start(r) ==
    /\ ~Active(r)
    /\ \E c \in Corpora :
         LET s == [IdleRun EXCEPT !.pc = "readAll", !.corpus = c, !.todo = Docs(c)] IN
         /\ \E n \in (IF Docs(c) = {} THEN {s} ELSE Advance(s)) : run' = [run EXCEPT ![r] = n]
         /\ latest' = c
    /\ UNCHANGED <<store, faulted>>

-----------------------------------------------------------------------------
(* ChangeDetectionStep.                                                    *)

\* What follows change detection: the batch's other steps, or the cleanup of
\* an empty corpus, which has no batches.
AfterDetection(r) == IF run[r].batch = {} THEN "cleanup" ELSE "summarize"

\* Mutant: the documents of the batch count as all documents.
ReadAllBatchOnly(r) ==
    /\ At(r, "readAll")
    /\ LET gone == {e[1] : e \in stored} \ run[r].batch
           ctx == [NoChanges EXCEPT !.removed = gone] IN
       IF run[r].batch = {}
       THEN run' = [run EXCEPT ![r].pc = "cleanup", ![r].total = [ctx EXCEPT !.ran = TRUE]]
       ELSE run' = [run EXCEPT ![r].pc = "readDoc", ![r].scan = @ \cup run[r].batch,
                               ![r].ctx = ctx]
    /\ UNCHANGED <<store, latest, faulted>>

\* Read all entries: documents of the store that the corpus no longer has.
ReadAll(r) ==
    /\ At(r, "readAll")
    /\ LET gone == {e[1] : e \in stored} \ Docs(run[r].corpus)
           ctx == [NoChanges EXCEPT !.removed = gone] IN
       IF run[r].batch = {}
       THEN run' = [run EXCEPT ![r].pc = "cleanup", ![r].total = [ctx EXCEPT !.ran = TRUE]]
       ELSE run' = [run EXCEPT ![r].pc = "readDoc", ![r].scan = @ \cup run[r].batch,
                               ![r].ctx = ctx]
    /\ UNCHANGED <<store, latest, faulted>>

\* Read one document's entries: what is unchanged, what is orphaned.
ReadDoc(r, d) ==
    /\ At(r, "readDoc") /\ d \in run[r].scan
    /\ LET new == {e \in Content(run[r].corpus) : e[1] = d}
           old == {e \in stored : e[1] = d}
           last == run[r].scan = {d}
           found == [run[r].ctx EXCEPT !.changed = IF old = new THEN @ ELSE @ \cup {d},
                                       !.orphans = @ \cup (old \ new), !.ran = last] IN
       run' = [run EXCEPT
           ![r].unchanged = @ \cup (old \cap new),
           ![r].ctx = found,
           ![r].scan = @ \ {d},
           ![r].pc = IF last THEN "summarize" ELSE @]
    /\ UNCHANGED <<store, latest, faulted>>

\* A read failed: an error, and every chunk of the batch counts as new.
DetectionFails(r) ==
    /\ At(r, "readAll") \/ At(r, "readDoc")
    /\ run' = [run EXCEPT ![r].pc = AfterDetection(r), ![r].scan = {}, ![r].unchanged = {},
                          ![r].ctx = NoChanges, ![r].errs = TRUE]
    /\ Fault
    /\ UNCHANGED <<store, latest>>

-----------------------------------------------------------------------------
(* DocumentSummaryStep, EmbedStep and StoreStep.                           *)

Pieces(r, d) == run[r].corpus[d]
\* Documents to summarize, and changed ones that are too short for a summary now.
Eligible(r) == {d \in run[r].batch : /\ Cardinality(Pieces(r, d)) >= Threshold
                                     /\ ~run[r].ctx.ran \/ d \in run[r].ctx.changed}
\* Mutant: the summary of a document that became too short is forgotten.
TooShortForgotten(r) == {}
TooShort(r) == {d \in run[r].batch : /\ Cardinality(Pieces(r, d)) < Threshold
                                     /\ run[r].ctx.ran /\ d \in run[r].ctx.changed}

\* _map_reduce_summarize: what the map calls that succeed cover.  A reduce that
\* fails concatenates; nothing is left when all fail or a model returns nothing.
MapReduce(P) == SUBSET P

\* Each summary is generated, of the whole document or of a part, or recorded
\* as an error on its own.
Summarize(r) ==
    /\ At(r, "summarize")
    /\ \E f \in [Doc -> SUBSET Piece] :
         /\ \A d \in Doc : f[d] \in IF d \in Eligible(r) THEN MapReduce(Pieces(r, d)) ELSE {{}}
         /\ run' = [run EXCEPT ![r].pc = "store", ![r].fresh = f,
                               ![r].ctx.stale = TooShort(r),
                               ![r].errs = @ \/ \E d \in Eligible(r) : f[d] = {}]
         /\ faulted' = (faulted \/ \E d \in Eligible(r) : f[d] # Pieces(r, d))
    /\ UNCHANGED <<store, latest>>

\* New chunks and summaries are embedded and upserted.  What could not be
\* embedded or stored is an error; an error may also hide a write that succeeded.
Store(r) ==
    /\ At(r, "store")
    /\ LET new == (Content(run[r].corpus) \cap EntriesOf(run[r].batch)) \ run[r].unchanged
           summaries == {d \in Doc : run[r].fresh[d] # {}} IN
       \E W \in SUBSET new, S \in SUBSET summaries, err \in BOOLEAN :
         /\ W # new \/ S # summaries => err
         /\ stored' = stored \cup W
         /\ summary' = [d \in Doc |-> IF d \in S THEN run[r].fresh[d] ELSE summary[d]]
         /\ LET s == [run[r] EXCEPT !.total = Merge(@, run[r].ctx), !.ctx = NoChanges,
                                    !.unchanged = {}, !.fresh = NoCorpus, !.errs = @ \/ err] IN
            \E n \in Advance(s) : run' = [run EXCEPT ![r] = n]
         /\ faulted' = (faulted \/ err)
    /\ UNCHANGED <<bok, latest>>

-----------------------------------------------------------------------------
(* BodyOfKnowledgeSummaryStep and its EmbedStep and StoreStep.             *)

\* Mutant: removed documents do not count as a change.
NothingChangedButRemovals(r) == run[r].total.ran /\ run[r].total.changed = {}
NothingChanged(r) ==
    run[r].total.ran /\ run[r].total.changed = {} /\ run[r].total.removed = {}

OverviewSkipped(r) ==
    /\ At(r, "overview")
    /\ NothingChanged(r) /\ bok # NoBok
    /\ Goto(r, "cleanup")
    /\ UNCHANGED <<store, latest, faulted>>

\* What the overview may cover.  The section of a document is its summary, which
\* may cover a part only, or else its chunks; it is lost when its map call fails.
Overviews(r) == {c \in [Doc -> SUBSET Piece] : \A d \in Doc : c[d] \in MapReduce(Pieces(r, d))}

\* Generated from this run's documents and stored, inline or by the finalize
\* steps, the empty text too; a failed look-up counts as "no overview yet".
OverviewGenerated(r) ==
    /\ At(r, "overview")
    /\ \E text \in Overviews(r), readFails, written, err \in BOOLEAN :
         /\ readFails => NothingChanged(r)
         /\ ~NothingChanged(r) \/ bok = NoBok \/ readFails
         /\ ~written => err
         /\ bok' = IF written THEN text ELSE bok
         /\ run' = [run EXCEPT ![r].pc = "cleanup", ![r].errs = @ \/ err]
         /\ faulted' = (faulted \/ text # run[r].corpus \/ readFails \/ err)
    /\ UNCHANGED <<stored, summary, latest>>

-----------------------------------------------------------------------------
(* OrphanCleanupStep, gated by errors because it is destructive.           *)

Finish(r, outcome) == run' = [run EXCEPT ![r].pc = "done", ![r].outcome = outcome,
                                         ![r].scan = {}]

CleanupGated(r) ==
    /\ At(r, "cleanup") /\ run[r].errs
    /\ Finish(r, "failure")
    /\ UNCHANGED <<store, latest, faulted>>

\* Mutant: the step is not marked destructive.
DeleteOrphansUngated(r) ==
    /\ At(r, "cleanup")
    /\ stored' = stored \ run[r].total.orphans
    /\ summary' = [d \in Doc |-> IF d \in run[r].total.stale THEN {} ELSE summary[d]]
    /\ run' = [run EXCEPT ![r].pc = "sweep", ![r].scan = run[r].total.removed]
    /\ UNCHANGED <<bok, latest, faulted>>

\* One delete call for all orphaned ids.
DeleteOrphans(r) ==
    /\ At(r, "cleanup") /\ ~run[r].errs
    /\ \E performed, err \in BOOLEAN :
         /\ ~performed => err
         /\ err => run[r].total.orphans # {} \/ run[r].total.stale # {}
         /\ IF performed
            THEN /\ stored' = stored \ run[r].total.orphans
                 /\ summary' = [d \in Doc |-> IF d \in run[r].total.stale THEN {} ELSE summary[d]]
            ELSE UNCHANGED <<stored, summary>>
         /\ run' = [run EXCEPT ![r].pc = "sweep", ![r].scan = run[r].total.removed,
                               ![r].errs = @ \/ err]
         /\ faulted' = (faulted \/ err)
    /\ UNCHANGED <<bok, latest>>

\* For each removed document: delete its content, then its summary; an error
\* goes on with the next document.
SweepContent(r, d) ==
    /\ At(r, "sweep") /\ d \in run[r].scan
    /\ \E performed, err \in BOOLEAN :
         /\ ~performed => err
         /\ stored' = IF performed THEN stored \ EntriesOf({d}) ELSE stored
         /\ run' = [run EXCEPT ![r].errs = @ \/ err,
                               ![r].pc = IF err THEN "sweep" ELSE "sweepSummary",
                               ![r].swept = IF err THEN {} ELSE {d},
                               ![r].scan = @ \ {d}]
         /\ faulted' = (faulted \/ err)
    /\ UNCHANGED <<summary, bok, latest>>

SweepSummary(r) ==
    /\ At(r, "sweepSummary")
    /\ \E performed, err \in BOOLEAN :
         /\ ~performed => err
         /\ summary' = [d \in Doc |-> IF performed /\ d \in run[r].swept THEN {} ELSE summary[d]]
         /\ run' = [run EXCEPT ![r].errs = @ \/ err, ![r].pc = "sweep", ![r].swept = {}]
         /\ faulted' = (faulted \/ err)
    /\ UNCHANGED <<stored, bok, latest>>

\* _build_result: success means no error was recorded.
Finished(r) ==
    /\ At(r, "sweep") /\ run[r].scan = {}
    /\ Finish(r, IF run[r].errs THEN "failure" ELSE "success")
    /\ UNCHANGED <<store, latest, faulted>>

-----------------------------------------------------------------------------

\* Mutant: a pipeline that is cut off reports nothing.
KilledSilently(r) ==
    /\ Active(r)
    /\ Goto(r, "done") /\ Fault
    /\ UNCHANGED <<store, latest>>

\* pipeline_timeout, a cancelled task or a crash, at any await.
Killed(r) ==
    /\ Active(r)
    /\ Finish(r, "failure")
    /\ Fault
    /\ UNCHANGED <<store, latest>>

RunStep(r) ==
    \/ Start(r)
    \/ ReadAll(r) \/ (\E d \in Doc : ReadDoc(r, d)) \/ DetectionFails(r)
    \/ Summarize(r) \/ Store(r)
    \/ OverviewSkipped(r) \/ OverviewGenerated(r)
    \/ CleanupGated(r) \/ DeleteOrphans(r)
    \/ (\E d \in Doc : SweepContent(r, d)) \/ SweepSummary(r) \/ Finished(r)
    \/ Killed(r)
Next == \E r \in Run : RunStep(r)
Spec == Init /\ [][Next]_vars

-----------------------------------------------------------------------------
(* Properties.                                                             *)

Idle == \A r \in Run : ~Active(r)
Succeeded(r) == run[r].outcome = "success"

\* Runs one after another, whatever fails or is cut off in between, implement
\* the promise of CorpusSync: nothing is deleted before the whole fetched
\* corpus is stored, nothing of it is deleted ever, and a run that reports
\* success leaves exactly the fetched content (specs/006 US2, specs/011).
TheRun == CHOOSE r \in Run : TRUE
Phase == IF Active(TheRun) THEN "working" ELSE run[TheRun].outcome
Sync == INSTANCE CorpusSync WITH target <- latest, phase <- Phase
SyncSpec == Sync!Spec

\* However runs overlap, no step of a run deletes an entry of the corpus that
\* this run itself fetched: change detection and cleanup look at all documents.
OwnContentKept ==
    [][\A r \in Run : run'[r] # run[r] =>
         (stored \ stored') \cap Content(run[r].corpus) = {}]_vars

SummaryOf(c, d) == IF Cardinality(c[d]) >= Threshold THEN c[d] ELSE {}

\* As long as nothing fails, every success leaves for each document of the
\* corpus, and for each removed one, exactly the summary it should have.
SummariesFresh ==
    ~faulted /\ Idle => \A d \in Doc : summary[d] = SummaryOf(latest, d)

\* As long as nothing fails, the overview is the one of the fetched corpus
\* after every success, also when documents were only removed or unchanged.
OverviewFresh ==
    ~faulted /\ Idle /\ Docs(latest) # {} => bok = latest

\* Violated when runs overlap.  specs/006 spec.md FR-010 and SC-003: ingestion
\* is serialized, so that after re-ingestion no orphaned chunk remains (and no
\* current one is missing) when every run reported success.
SuccessIsExact ==
    Idle /\ ~faulted /\ (\E r \in Run : Succeeded(r)) => stored = Content(latest)

\* Violated after a failed summary.  specs/013 spec.md US1 scenario 4:
\* "unchanged documents have consistent summary state".
SummariesConsistent ==
    \A r \in Run : At(r, "summarize") /\ run[r].ctx.ran =>
        \A d \in run[r].batch \ run[r].ctx.changed :
            summary[d] = SummaryOf(run[r].corpus, d)
=============================================================================
