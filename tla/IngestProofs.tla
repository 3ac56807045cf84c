---------------------------- MODULE IngestProofs ----------------------------
(***************************************************************************)
(* The ingest pipeline, for every corpus, summary threshold and batch      *)
(* size, whatever calls fail and wherever runs are cut off.                *)
(*                                                                         *)
(* For any number of runs that overlap in any way: type correctness, and   *)
(* no run ever deletes an entry of the corpus it fetched.  For runs of one *)
(* collection that follow one another: they implement CorpusSync, and keep *)
(* the summaries fresh, of a document and the overview of the collection.  *)
(***************************************************************************)
EXTENDS IngestPipeline, FiniteSetTheorems, TLAPS

\* What holds of every run: what it marked for deletion is not its own.
RunInv(s) ==
    /\ s \in RunState
    /\ (s.pc = "done") <=> (s.outcome # "none")
    /\ s.ctx.orphans \cap Content(s.corpus) = {}
    /\ s.total.orphans \cap Content(s.corpus) = {}
    /\ s.ctx.removed \cap Docs(s.corpus) = {}
    /\ s.total.removed \cap Docs(s.corpus) = {}
    /\ s.pc # "idle" => s.corpus \in Corpora
    /\ s.pc \in {"sweep", "sweepSummary"} => s.scan \cap Docs(s.corpus) = {}

StoreType ==
    /\ stored \in SUBSET Entry
    /\ summary \in [Doc -> SUBSET Piece]
    /\ bok \in [Doc -> SUBSET Piece] \cup {NoBok}
    /\ latest \in Corpora \cup {NoCorpus}
    /\ faulted \in BOOLEAN

IInv == StoreType /\ run \in [Run -> RunState] /\ \A r \in Run : RunInv(run[r])

\* Run r goes on with state n, and nothing else happens to the runs.
GoesTo(r, n) == run' = [run EXCEPT ![r] = n]

LEMMA EmptyChanges == NoChanges \in Changes
BY DEF NoChanges, Changes

LEMMA NothingCovered == NoCorpus \in [Doc -> SUBSET Piece]
BY DEF NoCorpus

LEMMA IdleType == RunInv(IdleRun)
BY EmptyChanges, NothingCovered DEF IdleRun, RunState, PC, RunInv, NoChanges

LEMMA InvInit == Init => IInv
<1> SUFFICES ASSUME Init PROVE IInv
  OBVIOUS
<1>1. StoreType
  BY DEF Init, StoreType, NoCorpus
<1>2. run \in [Run -> RunState] /\ \A r \in Run : RunInv(run[r])
  BY IdleType DEF Init, RunInv
<1> QED BY <1>1, <1>2 DEF IInv

\* The invariant after a step that changes one run.
LEMMA OneRun ==
    ASSUME IInv, NEW r \in Run, NEW n, RunInv(n), GoesTo(r, n), StoreType'
    PROVE  IInv'
<1>1. n \in RunState
  BY DEF RunInv
<1> QED BY <1>1 DEF IInv, GoesTo

LEMMA ReadAllInv == ASSUME IInv, NEW r \in Run, ReadAll(r) PROVE IInv'
<1>1. run[r] \in RunState /\ RunInv(run[r])
  BY DEF IInv
<1>2. PICK gone : gone = {e[1] : e \in stored} \ Docs(run[r].corpus)
  OBVIOUS
<1>3. gone \in SUBSET Doc /\ gone \cap Docs(run[r].corpus) = {}
  BY <1>2 DEF IInv, StoreType, Entry
<1>4. PICK c : c = [NoChanges EXCEPT !.removed = gone]
  OBVIOUS
<1>5. c \in Changes /\ c.orphans = {} /\ c.removed = gone
  BY <1>3, <1>4 DEF NoChanges, Changes
<1>6. PICK d : d = [c EXCEPT !.ran = TRUE]
  OBVIOUS
<1>7. d \in Changes /\ d.orphans = {} /\ d.removed = gone
  BY <1>5, <1>6 DEF Changes
<1>8. StoreType'
  BY DEF ReadAll, IInv, StoreType, store
<1>9. CASE run[r].batch = {}
  <2> DEFINE n == [run[r] EXCEPT !.pc = "cleanup", !.total = d]
  <2>1. RunInv(n)
    BY <1>1, <1>3, <1>7 DEF RunInv, RunState, PC, ReadAll, At
  <2>2. GoesTo(r, n)
    BY <1>9, <1>2, <1>4, <1>6 DEF ReadAll, GoesTo, IInv
  <2> QED BY <2>1, <2>2, <1>8, OneRun
<1>10. CASE run[r].batch # {}
  <2> DEFINE n == [run[r] EXCEPT !.pc = "readDoc", !.scan = @ \cup run[r].batch, !.ctx = c]
  <2>1. RunInv(n)
    BY <1>1, <1>3, <1>5 DEF RunInv, RunState, PC, ReadAll, At
  <2>2. GoesTo(r, n)
    BY <1>10, <1>2, <1>4 DEF ReadAll, GoesTo, IInv
  <2> QED BY <2>1, <2>2, <1>8, OneRun
<1> QED BY <1>9, <1>10

LEMMA ReadDocInv == ASSUME IInv, NEW r \in Run, NEW d \in Doc, ReadDoc(r, d) PROVE IInv'
<1>1. run[r] \in RunState /\ RunInv(run[r])
  BY DEF IInv
<1> DEFINE s == run[r]
<1>2. PICK new : new = {e \in Content(run[r].corpus) : e[1] = d}
  OBVIOUS
<1>3. PICK old : old = {e \in stored : e[1] = d}
  OBVIOUS
<1>4. PICK last \in BOOLEAN : last = (run[r].scan = {d})
  OBVIOUS
<1>5. old \in SUBSET Entry /\ (old \ new) \cap Content(s.corpus) = {}
  BY <1>2, <1>3 DEF IInv, StoreType
<1>6. PICK x : x = [s.ctx EXCEPT !.changed = IF old = new THEN @ ELSE @ \cup {d},
                                 !.orphans = @ \cup (old \ new), !.ran = last]
  OBVIOUS
<1>7. s.ctx \in Changes
  BY <1>1 DEF RunState
<1>8. /\ x \in Changes
      /\ x.orphans = s.ctx.orphans \cup (old \ new)
      /\ x.removed = s.ctx.removed
  BY <1>5, <1>6, <1>7 DEF Changes
<1> DEFINE n == [s EXCEPT !.unchanged = @ \cup (old \cap new), !.ctx = x,
                          !.scan = @ \ {d}, !.pc = IF last THEN "summarize" ELSE @]
<1>9. At(r, "readDoc")
  BY DEF ReadDoc
<1>10. RunInv(n)
  BY <1>1, <1>5, <1>8, <1>9 DEF RunInv, RunState, PC, At
<1>11. GoesTo(r, n)
  <2>1. run' = [run EXCEPT ![r].unchanged = @ \cup (old \cap new), ![r].ctx = x,
                           ![r].scan = @ \ {d}, ![r].pc = IF last THEN "summarize" ELSE @]
    BY <1>2, <1>3, <1>4, <1>6, Zenon DEF ReadDoc
  <2> QED BY <2>1 DEF GoesTo, IInv
<1>12. StoreType'
  BY DEF ReadDoc, IInv, StoreType, store
<1> QED BY <1>10, <1>11, <1>12, OneRun

LEMMA DetectionFailsInv == ASSUME IInv, NEW r \in Run, DetectionFails(r) PROVE IInv'
<1>1. run[r] \in RunState /\ RunInv(run[r])
  BY DEF IInv
<1> DEFINE n == [run[r] EXCEPT !.pc = AfterDetection(r), !.scan = {}, !.unchanged = {},
                               !.ctx = NoChanges, !.errs = TRUE]
<1>2. NoChanges.orphans = {} /\ NoChanges.removed = {}
  BY DEF NoChanges
<1>3. RunInv(n)
  BY <1>1, <1>2, EmptyChanges DEF RunInv, RunState, PC, DetectionFails, At, AfterDetection
<1>4. GoesTo(r, n)
  BY DEF DetectionFails, GoesTo, IInv
<1>5. StoreType'
  BY DEF DetectionFails, IInv, StoreType, store, Fault
<1> QED BY <1>3, <1>4, <1>5, OneRun

LEMMA SummarizeInv == ASSUME IInv, NEW r \in Run, Summarize(r) PROVE IInv'
<1>1. run[r] \in RunState /\ RunInv(run[r])
  BY DEF IInv
<1>2. PICK f \in [Doc -> SUBSET Piece] :
        /\ run' = [run EXCEPT ![r].pc = "store", ![r].fresh = f,
                              ![r].ctx.stale = TooShort(r),
                              ![r].errs = @ \/ \E d \in Eligible(r) : f[d] = {}]
        /\ faulted' = (faulted \/ \E d \in Eligible(r) : f[d] # Pieces(r, d))
  BY DEF Summarize
<1>3. Eligible(r) \in SUBSET Doc /\ TooShort(r) \in SUBSET Doc
  BY <1>1 DEF Eligible, TooShort, RunState
<1>4. run[r].ctx \in Changes
  BY <1>1 DEF RunState
<1>5. PICK x : x = [run[r].ctx EXCEPT !.stale = TooShort(r)]
  OBVIOUS
<1> DEFINE e == run[r].errs \/ \E d \in Eligible(r) : f[d] = {}
<1>6. x \in Changes /\ x.orphans = run[r].ctx.orphans /\ x.removed = run[r].ctx.removed
  BY <1>3, <1>4, <1>5 DEF Changes
<1> DEFINE n == [run[r] EXCEPT !.pc = "store", !.fresh = f, !.ctx = x, !.errs = e]
<1>7. At(r, "summarize") /\ e \in BOOLEAN
  BY DEF Summarize
<1>8. RunInv(n)
  BY <1>1, <1>3, <1>6, <1>7 DEF RunInv, RunState, PC, At
<1>9. GoesTo(r, n)
  BY <1>1, <1>2, <1>4, <1>5 DEF GoesTo, IInv, RunState, Changes
<1>10. StoreType'
  BY <1>2 DEF Summarize, IInv, StoreType, store
<1> QED BY <1>8, <1>9, <1>10, OneRun

\* Going on with the next batch keeps the findings so far and the corpus.
LEMMA AdvanceInv == ASSUME NEW s, RunInv(s), s.outcome = "none", s.pc # "idle",
                           NEW n \in Advance(s)
                    PROVE  RunInv(n)
<1>1. s \in RunState
  BY DEF RunInv
<1>2. CASE s.todo = {}
  <2>1. n = [s EXCEPT !.pc = "overview", !.batch = {}]
    BY <1>2 DEF Advance
  <2> QED BY <1>1, <2>1 DEF RunInv, RunState, PC
<1>3. CASE s.todo # {}
  <2>1. PICK B \in Batches(s.todo) :
          n = [s EXCEPT !.pc = "readAll", !.batch = B, !.todo = @ \ B]
    BY <1>3 DEF Advance
  <2>2. B \in SUBSET Doc
    BY <1>1 DEF Batches, RunState
  <2> QED BY <1>1, <2>1, <2>2 DEF RunInv, RunState, PC
<1> QED BY <1>2, <1>3

LEMMA MergeInv == ASSUME NEW a \in Changes, NEW b \in Changes
                  PROVE  /\ Merge(a, b) \in Changes
                         /\ Merge(a, b).orphans = a.orphans \cup b.orphans
                         /\ Merge(a, b).removed = a.removed \cup b.removed
BY DEF Merge, Changes

\* The new content entries of the batch, the documents with a new summary, and
\* the run record before the next batch is taken.
NewEntries(r) == (Content(run[r].corpus) \cap EntriesOf(run[r].batch)) \ run[r].unchanged
NewSummaries(r) == {d \in Doc : run[r].fresh[d] # {}}
AfterStore(r, err) ==
    [run[r] EXCEPT !.total = Merge(@, run[r].ctx), !.ctx = NoChanges,
                   !.unchanged = {}, !.fresh = NoCorpus, !.errs = @ \/ err]

LEMMA StoreStep ==
    ASSUME NEW r \in Run, Store(r)
    PROVE  \E W \in SUBSET NewEntries(r), S \in SUBSET NewSummaries(r), err \in BOOLEAN :
             /\ W # NewEntries(r) \/ S # NewSummaries(r) => err
             /\ stored' = stored \cup W
             /\ summary' = [d \in Doc |-> IF d \in S THEN run[r].fresh[d] ELSE summary[d]]
             /\ \E n \in Advance(AfterStore(r, err)) : run' = [run EXCEPT ![r] = n]
             /\ faulted' = (faulted \/ err)
BY Zenon DEF Store, NewEntries, NewSummaries, AfterStore

LEMMA AfterStoreFields ==
    ASSUME NEW r \in Run, run[r] \in RunState, NEW err \in BOOLEAN
    PROVE  LET s == AfterStore(r, err) IN
           /\ s \in RunState
           /\ s.pc = run[r].pc /\ s.outcome = run[r].outcome
           /\ s.corpus = run[r].corpus /\ s.todo = run[r].todo /\ s.scan = run[r].scan
           /\ s.total = Merge(run[r].total, run[r].ctx) /\ s.ctx = NoChanges
           /\ s.unchanged = {} /\ (s.errs <=> run[r].errs \/ err)
<1>1. (run[r].errs \/ err) \in BOOLEAN
  OBVIOUS
<1>2. Merge(run[r].total, run[r].ctx) \in Changes
  BY MergeInv DEF RunState
<1> QED BY <1>1, <1>2, EmptyChanges, NothingCovered DEF AfterStore, RunState

LEMMA StoreInv == ASSUME IInv, NEW r \in Run, Store(r) PROVE IInv'
<1>1. run[r] \in RunState /\ RunInv(run[r])
  BY DEF IInv
<1>2. PICK W \in SUBSET NewEntries(r), S \in SUBSET NewSummaries(r), err \in BOOLEAN :
        /\ stored' = stored \cup W
        /\ summary' = [d \in Doc |-> IF d \in S THEN run[r].fresh[d] ELSE summary[d]]
        /\ \E n \in Advance(AfterStore(r, err)) : run' = [run EXCEPT ![r] = n]
        /\ faulted' = (faulted \/ err)
  BY StoreStep, Zenon
<1> DEFINE s == AfterStore(r, err)
<1>3. /\ s \in RunState
      /\ s.pc = run[r].pc /\ s.outcome = run[r].outcome
      /\ s.corpus = run[r].corpus /\ s.scan = run[r].scan
      /\ s.total = Merge(run[r].total, run[r].ctx) /\ s.ctx = NoChanges
  BY <1>1, AfterStoreFields, Zenon
<1> HIDE DEF s
<1>4. /\ s.total.orphans = run[r].total.orphans \cup run[r].ctx.orphans
      /\ s.total.removed = run[r].total.removed \cup run[r].ctx.removed
  BY <1>1, <1>3, MergeInv DEF RunState
<1>5. NoChanges.orphans = {} /\ NoChanges.removed = {}
  BY DEF NoChanges
<1>6. At(r, "store")
  BY Zenon DEF Store
<1>7. RunInv(s) /\ s.outcome = "none" /\ s.pc # "idle"
  BY <1>1, <1>3, <1>4, <1>5, <1>6 DEF RunInv, RunState, At
<1>8. PICK n \in Advance(s) : GoesTo(r, n)
  BY <1>2, Zenon DEF GoesTo, s
<1>9. RunInv(n)
  BY <1>7, <1>8, AdvanceInv
<1>10. run[r].fresh \in [Doc -> SUBSET Piece]
  BY <1>1 DEF RunState
<1>11. bok' = bok /\ latest' = latest
  BY Zenon DEF Store
<1>12. W \subseteq Entry
  BY DEF NewEntries, Content
<1>13. StoreType'
  BY <1>2, <1>10, <1>11, <1>12 DEF IInv, StoreType
<1> QED BY <1>8, <1>9, <1>13, OneRun

LEMMA OverviewSkippedInv == ASSUME IInv, NEW r \in Run, OverviewSkipped(r) PROVE IInv'
<1> DEFINE n == [run[r] EXCEPT !.pc = "cleanup"]
<1>1. run[r] \in RunState /\ RunInv(run[r])
  BY DEF IInv
<1>2. RunInv(n)
  BY <1>1 DEF RunInv, RunState, PC, OverviewSkipped, At
<1>3. GoesTo(r, n) /\ StoreType'
  BY DEF OverviewSkipped, Goto, GoesTo, IInv, StoreType, store
<1> QED BY <1>2, <1>3, OneRun

LEMMA OverviewGeneratedInv == ASSUME IInv, NEW r \in Run, OverviewGenerated(r) PROVE IInv'
<1>1. run[r] \in RunState /\ RunInv(run[r])
  BY DEF IInv
<1>2. PICK text \in [Doc -> SUBSET Piece], readFails \in BOOLEAN, written \in BOOLEAN,
           err \in BOOLEAN :
        /\ bok' = IF written THEN text ELSE bok
        /\ run' = [run EXCEPT ![r].pc = "cleanup", ![r].errs = @ \/ err]
        /\ faulted' = (faulted \/ text # run[r].corpus \/ readFails \/ err)
  BY DEF OverviewGenerated, Overviews
<1> DEFINE n == [run[r] EXCEPT !.pc = "cleanup", !.errs = @ \/ err]
<1>3. (run[r].errs \/ err) \in BOOLEAN /\ At(r, "overview")
  BY DEF OverviewGenerated
<1>4. RunInv(n)
  BY <1>1, <1>3 DEF RunInv, RunState, PC, At
<1>5. GoesTo(r, n)
  BY <1>2 DEF GoesTo, IInv
<1>6. StoreType'
  BY <1>1, <1>2, <1>3 DEF OverviewGenerated, IInv, StoreType, RunInv, At
<1> QED BY <1>4, <1>5, <1>6, OneRun

\* Ending a run keeps what it marked for deletion, of which nothing is its own.
LEMMA FinishInv ==
    ASSUME IInv, NEW r \in Run, Active(r), NEW outcome \in {"success", "failure"},
           Finish(r, outcome), StoreType'
    PROVE  IInv'
<1> DEFINE n == [run[r] EXCEPT !.pc = "done", !.outcome = outcome, !.scan = {}]
<1>1. run[r] \in RunState /\ RunInv(run[r])
  BY DEF IInv
<1>2. RunInv(n)
  BY <1>1 DEF RunInv, RunState, PC, Active
<1>3. GoesTo(r, n)
  BY DEF Finish, GoesTo, IInv
<1> QED BY <1>2, <1>3, OneRun

LEMMA EndsInv == ASSUME IInv, NEW r \in Run, CleanupGated(r) \/ Finished(r) \/ Killed(r)
                 PROVE  IInv'
<1>1. StoreType'
  BY DEF CleanupGated, Finished, Killed, IInv, StoreType, store, Fault
<1>2. Active(r)
  BY DEF CleanupGated, Finished, Killed, At, Active
<1>3. \E outcome \in {"success", "failure"} : Finish(r, outcome)
  BY DEF CleanupGated, Finished, Killed
<1> QED BY <1>1, <1>2, <1>3, FinishInv

LEMMA DeleteOrphansInv == ASSUME IInv, NEW r \in Run, DeleteOrphans(r) PROVE IInv'
<1>1. run[r] \in RunState /\ RunInv(run[r])
  BY DEF IInv
<1>2. PICK performed \in BOOLEAN, err \in BOOLEAN :
        /\ IF performed
           THEN /\ stored' = stored \ run[r].total.orphans
                /\ summary' = [d \in Doc |-> IF d \in run[r].total.stale THEN {} ELSE summary[d]]
           ELSE UNCHANGED <<stored, summary>>
        /\ run' = [run EXCEPT ![r].pc = "sweep", ![r].scan = run[r].total.removed,
                              ![r].errs = @ \/ err]
        /\ faulted' = (faulted \/ err)
  BY DEF DeleteOrphans
<1>3. StoreType'
  BY <1>2 DEF DeleteOrphans, IInv, StoreType
<1> DEFINE n == [run[r] EXCEPT !.pc = "sweep", !.scan = run[r].total.removed,
                               !.errs = @ \/ err]
<1>4. (run[r].errs \/ err) \in BOOLEAN /\ At(r, "cleanup")
  BY DEF DeleteOrphans
<1>5. run[r].total.removed \in SUBSET Doc
  BY <1>1 DEF RunState, Changes
<1>6. RunInv(n)
  BY <1>1, <1>4, <1>5 DEF RunInv, RunState, PC, At
<1>7. GoesTo(r, n)
  BY <1>2 DEF GoesTo, IInv
<1> QED BY <1>3, <1>6, <1>7, OneRun

LEMMA SweepContentInv == ASSUME IInv, NEW r \in Run, NEW d \in Doc, SweepContent(r, d)
                         PROVE  IInv'
<1>1. run[r] \in RunState /\ RunInv(run[r])
  BY DEF IInv
<1>2. PICK performed \in BOOLEAN, err \in BOOLEAN :
        /\ stored' = IF performed THEN stored \ EntriesOf({d}) ELSE stored
        /\ run' = [run EXCEPT ![r].errs = @ \/ err,
                              ![r].pc = IF err THEN "sweep" ELSE "sweepSummary",
                              ![r].swept = IF err THEN {} ELSE {d},
                              ![r].scan = @ \ {d}]
        /\ faulted' = (faulted \/ err)
  BY DEF SweepContent
<1>3. StoreType'
  BY <1>2 DEF SweepContent, IInv, StoreType
<1> DEFINE n == [run[r] EXCEPT !.errs = @ \/ err,
                               !.pc = IF err THEN "sweep" ELSE "sweepSummary",
                               !.swept = IF err THEN {} ELSE {d},
                               !.scan = @ \ {d}]
<1>4. (run[r].errs \/ err) \in BOOLEAN /\ At(r, "sweep")
  BY DEF SweepContent
<1>5. RunInv(n)
  BY <1>1, <1>4 DEF RunInv, RunState, PC, At
<1>6. GoesTo(r, n)
  BY <1>2 DEF GoesTo, IInv
<1> QED BY <1>3, <1>5, <1>6, OneRun

\* Start: a fresh run record for the fetched corpus.
LEMMA StartInv == ASSUME IInv, NEW r \in Run, Start(r) PROVE IInv'
<1>1. PICK c \in Corpora :
        /\ \E n \in (IF Docs(c) = {}
                     THEN {[IdleRun EXCEPT !.pc = "readAll", !.corpus = c, !.todo = Docs(c)]}
                     ELSE Advance([IdleRun EXCEPT !.pc = "readAll", !.corpus = c,
                                                  !.todo = Docs(c)])) :
             run' = [run EXCEPT ![r] = n]
        /\ latest' = c
  BY DEF Start
<1> DEFINE s == [IdleRun EXCEPT !.pc = "readAll", !.corpus = c, !.todo = Docs(c)]
<1>2. RunInv(s) /\ s.outcome = "none" /\ s.pc # "idle"
  BY EmptyChanges, NothingCovered DEF RunInv, RunState, PC, IdleRun, NoChanges, Docs
<1>3. PICK n : (n = s \/ n \in Advance(s)) /\ GoesTo(r, n)
  BY <1>1 DEF GoesTo
<1>4. RunInv(n)
  BY <1>2, <1>3, AdvanceInv
<1>5. StoreType'
  BY <1>1 DEF Start, IInv, StoreType, store
<1> QED BY <1>3, <1>4, <1>5, OneRun

LEMMA SweepSummaryInv == ASSUME IInv, NEW r \in Run, SweepSummary(r) PROVE IInv'
<1>1. run[r] \in RunState /\ RunInv(run[r])
  BY DEF IInv
<1>2. PICK performed \in BOOLEAN, err \in BOOLEAN :
        /\ summary' = [d \in Doc |-> IF performed /\ d \in run[r].swept THEN {} ELSE summary[d]]
        /\ run' = [run EXCEPT ![r].errs = @ \/ err, ![r].pc = "sweep", ![r].swept = {}]
        /\ faulted' = (faulted \/ err)
  BY DEF SweepSummary
<1>3. StoreType'
  BY <1>2 DEF SweepSummary, IInv, StoreType
<1> DEFINE n == [run[r] EXCEPT !.errs = @ \/ err, !.pc = "sweep", !.swept = {}]
<1>4. (run[r].errs \/ err) \in BOOLEAN /\ At(r, "sweepSummary")
  BY DEF SweepSummary
<1>5. RunInv(n)
  BY <1>1, <1>4 DEF RunInv, RunState, PC, At
<1>6. GoesTo(r, n)
  BY <1>2 DEF GoesTo, IInv
<1> QED BY <1>3, <1>5, <1>6, OneRun

LEMMA InvNext == IInv /\ [Next]_vars => IInv'
<1>1. ASSUME IInv, NEW r \in Run, RunStep(r) PROVE IInv'
  <2>1. CASE Start(r)
    BY <1>1, <2>1, StartInv
  <2>2. CASE ReadAll(r)
    BY <1>1, <2>2, ReadAllInv
  <2>3. CASE \E d \in Doc : ReadDoc(r, d)
    BY <1>1, <2>3, ReadDocInv
  <2>4. CASE DetectionFails(r)
    BY <1>1, <2>4, DetectionFailsInv
  <2>5. CASE Summarize(r)
    BY <1>1, <2>5, SummarizeInv
  <2>6. CASE Store(r)
    BY <1>1, <2>6, StoreInv
  <2>7. CASE OverviewSkipped(r)
    BY <1>1, <2>7, OverviewSkippedInv
  <2>8. CASE OverviewGenerated(r)
    BY <1>1, <2>8, OverviewGeneratedInv
  <2>9. CASE CleanupGated(r) \/ Finished(r) \/ Killed(r)
    BY <1>1, <2>9, EndsInv
  <2>10. CASE DeleteOrphans(r)
    BY <1>1, <2>10, DeleteOrphansInv
  <2>11. CASE \E d \in Doc : SweepContent(r, d)
    BY <1>1, <2>11, SweepContentInv
  <2>12. CASE SweepSummary(r)
    BY <1>1, <2>12, SweepSummaryInv
  <2> QED
    BY <1>1, <2>1, <2>2, <2>3, <2>4, <2>5, <2>6, <2>7, <2>8, <2>9, <2>10, <2>11, <2>12
       DEF RunStep
<1>2. ASSUME IInv, UNCHANGED vars PROVE IInv'
  BY <1>2 DEF vars, IInv, StoreType
<1> QED BY <1>1, <1>2 DEF Next

\* Whatever fails, is cut off or overlaps, the pipeline context of every run
\* keeps its type, and a run has an outcome exactly when handle() has returned.
THEOREM TypeCorrect == Spec => []TypeOK
<1>1. IInv => TypeOK
  BY DEF IInv, StoreType, TypeOK, RunInv
<1> QED BY <1>1, InvInit, InvNext, PTL DEF Spec

-----------------------------------------------------------------------------

\* Only the two kinds of delete take entries out of the store.
LEMMA WhatIsDeleted ==
    ASSUME IInv, NEW r \in Run, RunStep(r)
    PROVE  \/ stored \ stored' = {}
           \/ At(r, "cleanup") /\ stored \ stored' \subseteq run[r].total.orphans
           \/ \E d \in run[r].scan : At(r, "sweep") /\ stored \ stored' \subseteq EntriesOf({d})
<1>1. CASE DeleteOrphans(r)
  <2>1. At(r, "cleanup") /\ (stored' = stored \ run[r].total.orphans \/ stored' = stored)
    BY <1>1 DEF DeleteOrphans
  <2> QED BY <2>1
<1>2. CASE \E d \in Doc : SweepContent(r, d)
  <2>1. PICK d \in run[r].scan : /\ At(r, "sweep")
                                 /\ stored' = stored \ EntriesOf({d}) \/ stored' = stored
    BY <1>2, Zenon DEF SweepContent
  <2> QED BY <2>1
<1>3. CASE Store(r)
  <2>1. \E W : stored' = stored \cup W
    BY <1>3, StoreStep, Zenon
  <2> QED BY <2>1
<1>4. CASE Start(r) \/ ReadAll(r) \/ (\E d \in Doc : ReadDoc(r, d)) \/ DetectionFails(r)
  BY <1>4, Zenon DEF Start, ReadAll, ReadDoc, DetectionFails, store
<1>5. CASE Summarize(r) \/ OverviewSkipped(r) \/ OverviewGenerated(r) \/ SweepSummary(r)
  BY <1>5 DEF Summarize, OverviewSkipped, OverviewGenerated, SweepSummary, store
<1>6. CASE CleanupGated(r) \/ Finished(r) \/ Killed(r)
  BY <1>6 DEF CleanupGated, Finished, Killed, store
<1> QED BY <1>1, <1>2, <1>3, <1>4, <1>5, <1>6 DEF RunStep

\* What a step of run r deletes is not of the corpus that run r fetched.
LEMMA NothingOwn == ASSUME IInv, NEW r \in Run, RunStep(r)
                    PROVE  (stored \ stored') \cap Content(run[r].corpus) = {}
<1>1. RunInv(run[r])
  BY DEF IInv
<1>2. CASE stored \ stored' = {}
  BY <1>2
<1>3. CASE stored \ stored' \subseteq run[r].total.orphans
  BY <1>1, <1>3 DEF RunInv
<1>4. CASE \E d \in run[r].scan : At(r, "sweep") /\ stored \ stored' \subseteq EntriesOf({d})
  <2>1. PICK d \in run[r].scan : At(r, "sweep") /\ stored \ stored' \subseteq EntriesOf({d})
    BY <1>4
  <2>2. d \notin Docs(run[r].corpus) /\ d \in Doc
    BY <1>1, <2>1 DEF RunInv, At, RunState
  <2>3. run[r].corpus[d] = {}
    BY <2>2 DEF Docs
  <2>4. EntriesOf({d}) \cap Content(run[r].corpus) = {}
    BY <2>3 DEF EntriesOf, Content
  <2> QED BY <2>1, <2>4
<1> QED BY <1>2, <1>3, <1>4, WhatIsDeleted

\* A step of one run leaves the record of every other run alone.
LEMMA OthersStay == ASSUME IInv, NEW r \in Run, RunStep(r), NEW q \in Run, q # r
                    PROVE  run'[q] = run[q]
<1>1. CASE Start(r) \/ Store(r)
  <2>1. CASE Start(r)
    BY <2>1 DEF Start, IInv
  <2>2. CASE Store(r)
    <3>1. PICK n : run' = [run EXCEPT ![r] = n]
      BY <2>2, StoreStep, Zenon
    <3> QED BY <3>1 DEF IInv
  <2> QED BY <1>1, <2>1, <2>2
<1>2. CASE ReadAll(r) \/ DetectionFails(r)
  BY <1>2 DEF ReadAll, DetectionFails, IInv
<1>3. CASE \E d \in Doc : ReadDoc(r, d)
  <2>1. PICK d \in Doc : ReadDoc(r, d)
    BY <1>3
  <2>2. \E u, x, c, p : run' = [run EXCEPT ![r].unchanged = u, ![r].ctx = x,
                                           ![r].scan = c, ![r].pc = p]
    BY <2>1, Zenon DEF ReadDoc
  <2> QED BY <2>2 DEF IInv
<1>4. CASE Summarize(r)
  BY <1>4 DEF Summarize, IInv
<1>5. CASE OverviewSkipped(r) \/ OverviewGenerated(r)
  BY <1>5 DEF OverviewSkipped, OverviewGenerated, Goto, IInv
<1>6. CASE DeleteOrphans(r)
  BY <1>6 DEF DeleteOrphans, IInv
<1>7. CASE \E d \in Doc : SweepContent(r, d)
  <2>1. PICK d \in Doc : SweepContent(r, d)
    BY <1>7
  <2> QED BY <2>1 DEF SweepContent, IInv
<1>8. CASE SweepSummary(r)
  BY <1>8 DEF SweepSummary, IInv
<1>9. CASE CleanupGated(r) \/ Finished(r) \/ Killed(r)
  BY <1>9 DEF CleanupGated, Finished, Killed, Finish, IInv
<1> QED BY <1>1, <1>2, <1>3, <1>4, <1>5, <1>6, <1>7, <1>8, <1>9 DEF RunStep

\* However many ingestions overlap, fail or are cut off, no step of a run
\* deletes an entry of the corpus that this run fetched: DeleteOrphans and
\* SweepContent (OrphanCleanupStep) act on what ReadAll and ReadDoc
\* (ChangeDetectionStep) found missing from all documents of the run.
THEOREM NoOwnContentDeleted == Spec => OwnContentKept
<1>1. ASSUME IInv, [Next]_vars
      PROVE  [\A r \in Run : run'[r] # run[r] =>
                (stored \ stored') \cap Content(run[r].corpus) = {}]_vars
  <2>1. CASE UNCHANGED vars
    BY <2>1
  <2>2. CASE Next
    <3>1. PICK r \in Run : RunStep(r)
      BY <2>2 DEF Next
    <3>2. \A q \in Run : q # r => run'[q] = run[q]
      BY <1>1, <3>1, OthersStay
    <3>3. (stored \ stored') \cap Content(run[r].corpus) = {}
      BY <1>1, <3>1, NothingOwn
    <3> QED BY <3>2, <3>3
  <2> QED BY <1>1, <2>1, <2>2
<1> QED BY <1>1, InvInit, InvNext, PTL DEF Spec, OwnContentKept

-----------------------------------------------------------------------------
(* Runs that follow one another.                                           *)

Batching == {"readAll", "readDoc", "summarize", "store"}

\* The documents a run has not stored yet.
Pending(s) == s.todo \cup s.batch

\* What the store S has beyond the run's corpus, and where the run knows it
\* from: an orphan, or an entry of one of the documents.
Excess(s, S, orphans, docs) == S \ Content(s.corpus) \subseteq orphans \cup EntriesOf(docs)

\* Of a run s that works, the store S and the latest corpus c:
\*   - the run is about that corpus, and a batch is empty only where it is;
\*   - what was found unchanged is in the store;
\*   - without an error, the finished batches are in the store and what is too
\*     much there is an orphan, of a document still to be read, or of a gone one;
\*   - once deletions began the corpus is in the store, error or not.
SyncInv(s, S, c) ==
    /\ s.pc \notin {"idle", "done"} => s.corpus = c
    /\ s.pc = "readAll" /\ s.batch = {} => Docs(s.corpus) = {}
    /\ s.pc \in Batching => s.unchanged \subseteq S
    /\ s.pc \in {"summarize", "store"} => s.scan = {}
    /\ s.pc \in Batching /\ ~s.errs => Content(s.corpus) \ EntriesOf(Pending(s)) \subseteq S
    /\ s.pc = "readAll" /\ ~s.errs =>
         Excess(s, S, s.total.orphans, Pending(s) \cup (Doc \ Docs(s.corpus)))
    /\ s.pc \in {"readDoc", "summarize", "store"} /\ ~s.errs =>
         Excess(s, S, s.total.orphans \cup s.ctx.orphans, s.todo \cup s.scan \cup s.ctx.removed)
    /\ s.pc \in {"overview", "cleanup"} /\ ~s.errs =>
         /\ Content(s.corpus) \subseteq S
         /\ Excess(s, S, s.total.orphans, s.total.removed)
    /\ s.pc \in {"sweep", "sweepSummary"} => Content(s.corpus) \subseteq S
    /\ s.pc \in {"sweep", "sweepSummary"} /\ ~s.errs =>
         Excess(s, S, {}, s.scan)

OneSyncs(r) == SyncInv(run[r], stored, latest)

-----------------------------------------------------------------------------
LEMMA ContentOfDocs == ASSUME NEW c PROVE Content(c) \subseteq EntriesOf(Docs(c))
BY DEF Content, EntriesOf, Docs, Entry

\* What Advance leaves alone, and where it goes.
LEMMA AdvanceFields ==
    ASSUME NEW s \in RunState, NEW n \in Advance(s)
    PROVE  /\ n.corpus = s.corpus /\ n.total = s.total /\ n.ctx = s.ctx
           /\ n.unchanged = s.unchanged /\ n.errs = s.errs /\ n.scan = s.scan
           /\ n.todo \cap n.batch = {}
           /\ \/ s.todo = {} /\ n.pc = "overview"
              \/ /\ s.todo # {} /\ n.pc = "readAll" /\ n.batch # {}
                 /\ n.todo \cup n.batch = s.todo
<1>1. CASE s.todo = {}
  <2>1. n = [s EXCEPT !.pc = "overview", !.batch = {}]
    BY <1>1 DEF Advance
  <2>2. /\ n.pc = "overview" /\ n.batch = {} /\ n.todo = s.todo
        /\ n.corpus = s.corpus /\ n.total = s.total /\ n.ctx = s.ctx
        /\ n.unchanged = s.unchanged /\ n.errs = s.errs /\ n.scan = s.scan
    BY <2>1 DEF RunState
  <2> QED BY <1>1, <2>2
<1>2. CASE s.todo # {}
  <2>1. PICK B \in Batches(s.todo) :
          n = [s EXCEPT !.pc = "readAll", !.batch = B, !.todo = @ \ B]
    BY <1>2 DEF Advance
  <2>2. B \subseteq s.todo /\ B # {}
    BY DEF Batches
  <2>3. /\ n.pc = "readAll" /\ n.batch = B /\ n.todo = s.todo \ B
        /\ n.corpus = s.corpus /\ n.total = s.total /\ n.ctx = s.ctx
        /\ n.unchanged = s.unchanged /\ n.errs = s.errs /\ n.scan = s.scan
    BY <2>1 DEF RunState
  <2> QED BY <1>2, <2>2, <2>3
<1> QED BY <1>1, <1>2

\* A run begins with the first batch of the corpus, or with none, and without
\* findings.
LEMMA StartFields ==
    ASSUME IInv, NEW r \in Run, Start(r)
    PROVE  \E c \in Corpora, n \in RunState :
             /\ run' = [run EXCEPT ![r] = n] /\ latest' = c
             /\ n.pc = "readAll" /\ n.corpus = c /\ n.scan = {} /\ n.unchanged = {}
             /\ n.ctx = NoChanges /\ n.total = NoChanges /\ n.errs = FALSE
             /\ n.todo \cap n.batch = {} /\ Pending(n) = Docs(c)
             /\ n.batch = {} => Docs(c) = {}
<1>1. PICK c \in Corpora :
        /\ \E n \in (IF Docs(c) = {}
                     THEN {[IdleRun EXCEPT !.pc = "readAll", !.corpus = c, !.todo = Docs(c)]}
                     ELSE Advance([IdleRun EXCEPT !.pc = "readAll", !.corpus = c,
                                                  !.todo = Docs(c)])) :
             run' = [run EXCEPT ![r] = n]
        /\ latest' = c
  BY DEF Start
<1> DEFINE s == [IdleRun EXCEPT !.pc = "readAll", !.corpus = c, !.todo = Docs(c)]
<1>2. s \in RunState
  BY EmptyChanges, NothingCovered DEF RunState, PC, IdleRun, Docs
<1>3. /\ s.pc = "readAll" /\ s.corpus = c /\ s.todo = Docs(c) /\ s.batch = {}
      /\ s.unchanged = {} /\ s.scan = {}
  BY DEF IdleRun
<1>4. s.ctx = NoChanges /\ s.total = NoChanges /\ s.errs = FALSE
  BY DEF IdleRun
<1>5. PICK n : /\ run' = [run EXCEPT ![r] = n]
               /\ (Docs(c) = {} /\ n = s) \/ (Docs(c) # {} /\ n \in Advance(s))
  BY <1>1
<1> HIDE DEF s
<1>6. n \in RunState
  <2>1. run' \in [Run -> RunState]
    BY StartInv DEF IInv
  <2> QED BY <1>5, <2>1 DEF IInv
<1>7. CASE n = s
  <2>1. Docs(c) = {}
    <3>1. CASE Docs(c) # {} /\ n \in Advance(s)
      <4>1. n.batch # {}
        BY <1>2, <1>3, <3>1, AdvanceFields
      <4> QED BY <1>3, <1>7, <4>1
    <3> QED BY <1>5, <3>1
  <2>2. n.todo \cap n.batch = {} /\ Pending(n) = Docs(c)
    BY <1>3, <1>7 DEF Pending
  <2> QED BY <1>1, <1>3, <1>4, <1>5, <1>6, <1>7, <2>1, <2>2
<1>8. CASE Docs(c) # {} /\ n \in Advance(s)
  <2>1. /\ n.corpus = s.corpus /\ n.total = s.total /\ n.ctx = s.ctx
        /\ n.unchanged = s.unchanged /\ n.errs = s.errs /\ n.scan = s.scan
        /\ n.todo \cap n.batch = {}
    BY <1>2, <1>8, AdvanceFields
  <2>2. n.pc = "readAll" /\ n.batch # {} /\ n.todo \cup n.batch = s.todo
    BY <1>2, <1>3, <1>8, AdvanceFields
  <2>3. Pending(n) = Docs(c)
    BY <1>3, <2>2 DEF Pending
  <2> QED BY <1>1, <1>3, <1>4, <1>5, <1>6, <2>1, <2>2, <2>3
<1> QED BY <1>5, <1>7, <1>8

LEMMA StartSync == ASSUME IInv, NEW r \in Run, Start(r) PROVE OneSyncs(r)'
<1>1. PICK c \in Corpora, n \in RunState :
        /\ run' = [run EXCEPT ![r] = n] /\ latest' = c
        /\ n.pc = "readAll" /\ n.corpus = c /\ n.unchanged = {}
        /\ Pending(n) = Docs(c) /\ (n.batch = {} => Docs(c) = {})
  BY StartFields
<1>2. run'[r] = n
  BY <1>1 DEF IInv
<1>3. stored' = stored /\ stored \subseteq EntriesOf(Doc)
  BY DEF Start, store, IInv, StoreType, EntriesOf, Entry
<1>4. Content(c) \ EntriesOf(Docs(c)) = {}
  BY ContentOfDocs
<1>5. EntriesOf(Doc) \subseteq EntriesOf(Docs(c) \cup (Doc \ Docs(c)))
  BY DEF EntriesOf
<1> QED BY <1>1, <1>2, <1>3, <1>4, <1>5 DEF OneSyncs, SyncInv, Excess

LEMMA ReadAllSync == ASSUME IInv, NEW r \in Run, OneSyncs(r), ReadAll(r) PROVE OneSyncs(r)' /\ Active(r)'
<1> DEFINE s == run[r]
           gone == {e[1] : e \in stored} \ Docs(s.corpus)
           c == [NoChanges EXCEPT !.removed = gone]
           t == [c EXCEPT !.ran = TRUE]
<1>1. s \in RunState /\ s.pc = "readAll" /\ stored' = stored /\ latest' = latest
  BY DEF IInv, ReadAll, At, store
<1>2. c.removed = gone /\ c.orphans = {} /\ t.removed = gone /\ t.orphans = {}
  BY DEF NoChanges
<1>3. stored \ Content(s.corpus) \subseteq EntriesOf(Docs(s.corpus) \cup gone)
  BY DEF IInv, StoreType, EntriesOf
<1>4. CASE s.batch = {}
  <2>1. run'[r] = [s EXCEPT !.pc = "cleanup", !.total = t]
    BY <1>4 DEF ReadAll, IInv
  <2>2. /\ run'[r].pc = "cleanup" /\ run'[r].total = t
        /\ run'[r].corpus = s.corpus
    BY <1>1, <2>1 DEF RunState
  <2>3. Docs(s.corpus) = {} /\ Content(s.corpus) = {} /\ s.corpus = latest
    BY <1>1, <1>4, ContentOfDocs DEF OneSyncs, SyncInv, EntriesOf
  <2>4. stored \ Content(s.corpus) \subseteq EntriesOf(gone)
    BY <1>3, <2>3 DEF EntriesOf
  <2> QED BY <1>1, <1>2, <2>2, <2>3, <2>4 DEF OneSyncs, SyncInv, Batching, Excess, Active
<1>5. CASE s.batch # {}
  <2>1. run'[r] = [s EXCEPT !.pc = "readDoc", !.scan = @ \cup s.batch, !.ctx = c]
    BY <1>5 DEF ReadAll, IInv
  <2>2. /\ run'[r].pc = "readDoc" /\ run'[r].scan = s.scan \cup s.batch /\ run'[r].ctx = c
        /\ run'[r].corpus = s.corpus /\ run'[r].unchanged = s.unchanged
        /\ run'[r].errs = s.errs /\ run'[r].total = s.total
        /\ run'[r].todo = s.todo /\ run'[r].batch = s.batch
    BY <1>1, <2>1 DEF RunState
  <2>3. ~s.errs => stored \ Content(s.corpus) \subseteq
                     s.total.orphans \cup EntriesOf(s.todo \cup (s.scan \cup s.batch) \cup gone)
    <3> SUFFICES ASSUME ~s.errs, NEW e \in stored, e \notin Content(s.corpus),
                        e \notin s.total.orphans
                 PROVE  e \in EntriesOf(s.todo \cup (s.scan \cup s.batch) \cup gone)
      OBVIOUS
    <3>1. Excess(s, stored, s.total.orphans, Pending(s) \cup (Doc \ Docs(s.corpus)))
      BY <1>1 DEF OneSyncs, SyncInv
    <3>2. e \in Entry
      BY DEF IInv, StoreType
    <3>3. e \in EntriesOf(Pending(s) \cup (Doc \ Docs(s.corpus)))
      BY <3>1 DEF Excess
    <3> QED BY <3>2, <3>3 DEF EntriesOf, Pending
  <2> QED BY <1>1, <1>2, <2>2, <2>3 DEF OneSyncs, SyncInv, Batching, Pending, Excess, Active
<1> QED BY <1>4, <1>5

LEMMA ReadDocSync ==
    ASSUME IInv, NEW r \in Run, NEW d \in Doc, OneSyncs(r), ReadDoc(r, d) PROVE OneSyncs(r)' /\ Active(r)'
<1> DEFINE s == run[r]
           new == {e \in Content(s.corpus) : e[1] = d}
           old == {e \in stored : e[1] = d}
           last == s.scan = {d}
           x == [s.ctx EXCEPT !.changed = IF old = new THEN @ ELSE @ \cup {d},
                              !.orphans = @ \cup (old \ new), !.ran = last]
<1>1. s \in RunState /\ s.pc = "readDoc" /\ stored' = stored /\ latest' = latest
  BY DEF IInv, ReadDoc, At, store
<1>2. x.orphans = s.ctx.orphans \cup (old \ new) /\ x.removed = s.ctx.removed
  BY <1>1 DEF RunState, Changes
<1>3. run'[r] = [s EXCEPT !.unchanged = @ \cup (old \cap new), !.ctx = x, !.scan = @ \ {d},
                          !.pc = IF last THEN "summarize" ELSE @]
  BY DEF ReadDoc, IInv
<1>4. /\ run'[r].pc = IF last THEN "summarize" ELSE "readDoc"
      /\ run'[r].scan = s.scan \ {d} /\ run'[r].ctx = x
      /\ run'[r].unchanged = s.unchanged \cup (old \cap new)
      /\ run'[r].corpus = s.corpus /\ run'[r].errs = s.errs /\ run'[r].total = s.total
      /\ run'[r].todo = s.todo /\ run'[r].batch = s.batch
  BY <1>1, <1>3 DEF RunState
<1>5. s.unchanged \cup (old \cap new) \subseteq stored
  BY <1>1 DEF OneSyncs, SyncInv, Batching
<1>6. ~s.errs => Excess(s, stored, s.total.orphans \cup x.orphans,
                        s.todo \cup (s.scan \ {d}) \cup x.removed)
  <2> SUFFICES ASSUME ~s.errs, NEW e \in stored, e \notin Content(s.corpus),
                      e \notin s.total.orphans \cup x.orphans
               PROVE  e \in EntriesOf(s.todo \cup (s.scan \ {d}) \cup x.removed)
    BY DEF Excess
  <2>1. e \in EntriesOf(s.todo \cup s.scan \cup s.ctx.removed)
    BY <1>1, <1>2 DEF OneSyncs, SyncInv, Excess
  <2>2. e[1] # d
    BY <1>2
  <2> QED BY <1>2, <2>1, <2>2 DEF EntriesOf
<1> QED BY <1>1, <1>4, <1>5, <1>6 DEF OneSyncs, SyncInv, Batching, Pending, Excess, Active

LEMMA DetectionFailsSync ==
    ASSUME IInv, NEW r \in Run, OneSyncs(r), DetectionFails(r) PROVE OneSyncs(r)' /\ Active(r)'
<1>1. /\ run[r] \in RunState /\ run[r].pc \in {"readAll", "readDoc"}
      /\ stored' = stored /\ latest' = latest
  BY DEF IInv, DetectionFails, At, store
<1>2. run'[r] = [run[r] EXCEPT !.pc = AfterDetection(r), !.scan = {}, !.unchanged = {},
                               !.ctx = NoChanges, !.errs = TRUE]
  BY DEF DetectionFails, IInv
<1>3. /\ run'[r].pc \in {"cleanup", "summarize"} /\ run'[r].scan = {}
      /\ run'[r].unchanged = {} /\ run'[r].errs = TRUE /\ run'[r].corpus = run[r].corpus
  BY <1>1, <1>2 DEF RunState, AfterDetection
<1> QED BY <1>1, <1>3 DEF OneSyncs, SyncInv, Active

\* A step of a run that leaves the store and the findings alone, and keeps or
\* adds an error.
LEMMA NoFindings ==
    ASSUME IInv, NEW r \in Run, OneSyncs(r), stored' = stored, latest' = latest,
           \/ run[r].pc = "summarize" /\ run'[r].pc = "store"
           \/ run[r].pc = "overview" /\ run'[r].pc = "cleanup"
           \/ run[r].pc = "sweepSummary" /\ run'[r].pc = "sweep",
           run'[r].corpus = run[r].corpus, run'[r].unchanged = run[r].unchanged,
           run'[r].scan = run[r].scan, run'[r].todo = run[r].todo,
           run'[r].batch = run[r].batch, run'[r].total = run[r].total,
           run'[r].ctx.orphans = run[r].ctx.orphans, run'[r].ctx.removed = run[r].ctx.removed,
           run[r].errs => run'[r].errs
    PROVE  OneSyncs(r)' /\ Active(r)'
BY DEF OneSyncs, SyncInv, Batching, Pending, Excess, Active

LEMMA SummarizeSync == ASSUME IInv, NEW r \in Run, OneSyncs(r), Summarize(r) PROVE OneSyncs(r)' /\ Active(r)'
<1>1. PICK f, e : run' = [run EXCEPT ![r].pc = "store", ![r].fresh = f,
                                     ![r].ctx.stale = TooShort(r), ![r].errs = @ \/ e]
  BY DEF Summarize
<1>2. run[r] \in RunState /\ run[r].ctx \in Changes /\ run[r].pc = "summarize"
  BY DEF IInv, RunState, Summarize, At
<1>3. run'[r] = [run[r] EXCEPT !.pc = "store", !.fresh = f, !.ctx.stale = TooShort(r),
                               !.errs = @ \/ e]
  BY <1>1 DEF IInv
<1>4. /\ run'[r].pc = "store" /\ run'[r].corpus = run[r].corpus
      /\ run'[r].unchanged = run[r].unchanged /\ run'[r].scan = run[r].scan
      /\ run'[r].todo = run[r].todo /\ run'[r].batch = run[r].batch
      /\ run'[r].total = run[r].total
      /\ run'[r].ctx = [run[r].ctx EXCEPT !.stale = TooShort(r)]
      /\ run[r].errs => run'[r].errs
  BY <1>2, <1>3 DEF RunState
<1>5. /\ run'[r].ctx.orphans = run[r].ctx.orphans
      /\ run'[r].ctx.removed = run[r].ctx.removed
  BY <1>2, <1>4 DEF Changes
<1> QED BY <1>2, <1>4, <1>5, NoFindings DEF Summarize, store

LEMMA OverviewSync == ASSUME IInv, NEW r \in Run, OneSyncs(r),
                             OverviewSkipped(r) \/ OverviewGenerated(r)
                      PROVE  OneSyncs(r)' /\ Active(r)'
<1>1. PICK e \in BOOLEAN : run'[r] = [run[r] EXCEPT !.pc = "cleanup", !.errs = @ \/ e]
  <2>1. CASE OverviewSkipped(r)
    <3>1. run[r].errs \in BOOLEAN /\ run[r] \in RunState
      BY DEF IInv, RunState
    <3>2. run'[r] = [run[r] EXCEPT !.pc = "cleanup"]
      BY <2>1 DEF OverviewSkipped, Goto, IInv
    <3>3. [run[r] EXCEPT !.pc = "cleanup"]
            = [run[r] EXCEPT !.pc = "cleanup", !.errs = @ \/ FALSE]
      BY <3>1 DEF RunState
    <3> QED BY <3>2, <3>3
  <2>2. CASE OverviewGenerated(r)
    BY <2>2 DEF OverviewGenerated, IInv
  <2> QED BY <2>1, <2>2
<1>2. run[r] \in RunState /\ run[r].pc = "overview"
  BY DEF IInv, OverviewSkipped, OverviewGenerated, At
<1>3. stored' = stored /\ latest' = latest
  BY DEF OverviewSkipped, OverviewGenerated, store
<1>4. /\ run'[r].pc = "cleanup" /\ run'[r].corpus = run[r].corpus
      /\ run'[r].unchanged = run[r].unchanged /\ run'[r].scan = run[r].scan
      /\ run'[r].todo = run[r].todo /\ run'[r].batch = run[r].batch
      /\ run'[r].total = run[r].total /\ run'[r].ctx = run[r].ctx
      /\ run[r].errs => run'[r].errs
  BY <1>1, <1>2 DEF RunState
<1> QED BY <1>2, <1>3, <1>4, NoFindings

\* Storing a batch: what is written, and how the run goes on.
LEMMA StoreFields ==
    ASSUME IInv, NEW r \in Run, Store(r)
    PROVE  \E W \in SUBSET NewEntries(r), S \in SUBSET NewSummaries(r), err \in BOOLEAN :
             /\ W # NewEntries(r) \/ S # NewSummaries(r) => err
             /\ stored' = stored \cup W
             /\ summary' = [d \in Doc |-> IF d \in S THEN run[r].fresh[d] ELSE summary[d]]
             /\ faulted' = (faulted \/ err)
             /\ \E n \in RunState :
                  /\ run' = [run EXCEPT ![r] = n]
                  /\ n.corpus = run[r].corpus /\ n.scan = run[r].scan
                  /\ n.total = Merge(run[r].total, run[r].ctx) /\ n.ctx = NoChanges
                  /\ n.unchanged = {} /\ (n.errs <=> run[r].errs \/ err)
                  /\ n.todo \cap n.batch = {}
                  /\ \/ run[r].todo = {} /\ n.pc = "overview"
                     \/ /\ run[r].todo # {} /\ n.pc = "readAll" /\ n.batch # {}
                        /\ Pending(n) = run[r].todo
<1>1. PICK W \in SUBSET NewEntries(r), S \in SUBSET NewSummaries(r), err \in BOOLEAN :
        /\ W # NewEntries(r) \/ S # NewSummaries(r) => err
        /\ stored' = stored \cup W
        /\ summary' = [d \in Doc |-> IF d \in S THEN run[r].fresh[d] ELSE summary[d]]
        /\ \E n \in Advance(AfterStore(r, err)) : run' = [run EXCEPT ![r] = n]
        /\ faulted' = (faulted \/ err)
  BY StoreStep, Zenon
<1> DEFINE s == AfterStore(r, err)
<1>2. run[r] \in RunState
  BY DEF IInv
<1>3. /\ s \in RunState
      /\ s.corpus = run[r].corpus /\ s.todo = run[r].todo /\ s.scan = run[r].scan
      /\ s.total = Merge(run[r].total, run[r].ctx) /\ s.ctx = NoChanges
      /\ s.unchanged = {} /\ (s.errs <=> run[r].errs \/ err)
  BY <1>2, AfterStoreFields, Zenon
<1>4. PICK n \in Advance(s) : run' = [run EXCEPT ![r] = n]
  BY <1>1, Zenon
<1> HIDE DEF s
<1>5. n \in RunState
  <2>1. run' \in [Run -> RunState]
    BY StoreInv DEF IInv
  <2> QED BY <1>4, <2>1 DEF IInv
<1>6. /\ n.corpus = s.corpus /\ n.total = s.total /\ n.ctx = s.ctx
      /\ n.unchanged = s.unchanged /\ n.errs = s.errs /\ n.scan = s.scan
      /\ n.todo \cap n.batch = {}
      /\ \/ s.todo = {} /\ n.pc = "overview"
         \/ /\ s.todo # {} /\ n.pc = "readAll" /\ n.batch # {}
            /\ n.todo \cup n.batch = s.todo
  BY <1>3, <1>4, AdvanceFields
<1>7. /\ n.corpus = run[r].corpus /\ n.scan = run[r].scan
      /\ n.total = Merge(run[r].total, run[r].ctx) /\ n.ctx = NoChanges
      /\ n.unchanged = {} /\ (n.errs <=> run[r].errs \/ err)
      /\ n.todo \cap n.batch = {}
  BY <1>3, <1>6
<1>8. \/ run[r].todo = {} /\ n.pc = "overview"
      \/ /\ run[r].todo # {} /\ n.pc = "readAll" /\ n.batch # {}
         /\ Pending(n) = run[r].todo
  BY <1>3, <1>6 DEF Pending
<1> QED BY <1>1, <1>4, <1>5, <1>7, <1>8, Zenon

LEMMA StoreSync == ASSUME IInv, NEW r \in Run, OneSyncs(r), Store(r) PROVE OneSyncs(r)' /\ Active(r)'
<1> DEFINE s == run[r]
           C == Content(s.corpus)
           new == (C \cap EntriesOf(s.batch)) \ s.unchanged
<1>1. s \in RunState /\ RunInv(s) /\ s.pc = "store" /\ latest' = latest
  <2>1. At(r, "store") /\ latest' = latest
    BY Zenon DEF Store
  <2> QED BY <2>1 DEF IInv, At
<1>2. PICK W \in SUBSET new, err \in BOOLEAN :
        /\ W # new => err
        /\ stored' = stored \cup W
        /\ \E n \in RunState :
             /\ run' = [run EXCEPT ![r] = n]
             /\ n.corpus = s.corpus /\ n.total = Merge(s.total, s.ctx) /\ n.unchanged = {}
             /\ (n.errs <=> s.errs \/ err)
             /\ \/ s.todo = {} /\ n.pc = "overview"
                \/ /\ s.todo # {} /\ n.pc = "readAll" /\ n.batch # {}
                   /\ Pending(n) = s.todo
  BY StoreFields, Zenon DEF NewEntries
<1>3. PICK t : t = Merge(s.total, s.ctx)
  OBVIOUS
<1>4. /\ t \in Changes
      /\ t.orphans = s.total.orphans \cup s.ctx.orphans
      /\ t.removed = s.total.removed \cup s.ctx.removed
  BY <1>1, <1>3, MergeInv DEF RunState
<1>5. PICK n \in RunState :
        /\ run' = [run EXCEPT ![r] = n]
        /\ n.corpus = s.corpus /\ n.total = t /\ n.unchanged = {}
        /\ (n.errs <=> s.errs \/ err)
        /\ \/ s.todo = {} /\ n.pc = "overview"
           \/ s.todo # {} /\ n.pc = "readAll" /\ n.batch # {} /\ Pending(n) = s.todo
  BY <1>2, <1>3
<1>8. run'[r] = n
  BY <1>5 DEF IInv
<1>9. /\ n.corpus = s.corpus /\ n.total = t /\ n.unchanged = {}
      /\ (~n.errs => ~s.errs /\ ~err)
      /\ \/ s.todo = {} /\ n.pc = "overview"
         \/ s.todo # {} /\ n.pc = "readAll" /\ n.batch # {} /\ Pending(n) = s.todo
  BY <1>5
<1>10. s.corpus = latest
  BY <1>1 DEF OneSyncs, SyncInv
\* The finished batches and this one are in the store.
<1>11. ASSUME ~s.errs, ~err PROVE C \ EntriesOf(s.todo) \subseteq stored'
  <2>1. C \ EntriesOf(Pending(s)) \subseteq stored /\ s.unchanged \subseteq stored
    BY <1>1, <1>11 DEF OneSyncs, SyncInv, Batching
  <2>2. (C \cap EntriesOf(s.batch)) \subseteq stored'
    BY <1>2, <1>11, <2>1
  <2>3. EntriesOf(Pending(s)) = EntriesOf(s.todo) \cup EntriesOf(s.batch)
    BY DEF EntriesOf, Pending
  <2> QED BY <1>2, <2>1, <2>2, <2>3
\* What is too much was so before, and is known.
<1>12. ASSUME ~s.errs PROVE stored' \ C \subseteq t.orphans \cup EntriesOf(s.todo \cup s.ctx.removed)
  <2>1. stored' \ C = stored \ C
    BY <1>2
  <2>2. stored \ C \subseteq (s.total.orphans \cup s.ctx.orphans)
                             \cup EntriesOf(s.todo \cup s.scan \cup s.ctx.removed)
    BY <1>1, <1>12 DEF OneSyncs, SyncInv, Excess
  <2>3. s.scan = {}
    BY <1>1 DEF OneSyncs, SyncInv
  <2> QED BY <1>4, <2>1, <2>2, <2>3
<1>13. CASE s.todo = {}
  <2>1. EntriesOf(s.todo) = {} /\ EntriesOf(s.todo \cup s.ctx.removed) \subseteq EntriesOf(t.removed)
    BY <1>4, <1>13 DEF EntriesOf
  <2> QED BY <1>1, <1>8, <1>9, <1>10, <1>11, <1>12, <1>13, <2>1
          DEF OneSyncs, SyncInv, Batching, Excess, Active
<1>14. CASE s.todo # {}
  <2>1. EntriesOf(s.todo \cup s.ctx.removed) \subseteq EntriesOf(s.todo \cup (Doc \ Docs(s.corpus)))
    BY <1>1 DEF EntriesOf, RunInv, Entry
  <2> QED BY <1>1, <1>8, <1>9, <1>10, <1>11, <1>12, <1>14, <2>1
          DEF OneSyncs, SyncInv, Batching, Excess, Active
<1> QED BY <1>13, <1>14

LEMMA DeleteOrphansSync ==
    ASSUME IInv, NEW r \in Run, OneSyncs(r), DeleteOrphans(r) PROVE OneSyncs(r)' /\ Active(r)'
<1> DEFINE s == run[r]
           C == Content(s.corpus)
<1>1. s \in RunState /\ RunInv(s) /\ s.pc = "cleanup" /\ ~s.errs /\ latest' = latest
  BY DEF IInv, DeleteOrphans, At
<1>2. PICK performed \in BOOLEAN, err \in BOOLEAN :
        /\ ~performed => err
        /\ stored' = IF performed THEN stored \ s.total.orphans ELSE stored
        /\ run' = [run EXCEPT ![r].pc = "sweep", ![r].scan = s.total.removed,
                              ![r].errs = @ \/ err]
  BY DEF DeleteOrphans
<1>3. run'[r] = [s EXCEPT !.pc = "sweep", !.scan = s.total.removed, !.errs = @ \/ err]
  BY <1>2 DEF IInv
<1>4. /\ run'[r].pc = "sweep" /\ run'[r].scan = s.total.removed
      /\ run'[r].corpus = s.corpus /\ (~run'[r].errs => ~err)
  BY <1>1, <1>3 DEF RunState
<1>5. /\ s.corpus = latest /\ C \subseteq stored
      /\ stored \ C \subseteq s.total.orphans \cup EntriesOf(s.total.removed)
  BY <1>1 DEF OneSyncs, SyncInv, Excess
<1>6. s.total.orphans \cap C = {}
  BY <1>1 DEF RunInv
<1>7. C \subseteq stored' /\ (~err => stored' \ C \subseteq EntriesOf(s.total.removed))
  BY <1>2, <1>5, <1>6
<1> QED BY <1>1, <1>4, <1>5, <1>7 DEF OneSyncs, SyncInv, Batching, Excess, Active

LEMMA SweepContentSync ==
    ASSUME IInv, NEW r \in Run, NEW d \in Doc, OneSyncs(r), SweepContent(r, d) PROVE OneSyncs(r)' /\ Active(r)'
<1> DEFINE s == run[r]
           C == Content(s.corpus)
<1>1. s \in RunState /\ RunInv(s) /\ s.pc = "sweep" /\ d \in s.scan /\ latest' = latest
  BY DEF IInv, SweepContent, At
<1>2. PICK performed \in BOOLEAN, err \in BOOLEAN :
        /\ ~performed => err
        /\ stored' = IF performed THEN stored \ EntriesOf({d}) ELSE stored
        /\ run' = [run EXCEPT ![r].errs = @ \/ err,
                              ![r].pc = IF err THEN "sweep" ELSE "sweepSummary",
                              ![r].swept = IF err THEN {} ELSE {d},
                              ![r].scan = @ \ {d}]
  BY DEF SweepContent
<1>3. run'[r] = [s EXCEPT !.errs = @ \/ err, !.pc = IF err THEN "sweep" ELSE "sweepSummary",
                          !.swept = IF err THEN {} ELSE {d}, !.scan = @ \ {d}]
  BY <1>2 DEF IInv
<1>4. /\ run'[r].pc \in {"sweep", "sweepSummary"} /\ run'[r].scan = s.scan \ {d}
      /\ run'[r].corpus = s.corpus /\ (~run'[r].errs => ~s.errs /\ ~err)
  BY <1>1, <1>3 DEF RunState
<1>5. /\ s.corpus = latest /\ C \subseteq stored
      /\ ~s.errs => stored \ C \subseteq EntriesOf(s.scan)
  BY <1>1 DEF OneSyncs, SyncInv, Excess
<1>6. EntriesOf({d}) \cap C = {}
  <2>1. d \notin Docs(s.corpus)
    BY <1>1 DEF RunInv
  <2> QED BY <2>1, ContentOfDocs DEF EntriesOf
<1>7. EntriesOf(s.scan) \ EntriesOf({d}) \subseteq EntriesOf(s.scan \ {d})
  BY DEF EntriesOf
<1>8. C \subseteq stored' /\ (~s.errs /\ ~err => stored' \ C \subseteq EntriesOf(s.scan \ {d}))
  BY <1>2, <1>5, <1>6, <1>7
<1> QED BY <1>1, <1>4, <1>5, <1>8 DEF OneSyncs, SyncInv, Batching, Excess, Active

LEMMA SweepSummarySync ==
    ASSUME IInv, NEW r \in Run, OneSyncs(r), SweepSummary(r) PROVE OneSyncs(r)' /\ Active(r)'
<1>1. PICK err \in BOOLEAN :
        run' = [run EXCEPT ![r].errs = @ \/ err, ![r].pc = "sweep", ![r].swept = {}]
  BY DEF SweepSummary
<1>2. run[r] \in RunState /\ run[r].pc = "sweepSummary" /\ stored' = stored /\ latest' = latest
  BY DEF IInv, SweepSummary, At
<1>3. run'[r] = [run[r] EXCEPT !.errs = @ \/ err, !.pc = "sweep", !.swept = {}]
  BY <1>1 DEF IInv
<1>4. /\ run'[r].pc = "sweep" /\ run'[r].corpus = run[r].corpus
      /\ run'[r].unchanged = run[r].unchanged /\ run'[r].scan = run[r].scan
      /\ run'[r].todo = run[r].todo /\ run'[r].batch = run[r].batch
      /\ run'[r].total = run[r].total /\ run'[r].ctx = run[r].ctx
      /\ run[r].errs => run'[r].errs
  BY <1>2, <1>3 DEF RunState
<1> QED BY <1>2, <1>4, NoFindings

LEMMA EndsSync == ASSUME IInv, NEW r \in Run, CleanupGated(r) \/ Finished(r) \/ Killed(r)
                  PROVE  OneSyncs(r)'
<1>1. run'[r].pc = "done"
  BY DEF CleanupGated, Finished, Killed, Finish, IInv, RunState
<1> QED BY <1>1 DEF OneSyncs, SyncInv, Batching

LEMMA StepSync == ASSUME IInv, NEW r \in Run, OneSyncs(r), RunStep(r) PROVE OneSyncs(r)'
<1>1. CASE Start(r) \/ ReadAll(r) \/ DetectionFails(r) \/ Summarize(r) \/ Store(r)
  BY <1>1, StartSync, ReadAllSync, DetectionFailsSync, SummarizeSync, StoreSync
<1>2. CASE OverviewSkipped(r) \/ OverviewGenerated(r)
  BY <1>2, OverviewSync
<1>3. CASE \E d \in Doc : ReadDoc(r, d)
  BY <1>3, ReadDocSync
<1>4. CASE \E d \in Doc : SweepContent(r, d)
  BY <1>4, SweepContentSync
<1>5. CASE DeleteOrphans(r) \/ SweepSummary(r)
  BY <1>5, DeleteOrphansSync, SweepSummarySync
<1>6. CASE CleanupGated(r) \/ Finished(r) \/ Killed(r)
  BY <1>6, EndsSync
<1> QED BY <1>1, <1>2, <1>3, <1>4, <1>5, <1>6 DEF RunStep

LEMMA SyncInit == ASSUME NEW r \in Run PROVE Init => IInv /\ OneSyncs(r)
<1> SUFFICES ASSUME Init PROVE OneSyncs(r)
  BY InvInit
<1>1. run[r].pc = "idle"
  BY DEF Init, IdleRun
<1> QED BY <1>1 DEF OneSyncs, SyncInv, Batching

LEMMA SyncNext ==
    ASSUME NEW r \in Run, Run = {r}
    PROVE  IInv /\ OneSyncs(r) /\ [Next]_vars => (IInv /\ OneSyncs(r))'
<1>1. ASSUME IInv, OneSyncs(r), Next PROVE OneSyncs(r)'
  BY <1>1, StepSync DEF Next
<1>2. ASSUME OneSyncs(r), UNCHANGED vars PROVE OneSyncs(r)'
  BY <1>2 DEF vars, OneSyncs
<1> QED BY <1>1, <1>2, InvNext

-----------------------------------------------------------------------------
(* The refinement.                                                         *)

\* CorpusSync's own notion of content is the pipeline's.
LEMMA SameContent == ASSUME NEW c PROVE Sync!Content(c) = Content(c)
BY DEF Sync!Content, Content, Entry

\* A step that neither starts nor ends a run leaves it working.
LEMMA StaysActive ==
    ASSUME IInv, NEW r \in Run, OneSyncs(r),
           \/ ReadAll(r) \/ (\E d \in Doc : ReadDoc(r, d)) \/ DetectionFails(r)
           \/ Summarize(r) \/ Store(r) \/ OverviewSkipped(r) \/ OverviewGenerated(r)
           \/ DeleteOrphans(r) \/ (\E d \in Doc : SweepContent(r, d)) \/ SweepSummary(r)
    PROVE  Active(r) /\ Active(r)' /\ latest' = latest
<1>1. Active(r) /\ latest' = latest
  BY Zenon DEF ReadAll, ReadDoc, DetectionFails, Summarize, Store, OverviewSkipped,
         OverviewGenerated, DeleteOrphans, SweepContent, SweepSummary, At, Active
<1>2. Active(r)'
  BY ReadAllSync, ReadDocSync, DetectionFailsSync, SummarizeSync, StoreSync, OverviewSync,
     DeleteOrphansSync, SweepContentSync, SweepSummarySync
<1> QED BY <1>1, <1>2

\* Each step of the only run is one of CorpusSync.
LEMMA StepRefines ==
    ASSUME IInv, NEW r \in Run, TheRun = r, OneSyncs(r), RunStep(r)
    PROVE  Sync!Next
<1> DEFINE s == run[r]
<1>1. s \in RunState /\ RunInv(s)
  BY DEF IInv
<1>2. CASE Start(r)
  <2>1. PICK c \in Corpora, n \in RunState :
          /\ run' = [run EXCEPT ![r] = n] /\ latest' = c
          /\ n.pc = "readAll" /\ n.corpus = c /\ n.scan = {} /\ n.unchanged = {}
          /\ n.ctx = NoChanges /\ n.total = NoChanges /\ n.errs = FALSE
          /\ n.todo \cap n.batch = {} /\ Pending(n) = Docs(c)
          /\ n.batch = {} => Docs(c) = {}
    BY <1>2, StartFields, Zenon
  <2>2. run'[r] = n
    BY <2>1 DEF IInv
  <2>3. Phase # "working" /\ Phase' = "working" /\ stored' = stored
    BY <1>1, <1>2, <2>1, <2>2 DEF Phase, Active, RunState, Start, store
  <2> QED BY <2>1, <2>3 DEF Sync!Next, Sync!Begin
<1>3. CASE \/ ReadAll(r) \/ (\E d \in Doc : ReadDoc(r, d)) \/ DetectionFails(r)
           \/ Summarize(r) \/ OverviewSkipped(r) \/ OverviewGenerated(r) \/ SweepSummary(r)
  <2>1. Phase = "working" /\ Phase' = "working" /\ latest' = latest
    <3>1. Active(r) /\ Active(r)' /\ latest' = latest
      BY <1>3, StaysActive, Zenon
    <3> QED BY <3>1 DEF Phase
  <2>2. stored' = stored
    BY <1>3, Zenon DEF ReadAll, ReadDoc, DetectionFails, Summarize, OverviewSkipped,
                OverviewGenerated, SweepSummary, store
  <2> QED BY <2>1, <2>2 DEF Sync!Next, Sync!Add
<1>4. CASE Store(r)
  <2>1. Phase = "working" /\ Phase' = "working" /\ latest' = latest
    <3>1. Active(r) /\ Active(r)' /\ latest' = latest
      BY <1>4, StaysActive, Zenon
    <3> QED BY <3>1 DEF Phase
  <2>2. PICK W \in SUBSET NewEntries(r) : stored' = stored \cup W
    BY <1>4, StoreStep, Zenon
  <2>3. W \subseteq Content(s.corpus)
    BY DEF NewEntries
  <2>4. At(r, "store")
    BY <1>4, Zenon DEF Store
  <2>5. s.corpus = latest
    BY <2>4 DEF At, OneSyncs, SyncInv
  <2> QED BY <2>1, <2>2, <2>3, <2>5, SameContent DEF Sync!Next, Sync!Add
<1>5. CASE DeleteOrphans(r) \/ \E d \in Doc : SweepContent(r, d)
  <2>1. Phase = "working" /\ Phase' = "working" /\ latest' = latest
    <3>1. Active(r) /\ Active(r)' /\ latest' = latest
      BY <1>5, StaysActive, Zenon
    <3> QED BY <3>1 DEF Phase
  <2>2. s.corpus = latest /\ Content(s.corpus) \subseteq stored
    <3>1. (At(r, "cleanup") /\ ~run[r].errs) \/ At(r, "sweep")
      BY <1>5, Zenon DEF DeleteOrphans, SweepContent
    <3> QED BY <3>1 DEF At, OneSyncs, SyncInv
  <2>3. stored' \subseteq stored
    <3>1. CASE DeleteOrphans(r)
      BY <3>1 DEF DeleteOrphans
    <3>2. CASE \E d \in Doc : SweepContent(r, d)
      BY <3>2 DEF SweepContent
    <3> QED BY <1>5, <3>1, <3>2
  <2>4. (stored \ stored') \cap Content(s.corpus) = {}
    BY NothingOwn
  <2> QED BY <2>1, <2>2, <2>3, <2>4, SameContent DEF Sync!Next, Sync!Prune
<1>6. CASE CleanupGated(r) \/ Finished(r) \/ Killed(r)
  <2>1. Active(r) /\ stored' = stored /\ latest' = latest
    BY <1>6 DEF CleanupGated, Finished, Killed, At, Active, store
  <2>2. PICK o \in {"success", "failure"} :
          /\ Finish(r, o)
          /\ o = "success" => Finished(r) /\ ~s.errs
    BY <1>6 DEF CleanupGated, Finished, Killed
  <2>3. run'[r].pc = "done" /\ run'[r].outcome = o
    BY <1>1, <2>2 DEF Finish, IInv, RunState
  <2>4. Phase = "working" /\ Phase' = o
    BY <2>1, <2>3 DEF Phase, Active
  <2>5. CASE o = "failure"
    BY <2>1, <2>4, <2>5 DEF Sync!Next, Sync!Fail
  <2>6. CASE o = "success"
    <3>1. s.pc = "sweep" /\ s.scan = {} /\ ~s.errs
      BY <2>2, <2>6 DEF Finished, At
    <3>2. EntriesOf(s.scan) = {}
      BY <3>1 DEF EntriesOf
    <3>3. s.corpus = latest /\ stored = Content(s.corpus)
      BY <3>1, <3>2 DEF OneSyncs, SyncInv, Excess
    <3> QED BY <2>1, <2>4, <2>6, <3>3, SameContent DEF Sync!Next, Sync!Succeed
  <2> QED BY <2>5, <2>6
<1> QED BY <1>2, <1>3, <1>4, <1>5, <1>6 DEF RunStep

\* With one slot for runs, ingestions implement CorpusSync for every sequence of
\* corpora, batch size and threshold: OrphanCleanupStep deletes nothing before
\* StoreStep has written all of the fetched corpus, nothing of it ever, and
\* _build_result says success only when exactly the corpus is stored, although
\* any call may fail, or be performed and fail, and a run may be cut off anywhere.
THEOREM RunsImplementSync ==
    ASSUME NEW CONSTANT r \in Run, Run = {r}
    PROVE  Spec => SyncSpec
<1>1. TheRun = r
  BY DEF TheRun
<1>2. Init => IInv /\ OneSyncs(r)
  BY SyncInit
<1>3. IInv /\ OneSyncs(r) /\ [Next]_vars => (IInv /\ OneSyncs(r))'
  BY SyncNext
<1>4. Init => Sync!Init
  <2> SUFFICES ASSUME Init PROVE Sync!Init
    OBVIOUS
  <2>1. run[r] = IdleRun
    BY DEF Init
  <2>2. Phase = "none"
    BY <1>1, <2>1 DEF Phase, Active, IdleRun
  <2> QED BY <2>2 DEF Init, Sync!Init, Sync!NoCorpus, NoCorpus
<1>5. IInv /\ OneSyncs(r) /\ [Next]_vars => [Sync!Next]_(Sync!vars)
  <2>1. ASSUME IInv, OneSyncs(r), Next PROVE Sync!Next
    BY <1>1, <2>1, StepRefines DEF Next
  <2>2. ASSUME UNCHANGED vars PROVE UNCHANGED Sync!vars
    BY <2>2 DEF vars, Sync!vars, Phase, Active
  <2> QED BY <2>1, <2>2
<1> QED BY <1>2, <1>3, <1>4, <1>5, PTL DEF Spec, SyncSpec, Sync!Spec

-----------------------------------------------------------------------------
(* Freshness of the summaries.                                             *)

\* The pieces of a document that a store S holds, and the summary they call for.
Held(S, d) == {p \in Piece : <<d, p>> \in S}
HeldSummary(S, d) == IF Cardinality(Held(S, d)) >= Threshold THEN Held(S, d) ELSE {}

\* What is found changed so far, in the finished batches and the current one.
Changed(s) == s.total.changed \cup s.ctx.changed

\* Of a run s in which nothing failed, and the store's content S: what change
\* detection has found.
FoundInv(s, S) ==
    /\ ~s.errs
    /\ s.todo \cap s.batch = {}
    /\ s.pc \in {"readAll", "overview"} => s.scan = {} /\ s.ctx = NoChanges
    /\ s.pc \in {"readDoc", "summarize", "store"} =>
         \A d \in s.batch \ s.scan : d \in s.ctx.changed \/ Held(S, d) = s.corpus[d]
    /\ s.pc \in {"summarize", "store"} => s.ctx.ran
    /\ s.ctx.orphans \cup s.total.orphans # {} => Changed(s) # {}
    /\ \A d \in s.ctx.stale \cup s.total.stale : Cardinality(s.corpus[d]) < Threshold
    /\ s.pc = "store" => \A d \in s.batch \cap s.ctx.changed :
         IF Cardinality(s.corpus[d]) < Threshold THEN d \in s.ctx.stale
         ELSE s.fresh[d] = s.corpus[d]
    /\ s.pc = "store" => \A d \in Doc :
         s.fresh[d] # {} => d \in s.batch /\ s.fresh[d] = SummaryOf(s.corpus, d)

\* The summaries M: a document that the run has not stored yet has the summary
\* of what is stored of it, one that it has stored the summary it should have
\* or one known to be stale, and one that is gone has none or is known as gone.
SummaryInv(s, S, M) ==
    /\ s.pc \in Batching => \A d \in Docs(s.corpus) \cap Pending(s) : M[d] = HeldSummary(S, d)
    /\ s.pc \in Batching => \A d \in Docs(s.corpus) \ Pending(s) :
         M[d] = SummaryOf(s.corpus, d) \/ d \in s.total.stale
    /\ s.pc \in {"overview", "cleanup"} => \A d \in Docs(s.corpus) :
         M[d] = SummaryOf(s.corpus, d) \/ d \in s.total.stale
    /\ s.pc \in {"sweep", "sweepSummary"} => \A d \in Docs(s.corpus) : M[d] = SummaryOf(s.corpus, d)
    /\ \A d \in Doc \ Docs(s.corpus) : M[d] # {} =>
         /\ s.pc \in Batching => Held(S, d) # {}
         /\ s.pc \in Batching \ {"readAll"} => d \in s.ctx.removed
         /\ s.pc \in {"overview", "cleanup"} => d \in s.total.removed
         /\ s.pc = "sweep" => d \in s.scan
         /\ s.pc = "sweepSummary" => d \in s.scan \cup s.swept
    /\ s.pc = "sweepSummary" => s.swept \cap Docs(s.corpus) = {}

\* The overview b covers what is stored until a change is found, and the run's
\* corpus once the overview step is over.
OverviewInv(s, S, b) ==
    /\ s.pc \in Batching \cup {"overview"} /\ Changed(s) = {} /\ S # {} =>
         b = [d \in Doc |-> Held(S, d)]
    /\ s.pc \in {"cleanup", "sweep", "sweepSummary"} /\ Docs(s.corpus) # {} => b = s.corpus

\* Between runs, everything is that of the latest corpus.
AtRest ==
    /\ stored = Content(latest)
    /\ \A d \in Doc : summary[d] = SummaryOf(latest, d)
    /\ Docs(latest) # {} => bok = latest

FreshInv(r) ==
    ~faulted =>
      IF Active(r)
      THEN FoundInv(run[r], stored) /\ SummaryInv(run[r], stored, summary)
           /\ OverviewInv(run[r], stored, bok)
      ELSE AtRest

LEMMA CorpusType == ASSUME IInv, NEW r \in Run PROVE run[r].corpus \in [Doc -> SUBSET Piece]
BY ConstantsOK, NothingCovered DEF IInv, RunState

LEMMA SizesAreNumbers ==
    ASSUME NEW P \in SUBSET Piece
    PROVE  Cardinality(P) \in Nat /\ Threshold \in Nat /\ (Cardinality(P) >= Threshold => P # {})
BY ConstantsOK, FS_Subset, FS_CardinalityType, FS_EmptySet

LEMMA SummaryOfGone ==
    ASSUME NEW c \in [Doc -> SUBSET Piece], NEW d \in Doc \ Docs(c) PROVE SummaryOf(c, d) = {}
BY SizesAreNumbers DEF Docs, SummaryOf

LEMMA HeldContent ==
    ASSUME NEW c \in [Doc -> SUBSET Piece], NEW d \in Doc
    PROVE  Held(Content(c), d) = c[d] /\ HeldSummary(Content(c), d) = SummaryOf(c, d)
<1>1. Held(Content(c), d) = c[d]
  BY DEF Held, Content, Entry
<1> QED BY <1>1 DEF HeldSummary, SummaryOf

\* A corpus is known by its content.
LEMMA ContentIsCorpus ==
    ASSUME NEW c \in [Doc -> SUBSET Piece] PROVE [d \in Doc |-> Held(Content(c), d)] = c
BY HeldContent

LEMMA HeldMore ==
    ASSUME NEW S, NEW W, NEW d \in Doc PROVE Held(S \cup W, d) = Held(S, d) \cup Held(W, d)
BY DEF Held

\* A run begins where the last one left the store.
LEMMA StartFresh ==
    ASSUME IInv, NEW r \in Run, FreshInv(r), Start(r) PROVE FreshInv(r)'
<1> SUFFICES ASSUME ~faulted' PROVE FreshInv(r)'
  BY DEF FreshInv
<1>1. PICK c \in Corpora, n \in RunState :
        /\ run' = [run EXCEPT ![r] = n] /\ latest' = c
        /\ n.pc = "readAll" /\ n.corpus = c /\ n.scan = {} /\ n.ctx = NoChanges
        /\ n.total = NoChanges /\ n.errs = FALSE /\ n.todo \cap n.batch = {}
        /\ Pending(n) = Docs(c)
  BY StartFields
<1>4. run'[r] = n
  BY <1>1 DEF IInv
<1>5. /\ n.pc = "readAll" /\ n.corpus = c /\ n.scan = {} /\ n.ctx = NoChanges
      /\ n.total = NoChanges /\ n.errs = FALSE /\ n.todo \cap n.batch = {}
      /\ Pending(n) = Docs(c)
  BY <1>1
<1>6. /\ NoChanges.changed = {} /\ NoChanges.orphans = {} /\ NoChanges.stale = {}
  BY DEF NoChanges
<1>7. /\ stored' = stored /\ summary' = summary /\ bok' = bok /\ faulted' = faulted
      /\ AtRest /\ latest \in [Doc -> SUBSET Piece]
  BY ConstantsOK, NothingCovered DEF Start, store, FreshInv, IInv, StoreType
<1>8. FoundInv(n, stored)
  BY <1>5, <1>6 DEF FoundInv, Changed
<1>9. \A d \in Doc : summary[d] = HeldSummary(stored, d)
  BY <1>7, HeldContent DEF AtRest
<1>10. ASSUME NEW d \in Doc, Held(stored, d) = {} PROVE HeldSummary(stored, d) = {}
  BY <1>10 DEF HeldSummary
<1>11. SummaryInv(n, stored, summary)
  BY <1>5, <1>9, <1>10 DEF SummaryInv, Batching, Docs
<1>12. ASSUME stored # {} PROVE bok = [d \in Doc |-> Held(stored, d)]
  <2>1. Docs(latest) # {}
    BY <1>7, <1>12, ContentOfDocs DEF AtRest, EntriesOf
  <2> QED BY <1>7, <2>1, ContentIsCorpus DEF AtRest
<1>13. OverviewInv(n, stored, bok)
  BY <1>5, <1>12 DEF OverviewInv, Batching
<1>14. Active(r)'
  BY <1>4, <1>5 DEF Active
<1> QED BY <1>4, <1>7, <1>8, <1>11, <1>13, <1>14 DEF FreshInv

LEMMA ReadAllFresh ==
    ASSUME IInv, NEW r \in Run, OneSyncs(r), FreshInv(r), ReadAll(r) PROVE FreshInv(r)'
<1> SUFFICES ASSUME ~faulted' PROVE FreshInv(r)'
  BY DEF FreshInv
<1> DEFINE s == run[r]
           gone == {e[1] : e \in stored} \ Docs(s.corpus)
           c == [NoChanges EXCEPT !.removed = gone]
           t == [c EXCEPT !.ran = TRUE]
<1>1. /\ s \in RunState /\ s.pc = "readAll" /\ stored' = stored /\ summary' = summary
      /\ bok' = bok /\ faulted' = faulted
  BY DEF IInv, ReadAll, At, store
<1>2. FoundInv(s, stored) /\ SummaryInv(s, stored, summary) /\ OverviewInv(s, stored, bok)
  BY <1>1 DEF FreshInv, Active
<1>3. /\ c.removed = gone /\ c.orphans = {} /\ c.changed = {} /\ c.stale = {}
      /\ t.removed = gone /\ t.orphans = {} /\ t.changed = {} /\ t.stale = {}
  BY DEF NoChanges
<1>4. /\ s.scan = {} /\ ~s.errs /\ s.ctx = NoChanges /\ s.ctx.stale = {} /\ s.ctx.changed = {}
      /\ s.ctx.orphans = {} /\ s.todo \cap s.batch = {}
  BY <1>1, <1>2 DEF FoundInv, NoChanges
<1>5. ASSUME NEW d \in Doc \ Docs(s.corpus), summary[d] # {} PROVE Held(stored, d) # {} /\ d \in gone
  <2>1. Held(stored, d) # {}
    BY <1>1, <1>2, <1>5 DEF SummaryInv, Batching
  <2>2. PICK p \in Piece : <<d, p>> \in stored
    BY <2>1 DEF Held
  <2>3. <<d, p>>[1] = d
    OBVIOUS
  <2> QED BY <2>1, <2>2, <2>3
<1>6. CASE s.batch = {}
  <2>1. run'[r] = [s EXCEPT !.pc = "cleanup", !.total = t]
    BY <1>6 DEF ReadAll, IInv
  <2>2. /\ run'[r].pc = "cleanup" /\ run'[r].total = t /\ run'[r].ctx = s.ctx
        /\ run'[r].corpus = s.corpus /\ run'[r].errs = s.errs
        /\ run'[r].todo = s.todo /\ run'[r].batch = s.batch
    BY <1>1, <2>1 DEF RunState
  <2>3. Docs(s.corpus) = {}
    BY <1>1, <1>6 DEF OneSyncs, SyncInv
  <2>4. FoundInv(run'[r], stored)
    BY <1>3, <1>4, <2>2 DEF FoundInv, Changed
  <2>5. SummaryInv(run'[r], stored, summary)
    BY <1>3, <1>5, <2>2, <2>3 DEF SummaryInv, Batching
  <2>6. OverviewInv(run'[r], stored, bok)
    BY <2>2, <2>3 DEF OverviewInv, Batching
  <2>7. Active(r)'
    BY <2>2 DEF Active
  <2> QED BY <1>1, <2>4, <2>5, <2>6, <2>7 DEF FreshInv
<1>7. CASE s.batch # {}
  <2>1. run'[r] = [s EXCEPT !.pc = "readDoc", !.scan = @ \cup s.batch, !.ctx = c]
    BY <1>7 DEF ReadAll, IInv
  <2>2. /\ run'[r].pc = "readDoc" /\ run'[r].scan = s.batch /\ run'[r].ctx = c
        /\ run'[r].corpus = s.corpus /\ run'[r].errs = s.errs /\ run'[r].total = s.total
        /\ run'[r].todo = s.todo /\ run'[r].batch = s.batch
    BY <1>1, <1>4, <2>1 DEF RunState
  <2>3. FoundInv(run'[r], stored)
    BY <1>2, <1>3, <1>4, <2>2 DEF FoundInv, Changed
  <2>4. SummaryInv(run'[r], stored, summary)
    BY <1>1, <1>2, <1>3, <1>5, <2>2 DEF SummaryInv, Batching, Pending
  <2>5. OverviewInv(run'[r], stored, bok)
    BY <1>1, <1>2, <1>3, <1>4, <2>2 DEF OverviewInv, Batching, Changed
  <2>6. Active(r)'
    BY <2>2 DEF Active
  <2> QED BY <1>1, <2>3, <2>4, <2>5, <2>6 DEF FreshInv
<1> QED BY <1>6, <1>7

LEMMA ReadDocFresh ==
    ASSUME IInv, NEW r \in Run, NEW d \in Doc, FreshInv(r), ReadDoc(r, d) PROVE FreshInv(r)'
<1> SUFFICES ASSUME ~faulted' PROVE FreshInv(r)'
  BY DEF FreshInv
<1> DEFINE s == run[r]
           new == {e \in Content(s.corpus) : e[1] = d}
           old == {e \in stored : e[1] = d}
           last == s.scan = {d}
           x == [s.ctx EXCEPT !.changed = IF old = new THEN @ ELSE @ \cup {d},
                              !.orphans = @ \cup (old \ new), !.ran = last]
<1>1. /\ s \in RunState /\ s.pc = "readDoc" /\ stored' = stored /\ summary' = summary
      /\ bok' = bok /\ faulted' = faulted
  BY DEF IInv, ReadDoc, At, store
<1>2. FoundInv(s, stored) /\ SummaryInv(s, stored, summary) /\ OverviewInv(s, stored, bok)
  BY <1>1 DEF FreshInv, Active
<1>3. /\ x.orphans = s.ctx.orphans \cup (old \ new) /\ x.removed = s.ctx.removed
      /\ x.changed = (IF old = new THEN s.ctx.changed ELSE s.ctx.changed \cup {d})
      /\ x.stale = s.ctx.stale /\ x.ran = last
  BY <1>1 DEF RunState, Changes
<1>4. run'[r] = [s EXCEPT !.unchanged = @ \cup (old \cap new), !.ctx = x, !.scan = @ \ {d},
                          !.pc = IF last THEN "summarize" ELSE @]
  BY DEF ReadDoc, IInv
<1>5. /\ run'[r].pc = IF last THEN "summarize" ELSE "readDoc"
      /\ run'[r].scan = s.scan \ {d} /\ run'[r].ctx = x
      /\ run'[r].corpus = s.corpus /\ run'[r].errs = s.errs /\ run'[r].total = s.total
      /\ run'[r].todo = s.todo /\ run'[r].batch = s.batch
  BY <1>1, <1>4 DEF RunState
<1>6. ASSUME old = new PROVE Held(stored, d) = s.corpus[d]
  <2>1. \A p \in Piece : <<d, p>> \in stored <=> <<d, p>> \in old
    OBVIOUS
  <2>2. \A p \in Piece : <<d, p>> \in new <=> p \in s.corpus[d]
    BY DEF Content, Entry
  <2>3. s.corpus[d] \subseteq Piece
    BY CorpusType
  <2> QED BY <1>6, <2>1, <2>2, <2>3 DEF Held
<1>7. FoundInv(run'[r], stored)
  <2>1. \A e \in s.batch \ (s.scan \ {d}) : e \in x.changed \/ Held(stored, e) = s.corpus[e]
    <3> SUFFICES ASSUME NEW e \in s.batch \ (s.scan \ {d})
                 PROVE  e \in x.changed \/ Held(stored, e) = s.corpus[e]
      OBVIOUS
    <3>1. CASE e = d
      BY <1>3, <1>6, <3>1
    <3>2. CASE e # d
      BY <1>1, <1>2, <1>3, <3>2 DEF FoundInv
    <3> QED BY <3>1, <3>2
  <2>2. x.orphans \cup s.total.orphans # {} => s.total.changed \cup x.changed # {}
    BY <1>2, <1>3 DEF FoundInv, Changed
  <2>3. \A e \in x.stale \cup s.total.stale : Cardinality(s.corpus[e]) < Threshold
    BY <1>2, <1>3 DEF FoundInv
  <2>4. run'[r].pc = "summarize" => x.ran
    BY <1>3, <1>5
  <2>5. ~s.errs /\ s.todo \cap s.batch = {} /\ run'[r].pc \in {"readDoc", "summarize"}
    BY <1>2, <1>5 DEF FoundInv
  <2> HIDE DEF x
  <2> QED BY <1>5, <2>1, <2>2, <2>3, <2>4, <2>5 DEF FoundInv, Changed
<1>8. SummaryInv(run'[r], stored, summary)
  BY <1>1, <1>2, <1>3, <1>5 DEF SummaryInv, Batching, Pending
<1>9. OverviewInv(run'[r], stored, bok)
  BY <1>1, <1>2, <1>3, <1>5 DEF OverviewInv, Batching, Changed
<1>10. Active(r)'
  BY <1>5 DEF Active
<1> QED BY <1>1, <1>7, <1>8, <1>9, <1>10 DEF FreshInv

LEMMA SummarizeFresh ==
    ASSUME IInv, NEW r \in Run, FreshInv(r), OneSyncs(r), Summarize(r) PROVE FreshInv(r)'
<1> SUFFICES ASSUME ~faulted' PROVE FreshInv(r)'
  BY DEF FreshInv
<1> DEFINE s == run[r]
           x == [s.ctx EXCEPT !.stale = TooShort(r)]
<1>1. PICK f \in [Doc -> SUBSET Piece] :
        /\ \A d \in Doc : f[d] \in IF d \in Eligible(r) THEN MapReduce(Pieces(r, d)) ELSE {{}}
        /\ run' = [run EXCEPT ![r].pc = "store", ![r].fresh = f, ![r].ctx.stale = TooShort(r),
                              ![r].errs = @ \/ \E d \in Eligible(r) : f[d] = {}]
        /\ faulted' = (faulted \/ \E d \in Eligible(r) : f[d] # Pieces(r, d))
  BY DEF Summarize
<1>2. /\ s \in RunState /\ s.ctx \in Changes /\ s.pc = "summarize" /\ stored' = stored
      /\ summary' = summary /\ bok' = bok
  BY DEF IInv, RunState, Summarize, At, store
<1>3. ~faulted /\ \A d \in Eligible(r) : f[d] = s.corpus[d]
  BY <1>1 DEF Pieces
<1>4. FoundInv(s, stored) /\ SummaryInv(s, stored, summary) /\ OverviewInv(s, stored, bok)
  BY <1>2, <1>3 DEF FreshInv, Active
<1>5. \A d \in s.batch : s.corpus[d] \in SUBSET Piece /\ d \in Doc
  BY <1>2, CorpusType DEF RunState
<1>6. PICK e \in BOOLEAN : e = \E d \in Eligible(r) : f[d] = {}
  OBVIOUS
<1>7. ~e
  BY <1>3, <1>5, <1>6, SizesAreNumbers DEF Eligible, Pieces
<1>8. run'[r] = [s EXCEPT !.pc = "store", !.fresh = f, !.ctx.stale = TooShort(r), !.errs = @ \/ e]
  BY <1>1, <1>6 DEF IInv
<1>9. /\ run'[r].pc = "store" /\ run'[r].corpus = s.corpus /\ run'[r].scan = s.scan
      /\ run'[r].todo = s.todo /\ run'[r].batch = s.batch /\ run'[r].total = s.total
      /\ run'[r].fresh = f /\ run'[r].ctx = x /\ (run'[r].errs <=> s.errs)
  BY <1>2, <1>7, <1>8 DEF RunState
<1>10. /\ x.orphans = s.ctx.orphans /\ x.removed = s.ctx.removed /\ x.changed = s.ctx.changed
       /\ x.ran = s.ctx.ran /\ x.stale = TooShort(r)
  BY <1>2 DEF Changes
<1>11. s.ctx.ran /\ s.scan = {}
  BY <1>2, <1>4 DEF FoundInv, OneSyncs, SyncInv
<1>12. FoundInv(run'[r], stored)
  <2>1. \A d \in x.stale \cup s.total.stale : Cardinality(s.corpus[d]) < Threshold
    BY <1>4, <1>10 DEF FoundInv, TooShort, Pieces
  <2>2. ASSUME NEW d \in s.batch \cap x.changed
        PROVE  IF Cardinality(s.corpus[d]) < Threshold THEN d \in x.stale ELSE f[d] = s.corpus[d]
    <3>1. CASE Cardinality(s.corpus[d]) < Threshold
      BY <1>10, <1>11, <3>1 DEF TooShort, Pieces
    <3>2. CASE ~(Cardinality(s.corpus[d]) < Threshold)
      <4>1. Cardinality(s.corpus[d]) >= Threshold
        BY <1>5, <3>2, SizesAreNumbers
      <4> QED BY <1>3, <1>10, <3>2, <4>1 DEF Eligible, Pieces
    <3> QED BY <3>1, <3>2
  <2>3. ASSUME NEW d \in Doc, f[d] # {} PROVE d \in s.batch /\ f[d] = SummaryOf(s.corpus, d)
    <3>1. d \in Eligible(r)
      BY <1>1, <2>3
    <3> QED BY <1>3, <3>1 DEF Eligible, Pieces, SummaryOf
  <2>4. x.orphans \cup s.total.orphans # {} => s.total.changed \cup x.changed # {}
    BY <1>4, <1>10 DEF FoundInv, Changed
  <2>5. \A d \in s.batch \ s.scan : d \in x.changed \/ Held(stored, d) = s.corpus[d]
    BY <1>2, <1>4, <1>10 DEF FoundInv
  <2>6. ~s.errs /\ s.todo \cap s.batch = {} /\ x.ran
    BY <1>4, <1>10, <1>11 DEF FoundInv
  <2> HIDE DEF x
  <2> QED BY <1>9, <2>1, <2>2, <2>3, <2>4, <2>5, <2>6 DEF FoundInv, Changed
<1>13. SummaryInv(run'[r], stored, summary)
  BY <1>2, <1>4, <1>9, <1>10 DEF SummaryInv, Batching, Pending
<1>14. OverviewInv(run'[r], stored, bok)
  BY <1>2, <1>4, <1>9, <1>10 DEF OverviewInv, Batching, Changed
<1>15. Active(r)'
  BY <1>9 DEF Active
<1> QED BY <1>2, <1>12, <1>13, <1>14, <1>15 DEF FreshInv

LEMMA StoreFresh ==
    ASSUME IInv, NEW r \in Run, FreshInv(r), OneSyncs(r), Store(r) PROVE FreshInv(r)'
<1> SUFFICES ASSUME ~faulted' PROVE FreshInv(r)'
  BY DEF FreshInv
<1> DEFINE s == run[r]
           C == Content(s.corpus)
           new == (C \cap EntriesOf(s.batch)) \ s.unchanged
           summaries == {d \in Doc : s.fresh[d] # {}}
<1>1. s \in RunState /\ s.pc = "store" /\ bok' = bok
  <2>1. At(r, "store") /\ bok' = bok
    BY Zenon DEF Store
  <2> QED BY <2>1 DEF IInv, At
<1>2. PICK W \in SUBSET new, S \in SUBSET summaries, err \in BOOLEAN :
        /\ W # new \/ S # summaries => err
        /\ stored' = stored \cup W
        /\ summary' = [d \in Doc |-> IF d \in S THEN s.fresh[d] ELSE summary[d]]
        /\ faulted' = (faulted \/ err)
        /\ \E n \in RunState :
             /\ run' = [run EXCEPT ![r] = n]
             /\ n.corpus = s.corpus /\ n.scan = s.scan
             /\ n.total = Merge(s.total, s.ctx) /\ n.ctx = NoChanges
             /\ n.unchanged = {} /\ (n.errs <=> s.errs \/ err)
             /\ n.todo \cap n.batch = {}
             /\ \/ s.todo = {} /\ n.pc = "overview"
                \/ /\ s.todo # {} /\ n.pc = "readAll" /\ n.batch # {}
                   /\ Pending(n) = s.todo
  BY StoreFields, Zenon DEF NewEntries, NewSummaries
<1>3. ~faulted /\ ~err /\ W = new /\ S = summaries
  BY <1>2
<1>4. FoundInv(s, stored) /\ SummaryInv(s, stored, summary) /\ OverviewInv(s, stored, bok)
  BY <1>1, <1>3 DEF FreshInv, Active
<1>5. PICK t : t = Merge(s.total, s.ctx)
  OBVIOUS
<1>6. /\ t \in Changes
      /\ t.orphans = s.total.orphans \cup s.ctx.orphans
      /\ t.removed = s.total.removed \cup s.ctx.removed
      /\ t.changed = s.total.changed \cup s.ctx.changed
      /\ t.stale = s.total.stale \cup s.ctx.stale
  BY <1>1, <1>5, MergeInv DEF RunState, Merge
<1>7. PICK n \in RunState :
        /\ run' = [run EXCEPT ![r] = n]
        /\ n.corpus = s.corpus /\ n.scan = s.scan /\ n.total = t /\ n.ctx = NoChanges
        /\ (n.errs <=> s.errs \/ err) /\ n.todo \cap n.batch = {}
        /\ \/ s.todo = {} /\ n.pc = "overview"
           \/ s.todo # {} /\ n.pc = "readAll" /\ Pending(n) = s.todo
  BY <1>2, <1>5
<1>10. run'[r] = n
  BY <1>7 DEF IInv
<1>11. s.scan = {} /\ ~s.errs
  BY <1>1, <1>4 DEF OneSyncs, SyncInv, FoundInv
<1>12. /\ n.corpus = s.corpus /\ n.total = t /\ n.ctx = NoChanges /\ n.scan = {} /\ ~n.errs
       /\ n.todo \cap n.batch = {}
       /\ \/ s.todo = {} /\ n.pc = "overview"
          \/ s.todo # {} /\ n.pc = "readAll" /\ Pending(n) = s.todo
  BY <1>3, <1>7, <1>11
<1>13. NoChanges.changed = {} /\ NoChanges.orphans = {} /\ NoChanges.stale = {}
  BY DEF NoChanges
<1>14. FoundInv(n, stored')
  BY <1>4, <1>6, <1>12, <1>13 DEF FoundInv, Changed
\* Entries are added for the documents of the batch only.
<1>15. ASSUME NEW d \in Doc, d \notin s.batch PROVE Held(stored', d) = Held(stored, d)
  BY <1>2, <1>15 DEF Held, EntriesOf
\* What becomes of the summaries of the batch.
<1>16. ASSUME NEW d \in s.batch \cap Docs(s.corpus)
       PROVE  summary'[d] = SummaryOf(s.corpus, d) \/ d \in t.stale
  <2>1. d \in Doc /\ s.corpus[d] \in SUBSET Piece
    BY CorpusType DEF Docs
  <2>2. CASE d \in summaries
    BY <1>1, <1>2, <1>3, <1>4, <2>1, <2>2 DEF FoundInv
  <2>3. CASE d \notin summaries /\ d \in s.ctx.changed
    <3>1. s.fresh[d] = {}
      BY <2>1, <2>3
    <3>2. Cardinality(s.corpus[d]) < Threshold \/ s.corpus[d] = {}
      BY <1>1, <1>4, <2>3, <3>1 DEF FoundInv
    <3>3. s.corpus[d] # {}
      BY DEF Docs
    <3> QED BY <1>1, <1>4, <1>6, <2>3, <3>2, <3>3 DEF FoundInv
  <2>4. CASE d \notin summaries /\ d \notin s.ctx.changed
    <3>1. Held(stored, d) = s.corpus[d]
      BY <1>1, <1>4, <1>11, <2>4 DEF FoundInv
    <3>2. summary'[d] = summary[d]
      BY <1>2, <1>3, <2>1, <2>4
    <3>3. summary[d] = HeldSummary(stored, d)
      BY <1>1, <1>4 DEF SummaryInv, Batching, Pending
    <3> QED BY <3>1, <3>2, <3>3 DEF HeldSummary, SummaryOf
  <2> QED BY <2>2, <2>3, <2>4
<1>17. ASSUME NEW d \in Doc, d \notin s.batch PROVE summary'[d] = summary[d]
  <2>1. d \notin summaries
    BY <1>1, <1>4, <1>17 DEF FoundInv
  <2> QED BY <1>2, <2>1
<1>18. \A d \in Docs(s.corpus) : d \in Doc
  BY DEF Docs
<1>19. \A d \in Docs(s.corpus) \ s.todo : summary'[d] = SummaryOf(s.corpus, d) \/ d \in t.stale
  <2> SUFFICES ASSUME NEW d \in Docs(s.corpus) \ s.todo, d \notin s.batch
               PROVE  summary'[d] = SummaryOf(s.corpus, d) \/ d \in t.stale
    BY <1>16
  <2> QED BY <1>1, <1>4, <1>6, <1>17, <1>18 DEF SummaryInv, Batching, Pending
<1>20. \A d \in Docs(s.corpus) \cap s.todo : summary'[d] = HeldSummary(stored', d)
  <2> SUFFICES ASSUME NEW d \in Docs(s.corpus) \cap s.todo
               PROVE  summary'[d] = HeldSummary(stored', d)
    OBVIOUS
  <2>1. d \in Doc /\ d \notin s.batch
    BY <1>4, <1>18 DEF FoundInv
  <2>2. summary[d] = HeldSummary(stored, d)
    BY <1>1, <1>4 DEF SummaryInv, Batching, Pending
  <2> QED BY <1>15, <1>17, <2>1, <2>2 DEF HeldSummary
<1>21. ASSUME NEW d \in Doc \ Docs(s.corpus), summary'[d] # {}
       PROVE  Held(stored', d) # {} /\ d \in t.removed
  <2>1. summary'[d] = summary[d]
    <3>1. s.corpus[d] = {}
      BY DEF Docs
    <3>2. SummaryOf(s.corpus, d) = {}
      BY <3>1 DEF SummaryOf
    <3>3. d \notin summaries
      BY <1>1, <1>4, <3>2 DEF FoundInv
    <3> QED BY <1>2, <3>3
  <2>2. Held(stored, d) # {} /\ d \in s.ctx.removed
    BY <1>1, <1>4, <1>21, <2>1 DEF SummaryInv, Batching
  <2> QED BY <1>2, <1>6, <2>2 DEF Held
<1>22. SummaryInv(n, stored', summary')
  BY <1>12, <1>19, <1>20, <1>21 DEF SummaryInv, Batching
\* As long as nothing is found changed nothing is added.
<1>23. ASSUME s.ctx.changed = {} PROVE stored' = stored
  <2> SUFFICES ASSUME NEW e \in W PROVE e \in stored
    BY <1>2
  <2>1. e \in C /\ e \in Entry /\ e[1] \in s.batch
    BY DEF EntriesOf
  <2>2. PICK d \in Doc, p \in Piece : e = <<d, p>>
    BY <2>1 DEF Entry
  <2>3. d \in s.batch /\ p \in s.corpus[d]
    BY <2>1, <2>2 DEF Content
  <2>4. p \in Held(stored, d)
    BY <1>1, <1>4, <1>11, <1>23, <2>3 DEF FoundInv
  <2> QED BY <2>2, <2>4 DEF Held
<1>24. OverviewInv(n, stored', bok')
  <2>1. n.pc \notin {"cleanup", "sweep", "sweepSummary"}
    BY <1>12
  <2>2. ASSUME Changed(n) = {}, stored' # {} PROVE bok' = [d \in Doc |-> Held(stored', d)]
    <3>1. s.ctx.changed = {} /\ s.total.changed = {}
      BY <1>6, <1>12, <2>2 DEF Changed
    <3>2. stored' = stored
      BY <1>23, <3>1
    <3> QED BY <1>1, <1>4, <2>2, <3>1, <3>2 DEF OverviewInv, Batching, Changed
  <2> QED BY <2>1, <2>2 DEF OverviewInv
<1>25. Active(r)'
  BY <1>10, <1>12 DEF Active
<1> QED BY <1>10, <1>14, <1>22, <1>24, <1>25 DEF FreshInv

\* The overview is skipped only where it covers the corpus already.
LEMMA OverviewStepFresh ==
    ASSUME IInv, NEW r \in Run, FreshInv(r), OneSyncs(r),
           OverviewSkipped(r) \/ OverviewGenerated(r)
    PROVE  FreshInv(r)'
<1> SUFFICES ASSUME ~faulted' PROVE FreshInv(r)'
  BY DEF FreshInv
<1> DEFINE s == run[r]
<1>1. /\ s \in RunState /\ s.pc = "overview" /\ stored' = stored /\ summary' = summary
      /\ ~faulted
  BY DEF IInv, OverviewSkipped, OverviewGenerated, At, store
<1>2. FoundInv(s, stored) /\ SummaryInv(s, stored, summary) /\ OverviewInv(s, stored, bok)
  BY <1>1 DEF FreshInv, Active
<1>3. /\ Content(s.corpus) \subseteq stored
      /\ stored \ Content(s.corpus) \subseteq s.total.orphans \cup EntriesOf(s.total.removed)
  BY <1>1, <1>2 DEF OneSyncs, SyncInv, FoundInv, Excess
<1>4. PICK e \in BOOLEAN : run'[r] = [s EXCEPT !.pc = "cleanup", !.errs = @ \/ e] /\ ~e
  <2>1. CASE OverviewSkipped(r)
    <3>1. s.errs \in BOOLEAN
      BY <1>1 DEF RunState
    <3>2. run'[r] = [s EXCEPT !.pc = "cleanup"]
      BY <2>1 DEF OverviewSkipped, Goto, IInv
    <3>3. [s EXCEPT !.pc = "cleanup"] = [s EXCEPT !.pc = "cleanup", !.errs = @ \/ FALSE]
      BY <1>1, <3>1 DEF RunState
    <3> QED BY <3>2, <3>3
  <2>2. CASE OverviewGenerated(r)
    BY <2>2 DEF OverviewGenerated, IInv
  <2> QED BY <2>1, <2>2
<1>5. /\ run'[r].pc = "cleanup" /\ run'[r].corpus = s.corpus /\ run'[r].scan = s.scan
      /\ run'[r].todo = s.todo /\ run'[r].batch = s.batch
      /\ run'[r].total = s.total /\ run'[r].ctx = s.ctx /\ (run'[r].errs <=> s.errs)
  BY <1>1, <1>4 DEF RunState
<1>6. FoundInv(run'[r], stored)
  BY <1>1, <1>2, <1>5 DEF FoundInv, Changed
<1>7. SummaryInv(run'[r], stored, summary)
  BY <1>1, <1>2, <1>5 DEF SummaryInv, Batching
<1>8. ASSUME Docs(s.corpus) # {} PROVE bok' = s.corpus
  <2>1. CASE OverviewGenerated(r)
    BY <2>1 DEF OverviewGenerated
  <2>2. CASE OverviewSkipped(r)
    <3>1. s.total.changed = {} /\ s.total.removed = {} /\ bok' = bok
      BY <2>2 DEF OverviewSkipped, NothingChanged, store
    <3>2. s.ctx = NoChanges /\ s.ctx.changed = {}
      BY <1>1, <1>2 DEF FoundInv, NoChanges
    <3>3. s.total.orphans = {} /\ EntriesOf(s.total.removed) = {}
      BY <1>2, <3>1, <3>2 DEF FoundInv, Changed, EntriesOf
    <3>4. stored = Content(s.corpus)
      BY <1>3, <3>3
    <3>5. s.corpus \in [Doc -> SUBSET Piece]
      BY CorpusType
    <3>6. PICK d \in Doc, p \in Piece : p \in s.corpus[d]
      BY <1>8, <3>5 DEF Docs
    <3>7. <<d, p>> \in Content(s.corpus)
      BY <3>6 DEF Content, Entry
    <3>8. bok = [x \in Doc |-> Held(stored, x)]
      BY <1>1, <1>2, <3>1, <3>2, <3>4, <3>7 DEF OverviewInv, Changed
    <3> QED BY <3>1, <3>4, <3>5, <3>8, ContentIsCorpus
  <2> QED BY <2>1, <2>2
<1>9. OverviewInv(run'[r], stored, bok')
  BY <1>5, <1>8 DEF OverviewInv, Batching
<1>10. Active(r)'
  BY <1>5 DEF Active
<1> QED BY <1>1, <1>6, <1>7, <1>9, <1>10 DEF FreshInv

LEMMA DeleteOrphansFresh ==
    ASSUME IInv, NEW r \in Run, FreshInv(r), DeleteOrphans(r) PROVE FreshInv(r)'
<1> SUFFICES ASSUME ~faulted' PROVE FreshInv(r)'
  BY DEF FreshInv
<1> DEFINE s == run[r]
<1>1. s \in RunState /\ s.pc = "cleanup" /\ bok' = bok
  BY DEF IInv, DeleteOrphans, At
<1>2. /\ summary' = [d \in Doc |-> IF d \in s.total.stale THEN {} ELSE summary[d]]
      /\ \E err \in BOOLEAN :
           /\ run'[r] = [s EXCEPT !.pc = "sweep", !.scan = s.total.removed, !.errs = @ \/ err]
           /\ ~err
      /\ ~faulted
  BY DEF DeleteOrphans, IInv
<1>3. FoundInv(s, stored) /\ SummaryInv(s, stored, summary) /\ OverviewInv(s, stored, bok)
  BY <1>1, <1>2 DEF FreshInv, Active
<1>4. /\ run'[r].pc = "sweep" /\ run'[r].scan = s.total.removed
      /\ run'[r].corpus = s.corpus /\ (run'[r].errs <=> s.errs)
      /\ run'[r].todo = s.todo /\ run'[r].batch = s.batch
      /\ run'[r].total = s.total /\ run'[r].ctx = s.ctx
  BY <1>1, <1>2 DEF RunState
<1>5. FoundInv(run'[r], stored')
  BY <1>3, <1>4 DEF FoundInv, Changed
<1>6. ASSUME NEW d \in Docs(s.corpus) PROVE summary'[d] = SummaryOf(s.corpus, d)
  <2>1. d \in Doc /\ s.corpus[d] \in SUBSET Piece
    BY CorpusType DEF Docs
  <2>2. CASE d \in s.total.stale
    <3>1. Cardinality(s.corpus[d]) < Threshold
      BY <1>3, <2>2 DEF FoundInv
    <3>2. ~(Cardinality(s.corpus[d]) >= Threshold)
      BY <2>1, <3>1, SizesAreNumbers
    <3> QED BY <1>2, <2>1, <2>2, <3>2 DEF SummaryOf
  <2>3. CASE d \notin s.total.stale
    BY <1>1, <1>2, <1>3, <2>1, <2>3 DEF SummaryInv
  <2> QED BY <2>2, <2>3
<1>7. SummaryInv(run'[r], stored', summary')
  BY <1>1, <1>2, <1>3, <1>4, <1>6 DEF SummaryInv, Batching
<1>8. OverviewInv(run'[r], stored', bok')
  BY <1>1, <1>3, <1>4 DEF OverviewInv, Batching
<1>9. Active(r)'
  BY <1>4 DEF Active
<1> QED BY <1>5, <1>7, <1>8, <1>9 DEF FreshInv

LEMMA SweepContentFresh ==
    ASSUME IInv, NEW r \in Run, NEW d \in Doc, FreshInv(r), SweepContent(r, d) PROVE FreshInv(r)'
<1> SUFFICES ASSUME ~faulted' PROVE FreshInv(r)'
  BY DEF FreshInv
<1> DEFINE s == run[r]
<1>1. s \in RunState /\ s.pc = "sweep" /\ bok' = bok /\ summary' = summary
  BY DEF IInv, SweepContent, At
<1>2. PICK err \in BOOLEAN :
        /\ run' = [run EXCEPT ![r].errs = @ \/ err,
                              ![r].pc = IF err THEN "sweep" ELSE "sweepSummary",
                              ![r].swept = IF err THEN {} ELSE {d},
                              ![r].scan = @ \ {d}]
        /\ faulted' = (faulted \/ err)
  BY DEF SweepContent
<1>3. /\ run'[r] = [s EXCEPT !.errs = @ \/ err, !.pc = IF err THEN "sweep" ELSE "sweepSummary",
                          !.swept = IF err THEN {} ELSE {d}, !.scan = @ \ {d}]
      /\ ~err /\ ~faulted
  BY <1>2 DEF IInv
<1>4. FoundInv(s, stored) /\ SummaryInv(s, stored, summary) /\ OverviewInv(s, stored, bok)
  BY <1>1, <1>3 DEF FreshInv, Active
<1>5. /\ run'[r].pc = "sweepSummary" /\ run'[r].scan = s.scan \ {d} /\ run'[r].swept = {d}
      /\ run'[r].corpus = s.corpus /\ (run'[r].errs <=> s.errs)
      /\ run'[r].todo = s.todo /\ run'[r].batch = s.batch
      /\ run'[r].total = s.total /\ run'[r].ctx = s.ctx
  BY <1>1, <1>3 DEF RunState
<1>6. FoundInv(run'[r], stored')
  BY <1>4, <1>5 DEF FoundInv, Changed
<1>7. SummaryInv(run'[r], stored', summary')
  <2>1. \A x \in Doc \ Docs(s.corpus) : summary[x] # {} => x \in (s.scan \ {d}) \cup {d}
    BY <1>1, <1>4 DEF SummaryInv
  <2>2. d \notin Docs(s.corpus)
    BY <1>1 DEF SweepContent, IInv, RunInv
  <2> QED BY <1>1, <1>4, <1>5, <2>1, <2>2 DEF SummaryInv, Batching
<1>8. OverviewInv(run'[r], stored', bok')
  BY <1>1, <1>4, <1>5 DEF OverviewInv, Batching
<1>9. Active(r)'
  BY <1>5 DEF Active
<1> QED BY <1>6, <1>7, <1>8, <1>9 DEF FreshInv

LEMMA SweepSummaryFresh ==
    ASSUME IInv, NEW r \in Run, FreshInv(r), SweepSummary(r) PROVE FreshInv(r)'
<1> SUFFICES ASSUME ~faulted' PROVE FreshInv(r)'
  BY DEF FreshInv
<1> DEFINE s == run[r]
<1>1. s \in RunState /\ s.pc = "sweepSummary" /\ bok' = bok /\ stored' = stored
  BY DEF IInv, SweepSummary, At
<1>2. PICK performed \in BOOLEAN, err \in BOOLEAN :
        /\ ~performed => err
        /\ summary' = [d \in Doc |-> IF performed /\ d \in s.swept THEN {} ELSE summary[d]]
        /\ run' = [run EXCEPT ![r].errs = @ \/ err, ![r].pc = "sweep", ![r].swept = {}]
        /\ faulted' = (faulted \/ err)
  BY DEF SweepSummary
<1>3. /\ run'[r] = [s EXCEPT !.errs = @ \/ err, !.pc = "sweep", !.swept = {}]
      /\ ~err /\ ~faulted /\ performed
  BY <1>2 DEF IInv
<1>4. FoundInv(s, stored) /\ SummaryInv(s, stored, summary) /\ OverviewInv(s, stored, bok)
  BY <1>1, <1>3 DEF FreshInv, Active
<1>5. /\ run'[r].pc = "sweep" /\ run'[r].scan = s.scan
      /\ run'[r].corpus = s.corpus /\ (run'[r].errs <=> s.errs)
      /\ run'[r].todo = s.todo /\ run'[r].batch = s.batch
      /\ run'[r].total = s.total /\ run'[r].ctx = s.ctx
  BY <1>1, <1>3 DEF RunState
<1>6. FoundInv(run'[r], stored)
  BY <1>4, <1>5 DEF FoundInv, Changed
<1>7. \A d \in Docs(s.corpus) : summary'[d] = SummaryOf(s.corpus, d)
  BY <1>1, <1>2, <1>4 DEF SummaryInv, Docs
<1>8. \A d \in Doc \ Docs(s.corpus) : summary'[d] # {} => d \in s.scan
  BY <1>1, <1>2, <1>3, <1>4 DEF SummaryInv
<1>9. SummaryInv(run'[r], stored, summary')
  BY <1>5, <1>7, <1>8 DEF SummaryInv, Batching
<1>10. OverviewInv(run'[r], stored, bok)
  BY <1>1, <1>4, <1>5 DEF OverviewInv, Batching
<1>11. Active(r)'
  BY <1>5 DEF Active
<1> QED BY <1>1, <1>6, <1>9, <1>10, <1>11 DEF FreshInv

\* A run that ends with nothing having failed has finished all its steps.
LEMMA EndsFresh ==
    ASSUME IInv, NEW r \in Run, FreshInv(r), OneSyncs(r),
           CleanupGated(r) \/ Finished(r) \/ Killed(r)
    PROVE  FreshInv(r)'
<1> SUFFICES ASSUME ~faulted' PROVE FreshInv(r)'
  BY DEF FreshInv
<1> DEFINE s == run[r]
<1>1. /\ s \in RunState /\ s.pc \in {"cleanup", "sweep"} /\ ~faulted /\ ~Killed(r)
  BY DEF IInv, CleanupGated, Finished, Killed, Fault, At
<1>2. FoundInv(s, stored) /\ SummaryInv(s, stored, summary) /\ OverviewInv(s, stored, bok)
  BY <1>1 DEF FreshInv, Active
<1>3. Finished(r) /\ ~s.errs
  BY <1>1, <1>2 DEF CleanupGated, FoundInv
<1>4. /\ s.pc = "sweep" /\ s.scan = {} /\ stored' = stored /\ summary' = summary /\ bok' = bok
      /\ latest' = latest /\ run'[r].pc = "done"
  BY <1>1, <1>3 DEF Finished, Finish, At, store, IInv, RunState
<1>5. EntriesOf(s.scan) = {}
  BY <1>4 DEF EntriesOf
<1>6. s.corpus = latest /\ stored = Content(latest)
  BY <1>3, <1>4, <1>5 DEF OneSyncs, SyncInv, Excess
<1>7. latest \in [Doc -> SUBSET Piece]
  BY <1>6, CorpusType
<1>8. \A d \in Doc : summary[d] = SummaryOf(latest, d)
  BY <1>2, <1>4, <1>6, <1>7, SummaryOfGone DEF SummaryInv
<1>9. Docs(latest) # {} => bok = latest
  BY <1>2, <1>4, <1>6 DEF OverviewInv
<1>10. AtRest'
  BY <1>4, <1>6, <1>8, <1>9 DEF AtRest
<1>11. ~Active(r)'
  BY <1>4 DEF Active
<1> QED BY <1>10, <1>11 DEF FreshInv

LEMMA StepFresh ==
    ASSUME IInv, NEW r \in Run, OneSyncs(r), FreshInv(r), RunStep(r) PROVE FreshInv(r)'
<1>1. CASE Start(r) \/ ReadAll(r) \/ Summarize(r) \/ Store(r)
  BY <1>1, StartFresh, ReadAllFresh, SummarizeFresh, StoreFresh
<1>2. CASE DetectionFails(r)
  BY <1>2 DEF DetectionFails, Fault, FreshInv
<1>3. CASE OverviewSkipped(r) \/ OverviewGenerated(r)
  BY <1>3, OverviewStepFresh
<1>4. CASE \E d \in Doc : ReadDoc(r, d)
  BY <1>4, ReadDocFresh
<1>5. CASE \E d \in Doc : SweepContent(r, d)
  BY <1>5, SweepContentFresh
<1>6. CASE DeleteOrphans(r) \/ SweepSummary(r)
  BY <1>6, DeleteOrphansFresh, SweepSummaryFresh
<1>7. CASE CleanupGated(r) \/ Finished(r) \/ Killed(r)
  BY <1>7, EndsFresh
<1> QED BY <1>1, <1>2, <1>3, <1>4, <1>5, <1>6, <1>7 DEF RunStep

LEMMA AllFresh ==
    ASSUME NEW CONSTANT r \in Run, Run = {r}
    PROVE  Spec => [](IInv /\ OneSyncs(r) /\ FreshInv(r))
<1>1. Init => FreshInv(r)
  <2> SUFFICES ASSUME Init PROVE FreshInv(r)
    OBVIOUS
  <2>1. ~Active(r) /\ Docs(NoCorpus) = {} /\ Content(NoCorpus) = {}
    BY DEF Init, IdleRun, Active, Docs, NoCorpus, Content, Entry
  <2>2. \A d \in Doc : SummaryOf(NoCorpus, d) = {}
    BY <2>1, NothingCovered, SummaryOfGone
  <2>3. AtRest
    BY <2>1, <2>2 DEF Init, AtRest
  <2> QED BY <2>1, <2>3 DEF FreshInv
<1>2. IInv /\ OneSyncs(r) /\ FreshInv(r) /\ [Next]_vars => FreshInv(r)'
  <2>1. ASSUME IInv, OneSyncs(r), FreshInv(r), Next PROVE FreshInv(r)'
    BY <2>1, StepFresh DEF Next
  <2>2. ASSUME FreshInv(r), UNCHANGED vars PROVE FreshInv(r)'
    BY <2>2 DEF vars, FreshInv, Active, AtRest
  <2> QED BY <2>1, <2>2
<1> QED BY <1>1, <1>2, SyncInit, SyncNext, PTL DEF Spec

\* With one slot for runs, and as long as no call fails and no run is cut off,
\* every document has after each ingestion the summary of exactly its pieces, and
\* none when it is too short or gone: DocumentSummaryStep summarizes the changed
\* documents only, and OrphanCleanupStep deletes the summaries that are stale.
THEOREM SummariesStayFresh ==
    ASSUME NEW CONSTANT r \in Run, Run = {r}
    PROVE  Spec => []SummariesFresh
<1>1. FreshInv(r) => SummariesFresh
  BY DEF FreshInv, AtRest, SummariesFresh, Idle
<1> QED BY <1>1, AllFresh, PTL

\* Under the same conditions the overview is that of the latest corpus after each
\* ingestion: BodyOfKnowledgeSummaryStep skips it only where nothing changed and
\* nothing was removed since the ingestion that generated it.
THEOREM OverviewStaysFresh ==
    ASSUME NEW CONSTANT r \in Run, Run = {r}
    PROVE  Spec => []OverviewFresh
<1>1. FreshInv(r) => OverviewFresh
  BY DEF FreshInv, AtRest, OverviewFresh, Idle
<1> QED BY <1>1, AllFresh, PTL
=============================================================================
