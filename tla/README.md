# A verification project for the Alkemio virtual contributor

TLA+ models of the virtual contributor engine, the TLC configurations that
check them on small instances, and proofs that TLAPS checks for every value of
the constants. Paths and line numbers refer to the repository's source tree;
`PROJECT.json` maps each definition to the lines it models.

    tlc -config MCDelivery.cfg MCDelivery        # model-check
    tlapm DeliveryProofs.tla                     # check proofs

## 1. The system

One container runs one plugin (expert, generic, guidance, openai-assistant,
ingest-website or ingest-space) in one asyncio event loop. The parts, their
state, what they do and what makes them correct:

| Component | State | Operations | What must hold |
|---|---|---|---|
| Message delivery: `main.py`, `core/adapters/rabbitmq.py`, `core/router.py` | broker queue and unsettled delivery (prefetch 1), retry header, active background tasks, the process | deliver, early or late ack, handle, publish, republish, error result, reject, reconnect, shutdown | no query is lost; no result is duplicated without a broker or network fault; retries are bounded and silent; everything is settled in the end |
| Ingest pipeline: `core/domain/pipeline/` | `PipelineContext` per batch and per run; the collection in the store | change detection, summaries, embed and store, overview, gated cleanup | the collection ends up as the fetched corpus; nothing of it is deleted on the way, whatever fails; summaries follow their content |
| Website ingestion: `plugins/ingest_website/` | queue, visited, results | crawl, extract, ingest or clean up | each reachable page once, within domain and limit; an unreachable site is not an empty one |
| URL guard: `plugins/url_guard.py` | redirect chain, pinned address, bounded body | check, fetch with redirects, read | each hop goes where its own check allowed; the token stays with the deployment; a body is whole or refused |
| Space ingestion: `plugins/ingest_space/` | space tree, GraphQL session | sign in, query with retries, walk the tree, fetch links, ingest | a failing read is not an empty space; each content becomes one document at its place |
| Knowledge store adapter: `core/adapters/chromadb.py` | query vectors of one request, in-flight embedding tasks | query, lexical query, get, upsert, delete, each with retries in a thread | one embedding call per text and request; no task outlives its request; a cancelled waiter harms no other |
| Embedding adapters | attempts, deadlines | embed, embed_query | three attempts at most, transient errors only, one deadline |
| Retrieval: `core/domain/hybrid_retrieval.py`, `rank_fusion.py`, `rerank.py`, `hierarchy_retrieval.py` | none beyond a request | two arms, fusion, re-ranking, branch selection, context budget | embedding errors are terminal, lexical errors are not; fusion and budgets keep the best entries |
| Expert, guidance, generic, assistant plugins | none beyond a request | rewrite, route, retrieve, merge, answer | a question is answered from its context or refused; one failing collection does not fail the others; the best of what answered is shown |
| Prompt graph: `core/domain/prompt_graph.py` | graph state | build, run nodes along edges | bounded execution; a bad definition is refused before it costs anything; retrieval stays with its body of knowledge; no result is lost in a merge |
| Classification, rewriting, routing; configuration and wiring; health, tracing; LLM adapter; evaluation | (see PROJECT.json) | | |

How they interact. The broker pushes a delivery into the consumer callback; the
router turns it into an event. Engine queries are handled inside the callback
and acknowledged after their result is published. Ingest events are
acknowledged first and handled by a background task that publishes its result.
The ingest plugins fetch a corpus and run `IngestEngine`, whose steps share a
context object and call the store, the embeddings and the LLM. The expert
plugin queries the store through retrieval, inside a scope in which query
vectors are shared. Everything that waits is a coroutine, so the interleavings
are those of `await`s; store and LLM calls run in threads.

What is hard here: (1) deliveries, background tasks, channel failures, crashes
and shutdown interleave at every `await`; the broker redelivers what was not
settled. (2) Ingestion reads the store, decides what to delete, writes for
minutes and deletes afterwards; any call may fail or take effect and fail, the
run may be cut off anywhere, and the early ack lets two runs of one collection
overlap. (3) Crawling and reading a space decide by what they did not find what is
deleted. (4) Shared embedding tasks have several waiters, of which any may be
cancelled. (5) A link is fetched over hops that resolve differently each time,
and its body arrives in pieces that a decoder may hold back.
`PROJECT.json` lists these hazards at their lines with the properties on them.

## 2. The modules

| Module | Models | Role |
|---|---|---|
| `Delivery` | `main.py` on_message, _retry_or_reject, _run_pipeline, _run; `rabbitmq.py` | detailed model |
| `MCDelivery`, two `.cfg` | | instances |
| `DeliveryProofs` | | theorems about `Delivery` |
| `CorpusSync` | what an ingestion promises about the content of a collection | abstract specification |
| `IngestPipeline` | `engine.py`, `steps.py`, `handle()` of both ingest plugins | detailed model, implements `CorpusSync` |
| `MCIngest`, three `.cfg` | | instances |
| `IngestProofs` | | theorems about `IngestPipeline`; that it implements `CorpusSync` |
| `Crawl` | `crawler.py`, first half of the website plugin's `handle()` | detailed model |
| `MCCrawl`, two `.cfg` | | instances |
| `CrawlProofs` | | theorems about `Crawl` |
| `EmbeddingMemo` | what a request may ask the embedding provider for, and what it remembers | abstract specification |
| `QueryEmbeddings` | `chromadb.py` query_embedding_scope and _embed_query, embed_query of both embedding adapters | detailed model, implements `EmbeddingMemo` |
| `ExpertRetrieval` | `handle()` of the expert plugin, `hybrid_retrieval.py`, the adapter's `query`, `query_lexical` and `_retry` | composes `QueryEmbeddings` |
| `MCExpert`, two `.cfg` | | instances |
| `QueryEmbeddingsProofs`, `ExpertProofs` | | theorems about the two |
| `PromptGraph` | `prompt_graph.py`, `_handle_with_graph` of the generic plugin | detailed model |
| `MCPromptGraph`, one `.cfg` | | instance |
| `PromptGraphProofs` | | theorems about `PromptGraph` |
| `UrlGuard` | `url_guard.py`: check_destination, guarded_fetch, _read_bounded_body | detailed model |
| `SpaceReader` | `graphql_client.py`, `space_reader.py`, first half of the space plugin's `handle()` | composes `UrlGuard`; defines what a tree says |
| `MCSpace`, one `.cfg` | | instance |
| `SpaceProofs` | | theorems about the two |
| `RankFusion` | `rank_fusion.py` | pure operators |
| `Guidance` | `handle()` of the guidance plugin, its rewrite, routing and hybrid retrieval | detailed model, uses `RankFusion` |
| `MCGuidance`, one `.cfg` | | instance |
| `GuidanceProofs` | | theorems about `Guidance` and `RankFusion` |

A definition named "mutant" in a comment is a plausible bug of the definition
below it. It is used by nothing; putting it in the place of the original shows
that the property PROJECT.json names for it is violated then.

### Delivery

A slot of `job` is an asyncio task: a consumer callback or, after an early ack,
the background pipeline it became (one slot for both, since the callback ends
where the task starts). Its `pc` names the `await` at which it waits; a step is
the code from one `await` to the next. The broker is external: `ready` counts
copies of each message per `x-retry-count`, `held` is the unsettled delivery.
The channel is shared. Each client operation is confirmed, refused because the
channel is down, or meets the failure half way: then the broker may have
performed it and the client sees an error (`publish`, `republish`), or the
broker did not and the client sees none (`ack`, `reject`, which have no reply).
Reconnecting requeues what was not settled. A shutdown waits for a copy of the
active tasks, cancels them after the grace period, closes and exits; the
consumer is never cancelled. A crash or exit ends all slots.

The history variables count results, error results and plugin executions per
message and remember which messages were redelivered, left unconfirmed, or
whose only error publication was refused; properties use them to say *when* a
duplicate is excused.

### IngestPipeline and CorpusSync

A document is a set of pieces; a piece stands for a chunk's content hash, so
equal entries are unchanged chunks (chunk size and position metadata are part
of the hash and of the piece). Summaries and the overview are identified with
the pieces that they cover. `MapReduce` is `_map_reduce_summarize`: each map
call may fail on its own and is skipped, so a summary covers any part of its
document and the overview any part of the corpus; a reduce call that fails
concatenates and loses nothing. Only a summary that covers nothing is recorded
as an error; one of a part is stored and counts as the document's summary, and
an overview of nothing is stored, too. `run[r]` is one `handle()` call: `ctx` the
findings of the current batch, `total` the merged ones, `errs` that
`context.errors` is not empty. The actions follow the steps: `ReadAll`,
`ReadDoc` (one store read each), `DetectionFails`, `Summarize`, `Store`,
`OverviewSkipped`, `OverviewGenerated`, `CleanupGated`, `DeleteOrphans`,
`SweepContent`, `SweepSummary`, `Finished`; `Killed` is the pipeline timeout, a
cancelled task or a crash at any await. A write that raises may have been
performed. Steps that embed and store in batches of 50 are one action that may
write any subset and then has recorded an error; no other run observes the
difference in a way that the properties tell apart, since the subset is arbitrary.

`CorpusSync` knows three variables: the target corpus, the stored content and
the phase. It may add content of the target; it may take away only when all of
the target is there; success means equality. The refinement maps `latest` to
the target and the run's `pc` and `outcome` to the phase.

### Crawl

The site is chosen in the initial state: links, redirects, pages with text. A
fetch of an unvisited URL succeeds and yields the final page, or fails. URLs
are normalized already; HTML parsing is the `links` relation.

### QueryEmbeddings and EmbeddingMemo

`cache[t]` is the dictionary of the scope: no entry for `t`, the provider task,
or its vectors. `provider[t]` is that task: created, posting attempt n, backing
off, or ended and not yet settled. Settling is a step of its own, because
asyncio runs a task's done-callback one turn after the task ended; until then a
finished task is still the entry, and `Meets` says what a caller gets that asks
just then. `waiter[c]` is a coroutine in `await asyncio.shield(task)`, or the
outcome it has not picked up. Cancelling a caller (`CancelCallers`) touches its
own shield only. `LeaveScope`, `InterruptScope` and `CloseScope` are the
`finally` block: cancel what runs, wait for all of it, empty the cache; an
interrupted wait still ends after every task, but by raising. `posts` counts
the requests that were sent.

`EmbeddingMemo` forgets tasks, callbacks and attempts. It may ask for a text
only while it knows nothing of it and nobody is asking, keeps an answer until
the request has left, keeps no failure, and asks for nothing afterwards. The
refinement maps `cache` to the memo and `scope = "open"` to the request being
inside.

`QueryEmbeddings` has a next-state relation of its own with arbitrary callers
(`EmbeddingNext`), so that theorems about the scope do not depend on who uses
it.

### ExpertRetrieval

The callers are the two arms of a stage: `primary` is the routing query, the
flat query or the dense arm; `lexical` the literal arm. `stage` follows
`handle`: resolve the question, `routing`, scoped `detail`, `flat`, answer,
unwind an exception, close the scope, return. `ArmsOf` holds the early returns
of `hybrid_retrieval.retrieve`; `Raised` the order in which it looks at the two
results; `FallBack`, `Retrieved` and `RetrievalFails` the `except` branches of
`_retrieve_context`. A store call is a ladder of attempts that ends with usable
passages, none, or an error. A graph is any sequence of at most `MaxRetrievals`
retrievals and an answer. Only the node named `retrieve` retrieves, so its
retrievals follow one another, but the graph comes with the event and may fan
out: another node of the same superstep can raise while the arms wait
(`SiblingFails`). LangGraph then cancels the retrieve node and with it the arms
(`Abandon`), not the shielded provider tasks, and the request unwinds with the
node's exception. The pipeline timeout and the shutdown (`Cancel`) abandon a
retrieval in the same way, may also strike while the request unwinds, and
interrupt the clean-up of the scope.

### PromptGraph

A request of the generic engine whose event carries a graph. `payload` is the
definition: the kind of each node (an LLM node with or without an output schema,
`retrieve`, `echo`), plain and conditional edges, the fields its state declares,
the variables of its templates. Before anything runs four sets of checks follow
one another without an `await`: the plugin's own (`Serves`), `from_definition`
(`NodesParse`, `EdgesParse`), `compile` (`Compiles`) and LangGraph's (`Builds`).
Then `Advance` begins supersteps. `task` is the part of each node in the current
one: a node calls a model or the store, or ends at once (`echo`), or raises.
Its router runs when it ends and sees the state of the superstep's beginning
with the node's own writes. `EndSuperstep` merges the writes of all nodes, fails
on two writers of one field, drops what is not declared, and starts the targets
of the edges; a node may therefore run again when paths of different length
lead to it. The execution of supersteps belongs to LangGraph, is modelled from
how `prompt_graph.py` relies on it and is marked external in the map. Whether a
run that is done in the very last superstep is still refused by the limit is
left open (both may happen).

### UrlGuard and SpaceReader

`UrlGuard` is one `guarded_fetch`. `step` is the await at which it waits: the
check of the destination, the token, the response, the body. A URL is a record;
`Origin` is the normalised origin with its effective port. The resolver may give
another answer at each hop: none, one address, two, or something that is no
address. `Redirected`, `StatusRefused`, `Respond` and `Raises` are what can come
back; every return passes through `Return`, which leaves nothing of the fetch
behind. The body is read chunk by chunk: `Chunk` receives raw bytes, `Decode`
makes units of them up to a limit that is one unit above what fits, so that an
excess shows, and either leaves the rest as input or keeps it inside the decoder
(`hold`); `Finish` flushes. A type that the header leaves open is decided on the
first `SniffWindow` units.

`SpaceReader` is the reading half of a space ingestion: `Authenticate` (only
without a token; one attempt), `TreeArrives` or `QueryAttemptFails` with bounded
retries, then a depth-first walk. `todo` is the call stack of `_process_space`
and `_process_callout` with the position each call was given, `documents` what
was emitted. `FetchLink`, `Fetching` and `LinkFetched` wrap a guarded fetch;
`ReadingEnds` is the choice of `handle` between the pipeline and the clean-up.
`IngestPipeline` starts where it ends: its `Corpora` are what a reading yields.
Without a walk, from each node's way up to the root (`Up`, `Above`), the module
defines what a tree says (`Legible`, `PositionOf`, `ContentOf`), against which
the walk is checked. `TreeAssumption` is the shape of an answer to the queries: an
object stands in one place, contributions below callouts below spaces, and there
are two levels of subspaces.

### Guidance and RankFusion

`stage` follows `handle`: rewrite, route, retrieve, answer. `arm[c][a]` is the
store call of collection `c` by meaning (`dense`) or wording (`lexical`); all
end in any order, with any answer that the store can give or with an error.
`Raised` says when `retrieve` raises for a collection, `Retrieved` fuses what
its arms found (`RankFusion!Fuse`, with exact fractions), `Merged` is the
stable sort over all collections (with `Listed`, the order of `ranked.extend`,
for what the key cannot tell apart), and `Candidates` and `WithinBudget` are
threshold, de-duplication by page, cut and context budget, in that order. The
re-ranker returns the pool in any order (`Orders`): its scores depend on words
the model does not have. Sorting is `InOrder`: an element's place is the number
of elements before it; a loop that keeps some passages is `At`, the subsequence
of the positions it keeps.

## 3. What the runs check

| Run | Instance | Shows |
|---|---|---|
| `delivery` | 1 query, 1 ingest event, 1 malformed message, 2 slots, 2 attempts, 1 channel failure, 1 crash or shutdown | all properties of Delivery below |
| `ingest` | 2 documents, 2 pieces, 12 of the 16 corpora, batches of 1, threshold 2, one run after another without limit | SyncSpec, OwnContentKept, SummariesFresh, OverviewFresh |
| `crawl` | 5 pages, an external page and a file; 7 x 4 x 4 link structures with cycles, all redirect maps with up to two redirects, limit 4 | NoDuplicatePages, StaysInBounds, FindsEveryPage, Terminates |
| `expert` | 2 admissible texts and an oversized one, all twelve configurations, with a graph a node that fails beside the retrieval, 3 provider and 3 store attempts, 2 retrievals, 2 cancellations | EgressBudget, WaitersHaveATask, SettledBeforeLeaving, MemoSpec, QuietAfterLeaving, RequestEnds |
| `prompt_graph` | 3 nodes: some 900 graphs with fan-out, joins, cycles and conditional edges, and some 250 more payloads, most of them with one fault; six engines (body of knowledge or none; no store, one that cannot embed, a usable one); limit 4 | OwnCollection, FreeRefusal, CeilingIsForCycles, NothingDropped, RequestEnds |
| `space` | 6 trees of 9 nodes (nodes without id, text that strips to nothing, equal contents, a knowledge base, an empty tree, no tree), 8 URLs, 2 addresses of which one is denied, 2 redirects, bodies of up to 4 units, 3 query attempts | TypeOK, PinnedToChecked, CredentialsStayHome, WholeTreeRead, BodyIsWhole, ReadEnds |
| `guidance` | 2 collections with 5 passages on two pages and without one, all 8 settings of arms and re-ranking, 3 profiles | EvidenceSound, OnlyTheModelFails |
| `delivery_shutdown`, `ingest_overlap`, `ingest_summary`, `crawl_unreachable`, `expert_fallback` | as above or smaller | a counterexample each; section 5 |

**Delivery.** `QueryNeverLost`: the broker has the query, or a result exists, or
the one attempt to publish its terminal error was refused. `OneResult`,
`BoundedExecutions`, `SilentRetries`: without a redelivery or a missing confirm
there is at most one result, at most `MaxRetries` executions (one for an ingest
event), and none of the results before the last attempt.
`NoRedeliveryWhileIngesting`: while a background pipeline works, the broker has
no copy of its event. `EverySettled` and `EveryQueryAnswered` are liveness.

**Ingest.** `SyncSpec`: runs one after another implement `CorpusSync`, with any
call failing and runs cut off anywhere. `OwnContentKept`: a step of a run never
deletes an entry of the corpus that the run fetched. `SummariesFresh` and
`OverviewFresh`: as long as nothing failed, each success leaves exactly the
summaries and the overview that belong to the corpus.

**Crawl.** `FindsEveryPage`: without failing fetches and below the limit the
result is exactly the set of reachable pages, defined as the least set closed
under links and redirects.

**Expert.** `MemoSpec`: the scope refines `EmbeddingMemo`. `WaitersHaveATask`:
a caller that waits has an unsettled task to wake it, which nobody cancelled
while the request is inside the scope, whatever became of the caller that
created it. `SettledBeforeLeaving`: a request whose retrievals ran to their end,
answered or failed, has no provider task left to cancel, even if one arm failed
long before the other. A cancellation and a graph node that fails beside the
retrieve node are left out: they do leave live tasks behind, and the `finally`
of the scope has to end them. `QuietAfterLeaving` covers every way out: after
the end nothing is sent any more, and nothing runs after the return. `EgressBudget`: over all stages and retrievals a text is sent
at most `2 * MaxAttempts` times and an oversized one never. The factor 2 is
needed: it is the retry that finding 5 describes. `RequestEnds` is liveness.

**Prompt graph.** `OwnCollection`: although a node may overwrite `bok_id`, the
store is asked for the event's body of knowledge only. `FreeRefusal`: a payload
that retrieves on an engine that cannot is refused before a model is called.
`NothingDropped`: what a `retrieve` or `echo` node returned is in the merged
state. `CeilingIsForCycles`: the recursion limit stops no acyclic graph that has
fewer nodes than the limit; at 50 nodes, which the parser accepts, a chain is as
long as the limit of 50. `RequestEnds`: every run ends, cyclic ones too.

**Space.** `PinnedToChecked`: the request of each hop goes to an address that the
check of the same hop allowed for the URL it asks for. `CredentialsStayHome`:
the token is only sent to the origin of the deployment. `BodyIsWhole`: what is
delivered is the whole decoded stream and within the limit, and an open type is
decided as the complete body would decide it. `WholeTreeRead`: a reading that
did not fail yields every content of the legible part of the tree once and at
its place, and only a tree without content leads to the clean-up. `ReadEnds` is
liveness.

**Guidance.** `EvidenceSound`: what the model is shown is within threshold,
width and budget, repeats no page, leaves a page out only when the width is
reached or the budget ends, and, where no re-ranker decides, prefers nothing
worse; fusion puts no passage before one that both arms rank at least as high.
`OnlyTheModelFails`: rewriting, routing and retrieval never cost the answer.

**Bounds.** Two slots are what an early ack can overlap within two deliveries;
two attempts have a first and a last one; one channel failure and one stop,
placed anywhere, reach every pair of fault and step; that a second fault adds
nothing to `QueryNeverLost` is proved. Bodies that are not JSON are left out of
the instance: they take the same single step as a message at its last attempt
(`reject`). Two documents with batches of one make two batches, so findings are
merged and other batches' documents exist; two pieces give documents below and
at the threshold. The second document takes three of the four piece sets, the
first all of them, which halves the time and keeps growth, shrinking,
replacement and removal. Consecutive runs are unlimited: every history of corpora is
covered. In `crawl` the limit of 4 is below the number of pages, so it binds.
In `expert` two texts are what the arms of a stage can ask for at once, and the
third is refused; a text may also be query and terms at the same time. Three
attempts have a first, a middle and a last one. Two retrievals let a later one
meet the vectors or the failure of an earlier one. Two cancellations are the
one that ends the request, or replaces the exception it unwinds with, and the
one that interrupts its clean-up. What holds
of the scope for more of all of these is proved. In `prompt_graph` three nodes
make the smallest graphs with a join of paths of different length and with a
cycle beside a parallel node; the limit of 4 is one above the longest acyclic
run. Two replies and None take a mapped route, the default and no route.
In `space` two redirects are a chain that leaves the deployment and comes back,
and one more is refused; the tree has two levels of subspaces listed before a
callout, so positions are restored on the way; a window of 3 units within a
limit of 4 and pieces of up to 2 put a cut at, before and behind each boundary.
What holds of the hops for more of all of these is proved. In `guidance` one
page has two passages, one is shared by both collections, one passage has no
page; the budget of 3 lets the largest block just fit or not. The weights are
equal and `RrfK` is 60 as configured, so ties between the arms happen.

**Fairness.** `Delivery` assumes weak fairness of each slot (plugin.handle is
bounded by pipeline_timeout, client operations return or raise), of the
broker's push, of the reconnect (connect_robust retries for ever) and of the
shutdown and restart. There is none for faults, which are bounded by
`FaultLimit` and `StopLimit`; liveness therefore says what happens once faults
stop. `Crawl` assumes that every fetch returns, since the guard has deadlines.
`IngestPipeline` needs none: its properties are safety properties. `FairSpec`
of `ExpertRetrieval` assumes that the event loop runs what is ready (a
cancellation that was requested is delivered, callbacks run, the clean-up goes
on) and that `asyncio.wait_for` around `handle` strikes while the request still
runs. It assumes nothing of the provider, the model and the store: a store call
runs in a thread without a timeout. In `PromptGraph` a call ends, at the latest
when the pipeline timeout cancels the request. `SpaceReader` assumes that each
await ends: the login has a timeout of 30 s, HTTP calls of 60 s, a resolution of
5 s, and every step the environment takes brings the reading closer to its end.
`Guidance` states safety only.
Deadlock is not checked where the system may stop: all messages settled, the
crawl over.

## 4. What is proved

| Theorem | Statement | Argument |
|---|---|---|
| `DeliveryProofs!TypeCorrect` | `Spec => []TypeOK` | inductive; lemmas on each helper |
| `DeliveryProofs!NeverLost` | `Spec => []QueryNeverLost` | by `IInv` |
| `DeliveryProofs!AtMostOneResult`, `ExecutionsBounded`, `RetriesAreSilent` | `Spec => []OneResult`, `Spec => []BoundedExecutions`, `Spec => []SilentRetries` | by `CInv` |
| `DeliveryProofs!NoSecondIngestion` | `Spec => []NoRedeliveryWhileIngesting` | by `CInv` |
| `IngestProofs!TypeCorrect` | `Spec => []TypeOK` | by `IInv` |
| `IngestProofs!NoOwnContentDeleted` | `Spec => OwnContentKept` | by `IInv` |
| `IngestProofs!RunsImplementSync` | `Spec => SyncSpec`, for one slot | step by step, by `SyncInv` |
| `IngestProofs!SummariesStayFresh`, `OverviewStaysFresh` | `Spec => []SummariesFresh`, `Spec => []OverviewFresh`, for one slot | by `FreshInv`, `SyncInv` and `IInv` |
| `CrawlProofs!TypeCorrect` | `Spec => []TypeOK` | inductive |
| `CrawlProofs!PagesUnique`, `CrawlBounded` | `Spec => []NoDuplicatePages`, `Spec => []StaysInBounds` | by `PagesInv` |
| `CrawlProofs!CrawlFindsAll` | `Spec => []FindsEveryPage` | by `CrawlInv` |
| `QueryEmbeddingsProofs!NoLostCaller` | `EmbeddingSpec => []WaitersHaveATask` | by `Inv` |
| `QueryEmbeddingsProofs!NothingDetached` | `EmbeddingSpec => []NoDetachedTask` | by `Inv` |
| `QueryEmbeddingsProofs!ScopeImplementsMemo` | `EmbeddingSpec => MemoSpec` | step by step, by `Inv` |
| `ExpertProofs!TypeCorrect` | `Spec => []TypeOK` | by `Inv` and `RequestInv` |
| `ExpertProofs!RequestUsesScope` | `Spec => EmbeddingSpec` | each step is a step of the scope or leaves it alone |
| `ExpertProofs!ArmsHaveATask`, `RequestImplementsMemo` | `Spec => []WaitersHaveATask`, `Spec => MemoSpec` | from RequestUsesScope |
| `ExpertProofs!NothingToCleanUp` | `Spec => []SettledBeforeLeaving` | by `RequestInv` |
| `ExpertProofs!EgressIsBounded`, `QuietOnceLeft` | `Spec => []EgressBudget`, `Spec => QuietAfterLeaving` | by `BudgetInv`, `RequestInv` and `Inv` |
| `PromptGraphProofs!AlwaysOwnCollection`, `RefusedForFree` | `Spec => []OwnCollection`, `Spec => []FreeRefusal` | by `Inv` of that module |
| `PromptGraphProofs!TypeCorrect` | `Spec => []TypeOK` | by `Inv` and `StepsInv` |
| `PromptGraphProofs!ReturnsAreMerged` | `Spec => NothingDropped` | by `Inv` and `StepsInv` |
| `PromptGraphProofs!OnlyCyclesAreCut` | `Spec => []CeilingIsForCycles` | by `StepsInv`, and a way that is longer than the graph |
| `SpaceProofs!RequestsArePinned`, `TokenStaysHome` | `Spec => []PinnedToChecked`, `Spec => []CredentialsStayHome` | by `HopInv` |
| `SpaceProofs!BodiesAreWhole` | `Spec => BodyIsWhole` | by `BodyInv` |
| `SpaceProofs!ReaderIsTyped`, `TreesAreRead` | `Spec => []TypeOK`, `Spec => []WholeTreeRead` | by `WalkInv` with `BodyInv` |
| `GuidanceProofs!TypeCorrect`, `EvidenceIsSound` | `Spec => []TypeOK`, `Spec => []EvidenceSound` | by `IInv` of that module |
| `GuidanceProofs!FailsOnlyByTheModel` | `Spec => []OnlyTheModelFails` | inductive, with TypeCorrect |

All hold for every value of the constants under the modules' ASSUMEs (message
kinds are disjoint, limits are naturals, corpora are functions to sets of
pieces, there are two arms): any number of messages, slots, faults, documents,
batches, overlapping runs, texts, attempts and retrievals. Three ASSUMEs say more
than a type. `Crawl!ConstantsOK`: there are finitely many URLs and the final
answer to a request is a page, so following redirects once is following them to
the end (the HTTP client does). `PromptGraph!GraphAssumption`: a payload has
finitely many nodes, and what it declares and the fields its models fill are
state keys. `SpaceReader!TreeAssumption`: an answer has the shape of its query
(section 2).

`NeverLost`. QueryNeverLost is not inductive: that a delivery may be settled
rests on what its callback did before. `IInv` adds `SettlingAnswered` (a slot
that holds the live delivery of a query and is about to ack or reject it has
left a copy in the queue, a result, or a refused error publication), `HeldJob`
and `SingleHeld` (the one unsettled delivery belongs to the slot that works on
it), `EarlyAckIngest` (only ingest events are acknowledged early) and
`RetryLeft` (a republished copy has a header the queue knows). Steps that
settle nothing only add to what answers a query (`GrowsKeeps`); reconnect,
crash and exit return it to the queue (`RequeueKeeps`).

`AtMostOneResult`, `ExecutionsBounded`, `RetriesAreSilent`, `NoSecondIngestion`.
`CInv` says that a message which was not redelivered and lacks no confirm has one
token (`OneToken`): a copy in the queue, or a slot that may still publish,
republish or run the plugin for it, never two. A delivery moves the token to a
slot, a retry moves it back with the next header, a result spends it
(`SpentByResult`), and the header it carries bounds the plugin runs so far
(`RunsCounted`). That ingest events never take the retry path (`KindOfPC`) and
that the broker keeps the event of a task only if the ack went down with the
channel (`AckedFirst`) gives the last theorem.

`NoOwnContentDeleted`. `IInv` says of each run that the orphans it collected,
in the batch and in total, are disjoint from the content of its corpus, that
removed documents are not among its documents, and that this still holds of
the documents the sweep has to visit. Change detection establishes it (an
orphan is an entry of the store that is not among the new ones of its
document), merging and the next batches preserve it, and only the two kinds of
delete remove anything (`WhatIsDeleted`).

`RunsImplementSync`. A run that reports success must leave exactly the content
of its corpus, although it looked at the store long before. `SyncInv` says what
is in the store while a run without errors goes on: the content of the batches
it finished; and beyond the content of its corpus only what it will delete, the
orphans collected so far, entries of documents it has still to read, and
entries of documents that are gone. When the deletions begin the whole content
is stored, and each of them takes its part off the excess. Every step then adds
content of the latest corpus, removes what is not content of it, or stutters.
The theorem assumes that there is one slot, so that runs follow one another;
overlapping runs do not implement `CorpusSync` (finding 2).

`SummariesStayFresh`, `OverviewStaysFresh`. A run summarizes only what it found
changed, so a summary is right only if it was right for what was stored before.
`FreshInv` says, while nothing failed: between runs content, summaries and
overview are those of the latest corpus (`AtRest`); during a run a document that
is still to be stored has the summary of what is stored of it, one that is
stored has its new one or is listed as stale, and one that is gone is listed as
removed (`SummaryInv`); the overview covers what is stored until a change is
found and the run's corpus after the overview step (`OverviewInv`). What change
detection found is tied to the store by `FoundInv`: a document that was read and
is not among the changed ones is stored as it is in the corpus, and orphans are
only found together with a change. It needs one slot, as above.

`PagesUnique`, `CrawlBounded`. The crawler compares a redirect's target with the
visited URLs, not with the results. `PagesInv` adds that the results are among
the visited, which makes that comparison enough. Both hold for every site, set
of links and redirects, limit and failure of a fetch.

`CrawlFindsAll`. The reachable pages are the least set closed under links and
redirects, so the result is compared with every closed set. `SoundInv`: whatever
set is closed has the result and the pages behind the queue in it. `CompleteInv`:
the page of each visited URL is in the result unless a fetch failed, every link
of the result that may be requested was visited or is queued, and a crawl that
returned has an empty queue or reached the limit. When it returns, the result is
itself closed. Which links a page adds (`NewLinks`) is written as a recursive
function over its positions; its lemmas are proved with the induction rule of
the naturals stated over sets of naturals, which needs no operator parameter.

`ScopeImplementsMemo` and `NoLostCaller`. `Inv` of `QueryEmbeddingsProofs` says
that a text's entry is a task exactly from its creation until it is settled
(`EntryIsTask`), that a caller waits for a text with such an entry
(`WaitsForEntry`), that only the end of the scope cancels tasks and that it
closes after all of them (`CancelledByScope`), and that a task which backs off
has an attempt left (`AttemptsLeft`). Without `EntryIsTask` a settled task could
evict the entry of its successor; with it every step of a task but `Settle` is
a stutter of the memo, and `Settle` concludes one question.

`NothingToCleanUp`. `RequestInv` adds that every provider task of a running
request has an arm waiting for it (`TasksHaveCallers`), that only an embedding
arm waits (`ArmsInStages`), and that the scope is open exactly as long as the
request has not left it (`ScopeFollowsStage`). When all arms of a stage have
ended no task can be left, and the request leaves the scope only then, unless
its retrieval was cut short by a cancellation or by a node beside it; then it
unwinds with that outcome (`Unwinding`) and nothing is said of its tasks until
the scope has ended them. It rests on `gather` awaiting both arms; the mutant
`FirstFailure` shows it.

`EgressIsBounded`, `QuietOnceLeft`. A text without an entry is asked for afresh,
with a ladder of its own, so the question is how often a text can lose its entry
within a request that goes on. `BudgetInv` says that a text which was sent and
has no entry has failed an arm of the present stage (`Failing`): a failure of the
dense arm ends the request, and one of the lexical arm is hidden only when the
dense store call failed as well, in the detail stage (`HiddenFailure`; the
routing stage has no lexical arm). The flat stage that follows asks for the same
terms again and is the last of its retrieval: if it fails, the request ends, and
if it does not, there are vectors for good. Before the flat stage one ladder may
have been spent on a text, from then on two (`Allowance`), and a task's own
attempts are counted on top (`Spent`). The second theorem needs that each task
that is alive when the scope is left is asked to cancel and posts nothing then.

`AlwaysOwnCollection`, `RefusedForFree`. `PromptGraphProofs!Inv` says that
nothing is called unless the payload was accepted (`CallsWhenAccepted`), that
queries are those of the event and of a payload that retrieves
(`QueriesOfEvent`), and that a node which ended leads to nodes of the payload or
to END (`LeadsToNodes`). The last is why the checks on names matter: without it
a run could reach a node about which nothing was checked. No assumption is made
about payloads, replies or the limit.

`ReturnsAreMerged`, `OnlyCyclesAreCut`. `StepsInv` says of each node's part in
the superstep where it leads and which fields it returned (`TaskInv`), and that a
node of the k-th superstep ends a way of k nodes along the edges (`Walk`). The
first theorem follows with the checks of `Compiles`. For the second, a run that
the limit cuts off has walked as many nodes as the limit, more than there are:
two positions of the way are the same node (the pigeonhole principle, from the
library's theorems on finite sets), and the nodes between them lead to one
another for ever.

`RequestsArePinned`, `TokenStaysHome`. Both speak of the moment of the request,
but the decision was made a step earlier. `HopInv` adds that between the check
and the request the decision is about the current target and allows its address,
and that a request with the token is one to the deployment. A redirect changes
the target and drops decision and request together; the mutant
`RedirectedUnchecked` keeps the decision and breaks it. `AllowedIsPermitted` is
the lemma about `check_destination`: whatever it allows, on any of its paths, is
an address that may be used. The theorems hold for any set of URLs, addresses,
trees and hops, and any chain of redirects.

`BodiesAreWhole`. `ReadInv` says of a body that is being read: what was sent is
what is kept, then what the decoder holds back, then what is still to be decoded,
of which one is empty; what is kept is within the limit; while the type is open
the sniffing buffer has all that is kept and is below the window, and afterwards
the type is decided. `Take` and `Drop` at the limit split the input without loss
(`TakeAndDrop`), and a signature that fits the window is decided by any part that
fills the window, which needs `SignatureLength <= SniffWindow`.

`TreesAreRead`, `ReaderIsTyped`. The property compares the documents with the
whole tree at the end of a walk that has seen only part of it until then.
`WalkInv` says of a walk on its way: each visit that is due has the position that
its node's place in the tree requires, however the walk came there, and no node
that is due is above another (`InPlace`); each document is final, of a legible
node the walk will not come to again, so that a later fetch cannot change what it
should say (`Emitted`); and each legible node is still to come, below a node that
is due, or what it says is in a document (`Covered`). The lemma about the tree is
`Advance`: replacing a node that is due by those below it that can be read keeps
the ways apart, brings nothing back, and loses only that node. It rests on the
way up from a node (`WayUp`, `ChildAbove`, `StepBelow`), which in two levels of
subspaces has at most four steps; `SpaceExpands` and `CalloutExpands` say that
what the code pushes are exactly those nodes, at their places (`ChildPlace`), and
`AppendUniqueFacts` that the de-duplication loses no content. For the types,
`GuardStepTyped` does the same for the steps of a fetch. The theorems hold for any
tree of the assumed shape, any texts, and any outcome of each link.

`EvidenceIsSound`. The invariant is short: what an arm found is a sequence of
passages of its collection, none twice (`ArmInv`), and once retrieval is over the
evidence was gathered from what the arms hold (`GatherInv`). That whatever is
gathered is sound is the work, in five parts. `InOrderSorts`: sorting by a total
order enumerates the set in that order, since the number of smaller elements
tells any two apart. `PrecedesIsTotal`: the merge order is total on the pool,
because entries that the sort key cannot tell apart have different places in
`ranked`, and an id belongs to one collection, which ranks it once. `CandidatesChoose`:
threshold, de-duplication and cut leave a subsequence in which every usable
entry is itself chosen, or its page was by an earlier one, or the width was used
up before it. `BudgetCuts`: the budget leaves the longest front that fits, from
the recurrence of the running sums (`SizesAdd`). `FuseFacts`: a share falls with
the rank (`ShareFalls`), so an id that both arms rank at least as high has at
least the score, and equal scores are decided by the ranks. Completeness then
takes the first chosen entry that did not fit, and the best entry of a page is
the first of it. The theorem assumes of the constants that collections are named
once, passages are finitely many and sized, and `weights`, `k` and the widths are
positive. With a re-ranker it holds for every order of the pool.

`FailsOnlyByTheModel` needs no more than the steps: `Gather` always goes on.

Only model-checked: the liveness properties (`EverySettled`, `EveryQueryAnswered`,
`Terminates`, `RequestEnds`, `ReadEnds`), which are out of the prover's reach. Every safety and action property of the passing
runs is proved. Of a recursive function (`NewLinks`, `Kept`, the running sums of
`Sizes`, the products of `CommonDenominator`) only what these proofs need is shown,
by induction on a set of numbers.

## 5. Where code and documents disagree

Each is a counterexample of a run and an entry of "findings".

1. `delivery_shutdown`: specs/015 has in-flight pipelines awaited or cancelled.
   Deliveries continue during the shutdown, and their tasks are neither.
2. `ingest_overlap`: specs/006 takes ingestion to be serialized by prefetch 1,
   which the early ack of specs/015 ended.
3. `ingest_summary`: specs/013 takes unchanged documents to have consistent
   summaries; after a summary that failed or covers only a part they have not.
4. `crawl_unreachable`: the crawler's docstring has DNS failures raise
   CrawlError; they return an empty list, which wipes the collection.
5. `expert_fallback`: the repository's README has embedding failures never use
   the flat fallback or redelivery. When the dense store call fails as well,
   `retrieve` raises that error and drops the embedding failure.

Seen while modelling, without a run of their own:

- The comment at `main.py:749` says that a failed ack cannot re-execute a
  request. The broker redelivers it; the repository's README concedes that.
- specs/013 SC-002 has the overview deleted with the last document; the pipeline
  for an empty corpus (`Start` with no documents) does not contain that step.
- The guidance plugin keeps the first passage of a page. In rank order, with
  hybrid retrieval or a re-ranker, that is not always the highest-scoring one,
  as the comment at `plugins/guidance/plugin.py:400` has it; `EvidenceBest`
  states "best passage" for the dense order only.
- `_parse_json_sources` returns fenced JSON that is no object as it is, and an
  object whose `answer` is no text does not fit `Response`: in both cases the
  request fails after the model answered (`Answer` with `otherJson`).

## 6. Assumptions of the models

- A store call that is under way when its run is cut off takes effect before
  the cut or not at all. The code runs it in a thread that is not cancelled, so
  it may also take effect later (hazard at `chromadb.py:336`).
- The section of a document in the overview is any part of it; the code takes
  all of its summary or of its chunks, or nothing, and groups of documents
  together. No property looks at the overview after a failure.
- Document ids are unique within a corpus (`NoDuplicatePages` shows it for
  websites; for spaces they are platform ids), and none ends in the suffix of a summary's id.
- `summarize_enabled` is on. Without it the pipeline is the same without the
  summary and overview steps.
- A site does not change during one crawl.
- Reranking and formatting are pure text functions and do not raise. Nothing
  catches an exception of theirs for its own sake: in the expert's detail stage
  it would lead to the flat stage as a store error does, in its flat stage it
  would fail the request, and in the guidance plugin, where the pool is
  re-ranked outside the collections' error handling, it would fail the request
  too. An error of branch selection is one of the routing query.
- `gather` starts both arms and neither awaits before it asks for its vector, so
  they ask in the same turn of the event loop. LangGraph cancels the other nodes
  of a superstep when one of them raises, as asyncio cancels what a cancelled
  task awaits; both reach the arms in one step.
- Posts, whiteboards and links of a space always have an id. Spaces and callouts
  may lack one, which the reader handles; for a contribution it reads `["id"]`.
- The scope is a context variable and requests run in tasks of their own, so
  one request stands for all. A store without a scope is not modelled: the
  configured one has it.
- In `PromptGraph` all `retrieve` nodes of a payload share their templates and
  output field, all `echo` nodes their source and all structured LLM nodes their
  output schema. A conversion of a state to the declared types does not fail.
- The graph state and the model may return any text; texts are compared as the
  cache key compares them. The terms of the lexical arm are another text or the
  query itself, oversized or not, since case folding may lengthen them.

## 7. Not modelled

- Configuration, wiring and the plugin registry: executed once, sequentially, at
  the start; no state survives a failure of it.
- The LLM adapter and the embedding adapters' HTTP formats: a call is an answer
  or an exception with bounded retries, which is how the other modules see it.
- The polling loop of the OpenAI assistant plugin (`partly`): its runs, threads
  and statuses live in a remote service of which the code states no protocol.
- The text rules of question classification and query complexity, term
  extraction, the words the re-ranker scores, chunk splitting, HTML and file
  extraction: pure text functions whose outcome is a choice in the models.
- Branch selection of the hierarchical retrieval and its rendering: a choice
  between a scope and none in `ExpertRetrieval`.
- The expert's special node in a prompt graph: in `ExpertRetrieval` a graph is
  any sequence of retrievals, which includes what the node does.
- The late effect of a store call whose run was cut off (see section 6).
- TLS, the compression formats and the list of denied networks of the URL guard.
  A compressed body that ends early is taken as whole by the decoder's flush; in
  the model the stream is what arrived.
- Health server, tracing and logging: observability without influence on the
  state. The evaluation framework: an offline tool.
