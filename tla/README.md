# TLA+ models of AI-Augmented-Generation

The repository combines three ways of giving a language model its context:
CAG (text pre-loaded into a KV cache), MAG (facts remembered per user) and RAG
(retrieval from an indexed corpus). The parts that are hard to test are where
the three meet: several coroutines, worker threads and stores that hold copies
of one text, tiers that race against timeouts, commands that share rows, requests
that share counters and tokens. This directory models those parts and the
algorithms they call, checks them with TLC and proves, with TLAPS, the safety properties of
every part that has steps of its own.

Paths below are relative to the repository's `src/` package directory unless
they start with `docs/`.

## 1. Inventory

| Component | State | Operations | What is hard |
|---|---|---|---|
| Freshness router (`orchestration/application/{ingest_data_source,refresh_cached_sources,review_source_freshness}.py`, `domain/freshness_router.py`) | none of its own: locals of running use cases | ingest a delivered version, refresh cached copies, review routes | three use cases over one source, each with several awaits; every one works on a row it read earlier |
| Data source registry (`orchestration/infrastructure/postgres_data_source_repository.py`) | `data_sources` row (route, interval, hash, times, `cached_until`, pending marker), `data_source_versions` | get, save, mark_pending, record_cached_until, migrate, listings | conditional writes; the pending marker is the only record of a half-applied change |
| Expiring frozen cache and memo (`expiring_frozen_cache.py`, `cache_warmed_retrieve.py`, `hf_frozen_cache.py`) | entry, expiry, warmed memo; memory only | preload_until, renew, lookup, evict, contains, note_warmed, forget | lookups run on worker threads, between the two halves of a pre-load |
| RAG index of a source (`chunked_rag_index.py`) | Postgres rows, Qdrant points | replace | two stores, no common transaction |
| Latency cascade (`latency_cascade.py`, `cascade_tiers.py`) | running attempts and tier tasks, `_background`, `_cancelled` | run in three modes, drain | timeouts that race results, cancellation, work nobody awaits, done callbacks that come late |
| Paradigm router, budget allocator, context assembly | none: pure functions | decide, allocate, assemble | rounding and redistribution at the limits |
| Unified answering and sessions (`unified_answer_question.py`, `answer_in_session.py`) | session budget row, a database session per search | execute | a request cancelled half-way, ownership read before the work |
| Tiering and sync cycles (`*tiering_policy.py`, `*sync_cycle.py`, `warm_cache.py`, `sync_mixer.py`) | access counters, frozen copies, warm rows and points | evaluate, execute, run | a decision on a counter or a content that has moved on |
| MAG memory lifecycle (`mag/application/commands/*`) | facts, history, episodes, procedures in Postgres; copies in Qdrant and Neo4j | record, update, refine, invalidate, archive, evolve, capture, consolidate | three stores and one transaction; snapshots read before the lock |
| MAG retrieval (`mag/application/{queries,gating}`) | working memory list | queries, gating, spreading activation | negative and missing scores, replies that do not parse |
| CAG allocators (`cag/infrastructure/{paged,contiguous}_allocator.py`) | free blocks, block tables, reference counts, regions | allocate, extend, fork, free | copy-on-write, exhaustion half-way, relocation |
| CAG engines | tensors, simulated costs | decoding, eviction, batching, offloading, quantisation | off-by-one, rounding |
| RAG pipeline | documents, chunks, points, embedding cache | upload, chunk, search, rerank, compress | cut before or after a ranking, two stores |
| Identity (`identity/*`) | refresh tokens, counters in Redis | register, login, refresh, logout, rate check | rotation by read, delete, write |
| Ingestion workers (`workers/*`) | Celery task and result, ownership key, engine and driver | dispatch, status, run | two systems, no common transaction, two expiries |
| HTTP API (`api/*`) | none of its own | every route | concurrent requests, failing calls |
| Evaluation harness | none of its own | | offline measurement |

Interactions: the API dispatches an ingestion job to a worker, which runs
`IngestDataSource`; that writes the registry, the RAG index, a MAG fact or the
cache. Refresh and review are batch jobs on the registry and the cache. A
question goes through the paradigm router to the cascade, whose CAG tier reads
the frozen cache from a worker thread, whose MAG tier reads the user's facts and
whose RAG tier reads the index; what they found is cut to the budget and
assembled. Tiering moves documents between RAG, a user's MAG facts and the frozen
cache. `PROJECT.json` lists the hazards at their lines.

## 2. Plan

Done, in this order:

| Module | Run | What |
|---|---|---|
| `FreshnessRouter` | `freshness_*` | the router, its registry, RAG index and cache; proofs |
| `LatencyCascade` | `cascade_tiers` | runs, tiers, background completion, drain |
| `MemoryLifecycle` | `memory_*` | the MAG commands, their transactions and stores |
| `PagedAllocator`, `ContiguousAllocator`, composed in `KVAllocators`; abstract `KVCachePort` | `kv_allocators` | both allocators and the port they implement |
| `RateLimiter`, `RefreshTokens`, `IngestionJobs`, `DocumentUploads`, composed in `Api` | `api` | the routes and the components behind them |
| `Tiering` | `tiering` | hot and warm tiers and their sync cycles |
| `RequestIntake`, `Answering`, `RagRetrieval`, `Chunking`, `MemoryRetrieval`, `EmbeddingCache`, `CacheEngines`, composed in `Pipelines` | `pipelines` | answering, and the algorithms that are called on the way |

`ApiBase`, `KVSequences` and `Ranking` hold what several modules share; `MC*`
modules hold instances.

Proofs (section 10): `FreshnessRouterProofs` and `FreshnessCopiesProofs`, which builds on it,
`LatencyCascadeProofs`, `KVAllocatorsProofs`, `ApiProofs`, `MemoryLifecycleProofs`,
`TieringProofs`, `PipelinesProofs`. Each extends the module it is about.

Not done: `CachedCopyIsCurrent` and `ExpiryAnchored` under weaker assumptions on the review,
and theorems about the one-call algorithms of `Pipelines`, which sort and fold sequences.

## 3. FreshnessRouter

One data source. Sources do not interact: every store keys by source id, and a
use case that loops over a listing is, for each source, one that may pause
between the listing and its next step.

State and code:

- `registry`, `versions`: the two tables. A text stands for its own hash.
- `ragRows`, `points`: what Postgres and Qdrant hold for the document. Points
  carry the ingester that wrote them, since `replace` gives each call chunk ids
  of its own and prunes all others.
- `fact`: the MAG fact of a user-scoped source.
- `entry`, `expiry`, `warmed`: the frozen copy, `ExpiringFrozenCache._expiry`
  and the memo `CacheWarmedRetrieve` matches against.
- `ing`, `ref`, `rev`: program counter and locals of each running use case.
- `ghost`: when the feed last delivered each text and which intervals the row has
  had. Properties read it; no action does.

One action is one awaited store call (a transaction of its own) or one stretch of
code between two awaits that touches the in-memory cache. `preload_until` is two
actions: it blocks the event loop (`LoopFree` keeps every coroutine still) but not
the worker threads, so `Lookup` and the clock may come in between. Any store call
may raise (`IngestRaise`, `RefreshRaise`, `ReviewRaise`), and the process may die
(`Crash`), which empties the cache and the memo and nothing else.

Abstractions: time counts in seconds, so `_MIN_INTERVAL` is 1 and a mean gap is
rounded down (the code keeps microseconds; the comparison with the boundary is
made on the version times, as in the code, and not on the rounded mean). Chunking and
embedding are left out. `execute`'s `ScopeMismatch` and the checks on
`route_policy` raise before anything is written, and `permit_user_scope_outside_mag`
is a measurement seam: not modelled. The Celery worker of this repository is built
with a `NullFrozenCache`; the cache interleavings concern a process that hosts the
use cases and the cache together, as the router's design and its tests do.

Bounds: `MaxClock`, `MaxVersions` (how many versions the feed delivers),
`MaxFaults` (calls that raise and crashes). They cap what the environment does,
never what the code does. Three versions over two texts give a change, a revert
and a change; one fault is enough for each half-way state; and the clock is long
enough for a TTL to end (runs `freshness_cache`, `freshness_ttl_lost`) or for a
demotion followed by a promotion (`freshness_review`).

### Runs

| Run | Instance | Shows |
|---|---|---|
| `freshness_cache` | one ingester, one refresher, cached source, failing ingestion, a crash | `CachedCopyIsCurrent`, `ExpiryAnchored`; under fairness `PendingIsResolved`, `StaleCopyGoes` |
| `freshness_review` | one of each use case, both scopes, two intervals, four clock steps, every kind of fault, no expiry | `TypeOK`, `PendingCoversDivergence`, `UserTextStaysInMag`, `RouteMatchesInterval` |
| `freshness_ttl_lost` | violation of `TtlBoundsStaleness` | see below |
| `freshness_promotion_race` | violation of `CachedCopyIsCurrent` with a reviewer | see below |
| `freshness_two_ingestions` | violation of `StoresAgreeAtRest` with a second ingester | see below |

`freshness_review` runs with `ttl_factor = None`, the policy without expiry, which
none of its properties depends on and which the other runs do not cover; its two
intervals lie on either side of `VolatileBelow`, and four clock steps are what a
promotion after a demotion takes. Texts are symmetric in the safety runs; the run
with liveness uses no symmetry.

Fairness (`freshness_cache`): a coroutine that can move moves, because the event
loop runs what is ready; and the feed keeps delivering, which is the router's
premise (a pending change is re-applied by "the next ingestion"). Nothing is
assumed of refresh or review starting.

### Disagreements found

- **A TTL that gets lost** (`freshness_ttl_lost`). `preload_until` records the
  expiry first so that a concurrent check sees "the entry being written". If the
  pre-load outlasts the TTL, a lookup meets an expiry that is due, deletes it and
  evicts; the pre-load then writes a copy with no expiry, which is served until
  something evicts it.
- **A promotion that overtakes an ingestion** (`freshness_promotion_race`). The
  ingestion read the source as `RAG_ONLY`; before it marks its change a review
  promotes the source and a refresh pre-loads and records the old text. The
  ingestion then applies the route it read and does not evict. Later
  confirmations renew the stale copy, because `renew` compares no hash.
- **Two ingestions, one marker** (`freshness_two_ingestions`). Nothing keeps two
  worker tasks from ingesting one source at a time. The save of the one clears the
  marker that stands for the effects of both, the text saved last need not be the one
  written to RAG last, and each prunes the points of the other. Both end well, nothing
  is pending, and RAG holds another text than the row names, against "A change stays
  pending until every effect of it has landed".

Met while modelling and not given a run: a refresh that listed a source before its
demotion pre-loads and records it after the demotion's eviction (the copy is
current, and expires); a `record_cached_until` that raises leaves its copy behind.
All are in the hazards.

## 4. LatencyCascade

Every action is a stretch of a coroutine between two awaits, or a callback of the
event loop. `run` is a `run()` call, `attempt` its `_attempt` coroutines, `task`
the tier's own task behind `asyncio.shield`, `finish` the background completion,
`background` and `cancelled` the two sets, which lose their members only when the
done callback has run. A tier may take any time, so a timeout may fire at any
moment, also when the tier has just finished and `wait_for` has not seen it yet.
Scores, items and elapsed times are left out; `recorded` and `sunk` count what
happens to a RAG hit.

`wait_for` is Python 3.11's: a result that is there when a cancellation arrives
wins, so a cancelled caller may still see an attempt return. (The class comment
says "a CancelledError always propagates".)

| Run | Instance | Shows |
|---|---|---|
| `cascade_tiers` | one run over MAG and RAG, all modes and routes, a caller that cancels, tiers that hang, fail or raise `CancelledError` | `NoOrphanTier`, `LateFindingIsNew`, `DrainCoversSettledRuns`; under fairness `RunsEnd`: every run and every drain ends |

Two tiers are enough: one that can go on in the background and one that cannot,
hence every pair of fates of two siblings. CAG differs from MAG in nothing the
cascade sees but its place in the order. Runs meet each other only in
`max_background`.

Fairness: the loop runs what is ready and its timers fire; a cancelled tier ends
its cleanup and the sink returns. Nothing makes a tier end by itself. That the
sink returns is an assumption on `on_rag_findings`, which the code awaits without
a timeout (see the hazards).

**drain() can return early.** When a tier of a parallel route
raises `CancelledError`, `_run_parallel` cancels the sibling attempts and raises
at once; until each of them has resumed and run its `except` clause, its tier is
in neither set, and a `drain()` called in that moment finds both empty.
`DrainCoversSettledRuns` is what holds: after a run whose attempts have all ended,
which is every run that answered and every run its caller cancelled.

Deadlock checking is off in these runs and in `memory_*`, `kv_allocators`, `api` and
`pipelines`: a finished instance (no more deliveries, requests or calls within the
bounds) has nothing left to do. `tiering` checks deadlock, and has none: sync cycles can
always run.

## 5. MemoryLifecycle

The MAG commands of one user. A command runs in a Postgres transaction that its caller
commits (the repositories flush), and one action is one awaited call. `facts`,
`history`, `episodes` and `procedures` are what is committed, `pend` what a command has
flushed and nobody else sees. `points`, `nodes` and their episode counterparts are Qdrant
and Neo4j, written at once and never rolled back. Row locks are those Postgres takes: the
upsert of a fact the full one, its status update the one without the key, the history
row a share on the fact it references. A cycle of waits is ended by aborting one
transaction (`DeadlockAbort`).

An answer of the language model is any value of its type: which facts a consolidation
finds and how `EvolveMemory` classifies is arbitrary. Embeddings, confidence and wording
are left out; a timestamp is set or not. `Raise` fails a call and rolls back, `SkipWrite`
is a best-effort write that failed and was swallowed. `spoiled` (history) remembers which
copies such a failure may have left behind; only properties read it. The awaited calls of
a command are a table (`Program`), and `After` is the next of them.

| Run | Instance | Shows |
|---|---|---|
| `memory_commands` | two commands at a time, three in all, two keys, all ten commands, one fault | `StoresAgree`, `FollowsOlderCommitted`, `UncontendedWriteLosesNothing`; under fairness `CommandsEnd` |
| `memory_status` | one key, no faults | violation of `StatusSurvivesContent` |

Three commands give a fact, and two that overlap on it; two keys are the least for a
deadlock of consolidations. Fairness: a coroutine that can go on does, a lock wait ends
when the lock is free, Postgres looks for deadlocks.

**A status undone by an update** (`memory_status`). `UpdateMemory` writes the status it
read at its start with the new content, so that "updating one must not silently clear the
other". An invalidation or archiving that commits between the read and the write is
overwritten. `RefineMemory` and `ConsolidateEpisodes` do the same, and of two overlapping
updates the value of the first is lost to the history.
`UncontendedWriteLosesNothing` is what holds: nothing is lost unless another command
has committed the fact since it was read.

## 6. KV allocators

`PagedAllocator` and `ContiguousAllocator` translate the two classes method by method;
`KVAllocators` puts either behind the one interface (`kind`), and `KVCachePort` is the
abstract specification: how many tokens each sequence holds, and that a refused call
changes that of nobody. `ImplementsPort` is the refinement, with the token counts of the
one and the lengths of the regions of the other as `held`. The interesting step is the
paged `extend` that has already replaced the shared block when it finds no further one:
it answers False with another table, and is a stutter of `held`.

The free list is a set (which free block is taken is a choice), a reference count of 0 an
absent entry. `_find_run` walks the sorted regions with a cursor, the maximum of the ends
passed so far, and returns the first cursor with room before the next region. `Scan` says
that without the loop: `Cursor(Passed(r, ..))` is the cursor in front of region `r`, `Runs`
are the cursors with room, and since the cursor never moves down the first of them is the
least. Calls on unknown or already known sequences raise before any change and
are no steps.

`kv_allocators`: three sequences, four blocks of two tokens, seven slots, requests of up to
three tokens. That is enough for two generations of forks, for exhaustion in each of
`extend`'s two places and for a relocation that overlaps its old region. Blocks and
sequence ids are symmetric; the refinement is a safety property, for which that is sound.
`ScansExact` checks `_find_run` and the free runs against a plain definition: the lowest
start that fits, and the sum of all slots.

## 7. Api

Requests served concurrently, each a sequence of awaited calls (`Program`) on the
components, which are modules of their own. `Request`, `Token`, `Job`, `Owner` and
`Document` are the sets of their records, and the assumptions say of each that `None` is
not one of them. The argument of a login is whose password it gives:

- `RateLimiter`: INCR, EXPIRE NX, TTL as the one transaction the code sends; a route may
  check two limits, and the headers of its answer name one of them.
- `RefreshTokens`: the keys of Redis. `chain` (history) is the login a token descends
  from.
- `IngestionJobs`: the task, its result, the ownership key with its own expiry, and the
  engine and driver the worker opens.
- `DocumentUploads`: file, rows and points of an upload. `UploadDocumentWithParents` is
  wired to no route; it is served here as one of its own.

A call may fail at any place: the request ends with 500 and its transaction is rolled
back, what was written elsewhere stays. `suite` names the routes and users of a
behaviour: routes that share no state are not interleaved with one another. Up to two
requests are served at the same time, up to three in all, which is one that spoils
and two that race; the clock passes the end of a window and of a token.

| Property of `api` | Says |
|---|---|
| `TokensRotate` | a refresh that came in with a dead token is refused; one login has one live token, and none after logout. Requests that overlap on one token are the exception the code leaves open (it reads, then deletes), by one token each |
| `LimitsHonest` | no window lets through more than its limit; whoever is refused was let through often enough within a window; the headers are those of the limit that decided. The run is too small for the global limit to refuse anybody: for that the proof stands alone |
| `OwnersOnly` | answers and budgets only in the caller's session; a job is visible to its tenant and nobody else while its record lives |
| `ReportsHold` | a reported result is not taken back while the record lives; a task that ended before its ownership record was written is the exception, since its result may expire first |
| `WorkerReleases` | a finished job leaves nothing open, whichever of its steps failed, but for the unguarded ones: clients or a driver that cannot be built (before the `try`) leave the engine, `graph.close()` that raises leaves both, `engine.dispose()` that raises the engine |
| `UploadsWholeOrAbsent` | a document is there with file, rows, points and the right count, or not at all |
| `Ends` | everything comes to rest, again and again |

Fairness: awaited calls return or raise, and a worker takes the tasks sent to it.

## 8. Tiering

Access counters (`events`; `log` is their full history; an access is its time and its number
among those of its key, so that a set of them is the code's list), the frozen cache
(`cache`), the warm rows and points of each user and the sync cycles. The trackers and the
cache are dictionaries whose callers do not await, so `Evaluate`, `WarmCache`, `SyncRun` and
the CAG/MAG pair are atomic. The warm store is Postgres and Qdrant:
`MagTieringPolicy.evaluate` and `MagSyncCycle.run` are coroutines, one action per call, that
interleave and may fail.

`tiering` runs three suites: hot alone, warm with two evaluators of one document and a
fault, warm and hot copies of two users' memories. `CountsDecide`: pruning loses no
access that any window can ask for, and warming takes the most accessed documents.
`CopiesFaithful`: what came from a user's memory is under that user's key in the shared
cache, and a point is that of the row whenever no promotion is under way (a promotion
rolled back after its upsert is the exception). `StaleCopiesGo`: no tier serves a
superseded text for ever, promotions that read it before the change and land after it
included.

Fairness: calls return, and somebody drives every sync cycle again and again, which is
the premise of the cycles; for the warm tier that is strong fairness per user, since one
cycle at a time runs and cycles of other users come in between.

## 9. Pipelines

What happens inside the process that answers a question. Three parts have steps of their
own: `Answering` (classification, budget, tiers, assembly, recording, generation, and the
search of the facts in a database session that has to be given back although the request is
cancelled, any number of times), `EmbeddingCache` (threads that embed, with the inner model called
outside the lock) and the rounds of speculative decoding (`Decode`). The rest is algorithms:
operators over sequences of small records, with scores as integers and rational scores
compared by cross-multiplication. `job` is the call, `output` its result; `MCPipelines`
lists for each kind the inputs that are tried, all of them, up to three or four elements
with two or three values each. Ties, empty lists, missing scores, negative scores and limits
at, below and above the length are among them.

The properties say what the algorithm is for, not how it computes it, and come as
conjunctions of named parts:

| Property | Parts |
|---|---|
| `RequestsTakenRight` | no body over the limit reaches a route and none within it is refused; the client address is one the sender could not make up |
| `AnswersFit` | a paradigm near the threshold is tried; slices add up to the budget and the context fits; what was dropped did not fit; the budget is on record before the model is asked |
| `SessionsEnd` | the database session of a fact search is closed, whatever cancellations come (fairness: the event loop goes on with the search and with the discard it shields) |
| `HoldsMostRecent` | the embedding cache holds the `max_entries` most recently used texts and no others, however threads overlap |
| `RetrievalSound` | search finds the best of the caller's own and valid items; fusion keeps what all lists agree on; parents once; the corrective retriever does not throw away its retry; rerankers see all candidates; compression reads in order and fits; a stale warmed document hides no held one; a closer exemplar never lowers its paradigms |
| `TextKeptWhole` | windows and the children cut from each parent leave no character out, and leave it whole if it takes at most one token more than the overlap; sentences are packed tightly; code blocks stay whole |
| `MemoriesRanked` | one whole valid reply or none; an episode better in every respect (time, salience, similarity, cause, entity) is ranked before, whatever the weights; age never helps; working memory remembers the last turns; activation is by distance (compared with a search level by level) |
| `EnginesExact` | speculative decoding, round by round and whoever proposes the candidates, says what greedy decoding says (`DecodesGreedily`); eviction keeps budget, recent window and the most attended; batches share whole blocks; sharing never costs more; overlapped times add up; quantised values are off by at most half a step; quantiles keep the order; a conversation stays within its budget |

The calls of a chat model, an encoder or a search backend are inputs: any reply, any
score. A reply that does not parse is tried again up to `MaxAttempts`, as in the code. A
call that raises `ValueError` comes to `ValueError`, and the properties speak of calls that
return; parameters a constructor checks (a pooling kernel, a recent window) are legal ones.

Chunks are made of characters, not tokens: decoding a window that holds only some tokens of
a character gives U+FFFD, however many of them, and a decoded parent is encoded again with
widths of its own. A token that spans the end of one character and the start of the next is
not modelled. `FetchMultiplier` and `MinFetchK` are set to 1 and 2, below the sessions that
are tried, so that the lists the fusion works on are cut short.

Met while modelling: a heading that is alone in an oversized section is lost with its
empty body; `Entity` and `Concept` nodes of one name share an identifier, so that one of
them hides the other in the activation map; a request body cut off by a disconnect is
handed to the route as if it were complete. A character of several tokens that a window edge
cuts is whole in no chunk if the overlap is too narrow for it, and with an overlap of 0
never. When a chat model's replies cannot be read, the causal
strategy returns the oldest episodes with a score of zero, which the fusion normalises to
the best: in a session of more episodes than it fetches, an old one can then outrank a newer
one that is better in every respect.

## 10. Proofs

Everything here holds for all values of the constants that satisfy the assumptions of the
modules: lengths and bounds are naturals (and not 0 where the constructors of the code
refuse it), sets that the code keeps in memory are finite, and `None` is none of the values
it stands beside. In each module an inductive invariant is proved of the initial states and
of every action, one lemma per action, and the properties follow from it. The runs
check the properties themselves; the inductive invariants strengthen them.

**Freshness router** (assumptions `ConstantsAssumption`, which `FreshnessPolicy` and
`DataSourceProfile` validate, `TextsAssumption`, `NoneAssumption`).

- `FreshnessRouterProofs`: `TypeCorrect`. `TypeOK` is inductive as it stands. Its
  substance is arithmetic: the interval a demotion or promotion stores is positive.
- In the same module `UserTextProtected` and `RouteAgreesWithInterval`. A
  user's source is on the MAG route in the row and in every local copy of it, so no
  process of it ever reaches the states that write RAG or the cache. For the route
  the invariant carries the decision a review holds: a demotion's interval is below
  the boundary because all its versions lie strictly inside the window, a
  promotion's is not. A boundary of one second would not do, since the floor of the
  interval is one second: the theorem assumes `VolatileBelow > 1`.
- `FreshnessCopiesProofs`: `MarkerCoversDivergence`, for one ingestion at a time. `MarkerInv` says what the stores hold at each point of an
  ingestion: behind the point they hold the new text, before it what the row says,
  and for an existing row the marker is set throughout. With two ingestions at a
  time it fails (`freshness_two_ingestions`).
- In the same module `CacheStaysCurrent`, for one ingestion at a time, no
  review and a `record_cached_until` that does not raise. The argument: while
  nothing is pending the route is what the ingestion read; a change evicts before it
  saves; a copy written after that eviction is one whose refresh will be refused,
  because the marker is still set. `freshness_promotion_race` shows that a review
  breaks it.
- Under the same assumptions `ExpiriesStayAnchored`. Three facts carry
  it. `DeliveriesKnown`: the row, an ingestion and a refresh's listing all name times at which
  their text had been delivered, and agree on the interval. `PreloadAlone`: between the two
  halves of a pre-load nobody else sets the expiry. `AnchoredOrHeld`, the strengthening the
  proof needs: a confirmation may renew a live copy of another text, so the bound itself is
  not inductive; but such a copy is held by a refresh whose write will be refused, and no
  ingestion is about to make its text the current one.

**Latency cascade** (`LatencyCascadeProofs`; any finite set of requests, any tiers that
include RAG, any `max_background`): `CascadeTypes`, `NoTierOrphaned`, `LateFindingsNew`,
`DrainCovers`. `CascadeInv` adds to the types and to `NoOrphanTier` what an attempt's state
says of its tier (none before its first step, an outcome exactly when it has returned), that
a background completion belongs to a RAG attempt that timed out and holds its slot, and who
has counted the access at which stage. `DrainCovers` is an action property: it is the step
that ends a drain, judged by the invariant of the state before.

**Allocators** (`KVAllocatorsProofs`; any pool, block size and finite set of sequences):

- `BlocksStayAccountedFor` and `SharedBlocksStayAgreed` from `PagedInv`: the counts are
  cardinalities of the sets of tables that hold a block, a table is injective and as long as
  its tokens need, shared blocks have one place and are filled alike. `extend` is the
  interesting case: it may replace the last block and still be refused.
- `RegionsStayDisjoint` from `ContiguousInv`, with the lemma that a run `_find_run` returns
  meets no region, and `ScanIsFirstFit`: it returns the lowest such run, and none only if
  there is none. That the scan's cursor stands behind every region it has passed is proved
  from the maximum it is defined by, not by induction over the sorted list.
- `ScansStayExact`: besides, the free runs and the regions add up to the pool, and the free
  and referenced blocks too. A sum of lengths is the number of pairs of a run and an offset
  in it (`Summed`), so that no induction is needed: for disjoint intervals those pairs are in
  bijection with the slots covered, and the gaps the scan reports are free, apart from one
  another and contain every free slot (`GapsAreFree`, `GapsApart`, `FreeIsInGap`).
- `AllocatorsImplementPort`: `Spec => ImplementsPort`, each call mapped to the port's step of
  the same name or, when refused, to a stutter.

**API** (`ApiProofs`; any number of users, requests, chunks and suites). `ApiInv` has one
part per component, each an induction over the steps of a request, which `Forms` reduces to
a few shapes (it moves on, it ends, it fails).

- `SessionsAndJobsStayOwned`: a request behind its ownership check works in a session that
  exists and is its caller's; a job's record is written once, by the request that sent it.
- `WorkersRelease`: what is open, by how far the worker is.
- `UploadsStayWhole`: the document is exactly as far as its upload, or rolled back.
- `ReportsStayTrue`: an action property; a reported result belongs to a finished task.
- `TokensStayRotated`. Tokens are issued once and dead ones stay dead, so that a request with
  a dead one never gets past its lookup. That a login has one live token needs `ChainsInv`:
  the tokens of a login that are not deleted, and the refreshes that have deleted one and not
  yet saved the next, are at most one more than the deletes that came too late, which is the
  race the code leaves open; and a logout ends the chain.
- `LimitsStayHonest`. `LimitsInv`: what a window has let through is its count, or its limit
  if the count is beyond it, and it was let through within the window. It assumes windows
  and limits of at least one, which the constants of the code are (60 and 3600 seconds).

**Memory commands** (`MemoryLifecycleProofs`; any number of concurrent commands, facts,
values, faults and any batch size):

- `StoresStayInStep`. The invariant ties three things together: a command has flushed a row
  exactly while it holds the lock that keeps other writers out (`LocksFit`, hence no two
  commands have flushed the same row); at each step of its program it knows what it has
  copied so far (`CopiesFit`: the copies are those of the row, or of the row about to be
  committed); and it never flushes a row twice, so that the index is written from the row
  that is pending (`WritesFit`). A commit makes the row catch up with its copies, a rollback
  spoils them.
- `WritesLoseNothing`: `ReadsFit` says that what a command read of a fact is still so unless
  a commit of another has come between. `memory_status` shows the rest to be necessary.
- `EpisodesStayOrdered`: a capture looks up the last committed episode before it takes its
  own timestamp, so that the link leads to an older one. That there is a last one uses that
  the committed timestamps are naturals below the clock.

Every step falls under one of six forms (`StepForm`: writes no fact, saves, flags, copies,
rolls back, commits), so each part of the invariant is proved once per form.

**Tiering** (`TieringProofs`; any users, documents, evaluators, thresholds and faults):
`CopiesStayFaithful`, from two invariants. `HotInv` is `HotIsOwn` with the shape of the cache:
the keys of users and documents are injective and apart. `WarmInv`: a row is written by one
transaction at a time (`RowsLocked`); a sync cycle only writes versions the rows already have,
an evaluation only the row of its own document (`Fit`); and a point is that of the row, or,
once it is up, of the row about to be committed (`PointsFit`). The exception is exactly the
rollback between the upsert and the commit, which is `torn`.

In the same module `CountsStayDecisive`, of an invariant and an action property. `CountsInv`:
an access a tracker has dropped is past the retention, so that no window up to the retention
asks for it, and only documents of the suite have accesses, hence those with a count are
finitely many. A warming takes a prefix of an order of all of them, which by counting leaves
none out, and a document that is accessed more often stands further in front.

**Pipelines** (`PipelinesProofs`), for the parts that have steps and for what is let in:

- `CacheHoldsMostRecent`, for any threads, texts and size. `EmbeddingInv`: the texts held are
  in the order of their last use, and one that was dropped was last used before all that are
  held, and dropped only when the cache was full.
- `RequestsStayTakenRight`, for any sequence of messages and of forwarded addresses
  (`JobsAssumption`: a limit is a natural number, a count of proxies an integer). The verdict
  on a body falls with the first message that decides it, which is a minimum.
- `AnswersStayFit`, for any division of the window, thresholds, and whatever the tiers bring
  (`AnsweringAssumption`: the shares are percentages of 100; `CasesAssumption`: costs and
  totals are naturals). `AnsweringInv` says of each stage what is decided by then. Under it:
  the slices, rounded down, and what is left over divide the budget exactly (`BudgetDivides`);
  the ranking is a bijection of the items found (`RankedAll`); and the walk that takes what
  still fits is a recursive function, whose existence follows from that of a run of every
  length, by a least counterexample (`RunExists`, `WalkSteps`). That what was dropped did not
  fit when the walk passed it, and does not fit beside what was kept, is then an invariant of
  the walk (`WalkGoesOn`).
- `DecodingStaysGreedy`, the decoding part of `EnginesExact`, for every model, prompt, limit
  and length of the proposals. `DecodesGreedily` is inductive once the types of a run are
  added. A round appends the longest prefix of the candidates that agrees with the model,
  cut at the limit, and, if there is room, the token the model says after it: each of them
  is what the model says after all before it (`ExtensionGreedy`). `JobsAssumption` asks for
  a prompt of two tokens, since the model here looks at the last two.

Only model-checked, and why:

- Liveness (`PendingIsResolved`, `StaleCopyGoes`, `RunsEnd`, `CommandsEnd`, `Ends`,
  `StaleCopiesGo`, `SessionsEnd`): out of the prover's reach.
- `RetrievalSound`, `TextKeptWhole`, `MemoriesRanked` and all of `EnginesExact` but its
  decoding: what some thirty algorithms return from one call, in terms of stable sorts,
  filters and folds over sequences. What a fold computes for every input is an induction
  over data, which the provers cannot do; TLC tries all small inputs.

## 11. Not modelled

- Tensor computations: attention, the low-rank and cross-layer compressors (Palu,
  MiniCache, the factors of ShadowKV) and the frozen cache's model pass. Numbers
  without a protocol.
- Clients of outside services: vLLM, chat models, embedders, Neo4j and Qdrant beyond
  what the models' stores do. Their answers are arbitrary values of their type.
- The lexical query classifier (a list of cue words), prompts, reports, password
  hashing, text extraction.
- HTTP schemas, CORS, security logging and the dependency wiring, with it the start and
  shutdown of the application (`close_redis_clients` is in the hazards).
- The evaluation harness and its scenarios: offline measurement, no state that
  outlives a run. Migrations, beyond the constraints the models rely on.
- `UnifiedAnswerQuestion` without a budget recorder, which the API always passes, and a
  reflection that names several procedures: `MemoryLifecycle` writes one at most.
- In the cascade, the cancellation of `drain()` itself (its `gather` would cancel the
  background work) and several runs that compete for `max_background`.
- In the memory commands, several users: every statement is filtered by user and
  tenant. In tiering, the validity flag of a demoted document in Qdrant, which the code
  does not write.
