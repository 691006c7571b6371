--------------------------- MODULE FreshnessRouter ---------------------------
(***************************************************************************)
(* The Freshness-Aware Data Router for one data source: IngestDataSource,  *)
(* RefreshCachedSources and ReviewSourceFreshness working concurrently on  *)
(* the source's registry row (PostgresDataSourceRepository), its RAG copy  *)
(* (ChunkedRagIndex: Postgres rows and Qdrant points), its MAG fact and    *)
(* its frozen CAG copy (ExpiringFrozenCache and CacheWarmedRetrieve).      *)
(*                                                                         *)
(* Sources do not interact, so one is enough: a refresh or review that     *)
(* works through a listing of many sources is, for each of them, one that  *)
(* may wait for any time between the listing and the next step.            *)
(*                                                                         *)
(* The use cases are coroutines.  Every await of a store is one action     *)
(* (the store's own transaction is atomic), and every stretch of code      *)
(* between two awaits that touches the in-memory cache is one action.      *)
(* Lookups reach the cache from worker threads, so they interleave even    *)
(* with the two halves of preload_until.                                   *)
(*                                                                         *)
(* A text stands for its own content_hash: SHA-256 is taken as injective.  *)
(***************************************************************************)
EXTENDS Integers, Sequences, FiniteSets

CONSTANTS
  Texts,        \* the versions of its content the feed may deliver
  None,         \* Python's None, and SQL's NULL
  Ingesters,    \* concurrent IngestDataSource.execute calls for this source
  Refreshers,   \* concurrent RefreshCachedSources.run calls
  Reviewers,    \* concurrent ReviewSourceFreshness.run calls
  Scopes,       \* the scopes the source may be declared with
  Intervals,    \* the expected_change_interval a profile may declare
  VolatileBelow, DemoteAfterChanges, PromoteAfterQuietMultiple,
  TtlNum, TtlDen,  \* FreshnessPolicy.ttl_factor = TtlNum / TtlDen; TtlNum = None disables expiry
  FaultyCalls,  \* the use cases whose store calls may raise, and "crash"
  MaxClock, MaxVersions, MaxFaults  \* bounds of the model

TENANT == "tenant"
USER == "user"
RAG_ONLY == "rag_only"
CAG == "cag_with_rag_backup"
MAG == "mag"

ASSUME ConstantsAssumption ==
  /\ None \notin Texts /\ None \notin Int
  /\ Scopes \subseteq {TENANT, USER}
  /\ Intervals \subseteq Nat \ {0}
  /\ VolatileBelow \in Nat \ {0}
  /\ DemoteAfterChanges \in Nat \ {0}
  /\ PromoteAfterQuietMultiple \in Nat /\ PromoteAfterQuietMultiple > DemoteAfterChanges
  /\ TtlNum \in (Nat \ {0}) \union {None} /\ TtlDen \in Nat \ {0}
  /\ FaultyCalls \subseteq {"ingest", "refresh_read", "record", "migrate", "crash"}
  /\ MaxClock \in Nat /\ MaxVersions \in Nat /\ MaxFaults \in Nat

ASSUME TextsAssumption == Texts # {}

VARIABLES
  scope,      \* the source's declared scope: part of its identity, never changes
  clock,
  registry,   \* its data_sources row, or None
  versions,   \* its data_source_versions rows in seq order
  ragRows,    \* the text held by the documents and document_chunks tables, or None
  points,     \* the <<ingester, text>> whose chunks Qdrant holds
  fact,       \* the text of the user's MAG fact source:<key>, or None
  entry,      \* the text the frozen cache holds, or None
  expiry,     \* ExpiringFrozenCache._expiry: None is both no entry and no expiry
  warmed,     \* CacheWarmedRetrieve's memo of the source's text, or None
  ing, ref, rev,   \* the locals of each running use case
  faults,     \* calls that raised and crashes so far
  ghost       \* history: when each text was last delivered, every interval the row has had

ragVars   == <<ragRows, points>>
cacheVars == <<entry, expiry, warmed>>
procVars  == <<ing, ref, rev>>
vars == <<scope, clock, registry, versions, ragRows, points, fact, entry, expiry, warmed,
          ing, ref, rev, faults, ghost>>

Time   == Nat
Routes == {RAG_ONLY, CAG, MAG}
Opt(S) == S \union {None}

DataSource ==
  [route : Routes, interval : Nat \ {0}, hash : Texts, changedAt : Time, ingestedAt : Time,
   cachedUntil : Opt(Time), pending : Opt(Texts)]

Version == [hash : Texts, content : Opt(Texts), at : Time]

Decision == [route : {RAG_ONLY, CAG}, interval : Nat \ {0}]

ASSUME NoneAssumption == None \notin DataSource /\ None \notin Decision

Idle == [pc |-> "idle"]

-----------------------------------------------------------------------------
(* domain/freshness_router.py *)

\* Fault: scope does not decide the route.
route_for_ScopeIgnored(sc, interval) ==
  IF interval < VolatileBelow THEN RAG_ONLY ELSE CAG

route_for(sc, interval) ==
  IF sc = USER THEN MAG
  ELSE IF interval < VolatileBelow THEN RAG_ONLY ELSE CAG

cache_ttl(interval) ==
  IF TtlNum = None THEN None ELSE (interval * TtlNum) \div TtlDen

\* An expiry one TTL after t, or None when expiry is disabled.
ExpiresAt(t, interval) ==
  IF TtlNum = None THEN None ELSE t + cache_ttl(interval)

\* The version times not after now, and the k-th newest of them: whichever versions share a
\* time, sorting puts the same time there.
Past(times, now) == {k \in DOMAIN times : times[k] <= now}

IsKthNewest(j, k, times, now) ==
  /\ Cardinality({m \in Past(times, now) : times[m] >= times[j]}) >= k
  /\ Cardinality({m \in Past(times, now) : times[m] > times[j]}) < k

\* Fault: the re-learned interval has no floor.
Demotions_NoFloor(times, now) ==
  {[route |-> RAG_ONLY,
    interval |-> (times[jk[1]] - times[jk[2]]) \div DemoteAfterChanges] :
     jk \in {ab \in Past(times, now) \X Past(times, now) :
               /\ IsKthNewest(ab[1], 1, times, now)
               /\ IsKthNewest(ab[2], DemoteAfterChanges + 1, times, now)
               /\ times[ab[2]] > now - VolatileBelow * DemoteAfterChanges}}

\* Fault: the window's edge counts as inside it.
Demotions_EdgeInside(times, now) ==
  {[route |-> RAG_ONLY,
    interval |-> IF times[jk[1]] - times[jk[2]] < DemoteAfterChanges THEN 1
                 ELSE (times[jk[1]] - times[jk[2]]) \div DemoteAfterChanges] :
     jk \in {ab \in Past(times, now) \X Past(times, now) :
               /\ IsKthNewest(ab[1], 1, times, now)
               /\ IsKthNewest(ab[2], DemoteAfterChanges + 1, times, now)
               /\ times[ab[2]] >= now - VolatileBelow * DemoteAfterChanges}}

\* The demotion and promotion rules, as the set of decisions: empty for None, else a singleton.
\* Time is counted in seconds, so _MIN_INTERVAL is 1 and a mean gap is a whole number.
Demotions(times, now) ==
  {[route |-> RAG_ONLY,
    interval |-> IF times[jk[1]] - times[jk[2]] < DemoteAfterChanges THEN 1
                 ELSE (times[jk[1]] - times[jk[2]]) \div DemoteAfterChanges] :
     jk \in {ab \in Past(times, now) \X Past(times, now) :
               /\ IsKthNewest(ab[1], 1, times, now)
               /\ IsKthNewest(ab[2], DemoteAfterChanges + 1, times, now)
               /\ times[ab[2]] > now - VolatileBelow * DemoteAfterChanges}}

Promotions(times, now) ==
  {[route |-> CAG, interval |-> now - times[j]] :
     j \in {a \in Past(times, now) :
              /\ IsKthNewest(a, 1, times, now)
              /\ now - times[a] >= VolatileBelow * PromoteAfterQuietMultiple}}

decide_migration(source, times, now) ==
  IF source.route = MAG THEN {}
  ELSE IF source.route = CAG THEN Demotions(times, now)
  ELSE Promotions(times, now)

-----------------------------------------------------------------------------
(* infrastructure/postgres_data_source_repository.py *)

\* Fault: the conditional writes do not look at the pending marker.
Unchanged_IgnoresPending(expectedHash) ==
  /\ registry # None
  /\ registry.hash = expectedHash

\* The row's condition for record_cached_until and migrate.
Unchanged(expectedHash) ==
  /\ registry # None
  /\ registry.hash = expectedHash
  /\ registry.pending = None

\* Fault: the upsert leaves the pending marker alone.
Saved_KeepsMarker(source) ==
  IF registry = None THEN source
  ELSE [registry EXCEPT !.hash = source.hash, !.changedAt = source.changedAt,
                        !.ingestedAt = source.ingestedAt, !.cachedUntil = source.cachedUntil]

\* save: inserts a new source whole; of an existing one it rewrites only the content columns,
\* clears the pending marker, and keeps the route and interval stored now.
Saved(source) ==
  IF registry = None THEN source
  ELSE [registry EXCEPT !.hash = source.hash, !.changedAt = source.changedAt,
                        !.ingestedAt = source.ingestedAt, !.cachedUntil = source.cachedUntil,
                        !.pending = source.pending]

\* current_content: the latest version that has text.
current_content ==
  LET withText == SelectSeq(versions, LAMBDA v : v.content # None)
  IN IF withText = <<>> THEN None ELSE withText[Len(withText)].content

version_times == [k \in 1..Len(versions) |-> versions[k].at]

-----------------------------------------------------------------------------
(* infrastructure/expiring_frozen_cache.py, over an inner FrozenCache, and the memo of
   application/cache_warmed_retrieve.py *)

Due == expiry # None /\ clock >= expiry

\* evict, then CacheWarmedRetrieve.forget: always called together.
EvictAndForget == entry' = None /\ expiry' = None /\ warmed' = None

\* What _expire_if_due leaves, for the calls that only look.
ExpireIfDue ==
  /\ entry' = IF Due THEN None ELSE entry
  /\ expiry' = IF Due THEN None ELSE expiry
  /\ UNCHANGED warmed

\* contains, after its expiry check.
Contains == ~Due /\ entry # None

\* What best_warmed_match finds in a lookup now: the memo's text, if the unexpired entry
\* still has its hash.
Servable(t) == warmed = t /\ entry = t /\ ~Due

\* preload_until blocks the event loop, so no coroutine moves between its two halves.
LoopFree == \A r \in Refreshers : ref[r].pc # "preloading"

\* A worker thread's lookup, for a source best_warmed_match has a memo of: its only effect is
\* the expiry check's eviction, which leaves the memo.
Lookup ==
  /\ warmed # None
  /\ Due
  /\ ExpireIfDue
  /\ UNCHANGED <<scope, clock, registry, versions, ragVars, fact, procVars, faults, ghost>>

-----------------------------------------------------------------------------
(* application/ingest_data_source.py *)

IngestPc == {"get", "mark", "rows", "upsert", "prune", "record", "cache", "save"}

\* The source execute builds from the row it read: what it will save.
NewSource(p) ==
  [route |-> route_for(scope, p.interval), interval |-> p.interval, hash |-> p.text,
   changedAt |-> p.now, ingestedAt |-> p.now, cachedUntil |-> None, pending |-> None]

\* Fault: only a changed hash is applied again, not a change that is still pending.
Reapplies_OnlyChanged(p, existing) == existing.hash # p.text

Confirms(p, existing) == existing.hash = p.text
Reapplies(p, existing) == existing.hash # p.text \/ existing.pending # None

\* Where execute goes once it has the row it read: a change is marked first, a confirmation
\* has only a cached copy to renew.
FirstEffect(route) == IF route = MAG THEN "record" ELSE "rows"

AfterGet(p, existing) ==
  CASE existing = None -> FirstEffect(route_for(scope, p.interval))
    [] existing # None /\ Reapplies(p, existing) -> "mark"
    [] existing # None /\ ~Reapplies(p, existing) ->
         IF existing.route = CAG THEN "cache" ELSE "save"

\* execute is called: now is read by the caller.  The feed may deliver any text while there
\* is room for one more version, and its last one again at any time.
Deliver(i, t, interval) ==
  /\ LoopFree
  /\ ing[i].pc = "idle"
  /\ Len(versions) < MaxVersions \/ (registry # None /\ registry.hash = t)
  /\ ing' = [ing EXCEPT ![i] = [pc |-> "get", text |-> t, now |-> clock,
                                interval |-> interval, source |-> None, existing |-> FALSE,
                                changed |-> FALSE, reapply |-> FALSE]]
  /\ ghost' = [ghost EXCEPT !.delivered[t] = clock]
  /\ UNCHANGED <<scope, clock, registry, versions, ragVars, fact, cacheVars, ref, rev, faults>>

IngestGet(i) ==
  LET p == ing[i]
      source == IF registry = None THEN NewSource(p)
                ELSE [registry EXCEPT
                        !.hash = p.text, !.ingestedAt = p.now, !.pending = None,
                        !.changedAt = IF Confirms(p, registry) THEN @ ELSE p.now]
      changed == registry = None \/ ~Confirms(p, registry)
      reapply == registry = None \/ Reapplies(p, registry)
  IN /\ LoopFree
     /\ p.pc = "get"
     /\ ing' = [ing EXCEPT ![i].pc = AfterGet(p, registry), ![i].source = source,
                           ![i].interval = source.interval,  \* the profile is not read again
                           ![i].existing = (registry # None), ![i].changed = changed, ![i].reapply = reapply]
     /\ UNCHANGED <<scope, clock, registry, versions, ragVars, fact, cacheVars, ref, rev,
                    faults, ghost>>

\* mark_pending: unconditional, and before any effect.
IngestMark(i) ==
  /\ LoopFree
  /\ ing[i].pc = "mark"
  /\ registry' = [registry EXCEPT !.pending = ing[i].text]
  /\ ing' = [ing EXCEPT ![i].pc = FirstEffect(ing[i].source.route)]
  /\ UNCHANGED <<scope, clock, versions, ragVars, fact, cacheVars, ref, rev, faults, ghost>>

\* The MAG route: SessionFactWriter.record replaces the user's fact.
IngestRecordFact(i) ==
  /\ LoopFree
  /\ ing[i].pc = "record"
  /\ fact' = ing[i].text
  /\ ing' = [ing EXCEPT ![i].pc = "save"]
  /\ UNCHANGED <<scope, clock, registry, versions, ragVars, cacheVars, ref, rev, faults, ghost>>

\* ChunkedRagIndex.replace in its three store calls: one Postgres transaction...
IngestReplaceRows(i) ==
  /\ LoopFree
  /\ ing[i].pc = "rows"
  /\ ragRows' = ing[i].text
  /\ ing' = [ing EXCEPT ![i].pc = "upsert"]
  /\ UNCHANGED <<scope, clock, registry, versions, points, fact, cacheVars, ref, rev, faults, ghost>>

\* ... the new points, under chunk ids of this call's own ...
IngestUpsertPoints(i) ==
  /\ LoopFree
  /\ ing[i].pc = "upsert"
  /\ points' = points \union {<<i, ing[i].text>>}
  /\ ing' = [ing EXCEPT ![i].pc = "prune"]
  /\ UNCHANGED <<scope, clock, registry, versions, ragRows, fact, cacheVars, ref, rev, faults, ghost>>

\* ... and the deletion of every point of the document but those.
IngestPrunePoints(i) ==
  /\ LoopFree
  /\ ing[i].pc = "prune"
  /\ points' = points \intersect {<<i, ing[i].text>>}
  /\ ing' = [ing EXCEPT ![i].pc = IF ing[i].source.route = CAG THEN "cache" ELSE "save"]
  /\ UNCHANGED <<scope, clock, registry, versions, ragRows, fact, cacheVars, ref, rev, faults, ghost>>

\* The cached route's last effect: a change evicts and forgets, a confirmation renews a copy
\* that is still live.
IngestCache(i) ==
  LET p == ing[i]
      until == ExpiresAt(p.now, p.source.interval)
  IN /\ LoopFree
     /\ p.pc = "cache"
     /\ \/ /\ p.reapply
           /\ EvictAndForget
           /\ ing' = [ing EXCEPT ![i].pc = "save", ![i].source.cachedUntil = None]
        \/ /\ ~p.reapply
           /\ Contains
           /\ expiry' = until
           /\ UNCHANGED <<entry, warmed>>
           /\ ing' = [ing EXCEPT ![i].pc = "save", ![i].source.cachedUntil = until]
        \/ /\ ~p.reapply
           /\ ~Contains
           /\ ExpireIfDue
           /\ ing' = [ing EXCEPT ![i].pc = "save", ![i].source.cachedUntil = None]
     /\ UNCHANGED <<scope, clock, registry, versions, ragVars, fact, ref, rev, faults, ghost>>

\* save: the row and, for a change, its version in one transaction.
IngestSave(i) ==
  LET p == ing[i]
      source == IF p.source.route = CAG THEN p.source
                ELSE [p.source EXCEPT !.cachedUntil = None]
      version == [hash |-> p.text, content |-> IF p.source.route = MAG THEN None ELSE p.text,
                  at |-> p.source.changedAt]
  IN /\ LoopFree
     /\ p.pc = "save"
     /\ registry' = Saved(source)
     /\ versions' = IF p.changed THEN Append(versions, version) ELSE versions
     /\ ing' = [ing EXCEPT ![i] = Idle]
     /\ ghost' = [ghost EXCEPT !.intervals = @ \union {Saved(source).interval}]
     /\ UNCHANGED <<scope, clock, ragVars, fact, cacheVars, ref, rev, faults>>

\* Any store call of an ingestion may raise, before or after its effect: execute stops where
\* it is, and the marker, if it was set, stays.
IngestRaise(i) ==
  /\ LoopFree
  /\ "ingest" \in FaultyCalls /\ faults < MaxFaults
  /\ ing[i].pc # "idle"
  /\ ing' = [ing EXCEPT ![i] = Idle]
  /\ faults' = faults + 1
  /\ UNCHANGED <<scope, clock, registry, versions, ragVars, fact, cacheVars, ref, rev, ghost>>

-----------------------------------------------------------------------------
(* application/refresh_cached_sources.py *)

RefreshPc == {"check", "read", "expiry", "preloading", "record", "retract"}

RefreshList(r) ==
  /\ LoopFree
  /\ ref[r].pc = "idle"
  /\ registry # None
  /\ ref' = [ref EXCEPT ![r] = [pc |-> "check", listed |-> registry, now |-> clock]]
  /\ UNCHANGED <<scope, clock, registry, versions, ragVars, fact, cacheVars, ing, rev, faults, ghost>>

\* Fault: the TTL is counted from the pre-load.
Until_FromPreload(listed) == ExpiresAt(clock, listed.interval)

\* When the copy this refresh would pre-load expires: one TTL after the listed confirmation.
Until(listed) == ExpiresAt(listed.ingestedAt, listed.interval)

\* The loop's tests on the listed source.
WorthLoading(listed, now) ==
  /\ ~Contains
  /\ Until(listed) # None => Until(listed) > now

RefreshCheck(r) ==
  LET p == ref[r]
      candidate == p.listed.route = CAG /\ p.listed.pending = None
  IN /\ LoopFree
     /\ p.pc = "check"
     /\ IF candidate THEN ExpireIfDue ELSE UNCHANGED cacheVars
     /\ ref' = [ref EXCEPT ![r] = IF candidate /\ WorthLoading(p.listed, p.now)
                                  THEN [p EXCEPT !.pc = "read"] ELSE Idle]
     /\ UNCHANGED <<scope, clock, registry, versions, ragVars, fact, ing, rev, faults, ghost>>

\* current_content, and the check that it is still the listed text.
RefreshRead(r) ==
  /\ LoopFree
  /\ ref[r].pc = "read"
  /\ ref' = [ref EXCEPT ![r] = IF current_content = ref[r].listed.hash
                               THEN [ref[r] EXCEPT !.pc = "expiry"] ELSE Idle]
  /\ UNCHANGED <<scope, clock, registry, versions, ragVars, fact, cacheVars, ing, rev, faults, ghost>>

\* preload_until's two halves: the expiry first, then the slow inner preload; note_warmed
\* follows without an await.
RefreshSetExpiry(r) ==
  /\ LoopFree
  /\ ref[r].pc = "expiry"
  /\ expiry' = Until(ref[r].listed)
  /\ ref' = [ref EXCEPT ![r].pc = "preloading"]
  /\ UNCHANGED <<scope, clock, registry, versions, ragVars, fact, entry, warmed, ing, rev,
                 faults, ghost>>

RefreshPreload(r) ==
  /\ ref[r].pc = "preloading"
  /\ entry' = ref[r].listed.hash
  /\ warmed' = ref[r].listed.hash
  /\ ref' = [ref EXCEPT ![r].pc = "record"]
  /\ UNCHANGED <<scope, clock, registry, versions, ragVars, fact, expiry, ing, rev, faults, ghost>>

\* Fault: a refused write is not followed by the eviction.
RefreshRecord_NoRetract(r) ==
  /\ LoopFree
  /\ ref[r].pc = "record"
  /\ registry' = IF Unchanged(ref[r].listed.hash)
                 THEN [registry EXCEPT !.cachedUntil = Until(ref[r].listed)] ELSE registry
  /\ ref' = [ref EXCEPT ![r] = Idle]
  /\ UNCHANGED <<scope, clock, versions, ragVars, fact, cacheVars, ing, rev, faults, ghost>>

\* record_cached_until: conditional on the listed hash and on nothing pending.
RefreshRecord(r) ==
  LET p == ref[r]
  IN /\ LoopFree
     /\ p.pc = "record"
     /\ \/ /\ Unchanged(p.listed.hash)
           /\ registry' = [registry EXCEPT !.cachedUntil = Until(p.listed)]
           /\ ref' = [ref EXCEPT ![r] = Idle]
        \/ /\ ~Unchanged(p.listed.hash)
           /\ ref' = [ref EXCEPT ![r].pc = "retract"]
           /\ UNCHANGED registry
     /\ UNCHANGED <<scope, clock, versions, ragVars, fact, cacheVars, ing, rev, faults, ghost>>

\* The write matched no row: the fresh copy goes again.
RefreshRetract(r) ==
  /\ LoopFree
  /\ ref[r].pc = "retract"
  /\ EvictAndForget
  /\ ref' = [ref EXCEPT ![r] = Idle]
  /\ UNCHANGED <<scope, clock, registry, versions, ragVars, fact, ing, rev, faults, ghost>>

\* The listing or the read raises ("refresh_read"), or record_cached_until does ("record"):
\* run stops, and what it pre-loaded stays.
RefreshRaise(r) ==
  /\ LoopFree
  /\ faults < MaxFaults
  /\ \/ "refresh_read" \in FaultyCalls /\ ref[r].pc \in {"check", "read"}
     \/ "record" \in FaultyCalls /\ ref[r].pc \in {"record", "retract"}
  /\ ref' = [ref EXCEPT ![r] = Idle]
  /\ faults' = faults + 1
  /\ UNCHANGED <<scope, clock, registry, versions, ragVars, fact, cacheVars, ing, rev, ghost>>

-----------------------------------------------------------------------------
(* application/review_source_freshness.py *)

ReviewPc == {"times", "migrate", "evict"}

\* The listing, and the skip of user-scoped sources and pending changes.
ReviewList(v) ==
  /\ LoopFree
  /\ rev[v].pc = "idle"
  /\ registry # None
  /\ scope # USER
  /\ registry.pending = None
  /\ rev' = [rev EXCEPT ![v] = [pc |-> "times", listed |-> registry, now |-> clock,
                                decision |-> None]]
  /\ UNCHANGED <<scope, clock, registry, versions, ragVars, fact, cacheVars, ing, ref, faults, ghost>>

ReviewTimes(v) ==
  LET ds == decide_migration(rev[v].listed, version_times, rev[v].now)
  IN /\ LoopFree
     /\ rev[v].pc = "times"
     /\ \/ ds = {} /\ rev' = [rev EXCEPT ![v] = Idle]
        \/ \E d \in ds :
             rev' = [rev EXCEPT ![v] = [rev[v] EXCEPT !.pc = "migrate", !.decision = d]]
     /\ UNCHANGED <<scope, clock, registry, versions, ragVars, fact, cacheVars, ing, ref,
                    faults, ghost>>

\* migrate: conditional on the listed hash and on nothing pending, before the cache is touched.
ReviewMigrate(v) ==
  LET p == rev[v]
      demoted == p.decision.route = RAG_ONLY
  IN /\ LoopFree
     /\ p.pc = "migrate"
     /\ \/ /\ Unchanged(p.listed.hash)
           /\ registry' = [registry EXCEPT
                             !.route = p.decision.route, !.interval = p.decision.interval,
                             !.cachedUntil = IF demoted THEN None ELSE p.listed.cachedUntil]
           /\ rev' = [rev EXCEPT ![v] = IF demoted THEN [p EXCEPT !.pc = "evict"] ELSE Idle]
           /\ ghost' = [ghost EXCEPT !.intervals = @ \union {p.decision.interval}]
        \/ /\ ~Unchanged(p.listed.hash)
           /\ rev' = [rev EXCEPT ![v] = Idle]
           /\ UNCHANGED <<registry, ghost>>
     /\ UNCHANGED <<scope, clock, versions, ragVars, fact, cacheVars, ing, ref, faults>>

ReviewEvict(v) ==
  /\ LoopFree
  /\ rev[v].pc = "evict"
  /\ EvictAndForget
  /\ rev' = [rev EXCEPT ![v] = Idle]
  /\ UNCHANGED <<scope, clock, registry, versions, ragVars, fact, ing, ref, faults, ghost>>

ReviewRaise(v) ==
  /\ LoopFree
  /\ "migrate" \in FaultyCalls /\ faults < MaxFaults
  /\ rev[v].pc # "idle"
  /\ rev' = [rev EXCEPT ![v] = Idle]
  /\ faults' = faults + 1
  /\ UNCHANGED <<scope, clock, registry, versions, ragVars, fact, cacheVars, ing, ref, ghost>>

-----------------------------------------------------------------------------
\* The process dies: the frozen cache, the memo and every running use case are memory only.
Crash ==
  /\ "crash" \in FaultyCalls /\ faults < MaxFaults
  /\ EvictAndForget
  /\ ing' = [i \in Ingesters |-> Idle]
  /\ ref' = [r \in Refreshers |-> Idle]
  /\ rev' = [v \in Reviewers |-> Idle]
  /\ faults' = faults + 1
  /\ UNCHANGED <<scope, clock, registry, versions, ragVars, fact, ghost>>

Tick ==
  /\ clock < MaxClock
  /\ clock' = clock + 1
  /\ UNCHANGED <<scope, registry, versions, ragVars, fact, cacheVars, procVars, faults, ghost>>

Init ==
  /\ scope \in Scopes
  /\ clock = 0
  /\ registry = None /\ versions = <<>>
  /\ ragRows = None /\ points = {} /\ fact = None
  /\ entry = None /\ expiry = None /\ warmed = None
  /\ ing = [i \in Ingesters |-> Idle]
  /\ ref = [r \in Refreshers |-> Idle]
  /\ rev = [v \in Reviewers |-> Idle]
  /\ faults = 0
  /\ ghost = [delivered |-> [t \in Texts |-> None], intervals |-> {}]

IngestStep(i) ==
  \/ IngestGet(i) \/ IngestMark(i) \/ IngestRecordFact(i)
  \/ IngestReplaceRows(i) \/ IngestUpsertPoints(i) \/ IngestPrunePoints(i)
  \/ IngestCache(i) \/ IngestSave(i)

RefreshStep(r) ==
  \/ RefreshCheck(r) \/ RefreshRead(r) \/ RefreshSetExpiry(r) \/ RefreshPreload(r)
  \/ RefreshRecord(r) \/ RefreshRetract(r)

ReviewStep(v) == ReviewTimes(v) \/ ReviewMigrate(v) \/ ReviewEvict(v)

Next ==
  \/ \E i \in Ingesters : \/ \E t \in Texts, d \in Intervals : Deliver(i, t, d)
                          \/ IngestStep(i)
                          \/ IngestRaise(i)
  \/ \E r \in Refreshers : RefreshList(r) \/ RefreshStep(r) \/ RefreshRaise(r)
  \/ \E v \in Reviewers : ReviewList(v) \/ ReviewStep(v) \/ ReviewRaise(v)
  \/ Lookup \/ Crash \/ Tick

Spec == Init /\ [][Next]_vars

\* The event loop runs every coroutine that can move, and the feed keeps delivering: fairness
\* for the liveness properties.  Nothing is assumed of refresh and review starting.
Fairness ==
  /\ \A i \in Ingesters : WF_vars(IngestStep(i))
  /\ \A i \in Ingesters : WF_vars(\E t \in Texts, d \in Intervals : Deliver(i, t, d))
  /\ \A r \in Refreshers : WF_vars(RefreshStep(r))
  /\ \A v \in Reviewers : WF_vars(ReviewStep(v))

FairSpec == Spec /\ Fairness

-----------------------------------------------------------------------------
IngestState ==
  {Idle} \union
  [pc : IngestPc, text : Texts, now : Time, interval : Nat \ {0}, source : Opt(DataSource),
   existing : BOOLEAN, changed : BOOLEAN, reapply : BOOLEAN]

RefreshState == {Idle} \union [pc : RefreshPc, listed : DataSource, now : Time]

ReviewState ==
  {Idle} \union [pc : ReviewPc, listed : DataSource, now : Time, decision : Opt(Decision)]

\* The type invariant of the router's state.
TypeOK ==
  /\ scope \in Scopes
  /\ clock \in Time
  /\ registry \in Opt(DataSource)
  /\ versions \in Seq(Version)
  /\ ragRows \in Opt(Texts)
  /\ points \subseteq Ingesters \X Texts
  /\ fact \in Opt(Texts)
  /\ entry \in Opt(Texts) /\ expiry \in Opt(Time) /\ warmed \in Opt(Texts)
  /\ ing \in [Ingesters -> IngestState]
  /\ ref \in [Refreshers -> RefreshState]
  /\ rev \in [Reviewers -> ReviewState]
  /\ faults \in Nat
  /\ ghost \in [delivered : [Texts -> Opt(Time)], intervals : SUBSET Nat]

\* While nothing is marked pending, the stores agree with the registry: RAG's rows and every
\* Qdrant point (or, for a user's source, the MAG fact) hold the text the row's hash names,
\* whatever failed or crashed half-way before.
PendingCoversDivergence ==
  registry # None /\ registry.pending = None =>
    IF scope = USER THEN fact = registry.hash
    ELSE /\ ragRows = registry.hash
         /\ {p[2] : p \in points} = {registry.hash}

\* Once every ingestion has come to rest, a row without a pending change names what the stores
\* hold, however the ingestions overlapped: their one marker stands for the effects of all of them.
StoresAgreeAtRest ==
  (\A i \in Ingesters : ing[i].pc = "idle") => PendingCoversDivergence

\* A refresh has pre-loaded this text and has still to record it, or to see its write refused and
\* evict the copy again.
Held(t) == \E r \in Refreshers : ref[r].pc \in {"record", "retract"} /\ ref[r].listed.hash = t

\* A cached copy other than the registry's current text is in the hands of a refresh that has
\* still to find its write refused: no change is saved over a copy that nobody will evict.
CachedCopyIsCurrent ==
  entry # None => Held(entry) \/ (registry # None /\ registry.hash = entry)

NoRefreshLoading == \A r \in Refreshers : ref[r].pc \notin {"preloading", "record", "retract"}
ReviewersIdle == \A v \in Reviewers : rev[v].pc = "idle"

\* Once no refresh holds a copy it has yet to record, the expiry of a cached copy lies at most
\* one TTL after the last delivery of that very text: pre-loading and renewing never extend the
\* trust in a text the feed has not confirmed.
ExpiryAnchored ==
  entry # None /\ expiry # None /\ NoRefreshLoading /\ registry # None =>
    expiry <= ghost.delivered[entry] + cache_ttl(registry.interval)

\* Once no refresh holds a copy it has yet to record, a text served from the cache was
\* delivered by the feed less than one TTL ago.
TtlBoundsStaleness ==
  \A t \in Texts :
    Servable(t) /\ NoRefreshLoading /\ ReviewersIdle /\ TtlNum # None =>
      \E d \in ghost.intervals : clock < ghost.delivered[t] + cache_ttl(d)

\* A user's own text never reaches a store the whole tenant reads: not RAG, not the frozen
\* cache or its memo, and not the registry's version history.
UserTextStaysInMag ==
  scope = USER =>
    /\ ragRows = None /\ points = {}
    /\ entry = None /\ warmed = None
    /\ \A k \in DOMAIN versions : versions[k].content = None

\* Ingestion and review agree: the stored route is the one the router would choose for the stored
\* interval, whichever of declarations, demotions and promotions last wrote the two.
RouteMatchesInterval ==
  registry # None => registry.route = route_for(scope, registry.interval)

\* A change that failed part-way is re-applied: the marker does not stay set for ever.
PendingIsResolved ==
  (registry # None /\ registry.pending # None) ~> (registry # None /\ registry.pending = None)

\* A cached copy the registry no longer names is retracted, replaced or named again.
StaleCopyGoes ==
  \A t \in Texts : (entry = t /\ registry # None /\ registry.hash # t) ~>
                     (entry # t \/ (registry # None /\ registry.hash = t))
=============================================================================
