----------------------- MODULE FreshnessCopiesProofs -----------------------
(***************************************************************************)
(* With at most one ingestion of the source at a time, and any number of   *)
(* refreshes and reviews beside it, the pending marker covers every        *)
(* divergence between the stores.  Two ingestions at once break this: the  *)
(* save of the one clears the marker of the other.                         *)
(*                                                                         *)
(* If moreover there is no review, and record_cached_until does not fail,  *)
(* the frozen cache never keeps a superseded text, and no copy outlives    *)
(* one TTL after its text was last delivered.  Each assumption is needed:  *)
(* a promotion or a demotion between an ingestion's read and its save, or  *)
(* a refresh that dies between its pre-load and its eviction, leaves one   *)
(* (freshness_promotion_race).                                             *)
(***************************************************************************)
EXTENDS FreshnessRouterProofs

-----------------------------------------------------------------------------
(* The pending marker. *)

Effects == {"rows", "upsert", "prune", "record"}

\* An ingestion that is applying a change.
Applying(i) ==
  ing[i].pc \in Effects \/ (ing[i].pc \in {"cache", "save"} /\ ing[i].reapply)

\* What one ingestion knows at each of its steps, while no other runs.
IngestProgress(i) ==
  /\ ing[i].pc \in Effects \union {"mark"} => ing[i].reapply
  /\ ing[i].pc \notin {"idle", "get"} =>
       /\ ing[i].source.hash = ing[i].text
       /\ ing[i].source.pending = None
       /\ ing[i].existing => registry # None
  /\ Applying(i) => registry = None \/ registry.pending # None
  /\ ing[i].pc \in {"cache", "save"} /\ ~ing[i].reapply =>
       registry # None /\ registry.hash = ing[i].text /\ registry.pending = None
  /\ ing[i].pc \in {"upsert", "prune"} => ragRows = ing[i].text
  /\ ing[i].pc = "prune" => <<i, ing[i].text>> \in points
  /\ ing[i].pc \in {"cache", "save"} /\ ing[i].reapply =>
       IF scope = USER THEN fact = ing[i].text
       ELSE ragRows = ing[i].text /\ points = {<<i, ing[i].text>>}

MarkerInv ==
  ScopeInv /\ PendingCoversDivergence /\ \A i \in Ingesters : IngestProgress(i)

OneIngester == \A i, j \in Ingesters : i = j

\* What a step other than an ingestion's leaves alone: all that an ingestion reads back.
IngestFrame ==
  /\ UNCHANGED <<scope, ragRows, points, fact>>
  /\ registry' = None <=> registry = None
  /\ registry # None => registry'.hash = registry.hash /\ registry'.pending = registry.pending

\* A step that keeps the frame, and either keeps the ingestions or stops them, keeps MarkerInv's
\* own parts.
LEMMA FrameKeepsMarker ==
  ASSUME MarkerInv, IngestFrame,
         \A i \in Ingesters : ing'[i] = ing[i] \/ ing'[i].pc \in {"idle", "get"}
  PROVE  PendingCoversDivergence' /\ \A i \in Ingesters : IngestProgress(i)'
<1>1. PendingCoversDivergence'
  BY DEF MarkerInv, IngestFrame, PendingCoversDivergence
<1>2. ASSUME NEW i \in Ingesters
      PROVE  IngestProgress(i)'
  <2>1. CASE ing'[i] = ing[i]
    BY <2>1 DEF MarkerInv, IngestFrame, IngestProgress, Applying, Effects
  <2>2. CASE ing'[i].pc \in {"idle", "get"}
    BY <2>2 DEF IngestProgress, Applying, Effects
  <2> QED
    BY <2>1, <2>2
<1> QED
  BY <1>1, <1>2

\* Refreshes write only cached_until, and only to a row.
LEMMA RefreshFrame ==
  ASSUME TypeInv, NEW r \in Refreshers,
         RefreshList(r) \/ RefreshStep(r) \/ RefreshRaise(r)
  PROVE  IngestFrame /\ ing' = ing
<1> USE DEF IngestFrame, ragVars
<1>1. CASE RefreshRecord(r)
  <2>1. registry # None => registry \in DataSource
    BY DEF TypeInv, TypeOK, Opt
  <2>2. CASE Unchanged(ref[r].listed.hash)
    <3>1. ref[r] \in RefreshFields
      BY <1>1, RefreshBusy DEF RefreshRecord, TypeInv
    <3>2. registry \in DataSource /\ registry # None
      BY <2>1, <2>2 DEF Unchanged
    <3>3. Until(ref[r].listed) \in Opt(Time)
      BY <3>1, ExpiresAtType DEF Until, RefreshFields, DataSource
    <3>4. registry' = [registry EXCEPT !.cachedUntil = Until(ref[r].listed)]
      BY <1>1, <2>2 DEF RefreshRecord
    <3>5. registry' \in DataSource
      BY <3>2, <3>3, <3>4 DEF DataSource
    <3> QED
      BY <1>1, <3>2, <3>4, <3>5, NoneAssumption DEF RefreshRecord, DataSource
  <2>3. CASE ~Unchanged(ref[r].listed.hash)
    BY <1>1, <2>3 DEF RefreshRecord
  <2> QED
    BY <2>2, <2>3
<1>2. CASE ~RefreshRecord(r)
  BY <1>2 DEF RefreshList, RefreshStep, RefreshRaise, RefreshCheck, RefreshRead, RefreshSetExpiry,
              RefreshPreload, RefreshRetract
<1> QED
  BY <1>1, <1>2

\* Reviews write only the route, the interval and cached_until, and only to a row.
LEMMA ReviewFrame ==
  ASSUME TypeInv, NEW v \in Reviewers,
         ReviewList(v) \/ ReviewStep(v) \/ ReviewRaise(v)
  PROVE  IngestFrame /\ ing' = ing
<1> USE DEF IngestFrame, ragVars
<1>1. CASE ReviewMigrate(v)
  <2>1. registry # None => registry \in DataSource
    BY DEF TypeInv, TypeOK, Opt
  <2>2. CASE Unchanged(rev[v].listed.hash)
    <3>1. registry \in DataSource /\ registry # None
      BY <2>1, <2>2 DEF Unchanged
    <3>2. registry'.hash = registry.hash /\ registry'.pending = registry.pending
      BY <1>1, <2>2, <3>1 DEF ReviewMigrate, DataSource
    <3>3. rev[v] \in ReviewFields /\ rev[v].decision \in Decision
      BY <1>1, ReviewBusy DEF ReviewMigrate, ReviewFields, TypeInv, LocalsReady, Opt
    <3>4. registry' \in DataSource
      BY <1>1, <2>2, <3>1, <3>3 DEF ReviewMigrate, DataSource, ReviewFields, Decision, Routes, Opt
    <3> QED
      BY <1>1, <3>1, <3>2, <3>4, NoneAssumption DEF ReviewMigrate
  <2>3. CASE ~Unchanged(rev[v].listed.hash)
    BY <1>1, <2>3 DEF ReviewMigrate
  <2> QED
    BY <2>2, <2>3
<1>2. CASE ~ReviewMigrate(v)
  BY <1>2 DEF ReviewList, ReviewStep, ReviewRaise, ReviewTimes, ReviewEvict
<1> QED
  BY <1>1, <1>2

\* The steps of the only ingestion.
LEMMA IngestMarker ==
  ASSUME MarkerInv, OneIngester, NEW i \in Ingesters,
         \/ \E t \in Texts, d \in Intervals : Deliver(i, t, d)
         \/ IngestStep(i)
         \/ IngestRaise(i)
  PROVE  PendingCoversDivergence' /\ \A j \in Ingesters : IngestProgress(j)'
<1> DEFINE p == ing[i]
<1>0. TypeOK /\ TypeInv /\ ing \in [Ingesters -> IngestState] /\ IngestProgress(i)
      /\ PendingCoversDivergence /\ RouteFollowsScope
  BY DEF MarkerInv, ScopeInv, TypeInv, TypeOK
<1>s. SUFFICES PendingCoversDivergence' /\ IngestProgress(i)'
  BY DEF OneIngester
<1>1. ASSUME NEW t \in Texts, NEW d \in Intervals, Deliver(i, t, d)
      PROVE  PendingCoversDivergence' /\ IngestProgress(i)'
  <2>1. IngestFrame
    BY <1>1 DEF Deliver, IngestFrame, ragVars
  <2>2. \A j \in Ingesters : ing'[j] = ing[j] \/ ing'[j].pc \in {"idle", "get"}
    BY <1>0, <1>1 DEF Deliver
  <2> QED
    BY <2>1, <2>2, FrameKeepsMarker
<1>2. CASE IngestGet(i)
  <2>1. p \in IngestRecord
    BY <1>0, <1>2, IngestBusy DEF IngestGet
  <2> DEFINE source == IF registry = None THEN NewSource(p)
                       ELSE [registry EXCEPT
                               !.hash = p.text, !.ingestedAt = p.now, !.pending = None,
                               !.changedAt = IF Confirms(p, registry) THEN @ ELSE p.now]
             reapply == registry = None \/ Reapplies(p, registry)
  <2>2. source.hash = p.text /\ source.pending = None
    <3>1. CASE registry = None
      BY <3>1 DEF NewSource
    <3>2. CASE registry # None
      <4>1. registry \in DataSource
        BY <1>0, <3>2 DEF TypeOK, Opt
      <4> QED
        BY <3>2, <4>1 DEF DataSource
    <3> QED
      BY <3>1, <3>2
  <2>3. /\ ing'[i].pc = AfterGet(p, registry)
        /\ ing'[i].source = source
        /\ ing'[i].text = p.text
        /\ ing'[i].existing = (registry # None)
        /\ ing'[i].reapply = reapply
    <3> HIDE DEF source, reapply
    <3> QED
      BY <1>0, <1>2, <2>1 DEF IngestGet, IngestRecord, source, reapply
  <2>4. UNCHANGED <<scope, registry, ragRows, points, fact>>
    BY <1>2 DEF IngestGet, ragVars
  <2>5. PendingCoversDivergence'
    BY <1>0, <2>4 DEF PendingCoversDivergence
  <2>6. /\ AfterGet(p, registry) \in Effects => registry = None
        /\ AfterGet(p, registry) \in Effects \union {"mark"} => reapply
        /\ AfterGet(p, registry) \in {"cache", "save"} =>
             registry # None /\ ~Reapplies(p, registry)
        /\ AfterGet(p, registry) \notin {"upsert", "prune"}
    BY DEF AfterGet, FirstEffect, Effects
  <2>7. ~reapply => registry # None /\ registry.hash = p.text /\ registry.pending = None
    BY DEF Reapplies
  <2> HIDE DEF source
  <2>8. IngestProgress(i)'
    BY <2>2, <2>3, <2>4, <2>6, <2>7 DEF IngestProgress, Applying, Effects
  <2> QED
    BY <2>5, <2>8
<1>3. CASE IngestMark(i)
  <2>1. p \in IngestRecord /\ registry \in DataSource /\ p.text # None
    BY <1>0, <1>3, IngestBusy, ConstantsAssumption
       DEF IngestMark, TypeInv, LocalsReady, TypeOK, Opt, IngestRecord
  <2>2. registry'.pending = p.text
    BY <1>3, <2>1 DEF IngestMark, DataSource
  <2>3. /\ ing'[i].pc = FirstEffect(p.source.route)
        /\ ing'[i].source = p.source
        /\ ing'[i].text = p.text
        /\ ing'[i].existing = p.existing
        /\ ing'[i].reapply = p.reapply
    BY <1>0, <1>3, <2>1 DEF IngestMark, IngestRecord
  <2>4. registry' \in DataSource
    BY <1>3, <2>1 DEF IngestMark, IngestRecord, DataSource, Opt
  <2>5. p.reapply /\ p.source.hash = p.text /\ p.source.pending = None
    BY <1>0, <1>3 DEF IngestMark, IngestProgress, Effects
  <2> QED
    BY <2>1, <2>2, <2>3, <2>4, <2>5, NoneAssumption
       DEF PendingCoversDivergence, IngestProgress, Applying, Effects, FirstEffect
<1>4. CASE IngestRecordFact(i)
  <2>1. p \in IngestRecord
    BY <1>0, <1>4, IngestBusy DEF IngestRecordFact
  <2>2. ing' = [ing EXCEPT ![i].pc = "save"] /\ scope = USER /\ fact' = p.text
        /\ UNCHANGED <<scope, registry, ragRows, points>>
    BY <1>0, <1>4 DEF IngestRecordFact, RouteFollowsScope, ragVars
  <2> QED
    BY <1>0, <1>4, <2>1, <2>2
       DEF IngestRecordFact, IngestRecord, PendingCoversDivergence, IngestProgress, Applying, Effects
<1>5. CASE IngestReplaceRows(i)
  <2>1. p \in IngestRecord
    BY <1>0, <1>5, IngestBusy DEF IngestReplaceRows
  <2> QED
    BY <1>0, <1>5, <2>1
       DEF IngestReplaceRows, IngestRecord, PendingCoversDivergence, IngestProgress, Applying, Effects
<1>6. CASE IngestUpsertPoints(i)
  <2>1. p \in IngestRecord
    BY <1>0, <1>6, IngestBusy DEF IngestUpsertPoints
  <2> QED
    BY <1>0, <1>6, <2>1
       DEF IngestUpsertPoints, IngestRecord, PendingCoversDivergence, IngestProgress, Applying, Effects
<1>7. CASE IngestPrunePoints(i)
  <2>1. p \in IngestRecord
    BY <1>0, <1>7, IngestBusy DEF IngestPrunePoints
  <2>2. points' = {<<i, p.text>>}
    BY <1>0, <1>7 DEF IngestPrunePoints, IngestProgress
  <2>3. scope # USER /\ p.reapply /\ ragRows = p.text
    BY <1>0, <1>7 DEF IngestPrunePoints, IngestProgress, RouteFollowsScope, Effects
  <2>4. UNCHANGED <<scope, registry, ragRows, fact>>
    BY <1>7 DEF IngestPrunePoints
  <2>5. registry = None \/ registry.pending # None
    BY <1>0, <1>7 DEF IngestPrunePoints, IngestProgress, Applying, Effects
  <2>6. /\ ing'[i].pc \in {"cache", "save"}
        /\ ing'[i].source = p.source
        /\ ing'[i].text = p.text
        /\ ing'[i].existing = p.existing
        /\ ing'[i].reapply = p.reapply
    BY <1>0, <1>7, <2>1 DEF IngestPrunePoints, IngestRecord
  <2>7. p.source.hash = p.text /\ p.source.pending = None /\ (p.existing => registry # None)
    BY <1>0, <1>7 DEF IngestPrunePoints, IngestProgress
  <2> QED
    BY <2>2, <2>3, <2>4, <2>5, <2>6, <2>7 DEF PendingCoversDivergence, IngestProgress, Applying, Effects
<1>8. CASE IngestCache(i)
  <2>1. p \in IngestRecord /\ p.source \in DataSource
    BY <1>0, <1>8, IngestBusy DEF IngestCache, IngestRecord, TypeInv, LocalsReady, Opt
  <2>2. UNCHANGED <<scope, registry, ragRows, points, fact>>
    BY <1>8 DEF IngestCache, ragVars
  <2>3. /\ ing'[i].pc = "save"
        /\ ing'[i].source.hash = p.source.hash
        /\ ing'[i].source.pending = p.source.pending
        /\ ing'[i].text = p.text
        /\ ing'[i].existing = p.existing
        /\ ing'[i].reapply = p.reapply
    BY <1>0, <1>8, <2>1 DEF IngestCache, IngestRecord, DataSource
  <2>4. p.pc = "cache"
    BY <1>8 DEF IngestCache
  <2> QED
    BY <1>0, <2>2, <2>3, <2>4 DEF PendingCoversDivergence, IngestProgress, Applying, Effects
<1>9. CASE IngestSave(i)
  <2>1. p \in IngestRecord /\ p.source \in DataSource /\ p.pc = "save"
    BY <1>0, <1>9, IngestBusy DEF IngestSave, IngestRecord, TypeInv, LocalsReady, Opt
  <2>2. UNCHANGED <<scope, ragRows, points, fact>> /\ ing'[i].pc = "idle"
    BY <1>0, <1>9 DEF IngestSave, ragVars, Idle
  <2>3. registry'.hash = p.text /\ registry'.pending = None
    <3>1. p.source.hash = p.text /\ p.source.pending = None
      BY <1>0, <2>1 DEF IngestProgress
    <3>2. CASE registry = None
      BY <1>9, <2>1, <3>1, <3>2 DEF IngestSave, Saved, DataSource
    <3>3. CASE registry # None
      <4>1. registry \in DataSource
        BY <1>0, <3>3 DEF TypeOK, Opt
      <4> QED
        BY <1>9, <2>1, <3>1, <3>3, <4>1 DEF IngestSave, Saved, DataSource
    <3> QED
      BY <3>2, <3>3
  <2>4. IF scope = USER THEN fact = p.text
        ELSE ragRows = p.text /\ {x[2] : x \in points} = {p.text}
    <3>1. CASE p.reapply
      <4>1. IF scope = USER THEN fact = p.text
            ELSE ragRows = p.text /\ points = {<<i, p.text>>}
        BY <1>0, <2>1, <3>1 DEF IngestProgress
      <4>2. {x[2] : x \in {<<i, p.text>>}} = {p.text}
        OBVIOUS
      <4> QED
        BY <4>1, <4>2
    <3>2. CASE ~p.reapply
      BY <1>0, <2>1, <3>2 DEF IngestProgress, PendingCoversDivergence
    <3> QED
      BY <3>1, <3>2
  <2> QED
    BY <2>2, <2>3, <2>4 DEF PendingCoversDivergence, IngestProgress, Applying, Effects
<1>10. CASE IngestRaise(i)
  <2>1. IngestFrame
    BY <1>10 DEF IngestRaise, IngestFrame, ragVars
  <2>2. \A j \in Ingesters : ing'[j] = ing[j] \/ ing'[j].pc \in {"idle", "get"}
    BY <1>0, <1>10 DEF IngestRaise, Idle
  <2> QED
    BY <2>1, <2>2, FrameKeepsMarker
<1> QED
  BY <1>1, <1>2, <1>3, <1>4, <1>5, <1>6, <1>7, <1>8, <1>9, <1>10 DEF IngestStep

\* Every step keeps MarkerInv.
LEMMA MarkerStep ==
  ASSUME MarkerInv, OneIngester, [Next]_vars
  PROVE  MarkerInv'
<1>0. TypeInv /\ ScopeInv
  BY DEF MarkerInv, ScopeInv
<1>1. ScopeInv'
  BY <1>0, ScopeStep
<1>2. PendingCoversDivergence' /\ \A i \in Ingesters : IngestProgress(i)'
  <2>1. ASSUME NEW r \in Refreshers, RefreshList(r) \/ RefreshStep(r) \/ RefreshRaise(r)
        PROVE  PendingCoversDivergence' /\ \A i \in Ingesters : IngestProgress(i)'
    BY <1>0, <2>1, RefreshFrame, FrameKeepsMarker
  <2>2. ASSUME NEW v \in Reviewers, ReviewList(v) \/ ReviewStep(v) \/ ReviewRaise(v)
        PROVE  PendingCoversDivergence' /\ \A i \in Ingesters : IngestProgress(i)'
    BY <1>0, <2>2, ReviewFrame, FrameKeepsMarker
  <2>3. CASE Lookup \/ Crash \/ Tick \/ UNCHANGED vars
    <3>1. IngestFrame
      BY <2>3 DEF Lookup, Crash, Tick, vars, IngestFrame, ragVars
    <3>2. \A i \in Ingesters : ing'[i] = ing[i] \/ ing'[i].pc \in {"idle", "get"}
      BY <2>3 DEF Lookup, Crash, Tick, vars, procVars, Idle
    <3> QED
      BY <3>1, <3>2, FrameKeepsMarker
  <2> QED
    BY <2>1, <2>2, <2>3, IngestMarker DEF Next
<1> QED
  BY <1>1, <1>2 DEF MarkerInv

\* MarkerInv in every behaviour with one ingestion at a time.
LEMMA MarkerAlways ==
  ASSUME OneIngester
  PROVE  Spec => []MarkerInv
<1>1. Init => MarkerInv
  BY ScopeInit DEF Init, MarkerInv, PendingCoversDivergence, IngestProgress, Applying, Effects, Idle
<1>2. MarkerInv /\ [Next]_vars => MarkerInv'
  BY MarkerStep
<1> QED
  BY <1>1, <1>2, PTL DEF Spec

\* PendingCoversDivergence for one ingestion at a time beside any number of refreshes and
\* reviews, with any store call failing and any crash: an unmarked row's hash is what RAG's rows
\* and points, or the MAG fact, hold.
THEOREM MarkerCoversDivergence ==
  ASSUME OneIngester
  PROVE  Spec => []PendingCoversDivergence
<1>1. MarkerInv => PendingCoversDivergence
  BY DEF MarkerInv
<1> QED
  BY <1>1, MarkerAlways, PTL

-----------------------------------------------------------------------------
(* The text of a copy. *)

QuietRouter == OneIngester /\ Reviewers = {} /\ "record" \notin FaultyCalls

\* Without a review the route never changes, so every snapshot of it is the row's.
RouteFixed ==
  /\ \A i \in Ingesters :
       ing[i].pc \notin {"idle", "get"} /\ registry # None => ing[i].source.route = registry.route
  /\ \A r \in Refreshers :
       /\ ref[r].pc # "idle" => registry # None /\ ref[r].listed.route = registry.route
       /\ ref[r].pc \notin {"idle", "check"} => ref[r].listed.route = CAG
  /\ entry # None => registry # None /\ registry.route = CAG

\* An ingestion about to save a change has evicted: a copy it does not see belongs to a refresh.
EvictedBeforeSave ==
  \A i \in Ingesters : ing[i].pc = "save" /\ ing[i].reapply => entry = None \/ Held(entry)

CacheInv == MarkerInv /\ RouteFixed /\ EvictedBeforeSave /\ CachedCopyIsCurrent

CacheParts == RouteFixed /\ EvictedBeforeSave /\ CachedCopyIsCurrent

\* What the proofs below use of the invariant.
LEMMA CacheFacts ==
  ASSUME CacheInv
  PROVE  /\ TypeOK /\ TypeInv /\ RouteFollowsScope /\ UserTextStaysInMag
         /\ ing \in [Ingesters -> IngestState] /\ ref \in [Refreshers -> RefreshState]
         /\ registry # None => registry \in DataSource
         /\ \A i \in Ingesters : IngestProgress(i)
  BY DEF CacheInv, MarkerInv, ScopeInv, TypeInv, TypeOK, Opt

\* A step of the ingestion that only moves its program counter on, before its save, and touches
\* neither the row's hash and route, nor the cache, nor a refresh.
LEMMA QuietIngestStep ==
  ASSUME CacheInv, OneIngester, NEW i \in Ingesters,
         UNCHANGED <<entry, ref>>,
         registry # None => /\ registry' # None /\ registry'.hash = registry.hash
                            /\ registry'.route = registry.route,
         registry = None => registry' = None,
         ing'[i].pc \notin {"idle", "get"} /\ registry # None =>
            ing'[i].source.route = registry.route,
         ing'[i].pc = "save" /\ ing'[i].reapply => entry = None
  PROVE  CacheParts'
<1>1. \A j \in Ingesters : j = i
  BY DEF OneIngester
<1>2. RouteFixed'
  BY <1>1 DEF CacheInv, RouteFixed
<1>3. EvictedBeforeSave'
  BY <1>1 DEF CacheInv, EvictedBeforeSave
<1>4. CachedCopyIsCurrent'
  BY DEF CacheInv, RouteFixed, CachedCopyIsCurrent, Held
<1> QED
  BY <1>2, <1>3, <1>4 DEF CacheParts

\* The steps of the only ingestion keep the cache current.
LEMMA IngestCacheStep ==
  ASSUME CacheInv, OneIngester, NEW i \in Ingesters,
         \/ \E t \in Texts, d \in Intervals : Deliver(i, t, d)
         \/ IngestStep(i)
         \/ IngestRaise(i)
  PROVE  CacheParts'
<1> DEFINE p == ing[i]
<1>0. /\ TypeOK /\ TypeInv /\ RouteFollowsScope /\ UserTextStaysInMag
      /\ ing \in [Ingesters -> IngestState]
      /\ registry # None => registry \in DataSource
      /\ IngestProgress(i)
  BY CacheFacts
<1>f. p.pc \notin {"idle", "get"} /\ registry # None => p.source.route = registry.route
  BY DEF CacheInv, RouteFixed
<1>1. ASSUME NEW t \in Texts, NEW d \in Intervals, Deliver(i, t, d)
      PROVE  CacheParts'
  <2>1. UNCHANGED <<entry, ref, registry>> /\ ing'[i].pc = "get"
    BY <1>0, <1>1 DEF Deliver, cacheVars
  <2> QED
    BY <2>1, QuietIngestStep
<1>2. CASE IngestGet(i)
  <2>1. p \in IngestRecord
    BY <1>0, <1>2, IngestBusy DEF IngestGet
  <2>2. UNCHANGED <<entry, ref, registry>>
    BY <1>2 DEF IngestGet, cacheVars
  <2>3. registry # None => ing'[i].source.route = registry.route
    <3> SUFFICES ASSUME registry # None PROVE ing'[i].source.route = registry.route
      OBVIOUS
    <3> DEFINE source == [registry EXCEPT
                            !.hash = p.text, !.ingestedAt = p.now, !.pending = None,
                            !.changedAt = IF Confirms(p, registry) THEN @ ELSE p.now]
    <3>1. source.route = registry.route
      BY <1>0 DEF DataSource
    <3>2. ing'[i].source = source
      <4> HIDE DEF source
      <4> QED
        BY <1>0, <1>2, <2>1 DEF IngestGet, IngestRecord, source
    <3> QED
      BY <3>1, <3>2
  <2>4. ing'[i].pc = AfterGet(p, registry)
        /\ ing'[i].reapply = (registry = None \/ Reapplies(p, registry))
    BY <1>0, <1>2, <2>1 DEF IngestGet, IngestRecord
  <2>5. ~(ing'[i].pc = "save" /\ ing'[i].reapply)
    BY <2>4 DEF AfterGet, FirstEffect
  <2> QED
    BY <2>2, <2>3, <2>5, QuietIngestStep
<1>3. CASE IngestMark(i)
  <2>1. p \in IngestRecord /\ registry \in DataSource /\ registry # None
    BY <1>0, <1>3, IngestBusy DEF IngestMark, TypeInv, LocalsReady
  <2>2. UNCHANGED <<entry, ref>>
    BY <1>3 DEF IngestMark, cacheVars
  <2>3. registry' \in DataSource /\ registry'.hash = registry.hash
        /\ registry'.route = registry.route
    BY <1>3, <2>1 DEF IngestMark, IngestRecord, DataSource, Opt
  <2>4. ing'[i].source = p.source /\ ing'[i].pc \in {"record", "rows"}
    BY <1>0, <1>3, <2>1 DEF IngestMark, IngestRecord, FirstEffect
  <2>5. p.source.route = registry.route
    BY <1>3, <1>f, <2>1 DEF IngestMark
  <2> QED
    BY <2>1, <2>2, <2>3, <2>4, <2>5, NoneAssumption, QuietIngestStep
<1>4. CASE IngestRecordFact(i)
  <2>1. p \in IngestRecord
    BY <1>0, <1>4, IngestBusy DEF IngestRecordFact
  <2>2. UNCHANGED <<entry, ref, registry>> /\ ing'[i].source = p.source
    BY <1>0, <1>4, <2>1 DEF IngestRecordFact, IngestRecord, cacheVars
  <2>3. entry = None
    BY <1>0, <1>4 DEF IngestRecordFact, RouteFollowsScope, UserTextStaysInMag
  <2>4. p.pc = "record"
    BY <1>4 DEF IngestRecordFact
  <2> QED
    BY <1>f, <2>2, <2>3, <2>4, QuietIngestStep
<1>5. CASE IngestReplaceRows(i)
  <2>1. p \in IngestRecord
    BY <1>0, <1>5, IngestBusy DEF IngestReplaceRows
  <2>2. UNCHANGED <<entry, ref, registry>> /\ ing'[i].source = p.source
        /\ p.pc = "rows" /\ ing'[i].pc = "upsert"
    BY <1>0, <1>5, <2>1 DEF IngestReplaceRows, IngestRecord, cacheVars
  <2> QED
    BY <1>f, <2>2, QuietIngestStep
<1>6. CASE IngestUpsertPoints(i)
  <2>1. p \in IngestRecord
    BY <1>0, <1>6, IngestBusy DEF IngestUpsertPoints
  <2>2. UNCHANGED <<entry, ref, registry>> /\ ing'[i].source = p.source
        /\ p.pc = "upsert" /\ ing'[i].pc = "prune"
    BY <1>0, <1>6, <2>1 DEF IngestUpsertPoints, IngestRecord, cacheVars
  <2> QED
    BY <1>f, <2>2, QuietIngestStep
<1>7. CASE IngestPrunePoints(i)
  <2>1. p \in IngestRecord
    BY <1>0, <1>7, IngestBusy DEF IngestPrunePoints
  <2>2. UNCHANGED <<entry, ref, registry>> /\ ing'[i].source = p.source
        /\ p.pc = "prune" /\ (ing'[i].pc = "save" => p.source.route # CAG)
    BY <1>0, <1>7, <2>1 DEF IngestPrunePoints, IngestRecord, cacheVars
  <2>3. ing'[i].pc = "save" => entry = None
    BY <1>f, <2>2 DEF CacheInv, RouteFixed
  <2> QED
    BY <1>f, <2>2, <2>3, QuietIngestStep
<1>8. CASE IngestCache(i)
  <2>1. p \in IngestRecord /\ p.source \in DataSource
    BY <1>0, <1>8, IngestBusy DEF IngestCache, IngestRecord, TypeInv, LocalsReady, Opt
  <2>2. UNCHANGED <<ref, registry>>
    BY <1>8 DEF IngestCache
  <2>3. /\ ing'[i].pc = "save"
        /\ ing'[i].source.route = p.source.route
        /\ ing'[i].reapply = p.reapply
    BY <1>0, <1>8, <2>1 DEF IngestCache, IngestRecord, DataSource
  <2>4. entry' \in {entry, None} /\ (p.reapply => entry' = None)
    BY <1>8 DEF IngestCache, EvictAndForget, ExpireIfDue
  <2>5. p.pc = "cache" /\ \A j \in Ingesters : j = i
    BY <1>8 DEF IngestCache, OneIngester
  <2>6. RouteFixed'
    BY <1>f, <2>2, <2>3, <2>4, <2>5 DEF CacheInv, RouteFixed
  <2>7. EvictedBeforeSave'
    BY <2>3, <2>4, <2>5 DEF EvictedBeforeSave
  <2>8. CachedCopyIsCurrent'
    BY <2>2, <2>4 DEF CacheInv, CachedCopyIsCurrent, Held
  <2> QED
    BY <2>6, <2>7, <2>8 DEF CacheParts
<1>9. CASE IngestSave(i)
  <2>1. p \in IngestRecord /\ p.source \in DataSource /\ p.pc = "save"
    BY <1>0, <1>9, IngestBusy DEF IngestSave, IngestRecord, TypeInv, LocalsReady, Opt
  <2>2. UNCHANGED <<entry, ref>> /\ ing'[i].pc = "idle" /\ \A j \in Ingesters : j = i
    BY <1>0, <1>9 DEF IngestSave, cacheVars, Idle, OneIngester
  <2>3. registry' # None /\ registry'.hash = p.source.hash
        /\ (registry # None => registry'.route = registry.route)
    <3>0. registry' \in DataSource
      BY <1>0, <1>9, <2>1 DEF IngestSave, Saved, DataSource, Opt
    <3>1. CASE registry = None
      BY <1>9, <2>1, <3>0, <3>1, NoneAssumption DEF IngestSave, Saved, DataSource
    <3>2. CASE registry # None
      BY <1>0, <1>9, <2>1, <3>0, <3>2, NoneAssumption DEF IngestSave, Saved, DataSource
    <3> QED
      BY <3>1, <3>2
  <2>4. RouteFixed'
    BY <2>2, <2>3 DEF CacheInv, RouteFixed
  <2>5. EvictedBeforeSave'
    BY <2>2 DEF EvictedBeforeSave
  <2>6. CachedCopyIsCurrent'
    <3>1. CASE p.reapply
      BY <2>1, <2>2, <3>1 DEF CacheInv, EvictedBeforeSave, CachedCopyIsCurrent, Held
    <3>2. CASE ~p.reapply
      <4>1. registry # None /\ registry.hash = p.text /\ p.source.hash = p.text
        BY <1>0, <2>1, <3>2 DEF IngestProgress
      <4> QED
        BY <2>2, <2>3, <4>1 DEF CacheInv, CachedCopyIsCurrent, Held
    <3> QED
      BY <3>1, <3>2
  <2> QED
    BY <2>4, <2>5, <2>6 DEF CacheParts
<1>10. CASE IngestRaise(i)
  <2>1. UNCHANGED <<entry, ref, registry>> /\ ing'[i].pc = "idle"
    BY <1>0, <1>10 DEF IngestRaise, cacheVars, Idle
  <2> QED
    BY <2>1, QuietIngestStep
<1> QED
  BY <1>1, <1>2, <1>3, <1>4, <1>5, <1>6, <1>7, <1>8, <1>9, <1>10 DEF IngestStep

\* A refresh step that leaves the row and the ingestions alone, takes nothing from the hands of
\* the refreshes, and adds nothing to the cache.
LEMMA QuietRefreshStep ==
  ASSUME CacheInv, NEW r \in Refreshers,
         UNCHANGED <<registry, ing>>,
         entry' \in {entry, None},
         \A q \in Refreshers : q # r => ref'[q] = ref[q],
         ref'[r].pc # "idle" => registry # None /\ ref'[r].listed.route = registry.route,
         ref'[r].pc \notin {"idle", "check"} => ref'[r].listed.route = CAG,
         ref[r].pc \in {"record", "retract"} => ref'[r] = ref[r]
  PROVE  CacheParts'
<1>1. entry' # None /\ Held(entry) => Held(entry)'
  BY DEF Held
<1>2. RouteFixed'
  BY DEF CacheInv, RouteFixed
<1>3. EvictedBeforeSave'
  BY <1>1 DEF CacheInv, EvictedBeforeSave
<1>4. CachedCopyIsCurrent'
  BY <1>1 DEF CacheInv, CachedCopyIsCurrent
<1> QED
  BY <1>2, <1>3, <1>4 DEF CacheParts

\* An empty cache needs only the routes.
LEMMA EmptiedStep ==
  ASSUME CacheInv, UNCHANGED <<registry, ing>>, entry' = None,
         \A q \in Refreshers : ref'[q] = ref[q] \/ ref'[q].pc = "idle"
  PROVE  CacheParts'
  BY DEF CacheInv, CacheParts, RouteFixed, EvictedBeforeSave, CachedCopyIsCurrent

\* The steps of a refresh keep the cache current, as long as its write does not fail.
LEMMA RefreshCacheStep ==
  ASSUME CacheInv, QuietRouter, NEW r \in Refreshers,
         RefreshList(r) \/ RefreshStep(r) \/ RefreshRaise(r)
  PROVE  CacheParts'
<1> DEFINE p == ref[r]
<1>0. /\ TypeOK /\ ref \in [Refreshers -> RefreshState]
      /\ registry # None => registry \in DataSource
  BY CacheFacts
<1>f. /\ p.pc # "idle" => registry # None /\ p.listed.route = registry.route
      /\ p.pc \notin {"idle", "check"} => p.listed.route = CAG
  BY DEF CacheInv, RouteFixed
<1>1. CASE RefreshList(r)
  <2>1. UNCHANGED <<registry, ing, entry>> /\ p.pc = "idle"
    BY <1>1 DEF RefreshList, cacheVars
  <2>2. /\ ref'[r].pc = "check" /\ ref'[r].listed = registry /\ registry # None
        /\ \A q \in Refreshers : q # r => ref'[q] = ref[q]
    BY <1>0, <1>1 DEF RefreshList
  <2> QED
    BY <2>1, <2>2, QuietRefreshStep
<1>2. CASE RefreshCheck(r)
  <2>1. p \in RefreshFields /\ p.pc = "check"
    BY <1>0, <1>2, RefreshBusy DEF RefreshCheck
  <2>2. UNCHANGED <<registry, ing>> /\ entry' \in {entry, None}
    BY <1>2 DEF RefreshCheck, ExpireIfDue, cacheVars
  <2>3. /\ \/ ref'[r] = Idle
           \/ ref'[r].pc = "read" /\ ref'[r].listed = p.listed /\ p.listed.route = CAG
        /\ \A q \in Refreshers : q # r => ref'[q] = ref[q]
    BY <1>0, <1>2, <2>1 DEF RefreshCheck, RefreshFields
  <2> QED
    BY <1>f, <2>1, <2>2, <2>3, QuietRefreshStep DEF Idle
<1>3. CASE RefreshRead(r)
  <2>1. p \in RefreshFields /\ p.pc = "read"
    BY <1>0, <1>3, RefreshBusy DEF RefreshRead
  <2>2. UNCHANGED <<registry, ing, entry>>
    BY <1>3 DEF RefreshRead, cacheVars
  <2>3. /\ ref'[r] = Idle \/ (ref'[r].pc = "expiry" /\ ref'[r].listed = p.listed)
        /\ \A q \in Refreshers : q # r => ref'[q] = ref[q]
    BY <1>0, <1>3, <2>1 DEF RefreshRead, RefreshFields
  <2> QED
    BY <1>f, <2>1, <2>2, <2>3, QuietRefreshStep DEF Idle
<1>4. CASE RefreshSetExpiry(r)
  <2>1. p \in RefreshFields /\ p.pc = "expiry"
    BY <1>0, <1>4, RefreshBusy DEF RefreshSetExpiry
  <2>2. UNCHANGED <<registry, ing, entry>>
    BY <1>4 DEF RefreshSetExpiry
  <2>3. /\ ref'[r].pc = "preloading" /\ ref'[r].listed = p.listed
        /\ \A q \in Refreshers : q # r => ref'[q] = ref[q]
    BY <1>0, <1>4, <2>1 DEF RefreshSetExpiry, RefreshFields
  <2> QED
    BY <1>f, <2>1, <2>2, <2>3, QuietRefreshStep
<1>5. CASE RefreshPreload(r)
  <2>1. p \in RefreshFields /\ p.pc = "preloading"
    BY <1>0, <1>5, RefreshBusy DEF RefreshPreload
  <2>2. UNCHANGED <<registry, ing>> /\ entry' = p.listed.hash
    BY <1>5 DEF RefreshPreload
  <2>3. /\ ref'[r].pc = "record" /\ ref'[r].listed = p.listed
        /\ \A q \in Refreshers : q # r => ref'[q] = ref[q]
    BY <1>0, <1>5, <2>1 DEF RefreshPreload, RefreshFields
  <2>4. Held(entry)'
    BY <2>2, <2>3 DEF Held
  <2>5. RouteFixed'
    BY <1>f, <2>1, <2>2, <2>3 DEF CacheInv, RouteFixed
  <2> QED
    BY <2>4, <2>5 DEF CacheParts, EvictedBeforeSave, CachedCopyIsCurrent
<1>6. CASE RefreshRecord(r)
  <2>1. p \in RefreshFields /\ p.pc = "record"
    BY <1>0, <1>6, RefreshBusy DEF RefreshRecord
  <2>2. UNCHANGED <<ing, entry>> /\ \A q \in Refreshers : q # r => ref'[q] = ref[q]
    BY <1>0, <1>6 DEF RefreshRecord, cacheVars
  <2>3. CASE Unchanged(p.listed.hash)
    <3>1. registry \in DataSource /\ registry # None /\ registry.hash = p.listed.hash
          /\ registry.pending = None
      BY <1>0, <2>3 DEF Unchanged
    <3>2. registry' = [registry EXCEPT !.cachedUntil = Until(p.listed)] /\ ref'[r] = Idle
      BY <1>0, <1>6, <2>3 DEF RefreshRecord
    <3>3. registry'.hash = registry.hash /\ registry'.route = registry.route
      BY <3>1, <3>2 DEF DataSource
    <3>4. registry' # None
      <4>1. Until(p.listed) \in Opt(Time)
        BY <2>1, ExpiresAtType DEF Until, RefreshFields, DataSource
      <4>2. registry' \in DataSource
        BY <3>1, <3>2, <4>1 DEF DataSource
      <4> QED
        BY <4>2, NoneAssumption
    <3>5. RouteFixed'
      BY <2>2, <3>1, <3>2, <3>3, <3>4 DEF CacheInv, RouteFixed, Idle
    <3>6. EvictedBeforeSave'
      <4>1. \A i \in Ingesters : ~(ing[i].pc = "save" /\ ing[i].reapply)
        BY <3>1, CacheFacts DEF IngestProgress, Applying
      <4> QED
        BY <2>2, <4>1 DEF EvictedBeforeSave
    <3>7. CachedCopyIsCurrent'
      BY <2>2, <3>1, <3>2, <3>3, <3>4 DEF CacheInv, CachedCopyIsCurrent, Held
    <3> QED
      BY <3>5, <3>6, <3>7 DEF CacheParts
  <2>4. CASE ~Unchanged(p.listed.hash)
    <3>1. registry' = registry /\ ref'[r].pc = "retract" /\ ref'[r].listed = p.listed
      BY <1>0, <1>6, <2>1, <2>4 DEF RefreshRecord, RefreshFields
    <3>2. Held(entry) => Held(entry)'
      BY <2>1, <2>2, <3>1 DEF Held
    <3>3. RouteFixed'
      BY <1>f, <2>1, <2>2, <3>1 DEF CacheInv, RouteFixed
    <3>4. EvictedBeforeSave' /\ CachedCopyIsCurrent'
      BY <2>2, <3>1, <3>2 DEF CacheInv, EvictedBeforeSave, CachedCopyIsCurrent
    <3> QED
      BY <3>3, <3>4 DEF CacheParts
  <2> QED
    BY <2>3, <2>4
<1>7. CASE RefreshRetract(r)
  <2>1. UNCHANGED <<registry, ing>> /\ entry' = None
        /\ \A q \in Refreshers : ref'[q] = ref[q] \/ ref'[q].pc = "idle"
    BY <1>0, <1>7 DEF RefreshRetract, EvictAndForget, Idle
  <2> QED
    BY <2>1, EmptiedStep
<1>8. CASE RefreshRaise(r)
  <2>1. UNCHANGED <<registry, ing, entry>> /\ p.pc \in {"check", "read"} /\ ref'[r].pc = "idle"
        /\ \A q \in Refreshers : q # r => ref'[q] = ref[q]
    BY <1>0, <1>8 DEF RefreshRaise, QuietRouter, cacheVars, Idle
  <2> QED
    BY <2>1, QuietRefreshStep
<1> QED
  BY <1>1, <1>2, <1>3, <1>4, <1>5, <1>6, <1>7, <1>8 DEF RefreshStep

\* Every step keeps CacheInv.
LEMMA CacheStep ==
  ASSUME CacheInv, QuietRouter, [Next]_vars
  PROVE  CacheInv'
<1>1. MarkerInv'
  BY MarkerStep DEF CacheInv, QuietRouter
<1>2. CacheParts'
  <2>1. CASE Lookup
    <3>1. UNCHANGED <<registry, ing, ref>> /\ entry' = None
      BY <2>1 DEF Lookup, ExpireIfDue, procVars
    <3> QED
      BY <3>1, EmptiedStep
  <2>2. CASE Crash
    <3>1. /\ registry' = registry /\ entry' = None
          /\ \A q \in Refreshers : ref'[q].pc = "idle"
          /\ \A i \in Ingesters : ing'[i].pc = "idle"
      BY <2>2 DEF Crash, EvictAndForget, Idle
    <3> QED
      BY <3>1 DEF CacheParts, RouteFixed, EvictedBeforeSave, CachedCopyIsCurrent
  <2>3. CASE Tick \/ UNCHANGED vars
    <3>1. UNCHANGED <<registry, ing, ref, entry>>
      BY <2>3 DEF Tick, vars, procVars, cacheVars
    <3> QED
      BY <3>1 DEF CacheInv, CacheParts, RouteFixed, EvictedBeforeSave, CachedCopyIsCurrent, Held
  <2> QED
    BY <2>1, <2>2, <2>3, IngestCacheStep, RefreshCacheStep DEF Next, QuietRouter
<1> QED
  BY <1>1, <1>2 DEF CacheInv, CacheParts

\* CacheInv holds initially.
LEMMA CacheInit ==
  ASSUME Init
  PROVE  CacheInv
  BY ScopeInit DEF Init, CacheInv, MarkerInv, PendingCoversDivergence, IngestProgress, Applying,
                   Effects, RouteFixed, EvictedBeforeSave, CachedCopyIsCurrent, Idle

\* CachedCopyIsCurrent for one ingestion at a time beside any number of refreshes, with any store
\* call failing but record_cached_until, any crash, and any lookup from a worker thread.
THEOREM CacheStaysCurrent ==
  ASSUME QuietRouter
  PROVE  Spec => []CachedCopyIsCurrent
<1>1. Init => CacheInv
  BY CacheInit
<1>2. CacheInv /\ [Next]_vars => CacheInv'
  BY CacheStep
<1>3. CacheInv => CachedCopyIsCurrent
  BY DEF CacheInv
<1> QED
  BY <1>1, <1>2, <1>3, PTL DEF Spec

-----------------------------------------------------------------------------
(* The expiry of a copy. *)

\* The feed has delivered t at `at` or later.
Known(delivered, t, at) == delivered[t] # None /\ at <= delivered[t]

\* The row, the locals of an ingestion and what a refresh has listed name deliveries that there
\* were, and without a review they agree on the interval.
DeliveriesKnown ==
  /\ \A t \in Texts : ghost.delivered[t] # None => ghost.delivered[t] <= clock
  /\ registry # None => Known(ghost.delivered, registry.hash, registry.ingestedAt)
  /\ \A i \in Ingesters :
       /\ ing[i].pc # "idle" => Known(ghost.delivered, ing[i].text, ing[i].now)
       /\ ing[i].pc \notin {"idle", "get"} =>
            /\ ing[i].source.ingestedAt = ing[i].now
            /\ registry # None => ing[i].source.interval = registry.interval
  /\ \A r \in Refreshers : ref[r].pc # "idle" =>
       /\ registry # None /\ ref[r].listed.interval = registry.interval
       /\ Known(ghost.delivered, ref[r].listed.hash, ref[r].listed.ingestedAt)

\* Between the halves of a pre-load nobody else sets an expiry.
PreloadAlone ==
  \A r \in Refreshers : ref[r].pc = "preloading" =>
    /\ expiry \in {None, Until(ref[r].listed)}
    /\ \A q \in Refreshers : ref[q].pc = "preloading" => q = r

\* Without a TTL there is no expiry.
ExpiryNeedsTtl == expiry # None => TtlNum # None

Anchored ==
  /\ ghost.delivered[entry] # None
  /\ expiry <= ghost.delivered[entry] + cache_ttl(registry.interval)

\* A confirmation may renew a copy of another text, but only one that its refresh will retract.
AnchoredOrHeld ==
  LoopFree /\ entry # None /\ expiry # None =>
    \/ Anchored
    \/ /\ Held(entry) /\ entry # registry.hash
       /\ \A i \in Ingesters : ~(ing[i].pc = "save" /\ ing[i].reapply)

AnchorInv == CacheInv /\ DeliveriesKnown /\ PreloadAlone /\ ExpiryNeedsTtl /\ AnchoredOrHeld

AnchorParts == DeliveriesKnown /\ PreloadAlone /\ ExpiryNeedsTtl /\ AnchoredOrHeld

\* Deliveries only get later.
LEMMA KnownGrows ==
  ASSUME TypeOK, DeliveriesKnown, NEW t \in Texts,
         ghost'.delivered = [ghost.delivered EXCEPT ![t] = clock]
  PROVE  /\ ghost'.delivered[t] = clock
         /\ \A u \in Texts, at \in Time :
              Known(ghost.delivered, u, at) => Known(ghost'.delivered, u, at)
         /\ \A u \in Texts : ghost'.delivered[u] # None => ghost'.delivered[u] <= clock
         /\ \A u \in Texts : ghost.delivered[u] # None =>
              ghost'.delivered[u] \in Nat /\ ghost.delivered[u] <= ghost'.delivered[u]
<1>1. clock \in Nat /\ clock # None /\ ghost.delivered \in [Texts -> Nat \cup {None}]
  BY ConstantsAssumption, NoneAssumption, TextsAssumption DEF TypeOK, Time, Opt
<1> QED
  BY <1>1 DEF Known, DeliveriesKnown, Time

\* A step that leaves the deliveries alone, and of the row the text, its time and the interval.
SameRow ==
  /\ ghost'.delivered = ghost.delivered /\ clock <= clock' /\ clock' \in Nat
  /\ registry' = None <=> registry = None
  /\ registry # None => /\ registry'.hash = registry.hash
                        /\ registry'.ingestedAt = registry.ingestedAt
                        /\ registry'.interval = registry.interval

\* Such a step keeps DeliveriesKnown if a process only moves on or stops.
LEMMA SameRowKnown ==
  ASSUME TypeOK, DeliveriesKnown, SameRow,
         \A i \in Ingesters :
           \/ ing'[i].pc = "idle"
           \/ /\ ing[i].pc # "idle" /\ ing'[i].text = ing[i].text /\ ing'[i].now = ing[i].now
              /\ \/ ing'[i].pc = "get"
                 \/ /\ ing[i].pc # "get"
                    /\ ing'[i].source.ingestedAt = ing[i].source.ingestedAt
                    /\ ing'[i].source.interval = ing[i].source.interval,
         \A r \in Refreshers :
           ref'[r].pc = "idle" \/ (ref[r].pc # "idle" /\ ref'[r].listed = ref[r].listed)
  PROVE  DeliveriesKnown'
<1>1. \A t \in Texts : ghost'.delivered[t] # None => ghost'.delivered[t] <= clock'
  BY DEF DeliveriesKnown, SameRow, TypeOK, Opt, Time
<1>2. \A t, at : Known(ghost'.delivered, t, at) <=> Known(ghost.delivered, t, at)
  BY DEF Known, SameRow
<1>3. registry' # None => Known(ghost'.delivered, registry'.hash, registry'.ingestedAt)
  BY <1>2 DEF DeliveriesKnown, SameRow
<1>4. ASSUME NEW i \in Ingesters
      PROVE  /\ ing'[i].pc # "idle" => Known(ghost'.delivered, ing'[i].text, ing'[i].now)
             /\ ing'[i].pc \notin {"idle", "get"} =>
                  /\ ing'[i].source.ingestedAt = ing'[i].now
                  /\ registry' # None => ing'[i].source.interval = registry'.interval
  BY <1>2 DEF DeliveriesKnown, SameRow
<1>5. ASSUME NEW r \in Refreshers, ref'[r].pc # "idle"
      PROVE  /\ registry' # None /\ ref'[r].listed.interval = registry'.interval
             /\ Known(ghost'.delivered, ref'[r].listed.hash, ref'[r].listed.ingestedAt)
  BY <1>2, <1>5 DEF DeliveriesKnown, SameRow
<1> QED
  BY <1>1, <1>3, <1>4, <1>5 DEF DeliveriesKnown

\* What the proofs below use of the invariant.
LEMMA AnchorFacts ==
  ASSUME AnchorInv
  PROVE  /\ TypeOK /\ TypeInv /\ DeliveriesKnown /\ CacheInv
         /\ ing \in [Ingesters -> IngestState] /\ ref \in [Refreshers -> RefreshState]
         /\ registry # None => registry \in DataSource
         /\ clock \in Nat
  BY CacheFacts DEF AnchorInv, TypeOK, Time

\* A delivery.
LEMMA DeliverAnchors ==
  ASSUME AnchorInv, NEW i \in Ingesters, NEW t \in Texts, NEW d \in Intervals, Deliver(i, t, d)
  PROVE  AnchorParts'
<1>0. /\ TypeOK /\ DeliveriesKnown /\ ing \in [Ingesters -> IngestState]
      /\ ref \in [Refreshers -> RefreshState]
      /\ registry # None => registry \in DataSource
  BY AnchorFacts
<1>1. /\ UNCHANGED <<clock, registry, entry, expiry, ref>>
      /\ ing'[i].pc = "get" /\ ing'[i].text = t /\ ing'[i].now = clock
      /\ \A j \in Ingesters : j # i => ing'[j] = ing[j]
      /\ ghost'.delivered = [ghost.delivered EXCEPT ![t] = clock]
  BY <1>0 DEF Deliver, cacheVars, TypeOK
<1>2. /\ ghost'.delivered[t] = clock
      /\ \A u \in Texts, at \in Time :
           Known(ghost.delivered, u, at) => Known(ghost'.delivered, u, at)
      /\ \A u \in Texts : ghost'.delivered[u] # None => ghost'.delivered[u] <= clock
      /\ \A u \in Texts : ghost.delivered[u] # None =>
           ghost'.delivered[u] \in Nat /\ ghost.delivered[u] <= ghost'.delivered[u]
  BY <1>0, <1>1, KnownGrows
<1>3. DeliveriesKnown'
  <2>1. registry' # None => Known(ghost'.delivered, registry'.hash, registry'.ingestedAt)
    BY <1>0, <1>1, <1>2 DEF DeliveriesKnown, DataSource
  <2>2. ASSUME NEW j \in Ingesters
        PROVE  /\ ing'[j].pc # "idle" => Known(ghost'.delivered, ing'[j].text, ing'[j].now)
               /\ ing'[j].pc \notin {"idle", "get"} =>
                    /\ ing'[j].source.ingestedAt = ing'[j].now
                    /\ registry' # None => ing'[j].source.interval = registry'.interval
    <3>1. CASE j = i
      <4>1. clock \in Nat /\ clock # None
        BY <1>0, ConstantsAssumption, NoneAssumption, TextsAssumption DEF TypeOK, Time
      <4> QED
        BY <1>1, <1>2, <3>1, <4>1 DEF Known
    <3>2. CASE j # i
      <4>1. ing[j].pc # "idle" => ing[j] \in IngestRecord
        BY <1>0, IngestBusy
      <4> QED
        BY <1>0, <1>1, <1>2, <3>2, <4>1 DEF DeliveriesKnown, IngestRecord
    <3> QED
      BY <3>1, <3>2
  <2>3. ASSUME NEW r \in Refreshers, ref'[r].pc # "idle"
        PROVE  /\ registry' # None /\ ref'[r].listed.interval = registry'.interval
               /\ Known(ghost'.delivered, ref'[r].listed.hash, ref'[r].listed.ingestedAt)
    <3>1. ref[r] \in RefreshFields
      BY <1>0, <1>1, <2>3, RefreshBusy
    <3> QED
      BY <1>0, <1>1, <1>2, <2>3, <3>1 DEF DeliveriesKnown, RefreshFields, DataSource
  <2> QED
    BY <1>1, <1>2, <2>1, <2>2, <2>3 DEF DeliveriesKnown
<1>4. PreloadAlone'
  BY <1>1 DEF AnchorInv, PreloadAlone, Until
<1>5. AnchoredOrHeld'
  <2> SUFFICES ASSUME LoopFree, entry # None, expiry # None
               PROVE  \/ Anchored'
                      \/ /\ Held(entry)' /\ entry # registry.hash
                         /\ \A j \in Ingesters : ~(ing'[j].pc = "save" /\ ing'[j].reapply)
    BY <1>1 DEF AnchoredOrHeld, LoopFree
  <2>1. CASE Anchored
    <3>1. entry \in Texts /\ expiry \in Nat /\ registry \in DataSource
      BY <1>0 DEF TypeOK, Opt, Time, AnchorInv, CacheInv, RouteFixed
    <3>2. cache_ttl(registry.interval) \in Nat
      BY <3>1, TtlIsNat DEF DataSource, AnchorInv, ExpiryNeedsTtl
    <3>3. ghost.delivered[entry] \in Nat
      BY <1>0, <2>1, <3>1 DEF TypeOK, Opt, Time, Anchored
    <3>4. /\ ghost'.delivered[entry] \in Nat /\ ghost.delivered[entry] <= ghost'.delivered[entry]
          /\ ghost'.delivered[entry] # None
      BY <1>2, <2>1, <3>1, ConstantsAssumption DEF Anchored
    <3> HIDE DEF cache_ttl
    <3> QED
      BY <1>1, <2>1, <3>1, <3>2, <3>3, <3>4 DEF Anchored
  <2>2. CASE /\ Held(entry) /\ entry # registry.hash
             /\ \A j \in Ingesters : ~(ing[j].pc = "save" /\ ing[j].reapply)
    BY <1>1, <2>2 DEF Held
  <2> QED
    BY <2>1, <2>2 DEF AnchorInv, AnchoredOrHeld
<1>6. ExpiryNeedsTtl'
  BY <1>1 DEF AnchorInv, ExpiryNeedsTtl
<1> QED
  BY <1>3, <1>4, <1>5, <1>6 DEF AnchorParts

\* A step that brings no new copy and no later expiry, and takes the copy from nobody's hands.
LEMMA QuietAnchor ==
  ASSUME AnchorInv, SameRow, LoopFree' => LoopFree,
         \/ entry' = entry /\ expiry' = expiry
         \/ entry' = None /\ expiry' = None,
         Held(entry) => Held(entry)' \/ entry' = None,
         \A i \in Ingesters : ing'[i].pc = "save" /\ ing'[i].reapply =>
            (ing[i].pc = "save" /\ ing[i].reapply) \/ entry' = None,
         LoopFree' \/ ref' = ref
  PROVE  PreloadAlone' /\ ExpiryNeedsTtl' /\ AnchoredOrHeld'
<1>1. ExpiryNeedsTtl'
  BY DEF AnchorInv, ExpiryNeedsTtl
<1>2. PreloadAlone'
  <2>1. CASE LoopFree'
    BY <2>1 DEF LoopFree, PreloadAlone
  <2>2. CASE ref' = ref
    BY <2>2 DEF AnchorInv, PreloadAlone, Until
  <2> QED
    BY <2>1, <2>2
<1>3. AnchoredOrHeld'
  <2> SUFFICES ASSUME LoopFree', entry' # None, expiry' # None
               PROVE  \/ Anchored'
                      \/ /\ Held(entry)' /\ entry' # registry'.hash
                         /\ \A i \in Ingesters : ~(ing'[i].pc = "save" /\ ing'[i].reapply)
    BY DEF AnchoredOrHeld
  <2>1. entry' = entry /\ expiry' = expiry /\ LoopFree /\ registry # None
    BY DEF AnchorInv, CacheInv, RouteFixed
  <2>2. CASE Anchored
    BY <2>1, <2>2 DEF Anchored, SameRow
  <2>3. CASE /\ Held(entry) /\ entry # registry.hash
             /\ \A i \in Ingesters : ~(ing[i].pc = "save" /\ ing[i].reapply)
    BY <2>1, <2>3 DEF SameRow
  <2> QED
    BY <2>1, <2>2, <2>3 DEF AnchorInv, AnchoredOrHeld
<1> QED
  BY <1>1, <1>2, <1>3

\* A step of an ingestion that touches neither the cache nor, but for its marker, the row.
LEMMA IngestAnchor ==
  ASSUME AnchorInv, NEW i \in Ingesters, SameRow, LoopFree, UNCHANGED <<entry, expiry, ref>>,
         \A j \in Ingesters : j # i => ing'[j] = ing[j],
         \/ ing'[i].pc = "idle"
         \/ /\ ing[i].pc \notin {"idle", "get"} /\ ing'[i].text = ing[i].text
            /\ ing'[i].now = ing[i].now /\ ing'[i].source = ing[i].source,
         ing'[i].pc = "save" /\ ing'[i].reapply => entry = None
  PROVE  AnchorParts'
<1>0. TypeOK /\ DeliveriesKnown
  BY AnchorFacts
<1>1. DeliveriesKnown'
  BY <1>0, SameRowKnown
<1>2. LoopFree'
  BY DEF LoopFree
<1>3. Held(entry) => Held(entry)'
  BY DEF Held
<1> QED
  BY <1>1, <1>2, <1>3, QuietAnchor DEF AnchorParts

\* The steps of the only ingestion.
LEMMA IngestAnchorStep ==
  ASSUME AnchorInv, OneIngester, NEW i \in Ingesters,
         \/ \E t \in Texts, d \in Intervals : Deliver(i, t, d)
         \/ IngestStep(i)
         \/ IngestRaise(i)
  PROVE  AnchorParts'
<1> DEFINE p == ing[i]
<1>0. /\ TypeOK /\ TypeInv /\ DeliveriesKnown /\ CacheInv /\ ing \in [Ingesters -> IngestState]
      /\ ref \in [Refreshers -> RefreshState]
      /\ registry # None => registry \in DataSource
      /\ clock \in Nat /\ RouteFollowsScope /\ UserTextStaysInMag /\ IngestProgress(i)
  BY AnchorFacts, CacheFacts
<1>f. p.pc \notin {"idle", "get"} /\ registry # None => p.source.route = registry.route
  BY <1>0 DEF CacheInv, RouteFixed
<1>j. \A j \in Ingesters : j = i
  BY DEF OneIngester
<1>1. CASE \E t \in Texts, d \in Intervals : Deliver(i, t, d)
  BY <1>1, DeliverAnchors
<1>2. CASE IngestGet(i)
  <2>1. p \in IngestRecord /\ p.pc = "get"
    BY <1>0, <1>2, IngestBusy DEF IngestGet
  <2>2. UNCHANGED <<clock, registry, entry, expiry, ref, ghost>> /\ LoopFree
    BY <1>2 DEF IngestGet, cacheVars
  <2>3. /\ ing'[i].pc = AfterGet(p, registry) /\ ing'[i].text = p.text /\ ing'[i].now = p.now
        /\ ing'[i].reapply = (registry = None \/ Reapplies(p, registry))
    BY <1>0, <1>2, <2>1 DEF IngestGet, IngestRecord
  <2>4. ~(ing'[i].pc = "save" /\ ing'[i].reapply)
    BY <2>3 DEF AfterGet, FirstEffect
  <2>5. /\ ing'[i].source.ingestedAt = p.now
        /\ registry # None => ing'[i].source.interval = registry.interval
    <3>1. CASE registry = None
      <4>1. ing'[i].source = NewSource(p)
        BY <1>0, <1>2, <2>1, <3>1 DEF IngestGet, IngestRecord
      <4> QED
        BY <3>1, <4>1 DEF NewSource
    <3>2. CASE registry # None
      <4> DEFINE source == [registry EXCEPT
                              !.hash = p.text, !.ingestedAt = p.now, !.pending = None,
                              !.changedAt = IF Confirms(p, registry) THEN @ ELSE p.now]
      <4>1. source.ingestedAt = p.now /\ source.interval = registry.interval
        BY <1>0, <3>2 DEF DataSource
      <4>2. ing'[i].source = source
        <5> HIDE DEF source
        <5> QED
          BY <1>0, <1>2, <2>1, <3>2 DEF IngestGet, IngestRecord, source
      <4> QED
        BY <4>1, <4>2
    <3> QED
      BY <3>1, <3>2
  <2>6. SameRow /\ LoopFree'
    BY <1>0, <2>2 DEF SameRow, LoopFree
  <2>7. DeliveriesKnown'
    <3>1. \A t, at : Known(ghost'.delivered, t, at) <=> Known(ghost.delivered, t, at)
      BY <2>2 DEF Known
    <3>2. Known(ghost.delivered, p.text, p.now)
      BY <1>0, <2>1 DEF DeliveriesKnown
    <3> QED
      BY <1>0, <1>j, <2>2, <2>3, <2>5, <3>1, <3>2 DEF DeliveriesKnown
  <2>8. Held(entry) => Held(entry)'
    BY <2>2 DEF Held
  <2> QED
    BY <1>j, <2>2, <2>4, <2>6, <2>7, <2>8, QuietAnchor DEF AnchorParts
<1>3. CASE IngestMark(i)
  <2>1. p \in IngestRecord /\ registry \in DataSource /\ registry # None /\ p.pc = "mark"
    BY <1>0, <1>3, IngestBusy DEF IngestMark, TypeInv, LocalsReady
  <2>2. UNCHANGED <<clock, entry, expiry, ref, ghost>> /\ LoopFree
    BY <1>3 DEF IngestMark, cacheVars
  <2>3. /\ registry' \in DataSource /\ registry'.hash = registry.hash
        /\ registry'.ingestedAt = registry.ingestedAt /\ registry'.interval = registry.interval
    BY <1>3, <2>1 DEF IngestMark, IngestRecord, DataSource, Opt
  <2>4. /\ ing'[i].source = p.source /\ ing'[i].pc \in {"record", "rows"}
        /\ ing'[i].text = p.text /\ ing'[i].now = p.now
    BY <1>0, <1>3, <2>1 DEF IngestMark, IngestRecord, FirstEffect
  <2>5. SameRow
    BY <1>0, <2>1, <2>2, <2>3, NoneAssumption DEF SameRow
  <2> QED
    BY <1>j, <2>1, <2>2, <2>4, <2>5, IngestAnchor
<1>4. CASE IngestRecordFact(i) \/ IngestReplaceRows(i) \/ IngestUpsertPoints(i) \/ IngestPrunePoints(i)
  <2>1. /\ p.pc \in {"record", "rows", "upsert", "prune"} /\ LoopFree
        /\ UNCHANGED <<clock, registry, entry, expiry, ref, ghost>>
    BY <1>4 DEF IngestRecordFact, IngestReplaceRows, IngestUpsertPoints, IngestPrunePoints, cacheVars
  <2>2. p \in IngestRecord
    BY <1>0, <2>1, IngestBusy
  <2>3. \E pc : ing' = [ing EXCEPT ![i].pc = pc]
    BY <1>4 DEF IngestRecordFact, IngestReplaceRows, IngestUpsertPoints, IngestPrunePoints
  <2>4. ing'[i].text = p.text /\ ing'[i].now = p.now /\ ing'[i].source = p.source
    BY <1>0, <2>2, <2>3 DEF IngestRecord
  <2>5. ing'[i].pc = "save" => entry = None
    <3>1. CASE IngestRecordFact(i)
      BY <1>0, <3>1 DEF IngestRecordFact, RouteFollowsScope, UserTextStaysInMag
    <3>2. CASE IngestReplaceRows(i) \/ IngestUpsertPoints(i)
      <4>1. ing'[i].pc \in {"upsert", "prune"}
        BY <1>0, <2>2, <3>2 DEF IngestReplaceRows, IngestUpsertPoints, IngestRecord
      <4> QED
        BY <4>1
    <3>3. CASE IngestPrunePoints(i)
      <4>1. ing'[i].pc = "save" => p.source.route # CAG
        BY <1>0, <2>2, <3>3 DEF IngestPrunePoints, IngestRecord
      <4> QED
        BY <1>0, <1>f, <2>1, <4>1 DEF CacheInv, RouteFixed
    <3> QED
      BY <1>4, <3>1, <3>2, <3>3
  <2>6. SameRow
    BY <1>0, <2>1 DEF SameRow
  <2> QED
    BY <1>j, <2>1, <2>4, <2>5, <2>6, IngestAnchor
<1>5. CASE IngestCache(i)
  <2>1. p \in IngestRecord /\ p.source \in DataSource /\ p.pc = "cache" /\ p.now \in Nat
    BY <1>0, <1>5, IngestBusy DEF IngestCache, IngestRecord, TypeInv, LocalsReady, Opt, Time
  <2>2. UNCHANGED <<clock, ref, registry, ghost>> /\ LoopFree
    BY <1>5 DEF IngestCache
  <2>3. /\ ing'[i].pc = "save" /\ ing'[i].reapply = p.reapply
        /\ ing'[i].text = p.text /\ ing'[i].now = p.now
        /\ ing'[i].source.ingestedAt = p.source.ingestedAt
        /\ ing'[i].source.interval = p.source.interval
    BY <1>0, <1>5, <2>1 DEF IngestCache, IngestRecord, DataSource
  <2>4. SameRow /\ LoopFree'
    BY <1>0, <2>2 DEF SameRow, LoopFree
  <2>5. DeliveriesKnown'
    BY <1>0, <1>j, <2>1, <2>2, <2>3, <2>4, SameRowKnown
  <2>6. Held(entry) => Held(entry)' \/ entry' = None
    BY <1>5, <2>2 DEF Held, IngestCache, EvictAndForget, ExpireIfDue
  <2>7. CASE entry' = None /\ expiry' = None
    BY <1>j, <2>2, <2>4, <2>5, <2>6, <2>7, QuietAnchor DEF AnchorParts
  <2>8. CASE ~p.reapply /\ entry' = entry /\ expiry' = expiry
    BY <1>j, <2>2, <2>3, <2>4, <2>5, <2>6, <2>8, QuietAnchor DEF AnchorParts
  <2>9. CASE ~p.reapply /\ entry' = entry /\ expiry' = ExpiresAt(p.now, p.source.interval)
    <3>1. PreloadAlone'
      BY <2>4 DEF LoopFree, PreloadAlone
    <3>2. ExpiryNeedsTtl'
      BY <2>9 DEF ExpiryNeedsTtl, ExpiresAt
    <3>3. AnchoredOrHeld'
      <4> SUFFICES ASSUME entry # None, expiry' # None
                   PROVE  \/ Anchored'
                          \/ /\ Held(entry)' /\ entry # registry.hash
                             /\ \A j \in Ingesters : ~(ing'[j].pc = "save" /\ ing'[j].reapply)
        BY <2>2, <2>9 DEF AnchoredOrHeld
      <4>1. registry # None /\ registry.hash = p.text
        BY <1>0, <2>1, <2>9 DEF IngestProgress
      <4>2. Held(entry) \/ registry.hash = entry
        BY <1>0 DEF CacheInv, CachedCopyIsCurrent
      <4>3. CASE entry = registry.hash
        <5>1. /\ Known(ghost.delivered, entry, p.now)
              /\ p.source.interval = registry.interval /\ entry \in Texts
          BY <1>0, <2>1, <4>1, <4>3 DEF DeliveriesKnown, IngestRecord
        <5>2. TtlNum # None /\ expiry' = p.now + cache_ttl(registry.interval)
          BY <2>9, <5>1 DEF ExpiresAt
        <5>3. cache_ttl(registry.interval) \in Nat
          BY <1>0, <4>1, <5>2, TtlIsNat DEF DataSource
        <5>4. ghost.delivered[entry] \in Nat /\ p.now <= ghost.delivered[entry]
          BY <1>0, <5>1 DEF Known, TypeOK, Opt, Time
        <5> HIDE DEF cache_ttl
        <5>5. cache_ttl(registry'.interval) = cache_ttl(registry.interval)
          BY <2>2
        <5> QED
          BY <2>1, <2>2, <2>9, <5>1, <5>2, <5>3, <5>4, <5>5 DEF Anchored, Known
      <4>4. CASE entry # registry.hash
        BY <1>j, <2>2, <2>3, <2>9, <4>2, <4>4 DEF Held
      <4> QED
        BY <4>3, <4>4
    <3> QED
      BY <2>5, <3>1, <3>2, <3>3 DEF AnchorParts
  <2> QED
    BY <1>5, <2>7, <2>8, <2>9 DEF IngestCache, EvictAndForget, ExpireIfDue
<1>6. CASE IngestSave(i)
  <2>1. p \in IngestRecord /\ p.source \in DataSource /\ p.pc = "save"
    BY <1>0, <1>6, IngestBusy DEF IngestSave, IngestRecord, TypeInv, LocalsReady, Opt
  <2>2. /\ UNCHANGED <<clock, entry, expiry, ref>> /\ LoopFree /\ ing'[i].pc = "idle"
        /\ ghost'.delivered = ghost.delivered
    BY <1>0, <1>6 DEF IngestSave, cacheVars, Idle, TypeOK
  <2>3. /\ registry' # None /\ registry'.hash = p.text /\ registry'.ingestedAt = p.now
        /\ registry # None => registry'.interval = registry.interval
    <3>0. registry' \in DataSource
      BY <1>0, <1>6, <2>1 DEF IngestSave, Saved, DataSource, Opt
    <3>1. registry'.hash = p.source.hash /\ registry'.ingestedAt = p.source.ingestedAt
          /\ (registry # None => registry'.interval = registry.interval)
      <4>1. CASE registry = None
        BY <1>6, <2>1, <3>0, <4>1 DEF IngestSave, Saved, DataSource
      <4>2. CASE registry # None
        BY <1>0, <1>6, <2>1, <3>0, <4>2 DEF IngestSave, Saved, DataSource
      <4> QED
        BY <4>1, <4>2
    <3> QED
      BY <1>0, <2>1, <3>0, <3>1, NoneAssumption DEF DeliveriesKnown, IngestProgress
  <2>4. \A t, at : Known(ghost'.delivered, t, at) <=> Known(ghost.delivered, t, at)
    BY <2>2 DEF Known
  <2>5. DeliveriesKnown'
    BY <1>0, <1>j, <2>1, <2>2, <2>3, <2>4 DEF DeliveriesKnown
  <2>6. PreloadAlone' /\ ExpiryNeedsTtl'
    BY <2>2 DEF AnchorInv, PreloadAlone, ExpiryNeedsTtl, Until
  <2>7. AnchoredOrHeld'
    <3> SUFFICES ASSUME LoopFree, entry # None, expiry # None
                 PROVE  \/ Anchored'
                        \/ /\ Held(entry)' /\ entry # registry'.hash
                           /\ \A j \in Ingesters : ~(ing'[j].pc = "save" /\ ing'[j].reapply)
      BY <2>2 DEF AnchoredOrHeld
    <3>1. registry # None
      BY <1>0 DEF CacheInv, RouteFixed
    <3>2. CASE Anchored
      BY <2>2, <2>3, <3>1, <3>2 DEF Anchored
    <3>3. CASE Held(entry) /\ entry # registry.hash /\ ~p.reapply
      <4>1. registry.hash = p.text
        BY <1>0, <2>1, <3>3 DEF IngestProgress
      <4> QED
        BY <1>j, <2>2, <2>3, <3>3, <4>1 DEF Held
    <3> QED
      BY <2>1, <3>2, <3>3 DEF AnchorInv, AnchoredOrHeld
  <2> QED
    BY <2>5, <2>6, <2>7 DEF AnchorParts
<1>7. CASE IngestRaise(i)
  <2>1. UNCHANGED <<clock, entry, expiry, ref, registry, ghost>> /\ LoopFree /\ ing'[i].pc = "idle"
    BY <1>0, <1>7 DEF IngestRaise, cacheVars, Idle
  <2>2. SameRow
    BY <1>0, <2>1 DEF SameRow
  <2> QED
    BY <1>j, <2>1, <2>2, IngestAnchor
<1> QED
  BY <1>1, <1>2, <1>3, <1>4, <1>5, <1>6, <1>7 DEF IngestStep

\* A step of a refresh that sets no expiry and keeps the copy it holds, unless the cache loses it.
LEMMA RefreshAnchor ==
  ASSUME AnchorInv, NEW r \in Refreshers, SameRow, LoopFree, UNCHANGED ing,
         \/ entry' = entry /\ expiry' = expiry
         \/ entry' = None /\ expiry' = None,
         \A q \in Refreshers : q # r => ref'[q] = ref[q],
         \/ ref'[r].pc = "idle"
         \/ ref[r].pc # "idle" /\ ref'[r].pc # "preloading" /\ ref'[r].listed = ref[r].listed,
         Held(entry) => Held(entry)' \/ entry' = None
  PROVE  AnchorParts'
<1>0. TypeOK /\ DeliveriesKnown
  BY AnchorFacts
<1>1. DeliveriesKnown'
  BY <1>0, SameRowKnown
<1>2. LoopFree'
  BY DEF LoopFree
<1> QED
  BY <1>1, <1>2, QuietAnchor DEF AnchorParts

\* The steps of a refresh, as long as its write does not fail.
LEMMA RefreshAnchorStep ==
  ASSUME AnchorInv, QuietRouter, NEW r \in Refreshers,
         RefreshList(r) \/ RefreshStep(r) \/ RefreshRaise(r)
  PROVE  AnchorParts'
<1> DEFINE p == ref[r]
<1>0. /\ TypeOK /\ DeliveriesKnown /\ CacheInv /\ ref \in [Refreshers -> RefreshState]
      /\ registry # None => registry \in DataSource
      /\ clock \in Nat
  BY AnchorFacts
<1>1. CASE RefreshList(r)
  <2>1. UNCHANGED <<clock, registry, entry, expiry, ing, ghost>> /\ LoopFree /\ p.pc = "idle"
    BY <1>1 DEF RefreshList, cacheVars
  <2>2. /\ ref'[r].pc = "check" /\ ref'[r].listed = registry /\ registry # None
        /\ \A q \in Refreshers : q # r => ref'[q] = ref[q]
    BY <1>0, <1>1 DEF RefreshList
  <2>3. SameRow /\ LoopFree' /\ (Held(entry) => Held(entry)')
    BY <1>0, <2>1, <2>2 DEF SameRow, LoopFree, Held
  <2>4. DeliveriesKnown'
    BY <1>0, <2>1, <2>2 DEF DeliveriesKnown
  <2> QED
    BY <2>1, <2>3, <2>4, QuietAnchor DEF AnchorParts
<1>2. CASE RefreshCheck(r) \/ RefreshRead(r) \/ RefreshRaise(r)
  <2>1. p.pc \in {"check", "read"} /\ LoopFree /\ UNCHANGED <<clock, registry, ing, ghost>>
    BY <1>2 DEF RefreshCheck, RefreshRead, RefreshRaise, QuietRouter
  <2>2. p \in RefreshFields
    BY <1>0, <2>1, RefreshBusy
  <2>3. \/ entry' = entry /\ expiry' = expiry
        \/ entry' = None /\ expiry' = None
    BY <1>2 DEF RefreshCheck, RefreshRead, RefreshRaise, ExpireIfDue, cacheVars
  <2>4. /\ \A q \in Refreshers : q # r => ref'[q] = ref[q]
        /\ ref'[r] \in {Idle, [p EXCEPT !.pc = "read"], [p EXCEPT !.pc = "expiry"]}
    BY <1>0, <1>2 DEF RefreshCheck, RefreshRead, RefreshRaise
  <2>5. ref'[r].pc = "idle" \/ (ref'[r].pc # "preloading" /\ ref'[r].listed = p.listed)
    BY <2>2, <2>4 DEF RefreshFields, Idle
  <2>6. SameRow /\ (Held(entry) => Held(entry)' \/ entry' = None)
    BY <1>0, <2>1, <2>3, <2>4 DEF SameRow, Held
  <2> QED
    BY <2>1, <2>3, <2>4, <2>5, <2>6, RefreshAnchor
<1>3. CASE RefreshSetExpiry(r)
  <2>1. p \in RefreshFields /\ p.pc = "expiry"
    BY <1>0, <1>3, RefreshBusy DEF RefreshSetExpiry
  <2>2. UNCHANGED <<clock, registry, ing, ghost>> /\ LoopFree /\ expiry' = Until(p.listed)
    BY <1>3 DEF RefreshSetExpiry
  <2>3. /\ ref'[r].pc = "preloading" /\ ref'[r].listed = p.listed
        /\ \A q \in Refreshers : q # r => ref'[q] = ref[q]
    BY <1>0, <1>3, <2>1 DEF RefreshSetExpiry, RefreshFields
  <2>4. DeliveriesKnown'
    <3>1. SameRow
      BY <1>0, <2>2 DEF SameRow
    <3> QED
      BY <1>0, <2>1, <2>2, <2>3, <3>1, SameRowKnown
  <2>5. PreloadAlone'
    <3> HIDE DEF Until
    <3>1. Until(p.listed) = Until(ref'[r].listed)
      BY <2>3
    <3>2. \A q \in Refreshers : ref'[q].pc = "preloading" => q = r
      BY <2>2, <2>3 DEF LoopFree
    <3> QED
      BY <2>2, <2>3, <3>1, <3>2 DEF PreloadAlone
  <2>6. ExpiryNeedsTtl' /\ AnchoredOrHeld'
    BY <2>2, <2>3 DEF ExpiryNeedsTtl, AnchoredOrHeld, LoopFree, Until, ExpiresAt
  <2> QED
    BY <2>4, <2>5, <2>6 DEF AnchorParts
<1>4. CASE RefreshPreload(r)
  <2>1. p \in RefreshFields /\ p.pc = "preloading" /\ p.listed \in DataSource
    BY <1>0, <1>4, RefreshBusy DEF RefreshPreload, RefreshFields
  <2>2. UNCHANGED <<clock, registry, ing, expiry, ghost>> /\ entry' = p.listed.hash
    BY <1>4 DEF RefreshPreload
  <2>3. /\ ref'[r].pc = "record" /\ ref'[r].listed = p.listed
        /\ \A q \in Refreshers : q # r => ref'[q] = ref[q]
    BY <1>0, <1>4, <2>1 DEF RefreshPreload, RefreshFields
  <2>4. expiry \in {None, Until(p.listed)} /\ \A q \in Refreshers : ref[q].pc = "preloading" => q = r
    BY <2>1 DEF AnchorInv, PreloadAlone
  <2>5. LoopFree'
    BY <2>3, <2>4 DEF LoopFree
  <2>6. DeliveriesKnown'
    <3>1. SameRow
      BY <1>0, <2>2 DEF SameRow
    <3> QED
      BY <1>0, <2>1, <2>2, <2>3, <3>1, SameRowKnown
  <2>7. PreloadAlone' /\ ExpiryNeedsTtl'
    BY <2>2, <2>5 DEF LoopFree, PreloadAlone, ExpiryNeedsTtl, AnchorInv
  <2>8. expiry # None => Anchored'
    <3> SUFFICES ASSUME expiry # None PROVE Anchored'
      OBVIOUS
    <3>1. /\ registry \in DataSource /\ p.listed.interval = registry.interval
          /\ Known(ghost.delivered, p.listed.hash, p.listed.ingestedAt)
      BY <1>0, <2>1 DEF DeliveriesKnown
    <3>2. TtlNum # None /\ expiry = p.listed.ingestedAt + cache_ttl(registry.interval)
      BY <2>4, <3>1 DEF Until, ExpiresAt
    <3>3. cache_ttl(registry.interval) \in Nat
      BY <3>1, <3>2, TtlIsNat DEF DataSource
    <3>4. /\ ghost.delivered[p.listed.hash] \in Nat /\ p.listed.ingestedAt \in Nat
          /\ p.listed.ingestedAt <= ghost.delivered[p.listed.hash]
      BY <1>0, <2>1, <3>1 DEF Known, TypeOK, Opt, Time, DataSource
    <3> HIDE DEF cache_ttl
    <3>5. cache_ttl(registry'.interval) = cache_ttl(registry.interval)
      BY <2>2
    <3> QED
      BY <2>2, <3>1, <3>2, <3>3, <3>4, <3>5 DEF Anchored, Known
  <2> QED
    BY <2>2, <2>6, <2>7, <2>8 DEF AnchorParts, AnchoredOrHeld
<1>5. CASE RefreshRecord(r)
  <2>1. p \in RefreshFields /\ p.pc = "record"
    BY <1>0, <1>5, RefreshBusy DEF RefreshRecord
  <2>2. /\ UNCHANGED <<clock, ing, entry, expiry, ghost>> /\ LoopFree
        /\ \A q \in Refreshers : q # r => ref'[q] = ref[q]
    BY <1>0, <1>5 DEF RefreshRecord, cacheVars
  <2>3. CASE Unchanged(p.listed.hash)
    <3>1. registry \in DataSource /\ registry # None /\ registry.hash = p.listed.hash
      BY <1>0, <2>3 DEF Unchanged
    <3>2. registry' = [registry EXCEPT !.cachedUntil = Until(p.listed)] /\ ref'[r] = Idle
      BY <1>0, <1>5, <2>3 DEF RefreshRecord
    <3>3. SameRow
      <4>1. Until(p.listed) \in Opt(Time)
        BY <2>1, ExpiresAtType DEF Until, RefreshFields, DataSource
      <4>2. registry' \in DataSource
        BY <3>1, <3>2, <4>1 DEF DataSource
      <4>3. /\ registry'.hash = registry.hash /\ registry'.ingestedAt = registry.ingestedAt
            /\ registry'.interval = registry.interval
        BY <3>1, <3>2 DEF DataSource
      <4> QED
        BY <1>0, <2>2, <3>1, <4>2, <4>3, NoneAssumption DEF SameRow
    <3>4. DeliveriesKnown'
      BY <1>0, <2>2, <3>2, <3>3, SameRowKnown DEF Idle
    <3>5. LoopFree'
      BY <2>2, <3>2 DEF LoopFree, Idle
    <3>6. PreloadAlone' /\ ExpiryNeedsTtl'
      BY <2>2, <3>5 DEF LoopFree, PreloadAlone, ExpiryNeedsTtl, AnchorInv
    <3>7. AnchoredOrHeld'
      <4> SUFFICES ASSUME entry # None, expiry # None
                   PROVE  \/ Anchored'
                          \/ /\ Held(entry)' /\ entry # registry'.hash
                             /\ \A i \in Ingesters : ~(ing'[i].pc = "save" /\ ing'[i].reapply)
        BY <2>2 DEF AnchoredOrHeld
      <4>1. CASE Anchored
        BY <2>2, <3>1, <3>3, <4>1 DEF Anchored, SameRow
      <4>2. CASE /\ Held(entry) /\ entry # registry.hash
                 /\ \A i \in Ingesters : ~(ing[i].pc = "save" /\ ing[i].reapply)
        <5>1. Held(entry)'
          BY <2>2, <3>1, <4>2 DEF Held
        <5> QED
          BY <2>2, <3>1, <3>3, <4>2, <5>1 DEF SameRow
      <4> QED
        BY <2>2, <4>1, <4>2 DEF AnchorInv, AnchoredOrHeld
    <3> QED
      BY <3>4, <3>6, <3>7 DEF AnchorParts
  <2>4. CASE ~Unchanged(p.listed.hash)
    <3>1. registry' = registry /\ ref'[r].pc = "retract" /\ ref'[r].listed = p.listed
      BY <1>0, <1>5, <2>1, <2>4 DEF RefreshRecord, RefreshFields
    <3>2. SameRow /\ (Held(entry) => Held(entry)')
      BY <1>0, <2>1, <2>2, <3>1 DEF SameRow, Held
    <3> QED
      BY <2>1, <2>2, <3>1, <3>2, RefreshAnchor
  <2> QED
    BY <2>3, <2>4
<1>6. CASE RefreshRetract(r)
  <2>1. /\ UNCHANGED <<clock, registry, ing, ghost>> /\ LoopFree
        /\ entry' = None /\ expiry' = None /\ ref'[r].pc = "idle"
        /\ \A q \in Refreshers : q # r => ref'[q] = ref[q]
    BY <1>0, <1>6 DEF RefreshRetract, EvictAndForget, Idle
  <2>2. SameRow
    BY <1>0, <2>1 DEF SameRow
  <2> QED
    BY <2>1, <2>2, RefreshAnchor
<1> QED
  BY <1>1, <1>2, <1>3, <1>4, <1>5, <1>6 DEF RefreshStep

\* Every step keeps AnchorInv.
LEMMA AnchorStep ==
  ASSUME AnchorInv, QuietRouter, [Next]_vars
  PROVE  AnchorInv'
<1>0. TypeOK /\ DeliveriesKnown /\ CacheInv /\ clock \in Nat
  BY AnchorFacts
<1>1. CacheInv'
  BY <1>0, CacheStep
<1>2. AnchorParts'
  <2>1. CASE Lookup \/ Tick \/ UNCHANGED vars
    <3>1. /\ UNCHANGED <<registry, ing, ref, ghost>> /\ clock' \in Nat /\ clock <= clock'
          /\ \/ entry' = entry /\ expiry' = expiry
             \/ entry' = None /\ expiry' = None
      BY <1>0, <2>1 DEF Lookup, ExpireIfDue, procVars, Tick, vars, cacheVars
    <3>2. /\ SameRow /\ (LoopFree' => LoopFree)
          /\ Held(entry) => Held(entry)' \/ entry' = None
      BY <3>1 DEF SameRow, LoopFree, Held
    <3>3. DeliveriesKnown'
      BY <1>0, <3>1, <3>2, SameRowKnown
    <3> QED
      BY <3>1, <3>2, <3>3, QuietAnchor DEF AnchorParts
  <2>2. CASE Crash
    <3>1. /\ UNCHANGED <<registry, clock, ghost>> /\ entry' = None /\ expiry' = None
          /\ \A q \in Refreshers : ref'[q].pc = "idle"
          /\ \A i \in Ingesters : ing'[i].pc = "idle"
      BY <2>2 DEF Crash, EvictAndForget, Idle
    <3>2. SameRow
      BY <1>0, <3>1 DEF SameRow
    <3>3. DeliveriesKnown'
      BY <1>0, <3>1, <3>2, SameRowKnown
    <3> QED
      BY <3>1, <3>3 DEF AnchorParts, PreloadAlone, ExpiryNeedsTtl, AnchoredOrHeld
  <2> QED
    BY <2>1, <2>2, IngestAnchorStep, RefreshAnchorStep DEF Next, QuietRouter
<1> QED
  BY <1>1, <1>2 DEF AnchorInv, AnchorParts

\* ExpiryAnchored for one ingestion at a time beside any number of refreshes, with any store call
\* failing but record_cached_until, any crash, and any lookup from a worker thread: no order of
\* pre-loads and renewals trusts a copy for longer than one TTL after its text was delivered.
THEOREM ExpiriesStayAnchored ==
  ASSUME QuietRouter
  PROVE  Spec => []ExpiryAnchored
<1>1. Init => AnchorInv
  <2>1. Init => CacheInv
    BY CacheInit
  <2> QED
    BY <2>1 DEF Init, AnchorInv, DeliveriesKnown, PreloadAlone, ExpiryNeedsTtl, AnchoredOrHeld, Idle
<1>2. AnchorInv /\ [Next]_vars => AnchorInv'
  BY AnchorStep
<1>3. AnchorInv => ExpiryAnchored
  BY DEF AnchorInv, AnchoredOrHeld, Anchored, ExpiryAnchored, NoRefreshLoading, LoopFree, Held
<1> QED
  BY <1>1, <1>2, <1>3, PTL DEF Spec

=============================================================================
