----------------------- MODULE FreshnessRouterProofs -----------------------
(***************************************************************************)
(* Theorems about FreshnessRouter for every value of its constants: its     *)
(* types; a user's text stays in MAG; and the stored route is the one the   *)
(* stored interval calls for.                                              *)
(***************************************************************************)
EXTENDS FreshnessRouter, TLAPS

-----------------------------------------------------------------------------
(* Arithmetic of the policy. *)

\* The mean gap of a demotion is a positive interval once the gaps sum to one each.
LEMMA QuotientPositive ==
  ASSUME NEW a \in Nat, NEW b \in Nat \ {0}, a >= b
  PROVE  a \div b \in Nat \ {0}
  BY Z3

\* A scaled interval is a natural number.
LEMMA TtlIsNat ==
  ASSUME NEW d \in Nat \ {0}, TtlNum # None
  PROVE  cache_ttl(d) \in Nat
<1>1. TtlNum \in Nat /\ TtlDen \in Nat \ {0}
  BY ConstantsAssumption
<1>2. d * TtlNum \in Nat
  BY <1>1
<1>3. \A x \in Nat, y \in Nat \ {0} : x \div y \in Nat
  BY Z3
<1> QED
  BY <1>1, <1>2, <1>3 DEF cache_ttl

\* An expiry is a time, or None when expiry is disabled.
LEMMA ExpiresAtType ==
  ASSUME NEW t \in Time, NEW d \in Nat \ {0}
  PROVE  ExpiresAt(t, d) \in Opt(Time)
  BY TtlIsNat DEF ExpiresAt, Opt, Time

\* The promotion boundary is positive.
LEMMA BoundaryPositive ==
  VolatileBelow * PromoteAfterQuietMultiple \in Nat \ {0}
<1>1. \A x, y \in Nat \ {0} : x * y \in Nat \ {0}
  BY Z3
<1> QED
  BY <1>1, ConstantsAssumption

\* Every decision of the review is a route of a tenant's source with a positive interval.
LEMMA DecisionType ==
  ASSUME NEW source \in DataSource, NEW times, NEW now \in Time,
         \A k \in DOMAIN times : times[k] \in Time,
         NEW d \in decide_migration(source, times, now)
  PROVE  d \in Decision
<1>1. \A k \in Past(times, now) : times[k] \in Nat
  BY DEF Past, Time
<1>2. CASE d \in Demotions(times, now)
  <2>1. PICK jk \in Past(times, now) \X Past(times, now) :
          /\ d = [route |-> RAG_ONLY,
                  interval |-> IF times[jk[1]] - times[jk[2]] < DemoteAfterChanges THEN 1
                               ELSE (times[jk[1]] - times[jk[2]]) \div DemoteAfterChanges]
    BY <1>2 DEF Demotions
  <2>2. times[jk[1]] \in Nat /\ times[jk[2]] \in Nat
    BY <1>1, <2>1
  <2>3. DemoteAfterChanges \in Nat \ {0}
    BY ConstantsAssumption
  <2>4. ~(times[jk[1]] - times[jk[2]] < DemoteAfterChanges) =>
           (times[jk[1]] - times[jk[2]]) \div DemoteAfterChanges \in Nat \ {0}
    <3> DEFINE gap == times[jk[1]] - times[jk[2]]
    <3>1. SUFFICES ASSUME ~(gap < DemoteAfterChanges) PROVE gap \div DemoteAfterChanges \in Nat \ {0}
      OBVIOUS
    <3>2. gap \in Nat /\ gap >= DemoteAfterChanges
      BY <2>2, <2>3, <3>1
    <3> HIDE DEF gap
    <3> QED
      BY <2>3, <3>2, QuotientPositive
  <2> QED
    BY <2>1, <2>4 DEF Decision
<1>3. CASE d \in Promotions(times, now)
  <2>1. PICK j \in Past(times, now) :
          /\ d = [route |-> CAG, interval |-> now - times[j]]
          /\ now - times[j] >= VolatileBelow * PromoteAfterQuietMultiple
    BY <1>3 DEF Promotions
  <2>2. now - times[j] \in Nat \ {0}
    BY <1>1, <2>1, BoundaryPositive DEF Time
  <2> QED
    BY <2>1, <2>2 DEF Decision
<1> QED
  BY <1>2, <1>3 DEF decide_migration

-----------------------------------------------------------------------------
(* Type correctness.  TypeOK is not inductive alone: a mark needs a row to mark, and the later
   steps of a use case need the locals its earlier steps filled in. *)

LocalsReady ==
  /\ \A i \in Ingesters :
       /\ ing[i].pc \notin {"idle", "get"} => ing[i].source # None
       /\ ing[i].pc = "mark" => registry # None
  /\ \A v \in Reviewers : rev[v].pc \in {"migrate", "evict"} => rev[v].decision # None

TypeInv == TypeOK /\ LocalsReady

IngestRecord ==
  [pc : IngestPc, text : Texts, now : Time, interval : Nat \ {0}, source : Opt(DataSource),
   existing : BOOLEAN, changed : BOOLEAN, reapply : BOOLEAN]

RefreshFields == [pc : RefreshPc, listed : DataSource, now : Time]

ReviewFields == [pc : ReviewPc, listed : DataSource, now : Time, decision : Opt(Decision)]

\* A use case that is not idle has all its locals.
LEMMA IngestBusy ==
  ASSUME TypeOK, NEW i \in Ingesters, ing[i].pc # "idle"
  PROVE  ing[i] \in IngestRecord
  BY DEF TypeOK, IngestState, IngestRecord, Idle

LEMMA RefreshBusy ==
  ASSUME TypeOK, NEW r \in Refreshers, ref[r].pc # "idle"
  PROVE  ref[r] \in RefreshFields
  BY DEF TypeOK, RefreshState, RefreshFields, Idle

LEMMA ReviewBusy ==
  ASSUME TypeOK, NEW v \in Reviewers, rev[v].pc # "idle"
  PROVE  rev[v] \in ReviewFields
  BY DEF TypeOK, ReviewState, ReviewFields, Idle

\* The steps of an ingestion keep the types.
LEMMA IngestTypes ==
  ASSUME TypeInv, NEW i \in Ingesters,
         \/ \E t \in Texts, d \in Intervals : Deliver(i, t, d)
         \/ IngestStep(i)
         \/ IngestRaise(i)
  PROVE  TypeInv'
<1> USE DEF TypeInv, TypeOK, LocalsReady, ragVars, cacheVars
<1>1. ASSUME NEW t \in Texts, NEW d \in Intervals, Deliver(i, t, d)
      PROVE  TypeInv'
  <2>1. ing' \in [Ingesters -> IngestState]
    BY <1>1, ConstantsAssumption DEF Deliver, IngestState, IngestPc, Opt
  <2>2. ghost' \in [delivered : [Texts -> Opt(Time)], intervals : SUBSET Nat]
    BY <1>1 DEF Deliver, Opt
  <2> QED
    BY <1>1, <2>1, <2>2 DEF Deliver
<1>2. CASE IngestGet(i)
  <2> DEFINE p == ing[i]
             source == IF registry = None THEN NewSource(p)
                       ELSE [registry EXCEPT
                               !.hash = p.text, !.ingestedAt = p.now, !.pending = None,
                               !.changedAt = IF Confirms(p, registry) THEN @ ELSE p.now]
  <2>1. p \in IngestRecord
    BY <1>2, IngestBusy DEF IngestGet
  <2>2. source \in DataSource
    <3>1. CASE registry = None
      BY <2>1, <3>1 DEF NewSource, route_for, DataSource, IngestRecord, Routes, Opt
    <3>2. CASE registry # None
      BY <2>1, <3>2 DEF DataSource, IngestRecord, Opt
    <3> QED
      BY <3>1, <3>2
  <2>3. AfterGet(p, registry) \in IngestPc
    BY DEF AfterGet, IngestPc, FirstEffect
  <2>4. AfterGet(p, registry) = "mark" => registry # None
    BY DEF AfterGet, FirstEffect
  <2>5. PICK a \in BOOLEAN, b \in BOOLEAN :
          ing' = [ing EXCEPT ![i] =
                   [p EXCEPT !.pc = AfterGet(p, registry), !.source = source,
                             !.interval = source.interval, !.existing = (registry # None),
                             !.changed = a, !.reapply = b]]
    <3> HIDE DEF source
    <3> DEFINE a == registry = None \/ ~Confirms(p, registry)
               b == registry = None \/ Reapplies(p, registry)
    <3>1. a \in BOOLEAN /\ b \in BOOLEAN
      OBVIOUS
    <3>2. ing' = [ing EXCEPT ![i].pc = AfterGet(p, registry), ![i].source = source,
                           ![i].interval = source.interval,
                           ![i].existing = (registry # None), ![i].changed = a, ![i].reapply = b]
      BY <1>2 DEF IngestGet, source
    <3> HIDE DEF a, b
    <3> QED
      BY <3>1, <3>2
  <2> HIDE DEF source
  <2>6. source # None
    BY <2>2, NoneAssumption
  <2>7. source.interval \in Nat \ {0}
    BY <2>2 DEF DataSource
  <2> DEFINE q == [p EXCEPT !.pc = AfterGet(p, registry), !.source = source,
                            !.interval = source.interval, !.existing = (registry # None),
                            !.changed = a, !.reapply = b]
  <2>8. /\ q \in IngestRecord
        /\ q.source # None
        /\ q.pc = "mark" => registry # None
    BY <2>1, <2>2, <2>3, <2>4, <2>6, <2>7 DEF IngestRecord, Opt
  <2>9. ing' = [ing EXCEPT ![i] = q]
    BY <2>5
  <2> HIDE DEF q
  <2>10. ing' \in [Ingesters -> IngestState]
    BY <2>8, <2>9 DEF IngestState, IngestRecord
  <2>11. LocalsReady'
    <3>1. registry' = registry /\ rev' = rev
      BY <1>2 DEF IngestGet
    <3>2. \A j \in Ingesters : ing'[j] = IF j = i THEN q ELSE ing[j]
      BY <2>9
    <3> QED
      BY <2>8, <3>1, <3>2
  <2> QED
    BY <1>2, <2>10, <2>11 DEF IngestGet
<1>3. CASE IngestMark(i)
  <2>1. ing[i] \in IngestRecord /\ ing[i].source \in DataSource
    BY <1>3, IngestBusy DEF IngestMark, IngestRecord, Opt
  <2>2. registry \in DataSource
    BY <1>3 DEF IngestMark, Opt
  <2>3. ing' \in [Ingesters -> IngestState]
    BY <1>3, <2>1 DEF IngestMark, IngestState, IngestRecord, IngestPc, FirstEffect
  <2>4. registry' \in DataSource
    BY <1>3, <2>1, <2>2 DEF IngestMark, DataSource, IngestRecord, Opt
  <2>5. registry' # None
    BY <2>4, NoneAssumption
  <2> QED
    BY <1>3, <2>3, <2>4, <2>5 DEF IngestMark, FirstEffect, Opt
<1>4. CASE IngestRecordFact(i)
  <2>1. ing[i] \in IngestRecord
    BY <1>4, IngestBusy DEF IngestRecordFact
  <2>2. ing' \in [Ingesters -> IngestState]
    BY <1>4, <2>1 DEF IngestRecordFact, IngestState, IngestRecord, IngestPc
  <2> QED
    BY <1>4, <2>1, <2>2 DEF IngestRecordFact, IngestRecord, Opt
<1>5. CASE IngestReplaceRows(i)
  <2>1. ing[i] \in IngestRecord
    BY <1>5, IngestBusy DEF IngestReplaceRows
  <2>2. ing' \in [Ingesters -> IngestState]
    BY <1>5, <2>1 DEF IngestReplaceRows, IngestState, IngestRecord, IngestPc
  <2> QED
    BY <1>5, <2>1, <2>2 DEF IngestReplaceRows, IngestRecord, Opt
<1>6. CASE IngestUpsertPoints(i)
  <2>1. ing[i] \in IngestRecord
    BY <1>6, IngestBusy DEF IngestUpsertPoints
  <2>2. ing' \in [Ingesters -> IngestState]
    BY <1>6, <2>1 DEF IngestUpsertPoints, IngestState, IngestRecord, IngestPc
  <2>3. points' \subseteq Ingesters \X Texts
    BY <1>6, <2>1 DEF IngestUpsertPoints, IngestRecord
  <2> QED
    BY <1>6, <2>2, <2>3 DEF IngestUpsertPoints
<1>7. CASE IngestPrunePoints(i)
  <2>1. ing[i] \in IngestRecord
    BY <1>7, IngestBusy DEF IngestPrunePoints
  <2>2. ing' \in [Ingesters -> IngestState]
    BY <1>7, <2>1 DEF IngestPrunePoints, IngestState, IngestRecord, IngestPc
  <2> QED
    BY <1>7, <2>2 DEF IngestPrunePoints
<1>8. CASE IngestCache(i)
  <2> DEFINE p == ing[i]
             until == ExpiresAt(p.now, p.source.interval)
  <2>1. p \in IngestRecord /\ p.source \in DataSource
    BY <1>8, IngestBusy DEF IngestCache, IngestRecord, Opt
  <2>2. until \in Opt(Time)
    BY <2>1, ExpiresAtType DEF IngestRecord, DataSource
  <2>3. PICK u \in {None, until} :
          ing' = [ing EXCEPT ![i] = [p EXCEPT !.pc = "save",
                                              !.source = [p.source EXCEPT !.cachedUntil = u]]]
    <3>1. \/ ing' = [ing EXCEPT ![i].pc = "save", ![i].source.cachedUntil = None]
          \/ ing' = [ing EXCEPT ![i].pc = "save", ![i].source.cachedUntil = until]
      BY <1>8 DEF IngestCache
    <3> HIDE DEF until
    <3>2. CASE ing' = [ing EXCEPT ![i].pc = "save", ![i].source.cachedUntil = None]
      BY <2>1, <3>2 DEF IngestRecord
    <3>3. CASE ing' = [ing EXCEPT ![i].pc = "save", ![i].source.cachedUntil = until]
      BY <2>1, <3>3 DEF IngestRecord
    <3> QED
      BY <3>1, <3>2, <3>3
  <2>4. [p.source EXCEPT !.cachedUntil = u] \in DataSource
    BY <2>1, <2>2, <2>3 DEF DataSource, Opt
  <2>5. entry' \in Opt(Texts) /\ expiry' \in Opt(Time) /\ warmed' \in Opt(Texts)
    BY <1>8, <2>2 DEF IngestCache, EvictAndForget, ExpireIfDue, Opt
  <2>6. ing' \in [Ingesters -> IngestState]
    BY <2>1, <2>3, <2>4 DEF IngestState, IngestRecord, IngestPc, Opt
  <2>7. [p.source EXCEPT !.cachedUntil = u] # None
    BY <2>4, NoneAssumption
  <2> HIDE DEF p, until
  <2> QED
    BY <1>8, <2>3, <2>5, <2>6, <2>7 DEF IngestCache
<1>9. CASE IngestSave(i)
  <2> DEFINE p == ing[i]
             source == IF p.source.route = CAG THEN p.source
                       ELSE [p.source EXCEPT !.cachedUntil = None]
             version == [hash |-> p.text,
                         content |-> IF p.source.route = MAG THEN None ELSE p.text,
                         at |-> p.source.changedAt]
  <2>1. p \in IngestRecord /\ p.source \in DataSource
    BY <1>9, IngestBusy DEF IngestSave, IngestRecord, Opt
  <2>2. source \in DataSource
    BY <2>1 DEF DataSource, Opt
  <2>3. Saved(source) \in DataSource
    <3> HIDE DEF source
    <3> QED
      BY <2>2 DEF Saved, DataSource, Opt
  <2>4. version \in Version
    BY <2>1 DEF Version, IngestRecord, DataSource, Opt
  <2>5. versions' \in Seq(Version)
    <3> HIDE DEF version
    <3> QED
      BY <1>9, <2>4 DEF IngestSave, version
  <2>6. registry' \in DataSource /\ registry' # None
    BY <1>9, <2>3, NoneAssumption DEF IngestSave
  <2>7. Saved(source).interval \in Nat
    BY <2>3 DEF DataSource
  <2>8. ghost' \in [delivered : [Texts -> Opt(Time)], intervals : SUBSET Nat]
    BY <1>9, <2>7 DEF IngestSave
  <2>9. ing' \in [Ingesters -> IngestState]
    BY <1>9 DEF IngestSave, IngestState
  <2> QED
    BY <1>9, <2>5, <2>6, <2>8, <2>9 DEF IngestSave, Opt, Idle
<1>10. CASE IngestRaise(i)
  BY <1>10, ConstantsAssumption DEF IngestRaise, IngestState, Idle
<1> QED
  BY <1>1, <1>2, <1>3, <1>4, <1>5, <1>6, <1>7, <1>8, <1>9, <1>10 DEF IngestStep

\* The steps of a refresh keep the types.
LEMMA RefreshTypes ==
  ASSUME TypeInv, NEW r \in Refreshers,
         RefreshList(r) \/ RefreshStep(r) \/ RefreshRaise(r)
  PROVE  TypeInv'
<1> USE DEF TypeInv, TypeOK, LocalsReady, ragVars, cacheVars
<1> DEFINE p == ref[r]
<1>1. CASE RefreshList(r)
  BY <1>1 DEF RefreshList, RefreshState, RefreshPc, Opt
<1>2. CASE RefreshCheck(r)
  <2>1. p \in RefreshFields
    BY <1>2, RefreshBusy DEF RefreshCheck
  <2>2. ref' \in [Refreshers -> RefreshState]
    BY <1>2, <2>1 DEF RefreshCheck, RefreshState, RefreshFields, RefreshPc
  <2>3. entry' \in Opt(Texts) /\ expiry' \in Opt(Time) /\ warmed' \in Opt(Texts)
    BY <1>2 DEF RefreshCheck, ExpireIfDue, Opt
  <2> QED
    BY <1>2, <2>2, <2>3 DEF RefreshCheck
<1>3. CASE RefreshRead(r)
  <2>1. p \in RefreshFields
    BY <1>3, RefreshBusy DEF RefreshRead
  <2>2. ref' \in [Refreshers -> RefreshState]
    BY <1>3, <2>1 DEF RefreshRead, RefreshState, RefreshFields, RefreshPc
  <2> QED
    BY <1>3, <2>2 DEF RefreshRead
<1>4. CASE RefreshSetExpiry(r)
  <2>1. p \in RefreshFields
    BY <1>4, RefreshBusy DEF RefreshSetExpiry
  <2>2. Until(p.listed) \in Opt(Time)
    BY <2>1, ExpiresAtType DEF Until, RefreshFields, DataSource
  <2>3. ref' \in [Refreshers -> RefreshState]
    BY <1>4, <2>1 DEF RefreshSetExpiry, RefreshState, RefreshFields, RefreshPc
  <2> QED
    BY <1>4, <2>2, <2>3 DEF RefreshSetExpiry
<1>5. CASE RefreshPreload(r)
  <2>1. p \in RefreshFields
    BY <1>5, RefreshBusy DEF RefreshPreload
  <2>2. p.listed.hash \in Texts
    BY <2>1 DEF RefreshFields, DataSource
  <2>3. ref' \in [Refreshers -> RefreshState]
    BY <1>5, <2>1 DEF RefreshPreload, RefreshState, RefreshFields, RefreshPc
  <2> QED
    BY <1>5, <2>2, <2>3 DEF RefreshPreload, Opt
<1>6. CASE RefreshRecord(r)
  <2>1. p \in RefreshFields
    BY <1>6, RefreshBusy DEF RefreshRecord
  <2>2. Until(p.listed) \in Opt(Time)
    BY <2>1, ExpiresAtType DEF Until, RefreshFields, DataSource
  <2>3. ref' \in [Refreshers -> RefreshState]
    BY <1>6, <2>1 DEF RefreshRecord, RefreshState, RefreshFields, RefreshPc
  <2>4. registry' \in Opt(DataSource) /\ (registry # None => registry' # None)
    <3>1. CASE Unchanged(p.listed.hash) /\ registry' = [registry EXCEPT !.cachedUntil = Until(p.listed)]
      <4>1. registry \in DataSource
        BY <3>1 DEF Unchanged, Opt
      <4>2. registry' \in DataSource
        BY <2>2, <3>1, <4>1 DEF DataSource
      <4> QED
        BY <4>2, NoneAssumption DEF Opt
    <3>2. CASE registry' = registry
      BY <3>2
    <3> QED
      BY <1>6, <3>1, <3>2 DEF RefreshRecord
  <2> QED
    BY <1>6, <2>3, <2>4 DEF RefreshRecord
<1>7. CASE RefreshRetract(r)
  BY <1>7 DEF RefreshRetract, EvictAndForget, RefreshState, Opt
<1>8. CASE RefreshRaise(r)
  BY <1>8, ConstantsAssumption DEF RefreshRaise, RefreshState
<1> QED
  BY <1>1, <1>2, <1>3, <1>4, <1>5, <1>6, <1>7, <1>8 DEF RefreshStep

\* The steps of a review keep the types.
LEMMA ReviewTypes ==
  ASSUME TypeInv, NEW v \in Reviewers,
         ReviewList(v) \/ ReviewStep(v) \/ ReviewRaise(v)
  PROVE  TypeInv'
<1> USE DEF TypeInv, TypeOK, LocalsReady, ragVars, cacheVars
<1> DEFINE p == rev[v]
<1>1. CASE ReviewList(v)
  BY <1>1 DEF ReviewList, ReviewState, ReviewPc, Opt
<1>2. CASE ReviewTimes(v)
  <2>1. p \in ReviewFields
    BY <1>2, ReviewBusy DEF ReviewTimes
  <2>2. \A k \in DOMAIN version_times : version_times[k] \in Time
    <3>1. \A k \in 1..Len(versions) : versions[k] \in Version
      OBVIOUS
    <3> QED
      BY <3>1 DEF version_times, Version
  <2>3. CASE rev' = [rev EXCEPT ![v] = Idle]
    BY <1>2, <2>3 DEF ReviewTimes, ReviewState, Idle
  <2>4. ASSUME NEW d \in decide_migration(p.listed, version_times, p.now),
               rev' = [rev EXCEPT ![v] = [rev[v] EXCEPT !.pc = "migrate", !.decision = d]]
        PROVE  TypeInv'
    <3>1. d \in Decision
      BY <2>1, <2>2, <2>4, DecisionType DEF ReviewFields
    <3>2. [p EXCEPT !.pc = "migrate", !.decision = d] \in ReviewFields
      BY <2>1, <3>1 DEF ReviewFields, ReviewPc, Opt
    <3>3. rev' \in [Reviewers -> ReviewState]
      BY <2>4, <3>2 DEF ReviewState, ReviewFields
    <3>4. LocalsReady'
      <4>1. registry' = registry /\ ing' = ing
        BY <1>2 DEF ReviewTimes
      <4>2. d # None
        BY <3>1, NoneAssumption
      <4>3. \A w \in Reviewers : w # v => rev'[w] = rev[w]
        BY <2>4
      <4>4. rev'[v].decision = d
        BY <2>1, <2>4 DEF ReviewFields
      <4> QED
        BY <4>1, <4>2, <4>3, <4>4
    <3> QED
      BY <1>2, <3>3, <3>4 DEF ReviewTimes
  <2> QED
    BY <1>2, <2>3, <2>4 DEF ReviewTimes
<1>3. CASE ReviewMigrate(v)
  <2>1. p \in ReviewFields /\ p.decision \in Decision
    BY <1>3, ReviewBusy DEF ReviewMigrate, ReviewFields, Opt
  <2>2. rev' \in [Reviewers -> ReviewState]
    BY <1>3, <2>1 DEF ReviewMigrate, ReviewState, ReviewFields, ReviewPc
  <2>3. CASE ~Unchanged(p.listed.hash)
    BY <1>3, <2>2, <2>3 DEF ReviewMigrate, Idle
  <2>4. CASE Unchanged(p.listed.hash)
    <3>1. registry \in DataSource
      BY <2>4 DEF Unchanged, Opt
    <3>2. registry' \in DataSource
      BY <1>3, <2>1, <2>4, <3>1 DEF ReviewMigrate, DataSource, ReviewFields, Decision, Routes, Opt
    <3>3. ghost' \in [delivered : [Texts -> Opt(Time)], intervals : SUBSET Nat]
      BY <1>3, <2>1, <2>4 DEF ReviewMigrate, Decision
    <3>4. LocalsReady'
      <4>1. ing' = ing /\ registry' # None
        BY <1>3, <3>2, NoneAssumption DEF ReviewMigrate
      <4>2. \A w \in Reviewers : w # v => rev'[w] = rev[w]
        BY <1>3 DEF ReviewMigrate
      <4>3. rev'[v].pc = "evict" => rev'[v].decision = p.decision
        BY <1>3, <2>1 DEF ReviewMigrate, ReviewFields, Idle
      <4>4. rev'[v].pc \in {"evict", "idle"}
        BY <1>3, <2>1 DEF ReviewMigrate, ReviewFields, Idle
      <4>5. p.decision # None
        BY <2>1, NoneAssumption
      <4> QED
        BY <4>1, <4>2, <4>3, <4>4, <4>5
    <3> QED
      BY <1>3, <2>2, <3>2, <3>3, <3>4 DEF ReviewMigrate, Opt
  <2> QED
    BY <2>3, <2>4
<1>4. CASE ReviewEvict(v)
  BY <1>4 DEF ReviewEvict, EvictAndForget, ReviewState, Idle, Opt
<1>5. CASE ReviewRaise(v)
  BY <1>5, ConstantsAssumption DEF ReviewRaise, ReviewState, Idle
<1> QED
  BY <1>1, <1>2, <1>3, <1>4, <1>5 DEF ReviewStep

\* Every step of the router keeps the types.
LEMMA StepTypes ==
  ASSUME TypeInv, [Next]_vars
  PROVE  TypeInv'
<1> USE DEF TypeInv, TypeOK, LocalsReady, ragVars, cacheVars, procVars
<1>1. CASE Lookup
  BY <1>1 DEF Lookup, ExpireIfDue, Opt
<1>2. CASE Crash
  BY <1>2, ConstantsAssumption DEF Crash, EvictAndForget, IngestState, RefreshState, ReviewState,
                                   Idle, Opt
<1>3. CASE Tick
  BY <1>3 DEF Tick, Time
<1>4. CASE UNCHANGED vars
  BY <1>4 DEF vars
<1> QED
  BY <1>1, <1>2, <1>3, <1>4, IngestTypes, RefreshTypes, ReviewTypes DEF Next

\* The router's state keeps its types, and every use case the locals its next step reads, in
\* every behaviour: TypeOK for every number of processes, texts, intervals and faults.
THEOREM TypeCorrect == Spec => []TypeOK
<1>1. Init => TypeInv
  BY DEF Init, TypeInv, TypeOK, LocalsReady, IngestState, RefreshState, ReviewState, Idle, Opt, Time
<1>2. TypeInv /\ [Next]_vars => TypeInv'
  BY StepTypes
<1>3. TypeInv => TypeOK
  BY DEF TypeInv
<1> QED
  BY <1>1, <1>2, <1>3, PTL DEF Spec

-----------------------------------------------------------------------------
(* The inductive invariant. *)

\* The route MAG, at every place it is kept, is the route of a user's source and no other.
RouteFollowsScope ==
  /\ registry # None => (registry.route = MAG <=> scope = USER)
  /\ \A i \in Ingesters :
       /\ ing[i].pc \notin {"idle", "get"} => (ing[i].source.route = MAG <=> scope = USER)
       /\ ing[i].pc \in {"rows", "upsert", "prune", "cache"} => scope # USER
       /\ ing[i].pc = "record" => scope = USER
  /\ \A r \in Refreshers :
       /\ ref[r].pc # "idle" => (ref[r].listed.route = MAG <=> scope = USER)
       /\ ref[r].pc \notin {"idle", "check"} => scope # USER
  /\ \A v \in Reviewers : rev[v].pc # "idle" => scope # USER

ScopeInv == TypeInv /\ RouteFollowsScope /\ UserTextStaysInMag

-----------------------------------------------------------------------------
(* A user's text stays in MAG. *)

\* The steps of an ingestion keep the route with the scope and the tenant's stores clean.
LEMMA IngestScope ==
  ASSUME ScopeInv, NEW i \in Ingesters,
         \/ \E t \in Texts, d \in Intervals : Deliver(i, t, d)
         \/ IngestStep(i)
         \/ IngestRaise(i)
  PROVE  RouteFollowsScope' /\ UserTextStaysInMag'
<1> USE DEF ScopeInv, RouteFollowsScope, UserTextStaysInMag, ragVars, cacheVars
<1> DEFINE p == ing[i]
<1>0. ing \in [Ingesters -> IngestState] /\ TypeOK /\ TypeInv
  BY DEF TypeInv, TypeOK
<1>1. ASSUME NEW t \in Texts, NEW d \in Intervals, Deliver(i, t, d)
      PROVE  RouteFollowsScope' /\ UserTextStaysInMag'
  BY <1>0, <1>1 DEF Deliver
<1>2. CASE IngestGet(i)
  <2>1. p \in IngestRecord
    BY <1>0, <1>2, IngestBusy DEF IngestGet
  <2> DEFINE source == IF registry = None THEN NewSource(p)
                       ELSE [registry EXCEPT
                               !.hash = p.text, !.ingestedAt = p.now, !.pending = None,
                               !.changedAt = IF Confirms(p, registry) THEN @ ELSE p.now]
  <2>2. source.route = MAG <=> scope = USER
    <3>1. CASE registry = None
      BY <3>1 DEF NewSource, route_for, MAG, CAG, RAG_ONLY
    <3>2. CASE registry # None
      <4>1. registry \in DataSource
        BY <1>0, <3>2 DEF TypeOK, Opt
      <4> QED
        BY <3>2, <4>1 DEF DataSource
    <3> QED
      BY <3>1, <3>2
  <2>3. /\ AfterGet(p, registry) \in {"rows", "cache"} => scope # USER
        /\ AfterGet(p, registry) = "record" => scope = USER
        /\ AfterGet(p, registry) \notin {"upsert", "prune"}
    BY DEF AfterGet, FirstEffect, route_for, MAG, CAG, RAG_ONLY
  <2>4. /\ ing'[i].pc = AfterGet(p, registry)
        /\ ing'[i].source = source
        /\ \A j \in Ingesters : j # i => ing'[j] = ing[j]
    <3> HIDE DEF source
    <3> QED
      BY <1>0, <1>2, <2>1 DEF IngestGet, IngestRecord, source
  <2> HIDE DEF source
  <2>5. UNCHANGED <<scope, registry, versions, ragRows, points, entry, warmed, ref, rev>>
    BY <1>2 DEF IngestGet
  <2> QED
    BY <2>2, <2>3, <2>4, <2>5
<1>3. CASE IngestMark(i)
  <2>1. p \in IngestRecord /\ registry \in DataSource /\ registry' \in DataSource
    <3>1. p \in IngestRecord /\ registry \in DataSource
      BY <1>0, <1>3, IngestBusy DEF IngestMark, TypeInv, LocalsReady, TypeOK, Opt
    <3> QED
      BY <1>3, <3>1 DEF IngestMark, IngestRecord, DataSource, Opt
  <2>2. registry'.route = registry.route /\ registry # None
    BY <1>3, <2>1, NoneAssumption DEF IngestMark, DataSource
  <2>3. /\ ing'[i].pc = FirstEffect(p.source.route)
        /\ ing'[i].source = p.source
        /\ \A j \in Ingesters : j # i => ing'[j] = ing[j]
    BY <1>0, <1>3, <2>1 DEF IngestMark, IngestRecord
  <2>4. UNCHANGED <<scope, versions, ragRows, points, entry, warmed, ref, rev>>
    BY <1>3 DEF IngestMark
  <2>5. p.source.route = MAG <=> scope = USER
    BY <1>3 DEF IngestMark
  <2> QED
    BY <2>2, <2>3, <2>4, <2>5 DEF FirstEffect
<1>4. CASE IngestRecordFact(i)
  <2>1. p \in IngestRecord
    BY <1>0, <1>4, IngestBusy DEF IngestRecordFact
  <2> QED
    BY <1>0, <1>4, <2>1 DEF IngestRecordFact, IngestRecord
<1>5. CASE IngestReplaceRows(i)
  <2>1. p \in IngestRecord
    BY <1>0, <1>5, IngestBusy DEF IngestReplaceRows
  <2> QED
    BY <1>0, <1>5, <2>1 DEF IngestReplaceRows, IngestRecord
<1>6. CASE IngestUpsertPoints(i)
  <2>1. p \in IngestRecord
    BY <1>0, <1>6, IngestBusy DEF IngestUpsertPoints
  <2> QED
    BY <1>0, <1>6, <2>1 DEF IngestUpsertPoints, IngestRecord
<1>7. CASE IngestPrunePoints(i)
  <2>1. p \in IngestRecord
    BY <1>0, <1>7, IngestBusy DEF IngestPrunePoints
  <2> QED
    BY <1>0, <1>7, <2>1 DEF IngestPrunePoints, IngestRecord
<1>8. CASE IngestCache(i)
  <2>1. p \in IngestRecord /\ p.source \in DataSource
    BY <1>0, <1>8, IngestBusy DEF IngestCache, IngestRecord, TypeInv, LocalsReady, Opt
  <2>2. scope # USER
    BY <1>8 DEF IngestCache
  <2>3. /\ ing'[i].pc = "save"
        /\ ing'[i].source.route = p.source.route
        /\ \A j \in Ingesters : j # i => ing'[j] = ing[j]
    BY <1>0, <1>8, <2>1 DEF IngestCache, IngestRecord, DataSource
  <2>4. UNCHANGED <<scope, registry, versions, ragRows, points, ref, rev>>
    BY <1>8 DEF IngestCache
  <2>5. p.source.route # MAG
    BY <1>8, <2>2 DEF IngestCache
  <2> QED
    BY <2>2, <2>3, <2>4, <2>5
<1>9. CASE IngestSave(i)
  <2>1. p \in IngestRecord /\ p.source \in DataSource
    BY <1>0, <1>9, IngestBusy DEF IngestSave, IngestRecord, TypeInv, LocalsReady, Opt
  <2>2. p.source.route = MAG <=> scope = USER
    BY <1>9 DEF IngestSave
  <2>3. registry'.route = MAG <=> scope = USER
    <3>1. CASE registry = None
      BY <1>9, <2>1, <2>2, <3>1 DEF IngestSave, Saved, DataSource
    <3>2. CASE registry # None
      <4>1. registry \in DataSource
        BY <1>0, <3>2 DEF TypeOK, Opt
      <4>2. registry'.route = registry.route
        BY <1>9, <3>2, <4>1 DEF IngestSave, Saved, DataSource
      <4> QED
        BY <3>2, <4>2
    <3> QED
      BY <3>1, <3>2
  <2>4. scope = USER => \A k \in DOMAIN versions' : versions'[k].content = None
    <3> SUFFICES ASSUME scope = USER, NEW k \in DOMAIN versions'
                 PROVE  versions'[k].content = None
      OBVIOUS
    <3>1. versions \in Seq(Version)
      BY <1>0 DEF TypeOK
    <3> DEFINE version == [hash |-> p.text,
                           content |-> IF p.source.route = MAG THEN None ELSE p.text,
                           at |-> p.source.changedAt]
    <3>2. version.content = None
      BY <2>2
    <3>3. versions' = versions \/ versions' = Append(versions, version)
      BY <1>9 DEF IngestSave
    <3> HIDE DEF version
    <3>4. CASE versions' = versions
      BY <3>4
    <3>5. CASE versions' = Append(versions, version)
      <4>1. DOMAIN versions = 1..Len(versions) /\ DOMAIN versions' = 1..(Len(versions) + 1)
        BY <3>1, <3>5
      <4>2. \A m \in 1..Len(versions) : versions'[m] = versions[m]
        BY <3>1, <3>5
      <4>3. versions'[Len(versions) + 1] = version
        BY <3>1, <3>5
      <4>4. k \in 1..Len(versions) \/ k = Len(versions) + 1
        BY <3>1, <4>1
      <4> QED
        BY <3>2, <4>1, <4>2, <4>3, <4>4
    <3> QED
      BY <3>3, <3>4, <3>5
  <2>5. UNCHANGED <<scope, ragRows, points, entry, warmed, ref, rev>>
    BY <1>9 DEF IngestSave
  <2>6. /\ ing'[i].pc = "idle"
        /\ \A j \in Ingesters : j # i => ing'[j] = ing[j]
    BY <1>0, <1>9 DEF IngestSave, Idle
  <2> QED
    BY <2>3, <2>4, <2>5, <2>6
<1>10. CASE IngestRaise(i)
  BY <1>0, <1>10 DEF IngestRaise, Idle
<1> QED
  BY <1>1, <1>2, <1>3, <1>4, <1>5, <1>6, <1>7, <1>8, <1>9, <1>10 DEF IngestStep

\* A refresh only reaches the cache with a source that is not a user's.
LEMMA RefreshScope ==
  ASSUME ScopeInv, NEW r \in Refreshers,
         RefreshList(r) \/ RefreshStep(r) \/ RefreshRaise(r)
  PROVE  RouteFollowsScope' /\ UserTextStaysInMag'
<1> USE DEF ScopeInv, RouteFollowsScope, UserTextStaysInMag, ragVars, cacheVars
<1> DEFINE p == ref[r]
<1>0. ref \in [Refreshers -> RefreshState] /\ TypeOK
  BY DEF TypeInv, TypeOK
<1>1. CASE RefreshList(r)
  BY <1>0, <1>1 DEF RefreshList
<1>2. CASE RefreshCheck(r)
  <2>1. p \in RefreshFields
    BY <1>0, <1>2, RefreshBusy DEF RefreshCheck
  <2>2. ref'[r] = Idle \/ (ref'[r].pc = "read" /\ ref'[r].listed = p.listed /\ p.listed.route = CAG)
    BY <1>0, <1>2, <2>1 DEF RefreshCheck, RefreshFields
  <2>3. \A q \in Refreshers : q # r => ref'[q] = ref[q]
    BY <1>0, <1>2 DEF RefreshCheck
  <2>4. UNCHANGED <<scope, registry, versions, ragRows, points, ing, rev>>
    BY <1>2 DEF RefreshCheck
  <2>5. entry' \in {entry, None} /\ warmed' = warmed
    BY <1>2 DEF RefreshCheck, ExpireIfDue
  <2>6. p.listed.route = MAG <=> scope = USER
    BY <1>2 DEF RefreshCheck
  <2> QED
    BY <2>2, <2>3, <2>4, <2>5, <2>6 DEF Idle, CAG, MAG
<1>3. CASE RefreshRead(r)
  <2>1. p \in RefreshFields
    BY <1>0, <1>3, RefreshBusy DEF RefreshRead
  <2> QED
    BY <1>0, <1>3, <2>1 DEF RefreshRead, RefreshFields, Idle
<1>4. CASE RefreshSetExpiry(r)
  <2>1. p \in RefreshFields
    BY <1>0, <1>4, RefreshBusy DEF RefreshSetExpiry
  <2> QED
    BY <1>0, <1>4, <2>1 DEF RefreshSetExpiry, RefreshFields
<1>5. CASE RefreshPreload(r)
  <2>1. p \in RefreshFields
    BY <1>0, <1>5, RefreshBusy DEF RefreshPreload
  <2> QED
    BY <1>0, <1>5, <2>1 DEF RefreshPreload, RefreshFields
<1>6. CASE RefreshRecord(r)
  <2>1. p \in RefreshFields
    BY <1>0, <1>6, RefreshBusy DEF RefreshRecord
  <2>2. /\ ref'[r] = Idle \/ (ref'[r].pc = "retract" /\ ref'[r].listed = p.listed)
        /\ \A q \in Refreshers : q # r => ref'[q] = ref[q]
    BY <1>0, <1>6, <2>1 DEF RefreshRecord, RefreshFields
  <2>3. registry' # None => registry # None /\ registry'.route = registry.route
    <3>1. registry # None => registry \in DataSource
      BY <1>0 DEF TypeOK, Opt
    <3>2. \/ registry # None /\ registry' = [registry EXCEPT !.cachedUntil = Until(p.listed)]
          \/ registry' = registry
      BY <1>6 DEF RefreshRecord, Unchanged
    <3> QED
      BY <3>1, <3>2 DEF DataSource
  <2>4. UNCHANGED <<scope, versions, ragRows, points, entry, warmed, ing, rev>>
    BY <1>6 DEF RefreshRecord
  <2>5. (p.listed.route = MAG <=> scope = USER) /\ scope # USER
    BY <1>6 DEF RefreshRecord
  <2> QED
    BY <2>2, <2>3, <2>4, <2>5 DEF Idle
<1>7. CASE RefreshRetract(r)
  BY <1>0, <1>7 DEF RefreshRetract, EvictAndForget, Idle
<1>8. CASE RefreshRaise(r)
  BY <1>0, <1>8 DEF RefreshRaise, Idle
<1> QED
  BY <1>1, <1>2, <1>3, <1>4, <1>5, <1>6, <1>7, <1>8 DEF RefreshStep

\* A review never starts on a user's source, and never decides on the route MAG.
LEMMA ReviewScope ==
  ASSUME ScopeInv, NEW v \in Reviewers,
         ReviewList(v) \/ ReviewStep(v) \/ ReviewRaise(v)
  PROVE  RouteFollowsScope' /\ UserTextStaysInMag'
<1> USE DEF ScopeInv, RouteFollowsScope, UserTextStaysInMag, ragVars, cacheVars
<1> DEFINE p == rev[v]
<1>0. rev \in [Reviewers -> ReviewState] /\ TypeOK /\ TypeInv
  BY DEF TypeInv, TypeOK
<1>1. CASE ReviewList(v)
  BY <1>0, <1>1 DEF ReviewList
<1>2. CASE ReviewTimes(v)
  <2>1. scope # USER /\ \A w \in Reviewers : w # v => rev'[w] = rev[w]
    BY <1>0, <1>2 DEF ReviewTimes
  <2>2. UNCHANGED <<scope, registry, versions, ragRows, points, entry, warmed, ing, ref>>
    BY <1>2 DEF ReviewTimes
  <2> QED
    BY <2>1, <2>2
<1>3. CASE ReviewMigrate(v)
  <2>1. p \in ReviewFields /\ p.decision \in Decision
    BY <1>0, <1>3, ReviewBusy DEF ReviewMigrate, ReviewFields, TypeInv, LocalsReady, Opt
  <2>2. scope # USER /\ \A w \in Reviewers : w # v => rev'[w] = rev[w]
    BY <1>0, <1>3 DEF ReviewMigrate
  <2>3. registry' # None => registry'.route # MAG
    <3>1. CASE Unchanged(p.listed.hash)
      <4>1. registry \in DataSource
        BY <1>0, <3>1 DEF Unchanged, TypeOK, Opt
      <4>2. registry'.route = p.decision.route
        BY <1>3, <3>1, <4>1 DEF ReviewMigrate, DataSource
      <4> QED
        BY <2>1, <4>2 DEF Decision, MAG, CAG, RAG_ONLY
    <3>2. CASE ~Unchanged(p.listed.hash)
      BY <1>3, <2>2, <3>2 DEF ReviewMigrate
    <3> QED
      BY <3>1, <3>2
  <2>4. UNCHANGED <<scope, versions, ragRows, points, entry, warmed, ing, ref>>
    BY <1>3 DEF ReviewMigrate
  <2> QED
    BY <2>2, <2>3, <2>4
<1>4. CASE ReviewEvict(v)
  BY <1>0, <1>4 DEF ReviewEvict, EvictAndForget, Idle
<1>5. CASE ReviewRaise(v)
  BY <1>0, <1>5 DEF ReviewRaise, Idle
<1> QED
  BY <1>1, <1>2, <1>3, <1>4, <1>5 DEF ReviewStep

\* Every step keeps ScopeInv.
LEMMA ScopeStep ==
  ASSUME ScopeInv, [Next]_vars
  PROVE  ScopeInv'
<1>1. TypeInv'
  BY StepTypes DEF ScopeInv
<1>2. RouteFollowsScope' /\ UserTextStaysInMag'
  <2> USE DEF ScopeInv, RouteFollowsScope, UserTextStaysInMag, ragVars, cacheVars, procVars
  <2>1. CASE Lookup
    BY <2>1 DEF Lookup, ExpireIfDue
  <2>2. CASE Crash
    BY <2>2 DEF Crash, EvictAndForget, Idle
  <2>3. CASE Tick
    BY <2>3 DEF Tick
  <2>4. CASE UNCHANGED vars
    BY <2>4 DEF vars
  <2> QED
    BY <2>1, <2>2, <2>3, <2>4, IngestScope, RefreshScope, ReviewScope DEF Next
<1> QED
  BY <1>1, <1>2 DEF ScopeInv

\* The initial states satisfy ScopeInv.
LEMMA ScopeInit == Init => ScopeInv
<1>1. Init => TypeInv
  BY DEF Init, TypeInv, TypeOK, LocalsReady, IngestState, RefreshState, ReviewState, Idle, Opt, Time
<1> QED
  BY <1>1 DEF Init, ScopeInv, RouteFollowsScope, UserTextStaysInMag, Idle

\* UserTextStaysInMag in every behaviour, for any number of concurrent ingestions, refreshes and
\* reviews and any failures: the content of a user-scoped source never reaches RAG, the frozen
\* cache, its memo or the version history.
THEOREM UserTextProtected == Spec => []UserTextStaysInMag
<1>1. Init => ScopeInv
  BY ScopeInit
<1>2. ScopeInv /\ [Next]_vars => ScopeInv'
  BY ScopeStep
<1>3. ScopeInv => UserTextStaysInMag
  BY DEF ScopeInv
<1> QED
  BY <1>1, <1>2, <1>3, PTL DEF Spec

-----------------------------------------------------------------------------
(* The stored route is the one the stored interval calls for. *)

\* A boundary above _MIN_INTERVAL: a burst demotes to an interval of one second, which routes
\* RAG_ONLY only below the boundary.
BoundaryAboveFloor == VolatileBelow > 1

MigrationInv ==
  /\ ScopeInv
  /\ RouteMatchesInterval
  /\ \A i \in Ingesters : ing[i].pc \notin {"idle", "get"} =>
       ing[i].source.route = route_for(scope, ing[i].source.interval)
  /\ \A v \in Reviewers : rev[v].pc = "migrate" =>
       rev[v].decision.route = route_for(scope, rev[v].decision.interval)

\* The mean gap of changes that all fall inside the window is below the boundary.
LEMMA QuotientBelow ==
  ASSUME NEW a \in Nat, NEW b \in Nat \ {0}, NEW c \in Nat, a < c * b
  PROVE  a \div b < c
  BY Z3

\* A decision's interval calls for the decision's route.
LEMMA DecisionRoutes ==
  ASSUME BoundaryAboveFloor, scope # USER,
         NEW source, NEW times, NEW now \in Time,
         \A k \in DOMAIN times : times[k] \in Time,
         NEW d \in decide_migration(source, times, now)
  PROVE  d.route = route_for(scope, d.interval)
<1>0. VolatileBelow \in Nat \ {0} /\ DemoteAfterChanges \in Nat \ {0}
      /\ PromoteAfterQuietMultiple \in Nat \ {0} /\ VolatileBelow > 1
  BY ConstantsAssumption DEF BoundaryAboveFloor
<1>1. \A k \in Past(times, now) : times[k] \in Nat /\ times[k] <= now
  BY DEF Past, Time
<1>2. CASE d \in Demotions(times, now)
  <2>1. PICK jk \in Past(times, now) \X Past(times, now) :
          /\ d = [route |-> RAG_ONLY,
                  interval |-> IF times[jk[1]] - times[jk[2]] < DemoteAfterChanges THEN 1
                               ELSE (times[jk[1]] - times[jk[2]]) \div DemoteAfterChanges]
          /\ times[jk[2]] > now - VolatileBelow * DemoteAfterChanges
    BY <1>2 DEF Demotions
  <2> DEFINE gap == times[jk[1]] - times[jk[2]]
             window == VolatileBelow * DemoteAfterChanges
  <2>2. times[jk[1]] \in Nat /\ times[jk[2]] \in Nat /\ times[jk[1]] <= now
    BY <1>1, <2>1
  <2>3. window \in Nat
    BY <1>0
  <2>4. gap \in Int /\ gap < window
    <3> HIDE DEF window
    <3>1. times[jk[2]] > now - window
      BY <2>1 DEF window
    <3> QED
      BY <2>2, <2>3, <3>1 DEF Time
  <2>5. d.interval < VolatileBelow
    <3>1. CASE gap < DemoteAfterChanges
      BY <1>0, <2>1, <3>1
    <3>2. CASE ~(gap < DemoteAfterChanges)
      <4>1. d.interval = gap \div DemoteAfterChanges
        BY <2>1, <3>2
      <4>2. gap \in Nat
        BY <1>0, <2>4, <3>2
      <4> HIDE DEF gap
      <4> QED
        BY <1>0, <2>4, <4>1, <4>2, QuotientBelow
    <3> QED
      BY <3>1, <3>2
  <2> QED
    BY <2>1, <2>5 DEF route_for
<1>3. CASE d \in Promotions(times, now)
  <2>1. PICK j \in Past(times, now) :
          /\ d = [route |-> CAG, interval |-> now - times[j]]
          /\ now - times[j] >= VolatileBelow * PromoteAfterQuietMultiple
    BY <1>3 DEF Promotions
  <2>2. \A x, y \in Nat \ {0} : x * y \in Nat /\ x * y >= x
    BY Z3
  <2>3. VolatileBelow * PromoteAfterQuietMultiple \in Nat
        /\ VolatileBelow * PromoteAfterQuietMultiple >= VolatileBelow
    BY <1>0, <2>2
  <2>4. ~(d.interval < VolatileBelow)
    BY <1>0, <1>1, <2>1, <2>3 DEF Time
  <2> QED
    BY <2>1, <2>4 DEF route_for
<1> QED
  BY <1>2, <1>3 DEF decide_migration

\* A step that keeps the row's route and interval, the ingestions' sources and the reviews'
\* decisions keeps the agreement.
LEMMA KeepsAgreement ==
  ASSUME MigrationInv, ScopeInv',
         scope' = scope,
         registry' # None => /\ registry # None
                             /\ registry'.route = registry.route
                             /\ registry'.interval = registry.interval,
         \A i \in Ingesters : ing'[i].pc \notin {"idle", "get"} =>
           \/ ing[i].pc \notin {"idle", "get"}
              /\ ing'[i].source.route = ing[i].source.route
              /\ ing'[i].source.interval = ing[i].source.interval
           \/ ing'[i].source.route = route_for(scope, ing'[i].source.interval),
         \A v \in Reviewers : rev'[v].pc = "migrate" =>
           \/ rev[v].pc = "migrate" /\ rev'[v] = rev[v]
           \/ rev'[v].decision.route = route_for(scope, rev'[v].decision.interval)
  PROVE  MigrationInv'
<1>2. RouteMatchesInterval'
  BY DEF MigrationInv, RouteMatchesInterval, route_for
<1>3. \A i \in Ingesters : ing'[i].pc \notin {"idle", "get"} =>
        ing'[i].source.route = route_for(scope', ing'[i].source.interval)
  BY DEF MigrationInv, route_for
<1>4. \A v \in Reviewers : rev'[v].pc = "migrate" =>
        rev'[v].decision.route = route_for(scope', rev'[v].decision.interval)
  BY DEF MigrationInv, route_for
<1> QED
  BY <1>2, <1>3, <1>4 DEF MigrationInv

\* The steps of an ingestion keep the route and the interval in agreement.
LEMMA IngestAgreement ==
  ASSUME MigrationInv, ScopeInv', NEW i \in Ingesters,
         \/ \E t \in Texts, d \in Intervals : Deliver(i, t, d)
         \/ IngestStep(i)
         \/ IngestRaise(i)
  PROVE  MigrationInv'
<1> DEFINE p == ing[i]
<1>0. /\ TypeInv /\ TypeOK /\ ing \in [Ingesters -> IngestState]
      /\ registry # None => registry \in DataSource
      /\ p.pc \notin {"idle", "get"} => p.source.route = route_for(scope, p.source.interval)
  BY DEF MigrationInv, ScopeInv, TypeInv, TypeOK, Opt
<1>1. CASE \/ \E t \in Texts, d \in Intervals : Deliver(i, t, d)
           \/ IngestRaise(i)
  <2>1. UNCHANGED <<scope, registry, rev>> /\ ing'[i].pc \in {"idle", "get"}
        /\ \A j \in Ingesters : j # i => ing'[j] = ing[j]
    BY <1>0, <1>1 DEF Deliver, IngestRaise, Idle
  <2> QED
    BY <2>1, KeepsAgreement
<1>2. CASE IngestGet(i)
  <2>1. p \in IngestRecord
    BY <1>0, <1>2, IngestBusy DEF IngestGet
  <2> DEFINE source == IF registry = None THEN NewSource(p)
                       ELSE [registry EXCEPT
                               !.hash = p.text, !.ingestedAt = p.now, !.pending = None,
                               !.changedAt = IF Confirms(p, registry) THEN @ ELSE p.now]
  <2>2. source.route = route_for(scope, source.interval)
    <3>1. CASE registry = None
      BY <3>1 DEF NewSource
    <3>2. CASE registry # None
      <4>1. source.route = registry.route /\ source.interval = registry.interval
        BY <1>0, <3>2 DEF DataSource
      <4> QED
        BY <3>2, <4>1 DEF MigrationInv, RouteMatchesInterval
    <3> QED
      BY <3>1, <3>2
  <2>3. /\ ing'[i].source = source
        /\ \A j \in Ingesters : j # i => ing'[j] = ing[j]
    <3> HIDE DEF source
    <3> QED
      BY <1>0, <1>2, <2>1 DEF IngestGet, IngestRecord, source
  <2> HIDE DEF source
  <2>4. UNCHANGED <<scope, registry, rev>>
    BY <1>2 DEF IngestGet
  <2> QED
    BY <2>2, <2>3, <2>4, KeepsAgreement
<1>3. CASE IngestMark(i)
  <2>1. p \in IngestRecord /\ registry \in DataSource /\ registry # None
    BY <1>0, <1>3, IngestBusy DEF IngestMark, TypeInv, LocalsReady
  <2>2. registry'.route = registry.route /\ registry'.interval = registry.interval
    BY <1>3, <2>1 DEF IngestMark, DataSource
  <2>3. /\ p.pc = "mark" /\ ing'[i].source = p.source
        /\ \A j \in Ingesters : j # i => ing'[j] = ing[j]
        /\ UNCHANGED <<scope, rev>>
    BY <1>0, <1>3, <2>1 DEF IngestMark, IngestRecord
  <2> QED
    BY <2>1, <2>2, <2>3, KeepsAgreement
<1>4. CASE \/ IngestRecordFact(i) \/ IngestReplaceRows(i)
           \/ IngestUpsertPoints(i) \/ IngestPrunePoints(i)
  <2> USE DEF IngestRecordFact, IngestReplaceRows, IngestUpsertPoints, IngestPrunePoints
  <2>1. p.pc \in {"record", "rows", "upsert", "prune"} /\ p \in IngestRecord
    <3>1. p.pc \in {"record", "rows", "upsert", "prune"}
      BY <1>4
    <3> QED
      BY <1>0, <3>1, IngestBusy
  <2>2. /\ ing'[i].source = p.source
        /\ \A j \in Ingesters : j # i => ing'[j] = ing[j]
        /\ UNCHANGED <<scope, registry, rev>>
    BY <1>0, <1>4, <2>1 DEF IngestRecord
  <2> QED
    BY <2>1, <2>2, KeepsAgreement
<1>5. CASE IngestCache(i)
  <2>1. p \in IngestRecord /\ p.source \in DataSource /\ p.pc = "cache"
    BY <1>0, <1>5, IngestBusy DEF IngestCache, IngestRecord, TypeInv, LocalsReady, Opt
  <2>2. /\ ing'[i].source.route = p.source.route
        /\ ing'[i].source.interval = p.source.interval
        /\ \A j \in Ingesters : j # i => ing'[j] = ing[j]
        /\ UNCHANGED <<scope, registry, rev>>
    BY <1>0, <1>5, <2>1 DEF IngestCache, IngestRecord, DataSource
  <2> QED
    BY <2>1, <2>2, KeepsAgreement
<1>6. CASE IngestSave(i)
  <2>1. p \in IngestRecord /\ p.source \in DataSource /\ p.pc = "save"
    BY <1>0, <1>6, IngestBusy DEF IngestSave, IngestRecord, TypeInv, LocalsReady, Opt
  <2>2. /\ ing'[i].pc = "idle"
        /\ \A j \in Ingesters : j # i => ing'[j] = ing[j]
        /\ UNCHANGED <<scope, rev>>
    BY <1>0, <1>6 DEF IngestSave, Idle
  <2>3. CASE registry # None
    <3>1. registry'.route = registry.route /\ registry'.interval = registry.interval
      BY <1>0, <1>6, <2>3 DEF IngestSave, Saved, DataSource
    <3> QED
      BY <2>2, <2>3, <3>1, KeepsAgreement
  <2>4. CASE registry = None
    <3>1. registry'.route = p.source.route /\ registry'.interval = p.source.interval
      BY <1>6, <2>1, <2>4 DEF IngestSave, Saved, DataSource
    <3>2. RouteMatchesInterval'
      BY <1>0, <2>1, <2>2, <3>1 DEF RouteMatchesInterval
    <3> QED
      BY <2>2, <3>2 DEF MigrationInv
  <2> QED
    BY <2>3, <2>4
<1> QED
  BY <1>1, <1>2, <1>3, <1>4, <1>5, <1>6 DEF IngestStep

\* The other steps do, for a review's decision agrees in itself.
LEMMA OtherAgreement ==
  ASSUME MigrationInv, ScopeInv', BoundaryAboveFloor,
         \/ \E r \in Refreshers : RefreshList(r) \/ RefreshStep(r) \/ RefreshRaise(r)
         \/ \E v \in Reviewers : ReviewList(v) \/ ReviewStep(v) \/ ReviewRaise(v)
         \/ Lookup \/ Crash \/ Tick \/ UNCHANGED vars
  PROVE  MigrationInv'
<1>0. /\ TypeInv /\ TypeOK /\ RouteFollowsScope /\ rev \in [Reviewers -> ReviewState]
      /\ registry # None => registry \in DataSource
  BY DEF MigrationInv, ScopeInv, TypeInv, TypeOK, Opt
<1>1. ASSUME NEW r \in Refreshers, RefreshList(r) \/ RefreshStep(r) \/ RefreshRaise(r)
      PROVE  MigrationInv'
  <2>1. UNCHANGED <<scope, ing, rev>>
    BY <1>1 DEF RefreshList, RefreshStep, RefreshRaise, RefreshCheck, RefreshRead,
                RefreshSetExpiry, RefreshPreload, RefreshRecord, RefreshRetract
  <2>2. registry' # None => /\ registry # None
                            /\ registry'.route = registry.route
                            /\ registry'.interval = registry.interval
    <3>1. \/ registry' = registry
          \/ registry # None /\ registry' = [registry EXCEPT !.cachedUntil = Until(ref[r].listed)]
      BY <1>1 DEF RefreshList, RefreshStep, RefreshRaise, RefreshCheck, RefreshRead,
                  RefreshSetExpiry, RefreshPreload, RefreshRecord, RefreshRetract, Unchanged
    <3> QED
      BY <1>0, <3>1 DEF DataSource
  <2> QED
    BY <2>1, <2>2, KeepsAgreement
<1>2. ASSUME NEW v \in Reviewers, ReviewTimes(v)
      PROVE  MigrationInv'
  <2>1. rev[v] \in ReviewFields /\ scope # USER
    BY <1>0, <1>2, ReviewBusy DEF ReviewTimes, RouteFollowsScope
  <2>2. \A k \in DOMAIN version_times : version_times[k] \in Time
    <3>1. \A k \in 1..Len(versions) : versions[k] \in Version
      BY <1>0 DEF TypeOK
    <3> QED
      BY <3>1 DEF version_times, Version
  <2>3. UNCHANGED <<scope, registry, ing>> /\ \A w \in Reviewers : w # v => rev'[w] = rev[w]
    BY <1>0, <1>2 DEF ReviewTimes
  <2>4. \/ rev'[v].pc = "idle"
        \/ rev'[v].decision.route = route_for(scope, rev'[v].decision.interval)
    <3>1. CASE rev' = [rev EXCEPT ![v] = Idle]
      BY <1>0, <3>1 DEF Idle
    <3>2. ASSUME NEW d \in decide_migration(rev[v].listed, version_times, rev[v].now),
                 rev' = [rev EXCEPT ![v] = [rev[v] EXCEPT !.pc = "migrate", !.decision = d]]
          PROVE  rev'[v].decision.route = route_for(scope, rev'[v].decision.interval)
      <4>1. d.route = route_for(scope, d.interval)
        BY <2>1, <2>2, <3>2, DecisionRoutes DEF ReviewFields
      <4>2. rev'[v].decision = d
        BY <1>0, <2>1, <3>2 DEF ReviewFields
      <4> QED
        BY <4>1, <4>2
    <3> QED
      BY <1>2, <3>1, <3>2 DEF ReviewTimes
  <2> QED
    BY <2>3, <2>4, KeepsAgreement
<1>3. ASSUME NEW v \in Reviewers, ReviewMigrate(v)
      PROVE  MigrationInv'
  <2>1. rev[v] \in ReviewFields /\ rev[v].pc = "migrate"
    BY <1>0, <1>3, ReviewBusy DEF ReviewMigrate
  <2>2. UNCHANGED <<scope, ing>> /\ \A w \in Reviewers : w # v => rev'[w] = rev[w]
    BY <1>0, <1>3 DEF ReviewMigrate
  <2>3. rev'[v].pc \in {"idle", "evict"}
    BY <1>0, <1>3, <2>1 DEF ReviewMigrate, ReviewFields, Idle
  <2>4. CASE ~Unchanged(rev[v].listed.hash)
    <3>1. registry' = registry
      BY <1>3, <2>4 DEF ReviewMigrate
    <3> QED
      BY <2>2, <2>3, <3>1, KeepsAgreement
  <2>5. CASE Unchanged(rev[v].listed.hash)
    <3>1. registry'.route = rev[v].decision.route /\ registry'.interval = rev[v].decision.interval
      BY <1>0, <1>3, <2>5 DEF ReviewMigrate, Unchanged, DataSource
    <3>2. RouteMatchesInterval'
      BY <2>1, <2>2, <3>1 DEF MigrationInv, RouteMatchesInterval
    <3> QED
      BY <2>2, <2>3, <3>2 DEF MigrationInv
  <2> QED
    BY <2>4, <2>5
<1>4. ASSUME NEW v \in Reviewers, ReviewList(v) \/ ReviewEvict(v) \/ ReviewRaise(v)
      PROVE  MigrationInv'
  <2>1. /\ UNCHANGED <<scope, registry, ing>>
        /\ rev'[v].pc # "migrate"
        /\ \A w \in Reviewers : w # v => rev'[w] = rev[w]
    BY <1>0, <1>4 DEF ReviewList, ReviewEvict, ReviewRaise, Idle
  <2> QED
    BY <2>1, KeepsAgreement
<1>5. CASE Lookup \/ Crash \/ Tick \/ UNCHANGED vars
  <2>1. UNCHANGED <<scope, registry>>
    BY <1>5 DEF Lookup, Crash, Tick, vars
  <2>2. \/ UNCHANGED <<ing, rev>>
        \/ /\ \A i \in Ingesters : ing'[i].pc = "idle"
           /\ \A v \in Reviewers : rev'[v].pc = "idle"
    BY <1>5 DEF Lookup, Crash, Tick, vars, procVars, Idle
  <2> QED
    BY <2>1, <2>2, KeepsAgreement
<1> QED
  BY <1>1, <1>2, <1>3, <1>4, <1>5 DEF ReviewStep

\* RouteMatchesInterval in every behaviour, whichever ingestions and reviews interleave, for
\* every policy whose boundary is above one second.
THEOREM RouteAgreesWithInterval ==
  ASSUME BoundaryAboveFloor
  PROVE  Spec => []RouteMatchesInterval
<1>1. Init => MigrationInv
  BY ScopeInit DEF Init, MigrationInv, RouteMatchesInterval, Idle
<1>2. MigrationInv /\ [Next]_vars => MigrationInv'
  <2> SUFFICES ASSUME MigrationInv, [Next]_vars PROVE MigrationInv'
    OBVIOUS
  <2>1. ScopeInv'
    BY ScopeStep DEF MigrationInv
  <2> QED
    BY <2>1, IngestAgreement, OtherAgreement DEF Next
<1>3. MigrationInv => RouteMatchesInterval
  BY DEF MigrationInv
<1> QED
  BY <1>1, <1>2, <1>3, PTL DEF Spec
=============================================================================
