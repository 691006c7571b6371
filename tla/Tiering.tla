------------------------------- MODULE Tiering -------------------------------
(***************************************************************************)
(* Hot, warm and cold tiers.  Documents live in RAG (cold); the access      *)
(* trackers drive their promotion into the frozen cache (hot, tenant-wide)  *)
(* and into a user's semantic memory (warm), and that of a user's memory    *)
(* into the frozen cache under a key of the user.  Sync cycles take away    *)
(* what the authority no longer says.                                       *)
(*                                                                         *)
(* Frozen cache and trackers are plain dictionaries, their callers run      *)
(* without an await; the warm store is Postgres and Qdrant, and its callers *)
(* interleave.  Each call of MagTieringPolicy.evaluate and MagSyncCycle.run *)
(* is one transaction, committed by the caller.                             *)
(***************************************************************************)
EXTENDS Naturals, Sequences, FiniteSets, SequencesExt

CONSTANTS Users, Docs, None,
          Evaluators,                \* coroutines in MagTieringPolicy.evaluate
          PromoteThreshold, DemoteThreshold, WindowLength, Retention, TopN,
          Suites                     \* bound: [ops, users, docs, evaluators, accesses,
                                     \*   changes, clock, faults]

ASSUME TieringAssumption ==
    /\ {PromoteThreshold, DemoteThreshold, WindowLength, Retention, TopN} \subseteq Nat
    /\ PromoteThreshold >= DemoteThreshold      \* else evaluate raises ValueError
    /\ None \notin Users /\ "sync" \notin Evaluators

(* A suite is a part of the instance, and its documents can be enumerated. *)
ASSUME SuitesAssumption ==
    \A s \in Suites :
       /\ s.users \subseteq Users /\ s.evaluators \subseteq Evaluators
       /\ s.docs \subseteq Docs /\ IsFiniteSet(s.docs)

Row == [v : Nat, valid : BOOLEAN]     \* a warm row: the version of its text, and not demoted

ASSUME NoneAssumption == None \notin Nat /\ None \notin Row

VARIABLES suite, clock, changes, accesses, faults,
          rag,           \* document -> version of its text
          events,        \* tracker key -> accesses kept
          log,           \* history: tracker key -> all accesses recorded
          cache,         \* frozen cache: key -> [of, v] or None
          row,           \* warm store: <<user, document>> -> [v, valid] or None, committed
          index,         \* Qdrant: <<user, document>> -> version or None
          co,            \* coroutine -> what it is doing
          torn,          \* history: rows whose promotion was rolled back after the upsert
          top            \* the last result of WarmCache.execute

vars == <<suite, clock, changes, accesses, faults, rag, events, log, cache, row, index, co, torn, top>>
warmVars == <<row, index, co, torn>>

WarmKeys == Users \X Docs
Coroutines == Evaluators \cup {"sync"}
Idle == [pc |-> "idle", writes |-> <<>>]

(* cag_mag_keys: FrozenCache has no user parameter, the key has to carry it. *)
cache_key(user, d) == <<user, d, "mag">>
DocKey(d) == <<None, d, "rag">>
CacheKeys == {cache_key(u, d) : u \in Users \cup {None}, d \in Docs} \cup {DocKey(d) : d \in Docs}

TrackerKeys == (Users \cup {None}) \X Docs      \* None: the tenant-wide tracker

Init ==
    /\ suite \in Suites
    /\ clock = 0 /\ changes = 0 /\ accesses = 0 /\ faults = 0
    /\ rag = [d \in Docs |-> 0]
    /\ events = [k \in TrackerKeys |-> {}] /\ log = events
    /\ cache = [k \in CacheKeys |-> None]
    /\ row = [k \in WarmKeys |-> None] /\ index = [k \in WarmKeys |-> None]
    /\ co = [c \in Coroutines |-> Idle] /\ torn = {} /\ top = <<>>

-----------------------------------------------------------------------------
(* SlidingWindowCounter.  An access is its time and its number among those   *)
(* of its key, which keeps accesses at one time apart.                       *)

_prune(times, now) == {a \in times : a.at + Retention >= now}

Within(times, window, now) == Cardinality({a \in times : a.at + window >= now /\ a.at <= now})

(* count prunes, then counts. *)
count(key) == Within(_prune(events[key], clock), WindowLength, clock)

Prune(keys) ==
    events' = [k \in TrackerKeys |-> IF k \in keys THEN _prune(events[k], clock) ELSE events[k]]

RecordAccess(key) ==
    /\ accesses < suite.accesses /\ accesses' = accesses + 1
    /\ LET access == [at |-> clock, nth |-> Cardinality(log[key])]
       IN /\ events' = [events EXCEPT ![key] = _prune(@ \cup {access}, clock)]
          /\ log' = [log EXCEPT ![key] = @ \cup {access}]
    /\ UNCHANGED <<suite, clock, changes, faults, rag, cache, top, warmVars>>

(* Fault: the ranking starts from the least accessed. *)
Ranked_Ascending(a, b) == count(<<None, a>>) < count(<<None, b>>)
Ranked(a, b) == count(<<None, a>>) > count(<<None, b>>)

(* sorted is stable over the keys of a dict: any order of equals is possible. *)
most_accessed(n) ==
    LET counted == {d \in Docs : count(<<None, d>>) > 0}
    IN {SubSeq(s, 1, IF n < Len(s) THEN n ELSE Len(s)) :
          s \in {t \in SetToSeqs(counted) :
                   \A i, j \in 1..Len(t) : Ranked(t[i], t[j]) => i < j}}

-----------------------------------------------------------------------------
(* What a count asks of a tier. *)
Promotes(n, present) == n >= PromoteThreshold /\ ~present
Demotes(n, present) == n < DemoteThreshold /\ present

(* TieringPolicy.evaluate and CagMagTieringPolicy.evaluate: the same steps  *)
(* over the frozen cache, with another tracker, key and content.            *)
HotEvaluate(tracked, key, content) ==
    /\ Prune({tracked})
    /\ cache' = CASE Promotes(count(tracked), cache[key] # None) -> [cache EXCEPT ![key] = content]
                  [] Demotes(count(tracked), cache[key] # None) -> [cache EXCEPT ![key] = None]
                  [] OTHER -> cache
    /\ UNCHANGED <<suite, clock, changes, accesses, faults, rag, log, top, warmVars>>

Evaluate(d) == HotEvaluate(<<None, d>>, DocKey(d), [of |-> None, v |-> rag[d]])

(* The caller has the content from MAG, where the row must exist. *)
CagMagEvaluate(u, d) ==
    row[<<u, d>>] # None /\ HotEvaluate(<<u, d>>, cache_key(u, d), [of |-> u, v |-> row[<<u, d>>].v])

(* WarmCache.execute. *)
WarmCache(n) ==
    \E warmed \in most_accessed(n) :
      /\ Prune({None} \X Docs) /\ top' = warmed
      /\ cache' = [k \in CacheKeys |->
           IF cache[k] = None /\ \E i \in 1..Len(warmed) : k = DocKey(warmed[i])
           THEN [of |-> None, v |-> rag[k[2]]] ELSE cache[k]]
      /\ UNCHANGED <<suite, clock, changes, accesses, faults, rag, log, warmVars>>

(* Fault: only a copy ahead of its authority is a conflict. *)
reconcile_KeepsOlder(cached, authority) == cached # None /\ cached > authority

(* sync_mixer.reconcile: hashes of texts differ as the texts do. *)
reconcile(cached, authority) == cached # None /\ cached # authority

Held(key) == IF cache[key] = None THEN None ELSE cache[key].v

(* SyncCycle.run over all documents, and CagMagSyncCycle.run over the keys   *)
(* of one user: evict what reconcile reports.                                *)
SyncRun ==
    /\ cache' = [k \in CacheKeys |->
         IF k[3] = "rag" /\ reconcile(Held(k), rag[k[2]]) THEN None ELSE cache[k]]
    /\ UNCHANGED <<suite, clock, changes, accesses, faults, rag, events, log, top, warmVars>>

CagMagSyncRun(u) ==
    /\ \A d \in suite.docs : row[<<u, d>>] # None
    /\ LET stale == {d \in suite.docs : reconcile(Held(cache_key(u, d)), row[<<u, d>>].v)}
       IN cache' = [k \in CacheKeys |-> IF \E d \in stale : k = cache_key(u, d) THEN None ELSE cache[k]]
    /\ UNCHANGED <<suite, clock, changes, accesses, faults, rag, events, log, top, warmVars>>

-----------------------------------------------------------------------------
(* The warm store.  A write holds the row until its transaction ends.        *)

Holder(key) == {c \in Coroutines : key \in DOMAIN co[c].writes}

(* find_by_key reads what is committed, or what its own transaction wrote.   *)
Seen(c, key) == IF key \in DOMAIN co[c].writes THEN co[c].writes[key] ELSE row[key]
lookup(c, key) == LET r == Seen(c, key) IN IF r = None \/ ~r.valid THEN None ELSE r.v

Set(c, state) == co' = [co EXCEPT ![c] = state]
Goto(c, pc) == Set(c, [co[c] EXCEPT !.pc = pc])
KeepWarm == UNCHANGED <<suite, clock, changes, accesses, faults, rag, log, cache, top>>

(* MagTieringPolicy.evaluate up to its first await: the count is taken now.  *)
MagEvaluate(c, u, d) ==
    /\ co[c] = Idle /\ Prune({<<u, d>>})
    /\ Set(c, [pc |-> "contains", key |-> <<u, d>>, n |-> count(<<u, d>>), writes |-> <<>>])
    /\ KeepWarm /\ UNCHANGED <<row, index, torn>>

CheckWarm(c) ==
    /\ co[c].pc = "contains"
    /\ LET warm == lookup(c, co[c].key) # None
       IN \/ /\ Promotes(co[c].n, warm)
             /\ Set(c, [co[c] EXCEPT !.pc = "save", !.n = rag[co[c].key[2]]])  \* content_provider
          \/ Demotes(co[c].n, warm) /\ Goto(c, "demote")
          \/ ~Promotes(co[c].n, warm) /\ ~Demotes(co[c].n, warm) /\ Set(c, Idle)
    /\ KeepWarm /\ UNCHANGED <<events, row, index, torn>>

(* promote: the upsert of the row clears valid_until, then the point. *)
PromoteSave(c) ==
    /\ co[c].pc = "save" /\ Holder(co[c].key) = {}
    /\ Set(c, [co[c] EXCEPT !.pc = "upsert",
                            !.writes = [k \in {co[c].key} |-> [v |-> co[c].n, valid |-> TRUE]]])
    /\ KeepWarm /\ UNCHANGED <<events, row, index, torn>>

(* Fault: a document that has a point keeps it. *)
PromoteUpsert_Once(c) ==
    /\ co[c].pc = "upsert" /\ Goto(c, "commit")
    /\ index' = [index EXCEPT ![co[c].key] = IF @ = None THEN co[c].n ELSE @]
    /\ KeepWarm /\ UNCHANGED <<events, row, torn>>

PromoteUpsert(c) ==
    /\ co[c].pc = "upsert" /\ Goto(c, "commit")
    /\ index' = [index EXCEPT ![co[c].key] = co[c].n]
    /\ KeepWarm /\ UNCHANGED <<events, row, torn>>

(* demote: looked up once more, so that an unknown document is no error. *)
DemoteLookup(c) ==
    /\ co[c].pc = "demote"
    /\ IF lookup(c, co[c].key) = None THEN Goto(c, IF c = "sync" THEN "lookup" ELSE "commit")
       ELSE Goto(c, "invalidate")
    /\ KeepWarm /\ UNCHANGED <<events, row, index, torn>>

(* invalidate: whatever the row says by then; Qdrant is not told. *)
Invalidate(c) ==
    LET key == co[c].key IN
    /\ co[c].pc = "invalidate" /\ Holder(key) \subseteq {c}
    /\ Set(c, [co[c] EXCEPT !.pc = IF c = "sync" THEN "lookup" ELSE "commit",
                            !.writes = [k \in DOMAIN @ \cup {key} |->
                               IF k = key THEN [Seen(c, key) EXCEPT !.valid = FALSE] ELSE @[k]]])
    /\ KeepWarm /\ UNCHANGED <<events, row, index, torn>>

(* MagSyncCycle.run for one user, document by document. *)
MagSyncStart(u) ==
    /\ co["sync"] = Idle
    /\ Set("sync", [pc |-> "lookup", key |-> <<u, None>>, todo |-> SetToSeq(suite.docs), writes |-> <<>>])
    /\ KeepWarm /\ UNCHANGED <<events, row, index, torn>>

MagSyncLookup ==
    LET c == "sync"
        d == Head(co[c].todo)
        key == <<co[c].key[1], d>>
    IN
    /\ co[c].pc = "lookup"
    /\ \/ co[c].todo = <<>> /\ Goto(c, "commit")             \* the run is over
       \/ /\ co[c].todo # <<>>
          /\ Set(c, [co[c] EXCEPT !.todo = Tail(@), !.key = key,
                       !.pc = IF reconcile(lookup(c, key), rag[d]) THEN "demote" ELSE "lookup"])
    /\ KeepWarm /\ UNCHANGED <<events, row, index, torn>>

Commit(c) ==
    /\ co[c].pc = "commit" /\ Set(c, Idle)
    /\ row' = [k \in WarmKeys |-> Seen(c, k)]
    /\ KeepWarm /\ UNCHANGED <<events, index, torn>>

(* A call raises and the transaction is rolled back. *)
Fail(c) ==
    /\ co[c] # Idle /\ faults < suite.faults /\ faults' = faults + 1
    /\ Set(c, Idle)
    /\ torn' = torn \cup {k \in DOMAIN co[c].writes : co[c].pc = "commit" /\ co[c].writes[k].valid}
    /\ UNCHANGED <<suite, clock, changes, accesses, rag, events, log, cache, row, index, top>>

-----------------------------------------------------------------------------
RagChange(d) ==
    /\ changes < suite.changes /\ changes' = changes + 1
    /\ rag' = [rag EXCEPT ![d] = changes + 1]
    /\ UNCHANGED <<suite, clock, accesses, faults, events, log, cache, top, warmVars>>

Tick == /\ clock < suite.clock /\ clock' = clock + 1
        /\ UNCHANGED <<suite, changes, accesses, faults, rag, events, log, cache, top, warmVars>>

EvaluatorStep(c) == CheckWarm(c) \/ PromoteSave(c) \/ PromoteUpsert(c) \/ DemoteLookup(c) \/ Invalidate(c) \/ Commit(c)
SyncStep == MagSyncLookup \/ DemoteLookup("sync") \/ Invalidate("sync") \/ Commit("sync")

Next ==
    \/ \E d \in suite.docs :
         \/ RagChange(d)
         \/ "hot" \in suite.ops /\ (RecordAccess(<<None, d>>) \/ Evaluate(d))
         \/ \E u \in suite.users : "warm" \in suite.ops /\ RecordAccess(<<u, d>>)
         \/ \E u \in suite.users : "own" \in suite.ops /\ CagMagEvaluate(u, d)
         \/ \E u \in suite.users, c \in suite.evaluators : "warm" \in suite.ops /\ MagEvaluate(c, u, d)
    \/ "hot" \in suite.ops /\ (WarmCache(TopN) \/ SyncRun)
    \/ \E u \in suite.users : \/ "own" \in suite.ops /\ CagMagSyncRun(u)
                              \/ "warm" \in suite.ops /\ MagSyncStart(u)
    \/ \E c \in Evaluators : EvaluatorStep(c)
    \/ SyncStep
    \/ \E c \in Coroutines : Fail(c)
    \/ Tick

Spec == Init /\ [][Next]_vars

(* Calls return, and somebody drives every sync cycle again and again. *)
FairSpec ==
    /\ Spec
    /\ WF_vars(SyncStep) /\ \A c \in Evaluators : WF_vars(EvaluatorStep(c))
    /\ WF_vars("hot" \in suite.ops /\ SyncRun)
    /\ \A u \in Users : /\ WF_vars("own" \in suite.ops /\ u \in suite.users /\ CagMagSyncRun(u))
                        /\ SF_vars("warm" \in suite.ops /\ u \in suite.users /\ MagSyncStart(u))

-----------------------------------------------------------------------------
(* Pruning loses nothing a count can ask for: for every window up to the     *)
(* retention, the times kept count the same as all accesses ever recorded.   *)
CountsExact ==
    \A k \in TrackerKeys : \A w \in 0..Retention :
       Within(events[k], w, clock) = Within(log[k], w, clock)

(* What a user's memory put into the shared cache is found under no key but  *)
(* that user's.                                                              *)
HotIsOwn == \A u \in Users, d \in Docs :
               LET e == cache[cache_key(u, d)] IN e # None => e.of = u

(* Warming takes the most accessed: a document left out was not accessed     *)
(* more often than one taken, and one never accessed is not taken.           *)
TopIsTop ==
    [][top' # top =>
         \A i \in 1..Len(top') :
           /\ count(<<None, top'[i]>>) > 0
           /\ \A d \in Docs : count(<<None, d>>) > count(<<None, top'[i]>>)
                                => d \in {top'[j] : j \in 1..i}]_vars

(* What is warmed are the documents accessed most often, though old accesses *)
(* are forgotten all the time.                                               *)
CountsDecide == []CountsExact /\ TopIsTop

(* Between promotions a point in Qdrant is that of the row, however          *)
(* evaluations of one document overlap; only a rolled back promotion leaves  *)
(* a point of its own.                                                       *)
IndexFollowsRow ==
    \A k \in WarmKeys : Holder(k) = {} /\ k \notin torn =>
       index[k] = IF row[k] = None THEN None ELSE row[k].v

(* A copy is its user's own in the shared cache, and that of the row in the  *)
(* index, whatever evaluations overlap.                                      *)
CopiesFaithful == HotIsOwn /\ IndexFollowsRow

HotStale(d) == Held(DocKey(d)) \notin {None, rag[d]}
OwnStale(k) == row[k] # None /\ Held(cache_key(k[1], k[2])) \notin {None, row[k].v}
WarmStale(k) == row[k] # None /\ row[k].valid /\ row[k].v # rag[k[2]]

(* No tier serves a superseded text for ever, promotions that read it before *)
(* the change and land after it included.                                    *)
StaleCopiesGo ==
    /\ \A d \in Docs : HotStale(d) ~> ~HotStale(d)
    /\ \A k \in WarmKeys : WarmStale(k) ~> ~WarmStale(k)
    /\ \A k \in WarmKeys : OwnStale(k) ~> ~OwnStale(k)
=============================================================================
