---------------------------- MODULE TieringProofs ----------------------------
(***************************************************************************)
(* The copies the tiers keep: a user's memory in the shared frozen cache,  *)
(* and the Qdrant point of a warm document; and the counts that decide     *)
(* what is kept.  For any number of users, documents, overlapping          *)
(* evaluations, sync cycles and failed calls.                              *)
(***************************************************************************)
EXTENDS Tiering, TLAPS, FiniteSetTheorems

-----------------------------------------------------------------------------
(* The frozen cache. *)

HotInv == cache = [k \in CacheKeys |-> cache[k]] /\ HotIsOwn

(* The steps over the frozen cache. *)
HotSteps ==
    \/ \E d \in Docs : Evaluate(d) \/ \E u \in Users : CagMagEvaluate(u, d)
    \/ WarmCache(TopN) \/ SyncRun
    \/ \E u \in Users : CagMagSyncRun(u)

(* A document's key is never a user's. *)
LEMMA KeysApart ==
    \A u, d, e : cache_key(u, d) # DocKey(e)
  BY DEF cache_key, DocKey

(* Users and documents have keys of their own. *)
LEMMA KeysInjective ==
    \A u, w, d, e : cache_key(u, d) = cache_key(w, e) => u = w /\ d = e
  BY DEF cache_key

(* evaluate, of a document's key or of a user's own. *)
LEMMA HotEvaluateStep ==
  ASSUME HotInv, NEW tracked, NEW key, NEW content, HotEvaluate(tracked, key, content),
         \A u \in Users, d \in Docs : key = cache_key(u, d) => content.of = u
  PROVE  HotInv'
<1>1. cache' \in {cache, [cache EXCEPT ![key] = content], [cache EXCEPT ![key] = None]}
  BY DEF HotEvaluate
<1>2. cache' = [k \in CacheKeys |-> cache'[k]]
  BY <1>1 DEF HotInv
<1>3. ASSUME NEW u \in Users, NEW d \in Docs, cache'[cache_key(u, d)] # None
      PROVE  cache'[cache_key(u, d)].of = u
  <2>1. cache_key(u, d) \in CacheKeys
    BY DEF CacheKeys
  <2> QED
    BY <1>1, <1>3, <2>1 DEF HotInv, HotIsOwn
<1> QED
  BY <1>2, <1>3 DEF HotInv, HotIsOwn

(* Every step keeps HotInv. *)
LEMMA HotStep ==
  ASSUME HotInv, suite \in Suites, [Next]_vars
  PROVE  HotInv'
<1>0. suite.docs \subseteq Docs /\ suite.users \subseteq Users
  BY SuitesAssumption
<1>1. CASE cache' = cache
  BY <1>1 DEF HotInv, HotIsOwn
<1>2. ASSUME NEW d \in Docs, Evaluate(d)
      PROVE  HotInv'
  BY <1>2, KeysApart, HotEvaluateStep DEF Evaluate
<1>3. ASSUME NEW u \in Users, NEW d \in Docs, CagMagEvaluate(u, d)
      PROVE  HotInv'
  <2>1. \A w \in Users, e \in Docs :
          cache_key(u, d) = cache_key(w, e) => [of |-> u, v |-> row[<<u, d>>].v].of = w
    BY KeysInjective
  <2> QED
    BY <1>3, <2>1, HotEvaluateStep DEF CagMagEvaluate
<1>4. CASE WarmCache(TopN)
  <2>1. PICK warmed :
          cache' = [k \in CacheKeys |->
             IF cache[k] = None /\ \E i \in 1..Len(warmed) : k = DocKey(warmed[i])
             THEN [of |-> None, v |-> rag[k[2]]] ELSE cache[k]]
    BY <1>4 DEF WarmCache
  <2>2. \A u \in Users, d \in Docs :
          cache_key(u, d) \in CacheKeys /\ cache'[cache_key(u, d)] = cache[cache_key(u, d)]
    BY <2>1, KeysApart DEF CacheKeys
  <2> QED
    BY <2>1, <2>2 DEF HotInv, HotIsOwn
<1>5. CASE SyncRun \/ \E u \in Users : CagMagSyncRun(u)
  <2>1. /\ cache' = [k \in CacheKeys |-> cache'[k]]
        /\ \A k \in CacheKeys : cache'[k] \in {None, cache[k]}
    BY <1>5 DEF SyncRun, CagMagSyncRun
  <2>2. \A u \in Users, d \in Docs : cache_key(u, d) \in CacheKeys
    BY DEF CacheKeys
  <2> QED
    BY <2>1, <2>2 DEF HotInv, HotIsOwn
<1>6. Next => cache' = cache \/ HotSteps
  BY <1>0 DEF Next, HotSteps, RagChange, RecordAccess, MagEvaluate, MagSyncStart, EvaluatorStep,
              SyncStep, CheckWarm, PromoteSave, PromoteUpsert, DemoteLookup, Invalidate, Commit,
              MagSyncLookup, Fail, Tick, KeepWarm
<1>7. UNCHANGED vars => cache' = cache
  BY DEF vars
<1> QED
  BY <1>1, <1>2, <1>3, <1>4, <1>5, <1>6, <1>7 DEF HotSteps

-----------------------------------------------------------------------------
(* The warm store. *)

EvaluatorPc == {"contains", "save", "upsert", "demote", "invalidate", "commit"}
SyncPc == {"lookup", "demote", "invalidate", "commit"}

RowVersion(rows, k) == IF rows[k] = None THEN None ELSE rows[k].v

(* What a transaction has written are rows. *)
WritesRows(x) ==
    DOMAIN x.writes \subseteq WarmKeys /\ \A k \in DOMAIN x.writes : x.writes[k] \in Row

(* What an evaluation has written by each of its steps: the row of its own   *)
(* document, if any, and of the version it promotes until its point is up;   *)
(* invalidating it keeps the version.                                        *)
EvaluatorFit(x, rows) ==
    \/ x = Idle
    \/ /\ x \in [pc : EvaluatorPc, key : WarmKeys, n : {x.n}, writes : {x.writes}]
       /\ WritesRows(x) /\ DOMAIN x.writes \subseteq {x.key}
       /\ x.pc \in {"contains", "save", "demote", "invalidate"} => DOMAIN x.writes = {}
       /\ x.pc \in {"save", "upsert"} => x.n \in Nat
       /\ x.pc = "upsert" => DOMAIN x.writes = {x.key} /\ x.writes[x.key].v = x.n /\ x.writes[x.key].valid
       /\ \A k \in DOMAIN x.writes : x.writes[k].valid \/ (rows[k] # None /\ x.writes[k].v = rows[k].v)
       /\ x.pc = "invalidate" => rows[x.key] # None

(* A sync cycle only invalidates: the versions are those of the rows.        *)
SyncFit(x, rows) ==
    \/ x = Idle
    \/ /\ x \in [pc : SyncPc, key : {x.key}, todo : Seq(Docs), writes : {x.writes}]
       /\ x.key[1] \in Users /\ WritesRows(x)
       /\ x.pc \in {"demote", "invalidate"} => x.key \in WarmKeys
       /\ x.pc = "invalidate" => rows[x.key] # None
       /\ \A k \in DOMAIN x.writes : rows[k] # None /\ x.writes[k].v = rows[k].v

Fit(c, x, rows) == IF c = "sync" THEN SyncFit(x, rows) ELSE EvaluatorFit(x, rows)

WarmTypes ==
    /\ suite \in Suites /\ changes \in Nat /\ rag \in [Docs -> Nat]
    /\ row \in [WarmKeys -> Row \cup {None}] /\ index \in [WarmKeys -> Nat \cup {None}]
    /\ co = [c \in Coroutines |-> co[c]]

(* A row is written by one transaction at a time. *)
RowsLocked ==
    \A c, e \in Coroutines : \A k \in WarmKeys :
       k \in DOMAIN co[c].writes /\ k \in DOMAIN co[e].writes => c = e

(* A point is that of the row, or of the row about to be committed. *)
PointsFit ==
    \A k \in WarmKeys : k \notin torn =>
       /\ (\A c \in Coroutines : k \notin DOMAIN co[c].writes) => index[k] = RowVersion(row, k)
       /\ \A c \in Coroutines : k \in DOMAIN co[c].writes =>
            index[k] = IF co[c].pc = "upsert" THEN RowVersion(row, k) ELSE co[c].writes[k].v

WarmInv ==
    WarmTypes /\ RowsLocked /\ PointsFit /\ \A c \in Coroutines : Fit(c, co[c], row)

(* What a coroutine has written. *)
LEMMA WrittenRows ==
  ASSUME WarmInv, NEW c \in Coroutines
  PROVE  /\ Fit(c, co[c], row) /\ WritesRows(co[c])
         /\ co[c].pc = "idle" => co[c] = Idle
         /\ co[c].pc # "idle" => co[c] # Idle
         /\ co[c].pc = "upsert" => c # "sync"
  BY DEF WarmInv, Fit, SyncFit, EvaluatorFit, WritesRows, Idle, SyncPc, EvaluatorPc

(* A step of one coroutine that commits nothing. *)
LEMMA OwnStep ==
  ASSUME WarmInv, NEW c \in Coroutines, NEW s, co' = [co EXCEPT ![c] = s],
         UNCHANGED <<suite, changes, rag, row>>,
         index' \in [WarmKeys -> Nat \cup {None}], torn \subseteq torn',
         Fit(c, s, row),
         \A k \in DOMAIN s.writes, e \in Coroutines : e # c => k \notin DOMAIN co[e].writes,
         \A k \in WarmKeys : k \notin torn' =>
            IF k \in DOMAIN s.writes
            THEN index'[k] = IF s.pc = "upsert" THEN RowVersion(row, k) ELSE s.writes[k].v
            ELSE index'[k] = IF k \in DOMAIN co[c].writes THEN RowVersion(row, k) ELSE index[k]
  PROVE  WarmInv'
<1>1. /\ co'[c] = s /\ co' = [e \in Coroutines |-> co'[e]]
      /\ \A e \in Coroutines : e # c => co'[e] = co[e]
  BY DEF WarmInv, WarmTypes
<1>2. WarmTypes'
  BY <1>1 DEF WarmInv, WarmTypes
<1>3. RowsLocked'
  BY <1>1 DEF WarmInv, RowsLocked
<1>4. PointsFit'
  <2> SUFFICES ASSUME NEW k \in WarmKeys, k \notin torn'
               PROVE  /\ (\A e \in Coroutines : k \notin DOMAIN co'[e].writes) =>
                            index'[k] = RowVersion(row, k)
                      /\ \A e \in Coroutines : k \in DOMAIN co'[e].writes =>
                            index'[k] = IF co'[e].pc = "upsert" THEN RowVersion(row, k)
                                        ELSE co'[e].writes[k].v
    BY DEF PointsFit
  <2>1. CASE k \in DOMAIN s.writes
    BY <1>1, <2>1
  <2>2. CASE k \notin DOMAIN s.writes /\ k \in DOMAIN co[c].writes
    BY <1>1, <2>2 DEF WarmInv, RowsLocked
  <2>3. CASE k \notin DOMAIN s.writes /\ k \notin DOMAIN co[c].writes
    BY <1>1, <2>3 DEF WarmInv, PointsFit
  <2> QED
    BY <2>1, <2>2, <2>3
<1>5. \A e \in Coroutines : Fit(e, co'[e], row)
  BY <1>1 DEF WarmInv
<1> QED
  BY <1>2, <1>3, <1>4, <1>5 DEF WarmInv

(* A step of one coroutine that writes nothing. *)
LEMMA MoveStep ==
  ASSUME WarmInv, NEW c \in Coroutines, NEW s, co' = [co EXCEPT ![c] = s],
         UNCHANGED <<suite, changes, rag, row, index, torn>>,
         Fit(c, s, row),
         \/ s.writes = co[c].writes
         \/ DOMAIN s.writes = {} /\ DOMAIN co[c].writes = {},
         s.pc # "upsert", co[c].pc # "upsert"
  PROVE  WarmInv'
<1>1. DOMAIN s.writes \subseteq WarmKeys /\ DOMAIN co[c].writes = DOMAIN s.writes
  BY WrittenRows DEF WritesRows
<1>2. \A k \in DOMAIN s.writes, e \in Coroutines : e # c => k \notin DOMAIN co[e].writes
  BY <1>1 DEF WarmInv, RowsLocked
<1>3. \A k \in WarmKeys : k \notin torn /\ k \in DOMAIN s.writes => index[k] = s.writes[k].v
  BY <1>1 DEF WarmInv, PointsFit
<1>4. index' \in [WarmKeys -> Nat \cup {None}]
  BY DEF WarmInv, WarmTypes
<1> QED
  BY <1>1, <1>2, <1>3, <1>4, OwnStep

(* An evaluation starts with nothing written. *)
LEMMA MagEvaluateStep ==
  ASSUME WarmInv, NEW c \in Evaluators, NEW u \in Users, NEW d \in Docs, MagEvaluate(c, u, d)
  PROVE  WarmInv'
<1> DEFINE s == [pc |-> "contains", key |-> <<u, d>>, n |-> count(<<u, d>>), writes |-> <<>>]
<1>1. /\ c \in Coroutines /\ c # "sync" /\ co[c] = Idle /\ co' = [co EXCEPT ![c] = s]
      /\ UNCHANGED <<suite, changes, rag, row, index, torn>>
  BY TieringAssumption DEF MagEvaluate, Set, KeepWarm, Coroutines
<1>2. s.pc = "contains" /\ DOMAIN s.writes = {} /\ co[c].pc = "idle" /\ DOMAIN co[c].writes = {}
  BY <1>1 DEF Idle
<1>3. EvaluatorFit(s, row)
  BY DEF EvaluatorFit, WritesRows, EvaluatorPc, WarmKeys
<1> HIDE DEF s
<1> QED
  BY <1>1, <1>2, <1>3, MoveStep DEF Fit

(* The check of the tier decides: promote, demote or neither. *)
LEMMA CheckWarmStep ==
  ASSUME WarmInv, NEW c \in Evaluators, CheckWarm(c)
  PROVE  WarmInv'
<1> DEFINE x == co[c]
<1>1. /\ c \in Coroutines /\ c # "sync" /\ x.pc = "contains"
      /\ UNCHANGED <<suite, changes, rag, row, index, torn>>
  BY TieringAssumption DEF CheckWarm, KeepWarm, Coroutines
<1>2. /\ x \in [pc : EvaluatorPc, key : WarmKeys, n : {x.n}, writes : {x.writes}]
      /\ WritesRows(x) /\ DOMAIN x.writes = {}
  BY <1>1, WrittenRows DEF Fit, EvaluatorFit, Idle
<1>3. CASE co' = [co EXCEPT ![c] = Idle]
  <2>1. EvaluatorFit(Idle, row) /\ DOMAIN Idle.writes = {} /\ Idle.pc = "idle"
    BY DEF EvaluatorFit, Idle
  <2> QED
    BY <1>1, <1>2, <1>3, <2>1, MoveStep DEF Fit
<1>4. CASE co' = [co EXCEPT ![c] = [x EXCEPT !.pc = "demote"]]
  <2> DEFINE s == [x EXCEPT !.pc = "demote"]
  <2>1. s.pc = "demote" /\ s.writes = x.writes /\ EvaluatorFit(s, row)
    BY <1>2 DEF EvaluatorFit, WritesRows, EvaluatorPc
  <2> HIDE DEF s
  <2> QED
    BY <1>1, <1>4, <2>1, MoveStep DEF Fit, s
<1>5. CASE co' = [co EXCEPT ![c] = [x EXCEPT !.pc = "save", !.n = rag[x.key[2]]]]
  <2> DEFINE s == [x EXCEPT !.pc = "save", !.n = rag[x.key[2]]]
  <2>1. rag[x.key[2]] \in Nat
    BY <1>2 DEF WarmInv, WarmTypes, WarmKeys
  <2>2. s.pc = "save" /\ s.writes = x.writes /\ EvaluatorFit(s, row)
    BY <1>2, <2>1 DEF EvaluatorFit, WritesRows, EvaluatorPc
  <2> HIDE DEF s
  <2> QED
    BY <1>1, <1>5, <2>2, MoveStep DEF Fit, s
<1> QED
  BY <1>3, <1>4, <1>5 DEF CheckWarm, Set, Goto

(* What a coroutine looks up is a row. *)
LEMMA SeenRow ==
  ASSUME WarmInv, NEW c \in Coroutines, NEW k \in WarmKeys,
         c # "sync" => DOMAIN co[c].writes = {},
         Seen(c, k) # None
  PROVE  row[k] # None /\ row[k] \in Row /\ Seen(c, k) \in Row /\ Seen(c, k).v = row[k].v
<1>1. row[k] \in Row \cup {None}
  BY DEF WarmInv, WarmTypes
<1>2. CASE k \in DOMAIN co[c].writes
  BY <1>1, <1>2, WrittenRows DEF Seen, Fit, SyncFit, WritesRows, Idle
<1>3. CASE k \notin DOMAIN co[c].writes
  BY <1>1, <1>3 DEF Seen
<1> QED
  BY <1>2, <1>3

(* What is about to be invalidated has a row. *)
LEMMA DemoteLookupStep ==
  ASSUME WarmInv, NEW c \in Coroutines, DemoteLookup(c)
  PROVE  WarmInv'
<1> DEFINE x == co[c]
<1>1. x.pc = "demote" /\ UNCHANGED <<suite, changes, rag, row, index, torn>>
  BY DEF DemoteLookup, KeepWarm
<1>2. PICK pc \in {"lookup", "commit", "invalidate"} :
        /\ co' = [co EXCEPT ![c] = [x EXCEPT !.pc = pc]]
        /\ pc = "invalidate" => lookup(c, x.key) # None
        /\ IF c = "sync" THEN pc # "commit" ELSE pc # "lookup"
  BY DEF DemoteLookup, Goto, Set
<1> DEFINE s == [x EXCEPT !.pc = pc]
<1>3. CASE c = "sync"
  <2>1. /\ x \in [pc : SyncPc, key : {x.key}, todo : Seq(Docs), writes : {x.writes}]
        /\ x.key[1] \in Users /\ WritesRows(x) /\ x.key \in WarmKeys
        /\ \A k \in DOMAIN x.writes : row[k] # None /\ x.writes[k].v = row[k].v
    BY <1>1, <1>3, WrittenRows DEF Fit, SyncFit, Idle
  <2>2. pc = "invalidate" => row[x.key] # None
    BY <1>2, <1>3, <2>1, SeenRow DEF lookup
  <2>3. s.pc = pc /\ s.writes = x.writes /\ SyncFit(s, row)
    BY <1>2, <1>3, <2>1, <2>2 DEF SyncFit, WritesRows, SyncPc
  <2> HIDE DEF s
  <2> QED
    BY <1>1, <1>2, <1>3, <2>3, MoveStep DEF Fit, s
<1>4. CASE c # "sync"
  <2>1. /\ x \in [pc : EvaluatorPc, key : WarmKeys, n : {x.n}, writes : {x.writes}]
        /\ WritesRows(x) /\ DOMAIN x.writes = {} /\ x.key \in WarmKeys
    BY <1>1, <1>4, WrittenRows DEF Fit, EvaluatorFit, Idle
  <2>2. pc = "invalidate" => row[x.key] # None
    BY <1>2, <1>4, <2>1, SeenRow DEF lookup
  <2>3. s.pc = pc /\ s.writes = x.writes /\ EvaluatorFit(s, row)
    BY <1>2, <1>4, <2>1, <2>2 DEF EvaluatorFit, WritesRows, EvaluatorPc
  <2> HIDE DEF s
  <2> QED
    BY <1>1, <1>2, <1>4, <2>3, MoveStep DEF Fit, s
<1> QED
  BY <1>3, <1>4

(* A finite set can be put into a sequence. *)
LEMMA SetToSeqType ==
  ASSUME NEW S, IsFiniteSet(S)
  PROVE  SetToSeq(S) \in Seq(S)
<1>1. Cardinality(S) \in Nat /\ ExistsBijection(1..Cardinality(S), S)
  BY FS_CardinalityType
<1>2. PICK f \in [1..Cardinality(S) -> S] : IsInjective(f)
  BY <1>1 DEF ExistsBijection, Bijection, Injection
<1>3. SetToSeq(S) \in [1..Cardinality(S) -> S]
  BY <1>2 DEF SetToSeq
<1> QED
  BY <1>1, <1>3

(* A sync cycle starts with all documents to do. *)
LEMMA MagSyncStartStep ==
  ASSUME WarmInv, NEW u \in Users, MagSyncStart(u)
  PROVE  WarmInv'
<1> DEFINE c == "sync"
           s == [pc |-> "lookup", key |-> <<u, None>>, todo |-> SetToSeq(suite.docs),
                 writes |-> <<>>]
<1>1. /\ c \in Coroutines /\ co[c] = Idle /\ co' = [co EXCEPT ![c] = s]
      /\ UNCHANGED <<suite, changes, rag, row, index, torn>>
  BY DEF MagSyncStart, Set, KeepWarm, Coroutines
<1>2. s.pc = "lookup" /\ DOMAIN s.writes = {} /\ co[c].pc = "idle" /\ DOMAIN co[c].writes = {}
  BY <1>1 DEF Idle
<1>3. SetToSeq(suite.docs) \in Seq(Docs)
  <2>1. IsFiniteSet(suite.docs) /\ suite.docs \subseteq Docs
    BY SuitesAssumption DEF WarmInv, WarmTypes
  <2>2. SetToSeq(suite.docs) \in Seq(suite.docs)
    BY <2>1, SetToSeqType
  <2> QED
    BY <2>1, <2>2
<1>4. SyncFit(s, row)
  BY <1>3 DEF SyncFit, WritesRows, SyncPc
<1> HIDE DEF s
<1> QED
  BY <1>1, <1>2, <1>4, MoveStep DEF Fit

(* A sync cycle takes the next document, or is over. *)
LEMMA MagSyncLookupStep ==
  ASSUME WarmInv, MagSyncLookup
  PROVE  WarmInv'
<1> DEFINE c == "sync"
           x == co[c]
<1>1. /\ c \in Coroutines /\ x.pc = "lookup"
      /\ UNCHANGED <<suite, changes, rag, row, index, torn>>
  BY DEF MagSyncLookup, KeepWarm, Coroutines
<1>2. /\ x \in [pc : SyncPc, key : {x.key}, todo : Seq(Docs), writes : {x.writes}]
      /\ x.key[1] \in Users /\ WritesRows(x)
      /\ \A k \in DOMAIN x.writes : row[k] # None /\ x.writes[k].v = row[k].v
  BY <1>1, WrittenRows DEF Fit, SyncFit, Idle
<1>3. CASE co' = [co EXCEPT ![c] = [x EXCEPT !.pc = "commit"]]
  <2> DEFINE s == [x EXCEPT !.pc = "commit"]
  <2>1. s.pc = "commit" /\ s.writes = x.writes /\ SyncFit(s, row)
    BY <1>2 DEF SyncFit, WritesRows, SyncPc
  <2> HIDE DEF s
  <2> QED
    BY <1>1, <1>3, <2>1, MoveStep DEF Fit, s
<1>4. ASSUME x.todo # <<>>, NEW pc \in {"demote", "lookup"},
             co' = [co EXCEPT ![c] = [x EXCEPT !.todo = Tail(x.todo),
                                               !.key = <<x.key[1], Head(x.todo)>>, !.pc = pc]]
      PROVE  WarmInv'
  <2> DEFINE s == [x EXCEPT !.todo = Tail(x.todo), !.key = <<x.key[1], Head(x.todo)>>, !.pc = pc]
  <2>1. Tail(x.todo) \in Seq(Docs) /\ <<x.key[1], Head(x.todo)>> \in WarmKeys
    BY <1>2, <1>4 DEF WarmKeys
  <2>2. <<x.key[1], Head(x.todo)>>[1] \in Users
    BY <1>2
  <2>3. s.pc = pc /\ s.writes = x.writes /\ SyncFit(s, row)
    BY <1>2, <2>1, <2>2 DEF SyncFit, WritesRows, SyncPc
  <2> HIDE DEF s
  <2> QED
    BY <1>1, <1>4, <2>3, MoveStep DEF Fit, s
<1> QED
  BY <1>3, <1>4 DEF MagSyncLookup, Set, Goto

(* promote: the row, while nobody holds it. *)
LEMMA PromoteSaveStep ==
  ASSUME WarmInv, NEW c \in Evaluators, PromoteSave(c)
  PROVE  WarmInv'
<1> DEFINE x == co[c]
           w == [k \in {x.key} |-> [v |-> x.n, valid |-> TRUE]]
           s == [x EXCEPT !.pc = "upsert", !.writes = w]
<1>1. /\ c \in Coroutines /\ c # "sync" /\ x.pc = "save" /\ co' = [co EXCEPT ![c] = s]
      /\ \A e \in Coroutines : x.key \notin DOMAIN co[e].writes
      /\ UNCHANGED <<suite, changes, rag, row, index, torn>>
  BY TieringAssumption DEF PromoteSave, Set, Holder, KeepWarm, Coroutines
<1>2. /\ x \in [pc : EvaluatorPc, key : WarmKeys, n : {x.n}, writes : {x.writes}]
      /\ DOMAIN x.writes = {} /\ x.n \in Nat /\ x.key \in WarmKeys
  BY <1>1, WrittenRows DEF Fit, EvaluatorFit, Idle
<1>3. DOMAIN w = {x.key} /\ w[x.key].v = x.n /\ w[x.key].valid /\ w[x.key] \in Row
  BY <1>2 DEF Row
<1> HIDE DEF w
<1>4. s.pc = "upsert" /\ s.writes = w /\ s.key = x.key /\ EvaluatorFit(s, row)
  BY <1>2, <1>3 DEF EvaluatorFit, WritesRows, EvaluatorPc
<1> HIDE DEF s
<1>5. torn \subseteq torn' /\ index' \in [WarmKeys -> Nat \cup {None}]
  BY <1>1 DEF WarmInv, WarmTypes
<1>6. \A k \in DOMAIN s.writes, e \in Coroutines : e # c => k \notin DOMAIN co[e].writes
  BY <1>1, <1>3, <1>4
<1>7. x.key \notin torn => index[x.key] = RowVersion(row, x.key)
  BY <1>1, <1>2 DEF WarmInv, PointsFit
<1>8. \A k \in WarmKeys : k \notin torn' =>
         IF k \in DOMAIN s.writes
         THEN index'[k] = IF s.pc = "upsert" THEN RowVersion(row, k) ELSE s.writes[k].v
         ELSE index'[k] = IF k \in DOMAIN co[c].writes THEN RowVersion(row, k) ELSE index[k]
  BY <1>1, <1>2, <1>3, <1>4, <1>7
<1>9. Fit(c, s, row)
  BY <1>1, <1>4 DEF Fit
<1> QED
  BY <1>1, <1>5, <1>6, <1>8, <1>9, OwnStep

(* ... then its point. *)
LEMMA PromoteUpsertStep ==
  ASSUME WarmInv, NEW c \in Evaluators, PromoteUpsert(c)
  PROVE  WarmInv'
<1> DEFINE x == co[c]
           s == [x EXCEPT !.pc = "commit"]
<1>1. /\ c \in Coroutines /\ c # "sync" /\ x.pc = "upsert" /\ co' = [co EXCEPT ![c] = s]
      /\ UNCHANGED <<suite, changes, rag, row, torn>>
      /\ index' = [index EXCEPT ![x.key] = x.n]
  BY TieringAssumption DEF PromoteUpsert, Set, Goto, KeepWarm, Coroutines
<1>2. /\ x \in [pc : EvaluatorPc, key : WarmKeys, n : {x.n}, writes : {x.writes}]
      /\ DOMAIN x.writes = {x.key} /\ x.n \in Nat /\ x.key \in WarmKeys
      /\ WritesRows(x) /\ x.writes[x.key].v = x.n /\ x.writes[x.key].valid
  BY <1>1, WrittenRows DEF Fit, EvaluatorFit, Idle
<1>3. s.pc = "commit" /\ s.writes = x.writes /\ s.key = x.key /\ EvaluatorFit(s, row)
  BY <1>2 DEF EvaluatorFit, WritesRows, EvaluatorPc
<1> HIDE DEF s
<1>4. /\ torn \subseteq torn' /\ index' \in [WarmKeys -> Nat \cup {None}]
      /\ index'[x.key] = x.n /\ \A k \in WarmKeys : k # x.key => index'[k] = index[k]
  BY <1>1, <1>2 DEF WarmInv, WarmTypes
<1>5. \A k \in DOMAIN s.writes, e \in Coroutines : e # c => k \notin DOMAIN co[e].writes
  BY <1>1, <1>2, <1>3 DEF WarmInv, RowsLocked
<1>6. Fit(c, s, row)
  BY <1>1, <1>3 DEF Fit
<1>7. \A k \in WarmKeys : k \notin torn' =>
         IF k \in DOMAIN s.writes
         THEN index'[k] = IF s.pc = "upsert" THEN RowVersion(row, k) ELSE s.writes[k].v
         ELSE index'[k] = IF k \in DOMAIN co[c].writes THEN RowVersion(row, k) ELSE index[k]
  BY <1>1, <1>2, <1>3, <1>4
<1> QED
  BY <1>1, <1>4, <1>5, <1>6, <1>7, OwnStep

(* A row that is invalidated keeps its version, so that its point stays right. *)
LEMMA InvalidateStep ==
  ASSUME WarmInv, NEW c \in Coroutines, Invalidate(c)
  PROVE  WarmInv'
<1> DEFINE x == co[c]
           key == x.key
           r == [Seen(c, key) EXCEPT !.valid = FALSE]
           w == [k \in DOMAIN x.writes \cup {key} |-> IF k = key THEN r ELSE x.writes[k]]
           s == [x EXCEPT !.pc = IF c = "sync" THEN "lookup" ELSE "commit", !.writes = w]
<1>1. /\ x.pc = "invalidate" /\ co' = [co EXCEPT ![c] = s]
      /\ \A e \in Coroutines : e # c => key \notin DOMAIN co[e].writes
      /\ UNCHANGED <<suite, changes, rag, row, index, torn>>
  BY DEF Invalidate, Set, Holder, KeepWarm
<1>2. /\ IF c = "sync"
         THEN /\ x \in [pc : SyncPc, key : {x.key}, todo : Seq(Docs), writes : {x.writes}]
              /\ x.key[1] \in Users
              /\ \A k \in DOMAIN x.writes : row[k] # None /\ x.writes[k].v = row[k].v
         ELSE /\ x \in [pc : EvaluatorPc, key : WarmKeys, n : {x.n}, writes : {x.writes}]
              /\ DOMAIN x.writes = {}
      /\ WritesRows(x) /\ key \in WarmKeys /\ row[key] # None
  BY <1>1, WrittenRows DEF Fit, SyncFit, EvaluatorFit, Idle
<1>3. r \in Row /\ r.v = row[key].v
  <2>1. row[key] \in Row
    BY <1>2 DEF WarmInv, WarmTypes
  <2>2. Seen(c, key) # None
    BY <1>2, NoneAssumption DEF Seen, WritesRows
  <2>3. Seen(c, key) \in Row /\ Seen(c, key).v = row[key].v
    BY <1>2, <2>2, SeenRow
  <2> QED
    BY <2>3 DEF Row
<1> HIDE DEF r
<1>4. /\ DOMAIN w = DOMAIN x.writes \cup {key} /\ w[key] = r
      /\ \A k \in DOMAIN x.writes : k # key => w[k] = x.writes[k]
  OBVIOUS
<1> HIDE DEF w
<1>5. /\ s.pc = IF c = "sync" THEN "lookup" ELSE "commit"
      /\ s.writes = w /\ Fit(c, s, row)
  <2>1. CASE c = "sync"
    BY <1>2, <1>3, <1>4, <2>1 DEF Fit, SyncFit, WritesRows, SyncPc
  <2>2. CASE c # "sync"
    BY <1>2, <1>3, <1>4, <2>2 DEF Fit, EvaluatorFit, WritesRows, EvaluatorPc
  <2> QED
    BY <2>1, <2>2
<1> HIDE DEF s
<1>6. torn \subseteq torn' /\ index' \in [WarmKeys -> Nat \cup {None}]
  BY <1>1 DEF WarmInv, WarmTypes
<1>7. \A k \in DOMAIN s.writes, e \in Coroutines : e # c => k \notin DOMAIN co[e].writes
  BY <1>1, <1>2, <1>4, <1>5 DEF WarmInv, RowsLocked, WritesRows
<1>8. key \notin torn => index[key] = row[key].v
  <2>1. CASE key \in DOMAIN x.writes
    BY <1>1, <1>2, <2>1 DEF WarmInv, PointsFit
  <2>2. CASE key \notin DOMAIN x.writes
    BY <1>1, <1>2, <2>2 DEF WarmInv, PointsFit, RowVersion
  <2> QED
    BY <2>1, <2>2
<1>9. \A k \in WarmKeys : k \notin torn' =>
         IF k \in DOMAIN s.writes
         THEN index'[k] = IF s.pc = "upsert" THEN RowVersion(row, k) ELSE s.writes[k].v
         ELSE index'[k] = IF k \in DOMAIN co[c].writes THEN RowVersion(row, k) ELSE index[k]
  <2>1. \A k \in DOMAIN x.writes : k \notin torn => index[k] = x.writes[k].v
    BY <1>1, <1>2 DEF WarmInv, PointsFit, WritesRows
  <2> QED
    BY <1>1, <1>2, <1>3, <1>4, <1>5, <1>8, <2>1
<1> QED
  BY <1>1, <1>5, <1>6, <1>7, <1>9, OwnStep

(* A commit makes the rows catch up with their points. *)
LEMMA CommitStep ==
  ASSUME WarmInv, NEW c \in Coroutines, Commit(c)
  PROVE  WarmInv'
<1> DEFINE x == co[c]
<1>1. /\ x.pc = "commit" /\ co' = [co EXCEPT ![c] = Idle]
      /\ row' = [k \in WarmKeys |-> Seen(c, k)]
      /\ UNCHANGED <<suite, changes, rag, index, torn>>
  BY DEF Commit, Set, KeepWarm
<1>2. /\ co'[c] = Idle /\ co' = [e \in Coroutines |-> co'[e]]
      /\ \A e \in Coroutines : e # c => co'[e] = co[e]
  BY <1>1 DEF WarmInv, WarmTypes
<1>3. DOMAIN Idle.writes = {} /\ Fit(c, Idle, row')
  BY DEF Idle, Fit, SyncFit, EvaluatorFit
<1>4. /\ \A k \in WarmKeys : row'[k] = IF k \in DOMAIN x.writes THEN x.writes[k] ELSE row[k]
      /\ \A k \in DOMAIN x.writes : x.writes[k] \in Row /\ x.writes[k] # None
      /\ DOMAIN x.writes \subseteq WarmKeys
  BY <1>1, WrittenRows, NoneAssumption DEF Seen, WritesRows
<1>5. WarmTypes'
  <2>1. row' \in [WarmKeys -> Row \cup {None}]
    BY <1>1, <1>4 DEF WarmInv, WarmTypes
  <2> QED
    BY <1>1, <1>2, <2>1 DEF WarmInv, WarmTypes
<1>6. RowsLocked'
  BY <1>2, <1>3 DEF WarmInv, RowsLocked
<1>7. PointsFit'
  <2> SUFFICES ASSUME NEW k \in WarmKeys, k \notin torn
               PROVE  /\ (\A e \in Coroutines : k \notin DOMAIN co'[e].writes) =>
                            index[k] = RowVersion(row', k)
                      /\ \A e \in Coroutines : k \in DOMAIN co'[e].writes =>
                            index[k] = IF co'[e].pc = "upsert" THEN RowVersion(row', k)
                                       ELSE co'[e].writes[k].v
    BY <1>1 DEF PointsFit
  <2>1. CASE k \in DOMAIN x.writes
    <3>1. index[k] = x.writes[k].v /\ row'[k] = x.writes[k]
      BY <1>1, <1>4, <2>1 DEF WarmInv, PointsFit
    <3>2. \A e \in Coroutines : k \notin DOMAIN co'[e].writes
      BY <1>2, <1>3, <2>1 DEF WarmInv, RowsLocked
    <3> QED
      BY <1>4, <2>1, <3>1, <3>2 DEF RowVersion
  <2>2. CASE k \notin DOMAIN x.writes
    <3>1. RowVersion(row', k) = RowVersion(row, k)
      BY <1>4, <2>2 DEF RowVersion
    <3> QED
      BY <1>2, <1>3, <2>2, <3>1 DEF WarmInv, PointsFit
  <2> QED
    BY <2>1, <2>2
<1>8. ASSUME NEW e \in Coroutines, e # c
      PROVE  Fit(e, co[e], row')
  <2>1. \A k \in DOMAIN co[e].writes : k \in WarmKeys /\ k \notin DOMAIN x.writes
    BY <1>8, WrittenRows DEF WarmInv, RowsLocked, WritesRows
  <2>2. \A k \in WarmKeys : row[k] # None => row'[k] # None
    BY <1>4
  <2>3. CASE e = "sync"
    <3>1. SyncFit(co[e], row)
      BY <2>3, WrittenRows DEF Fit
    <3>2. SyncFit(co[e], row')
      BY <1>4, <2>1, <2>2, <3>1 DEF SyncFit
    <3> QED
      BY <2>3, <3>2 DEF Fit
  <2>4. CASE e # "sync"
    <3>1. EvaluatorFit(co[e], row)
      BY <2>4, WrittenRows DEF Fit
    <3>2. EvaluatorFit(co[e], row')
      BY <1>4, <2>1, <2>2, <3>1 DEF EvaluatorFit
    <3> QED
      BY <2>4, <3>2 DEF Fit
  <2> QED
    BY <2>3, <2>4
<1>9. \A e \in Coroutines : Fit(e, co'[e], row')
  BY <1>2, <1>3, <1>8
<1> QED
  BY <1>5, <1>6, <1>7, <1>9 DEF WarmInv

(* A rollback leaves the point of the row, unless that of a promotion was up. *)
LEMMA FailStep ==
  ASSUME WarmInv, NEW c \in Coroutines, Fail(c)
  PROVE  WarmInv'
<1> DEFINE x == co[c]
<1>1. /\ co' = [co EXCEPT ![c] = Idle] /\ UNCHANGED <<suite, changes, rag, row, index>>
      /\ torn \subseteq torn'
      /\ \A k \in DOMAIN x.writes : x.pc = "commit" /\ x.writes[k].valid => k \in torn'
  BY DEF Fail, Set
<1>2. DOMAIN Idle.writes = {} /\ Fit(c, Idle, row)
  BY DEF Idle, Fit, SyncFit, EvaluatorFit
<1>3. ASSUME NEW k \in WarmKeys, k \notin torn', k \in DOMAIN x.writes
      PROVE  index[k] = RowVersion(row, k)
  <2>1. index[k] = IF x.pc = "upsert" THEN RowVersion(row, k) ELSE x.writes[k].v
    BY <1>1, <1>3 DEF WarmInv, PointsFit
  <2>2. CASE c = "sync"
    BY <1>2, <1>3, <2>1, <2>2, WrittenRows DEF Fit, SyncFit, RowVersion
  <2>3. CASE c # "sync" /\ x.pc # "upsert"
    <3>1. x.pc = "commit" /\ (x.writes[k].valid \/ (row[k] # None /\ x.writes[k].v = row[k].v))
      BY <1>2, <1>3, <2>3, WrittenRows DEF Fit, EvaluatorFit, EvaluatorPc
    <3> QED
      BY <1>1, <1>3, <2>1, <2>3, <3>1 DEF RowVersion
  <2> QED
    BY <2>1, <2>2, <2>3
<1>4. index' \in [WarmKeys -> Nat \cup {None}]
  BY <1>1 DEF WarmInv, WarmTypes
<1> QED
  BY <1>1, <1>2, <1>3, <1>4, OwnStep

(* A step that leaves the warm store alone. *)
LEMMA WarmQuiet ==
  ASSUME WarmInv, UNCHANGED <<suite, row, index, co, torn>>,
         changes' \in Nat, rag' \in [Docs -> Nat]
  PROVE  WarmInv'
  BY DEF WarmInv, WarmTypes, RowsLocked, PointsFit

(* Every step keeps WarmInv. *)
LEMMA WarmStep ==
  ASSUME WarmInv, [Next]_vars
  PROVE  WarmInv'
<1>0. /\ suite.docs \subseteq Docs /\ suite.users \subseteq Users
      /\ suite.evaluators \subseteq Evaluators
      /\ changes \in Nat /\ rag \in [Docs -> Nat] /\ Evaluators \subseteq Coroutines
      /\ "sync" \in Coroutines
  BY SuitesAssumption DEF WarmInv, WarmTypes, Coroutines
<1>1. CASE UNCHANGED <<suite, changes, rag, row, index, co, torn>>
  BY <1>0, <1>1, WarmQuiet
<1>2. ASSUME NEW d \in Docs, RagChange(d)
      PROVE  WarmInv'
  BY <1>0, <1>2, WarmQuiet DEF RagChange, warmVars
<1>3. Next =>
        \/ UNCHANGED <<suite, changes, rag, row, index, co, torn>>
        \/ \E d \in Docs : \/ RagChange(d)
                           \/ \E u \in Users, c \in Evaluators : MagEvaluate(c, u, d)
        \/ \E u \in Users : MagSyncStart(u)
        \/ MagSyncLookup
        \/ \E c \in Evaluators : CheckWarm(c) \/ PromoteSave(c) \/ PromoteUpsert(c)
        \/ \E c \in Coroutines : DemoteLookup(c) \/ Invalidate(c) \/ Commit(c) \/ Fail(c)
  BY <1>0 DEF Next, EvaluatorStep, SyncStep, RecordAccess, Evaluate, CagMagEvaluate, HotEvaluate,
              WarmCache, SyncRun, CagMagSyncRun, Tick, warmVars
<1>4. UNCHANGED vars => UNCHANGED <<suite, changes, rag, row, index, co, torn>>
  BY DEF vars
<1> QED
  BY <1>1, <1>2, <1>3, <1>4, MagEvaluateStep, MagSyncStartStep, MagSyncLookupStep, CheckWarmStep,
     PromoteSaveStep, PromoteUpsertStep, DemoteLookupStep, InvalidateStep, CommitStep, FailStep

(* CopiesFaithful for any number of users, documents, evaluations, sync      *)
(* cycles and faults: whatever evaluations overlap, what a user's memory put *)
(* into the shared cache is under that user's keys, and the point of a warm  *)
(* document is that of its row unless a promotion of it was rolled back.     *)
THEOREM CopiesStayFaithful == Spec => []CopiesFaithful
<1> DEFINE Inv == HotInv /\ WarmInv
<1>1. Init => Inv
  <2> SUFFICES ASSUME Init PROVE Inv
    OBVIOUS
  <2>1. HotInv
    BY DEF Init, HotInv, HotIsOwn, CacheKeys
  <2>2. \A c \in Coroutines : co[c] = Idle /\ DOMAIN co[c].writes = {}
    BY DEF Init, Idle
  <2>3. WarmTypes
    BY DEF Init, WarmTypes
  <2>4. RowsLocked
    BY <2>2 DEF RowsLocked
  <2>5. PointsFit
    BY <2>2 DEF Init, PointsFit, RowVersion
  <2>6. \A c \in Coroutines : Fit(c, co[c], row)
    BY <2>2 DEF Fit, SyncFit, EvaluatorFit
  <2> QED
    BY <2>1, <2>3, <2>4, <2>5, <2>6 DEF WarmInv
<1>2. Inv /\ [Next]_vars => Inv'
  BY HotStep, WarmStep DEF WarmInv, WarmTypes
<1>3. Inv => CopiesFaithful
  BY DEF HotInv, WarmInv, PointsFit, RowVersion, CopiesFaithful, IndexFollowsRow, Holder
<1> QED
  BY <1>1, <1>2, <1>3, PTL DEF Spec

-----------------------------------------------------------------------------
(* The trackers. *)

(* What was dropped is past the retention, and only the suite's documents    *)
(* were accessed, so that those with a count can be put into an order.       *)
CountsInv ==
    /\ suite \in Suites /\ clock \in Nat
    /\ events = [k \in TrackerKeys |-> events[k]] /\ log = [k \in TrackerKeys |-> log[k]]
    /\ \A k \in TrackerKeys :
         /\ IsFiniteSet(log[k]) /\ events[k] \subseteq log[k]
         /\ \A a \in log[k] : a.at \in Nat /\ a.at <= clock
         /\ \A a \in log[k] \ events[k] : a.at + Retention < clock
         /\ log[k] # {} => k[2] \in suite.docs

(* Pruning drops only what is past the retention. *)
LEMMA PruneStep ==
  ASSUME CountsInv, NEW keys, Prune(keys), UNCHANGED <<suite, clock, log>>
  PROVE  CountsInv'
<1>1. Retention \in Nat
  BY TieringAssumption
<1>2. events' = [k \in TrackerKeys |-> events'[k]]
  BY DEF Prune
<1>3. ASSUME NEW k \in TrackerKeys
      PROVE  /\ events'[k] \subseteq log[k]
             /\ \A a \in log[k] \ events'[k] : a.at + Retention < clock
  <2>1. events'[k] \in {events[k], _prune(events[k], clock)}
    BY DEF Prune
  <2> QED
    BY <1>1, <2>1 DEF _prune, CountsInv
<1> QED
  BY <1>2, <1>3 DEF CountsInv

(* An access is recorded at the present time. *)
LEMMA RecordAccessStep ==
  ASSUME CountsInv, NEW key \in TrackerKeys, key[2] \in suite.docs, RecordAccess(key)
  PROVE  CountsInv'
<1> DEFINE access == [at |-> clock, nth |-> Cardinality(log[key])]
<1>0. Retention \in Nat /\ clock \in Nat
  BY TieringAssumption DEF CountsInv
<1>1. /\ suite' = suite /\ clock' = clock
      /\ events' = [events EXCEPT ![key] = _prune(@ \cup {access}, clock)]
      /\ log' = [log EXCEPT ![key] = @ \cup {access}]
  BY DEF RecordAccess
<1>2. access.at = clock
  OBVIOUS
<1> HIDE DEF access
<1>3. events' = [k \in TrackerKeys |-> events'[k]] /\ log' = [k \in TrackerKeys |-> log'[k]]
  BY <1>1 DEF CountsInv
<1>4. ASSUME NEW k \in TrackerKeys
      PROVE  /\ IsFiniteSet(log'[k]) /\ events'[k] \subseteq log'[k]
             /\ \A a \in log'[k] : a.at \in Nat /\ a.at <= clock
             /\ \A a \in log'[k] \ events'[k] : a.at + Retention < clock
             /\ log'[k] # {} => k[2] \in suite.docs
  <2>1. CASE k # key
    BY <1>1, <2>1 DEF CountsInv
  <2>2. CASE k = key
    <3>1. log'[k] = log[k] \cup {access} /\ events'[k] = _prune(events[k] \cup {access}, clock)
      BY <1>1, <2>2 DEF CountsInv
    <3>2. IsFiniteSet(log'[k])
      BY <3>1, FS_AddElement DEF CountsInv
    <3> QED
      BY <1>0, <1>2, <2>2, <3>1, <3>2 DEF CountsInv, _prune
  <2> QED
    BY <2>1, <2>2
<1> QED
  BY <1>1, <1>3, <1>4 DEF CountsInv

(* Time passing only takes accesses further past the retention. *)
LEMMA TickStep ==
  ASSUME CountsInv, Tick
  PROVE  CountsInv'
<1>1. Retention \in Nat /\ clock \in Nat
  BY TieringAssumption DEF CountsInv
<1>2. suite' = suite /\ clock' = clock + 1 /\ events' = events /\ log' = log
  BY DEF Tick
<1>3. ASSUME NEW k \in TrackerKeys
      PROVE  /\ \A a \in log[k] : a.at \in Nat /\ a.at <= clock + 1
             /\ \A a \in log[k] \ events[k] : a.at + Retention < clock + 1
  BY <1>1 DEF CountsInv
<1> QED
  BY <1>1, <1>2, <1>3 DEF CountsInv

(* Every step keeps CountsInv. *)
LEMMA CountsStep ==
  ASSUME CountsInv, [Next]_vars
  PROVE  CountsInv'
<1>0. suite.docs \subseteq Docs /\ suite.users \subseteq Users
  BY SuitesAssumption DEF CountsInv
<1>1. CASE UNCHANGED <<suite, clock, events, log>>
  BY <1>1 DEF CountsInv
<1>2. ASSUME NEW k \in (Users \cup {None}) \X suite.docs, RecordAccess(k)
      PROVE  CountsInv'
  <2>1. k \in TrackerKeys /\ k[2] \in suite.docs
    BY <1>0 DEF TrackerKeys
  <2> QED
    BY <1>2, <2>1, RecordAccessStep
<1>3. CASE (\E keys : Prune(keys)) /\ UNCHANGED <<suite, clock, log>>
  BY <1>3, PruneStep
<1>4. Next =>
        \/ UNCHANGED <<suite, clock, events, log>>
        \/ \E k \in (Users \cup {None}) \X suite.docs : RecordAccess(k)
        \/ (\E keys : Prune(keys)) /\ UNCHANGED <<suite, clock, log>>
        \/ Tick
  <2>1. ASSUME NEW d \in suite.docs, \/ RecordAccess(<<None, d>>)
                                     \/ \E u \in suite.users : RecordAccess(<<u, d>>)
        PROVE  \E k \in (Users \cup {None}) \X suite.docs : RecordAccess(k)
    BY <1>0, <2>1
  <2>2. ASSUME NEW tracked, NEW key, NEW content, HotEvaluate(tracked, key, content)
        PROVE  (\E keys : Prune(keys)) /\ UNCHANGED <<suite, clock, log>>
    BY <2>2 DEF HotEvaluate
  <2>3. ASSUME NEW d, \/ Evaluate(d)
                      \/ \E u : CagMagEvaluate(u, d)
                      \/ \E u, c : MagEvaluate(c, u, d)
        PROVE  (\E keys : Prune(keys)) /\ UNCHANGED <<suite, clock, log>>
    BY <2>2, <2>3 DEF Evaluate, CagMagEvaluate, MagEvaluate, KeepWarm
  <2>4. WarmCache(TopN) => (\E keys : Prune(keys)) /\ UNCHANGED <<suite, clock, log>>
    BY DEF WarmCache
  <2>5. ASSUME \/ \E d : RagChange(d)
               \/ SyncRun \/ SyncStep
               \/ \E u : CagMagSyncRun(u) \/ MagSyncStart(u)
               \/ \E c : EvaluatorStep(c) \/ Fail(c)
        PROVE  UNCHANGED <<suite, clock, events, log>>
    BY <2>5 DEF RagChange, SyncRun, SyncStep, CagMagSyncRun, MagSyncStart, EvaluatorStep, Fail, MagSyncLookup,
                DemoteLookup, Invalidate, Commit, CheckWarm, PromoteSave, PromoteUpsert, KeepWarm
  <2> QED
    BY <2>1, <2>3, <2>4, <2>5 DEF Next
<1>5. UNCHANGED vars => UNCHANGED <<suite, clock, events, log>>
  BY DEF vars
<1> QED
  BY <1>1, <1>2, <1>3, <1>4, <1>5, TickStep

(* Nothing past the retention is within a window no longer than it. *)
LEMMA CountsFromInv ==
  ASSUME CountsInv
  PROVE  CountsExact
<1> SUFFICES ASSUME NEW k \in TrackerKeys, NEW w \in 0..Retention
             PROVE  Within(events[k], w, clock) = Within(log[k], w, clock)
  BY DEF CountsExact
<1>1. Retention \in Nat /\ clock \in Nat
  BY TieringAssumption DEF CountsInv
<1>2. ASSUME NEW a \in log[k], a.at + w >= clock
      PROVE  a \in events[k]
  <2>1. a.at \in Nat
    BY DEF CountsInv
  <2>2. ~(a.at + Retention < clock)
    BY <1>1, <1>2, <2>1
  <2> QED
    BY <2>2 DEF CountsInv
<1>3. {a \in events[k] : a.at + w >= clock /\ a.at <= clock}
        = {a \in log[k] : a.at + w >= clock /\ a.at <= clock}
  BY <1>2 DEF CountsInv
<1> QED
  BY <1>3 DEF Within

(* A count is a number, and zero of a document nobody accesses. *)
LEMMA CountType ==
  ASSUME CountsInv, NEW d \in Docs
  PROVE  count(<<None, d>>) \in Nat /\ (count(<<None, d>>) > 0 => d \in suite.docs)
<1> DEFINE key == <<None, d>>
           S == {a \in _prune(events[key], clock) : a.at + WindowLength >= clock /\ a.at <= clock}
<1>1. key \in TrackerKeys /\ key[2] = d
  BY DEF TrackerKeys
<1>2. S \subseteq log[key] /\ IsFiniteSet(log[key])
  BY <1>1 DEF CountsInv, _prune
<1>3. count(key) = Cardinality(S)
  BY DEF count, Within
<1> HIDE DEF S
<1>4. IsFiniteSet(S) /\ Cardinality(S) \in Nat /\ (Cardinality(S) > 0 => S # {})
  BY <1>2, FS_Subset, FS_CardinalityType, FS_EmptySet
<1>5. S # {} => d \in suite.docs
  BY <1>1, <1>2 DEF CountsInv
<1> QED
  BY <1>3, <1>4, <1>5

(* A sequence of a finite set has every element at some place. *)
LEMMA SequenceTakesAll ==
  ASSUME NEW S, IsFiniteSet(S), NEW t \in SetToSeqs(S), NEW d \in S
  PROVE  /\ t \in Seq(S) /\ Len(t) = Cardinality(S)
         /\ \E j \in 1..Cardinality(S) : t[j] = d
<1> DEFINE n == Cardinality(S)
<1>1. n \in Nat
  BY FS_CardinalityType
<1>2. t \in [1..n -> S] /\ \A i, j \in 1..n : i # j => t[i] # t[j]
  BY DEF SetToSeqs
<1>3. t \in Seq(S) /\ Len(t) = n
  BY <1>1, <1>2
<1>4. t \in Injection(1..n, S)
  BY <1>2 DEF Injection, IsInjective
<1>5. Cardinality(1..n) = n
  BY <1>1, FS_Interval
<1>6. t \in Surjection(1..n, S)
  BY <1>4, <1>5, FS_Injection
<1> QED
  BY <1>3, <1>6 DEF Surjection

(* What most_accessed returns. *)
LEMMA MostAccessed ==
  ASSUME CountsInv, NEW warmed \in most_accessed(TopN), NEW i \in 1..Len(warmed)
  PROVE  /\ count(<<None, warmed[i]>>) > 0
         /\ \A d \in Docs : count(<<None, d>>) > count(<<None, warmed[i]>>)
                              => d \in {warmed[j] : j \in 1..i}
<1> DEFINE counted == {d \in Docs : count(<<None, d>>) > 0}
           m(t) == IF TopN < Len(t) THEN TopN ELSE Len(t)
<1>1. PICK t \in SetToSeqs(counted) :
        /\ \A k, j \in 1..Len(t) : Ranked(t[k], t[j]) => k < j
        /\ warmed = SubSeq(t, 1, m(t))
  BY DEF most_accessed
<1>2. IsFiniteSet(counted)
  <2>1. counted \subseteq suite.docs
    BY CountType
  <2>2. IsFiniteSet(suite.docs)
    BY SuitesAssumption DEF CountsInv
  <2> QED
    BY <2>1, <2>2, FS_Subset
<1>3. \A d \in counted : d \in Docs /\ count(<<None, d>>) > 0 /\ count(<<None, d>>) \in Nat
  BY CountType
<1>4. ASSUME NEW d \in Docs, NEW e \in counted, count(<<None, d>>) > count(<<None, e>>)
      PROVE  d \in counted
  BY <1>3, <1>4, CountType
<1>5. TopN \in Nat
  BY TieringAssumption
<1> HIDE DEF counted
<1>6. Cardinality(counted) \in Nat
  BY <1>2, FS_CardinalityType
<1>7. t \in [1..Cardinality(counted) -> counted]
  BY <1>1 DEF SetToSeqs
<1>8. t \in Seq(counted) /\ Len(t) = Cardinality(counted)
  BY <1>6, <1>7
<1>9. m(t) \in 0..Len(t)
  BY <1>5, <1>6, <1>8
<1>10. Len(warmed) = m(t) /\ \A j \in 1..m(t) : warmed[j] = t[j]
  BY <1>1, <1>8, <1>9
<1> HIDE DEF m
<1>11. i \in 1..Len(t) /\ \A j \in 1..i : j \in 1..Len(t) /\ warmed[j] = t[j]
  BY <1>6, <1>8, <1>9, <1>10
<1>12. t[i] \in counted /\ warmed[i] = t[i]
  BY <1>7, <1>8, <1>9, <1>10, <1>11
<1>13. ASSUME NEW d \in Docs, count(<<None, d>>) > count(<<None, t[i]>>)
       PROVE  d \in {warmed[j] : j \in 1..i}
  <2>1. d \in counted
    BY <1>4, <1>12, <1>13
  <2>2. PICK j \in 1..Len(t) : t[j] = d
    BY <1>2, <1>1, <1>8, <2>1, SequenceTakesAll
  <2>3. j < i
    BY <1>1, <1>11, <1>13, <2>2 DEF Ranked
  <2>4. j \in 1..i
    BY <1>6, <1>8, <1>9, <1>10, <2>2, <2>3
  <2> QED
    BY <1>11, <2>2, <2>4
<1> QED
  BY <1>3, <1>12, <1>13

(* Only a warming changes the last result of one. *)
LEMMA TopStep ==
  ASSUME Next, top' # top
  PROVE  top' \in most_accessed(TopN)
<1>1. WarmCache(TopN)
  <2>1. \A d : ~RagChange(d)
    BY DEF RagChange
  <2>2. \A k : ~RecordAccess(k)
    BY DEF RecordAccess
  <2>3. \A tracked, key, content : ~HotEvaluate(tracked, key, content)
    BY DEF HotEvaluate
  <2>4. ~KeepWarm /\ ~SyncRun /\ ~Tick /\ \A u : ~CagMagSyncRun(u)
    BY DEF KeepWarm, SyncRun, Tick, CagMagSyncRun
  <2>5. \A c : ~Fail(c) /\ ~EvaluatorStep(c)
    BY <2>4 DEF Fail, EvaluatorStep, CheckWarm, PromoteSave, PromoteUpsert, DemoteLookup, Invalidate, Commit
  <2>6. ~SyncStep /\ \A u : ~MagSyncStart(u)
    BY <2>4 DEF SyncStep, MagSyncLookup, DemoteLookup, Invalidate, Commit, MagSyncStart
  <2>7. \A c, u, d : ~MagEvaluate(c, u, d) /\ ~Evaluate(d) /\ ~CagMagEvaluate(u, d)
    BY <2>3, <2>4 DEF MagEvaluate, Evaluate, CagMagEvaluate
  <2> QED
    BY <2>1, <2>2, <2>4, <2>5, <2>6, <2>7 DEF Next
<1> QED
  BY <1>1 DEF WarmCache

(* CountsDecide for any number of users and documents, any thresholds and    *)
(* any retention: whatever the trackers have forgotten, every window up to   *)
(* the retention counts as if they had kept all, and a warming takes the     *)
(* documents accessed most often in its window and none never accessed.      *)
THEOREM CountsStayDecisive == Spec => CountsDecide
<1> DEFINE Warmed ==
      top' # top =>
        \A i \in 1..Len(top') :
          /\ count(<<None, top'[i]>>) > 0
          /\ \A d \in Docs : count(<<None, d>>) > count(<<None, top'[i]>>)
                               => d \in {top'[j] : j \in 1..i}
<1>1. Init => CountsInv
  BY FS_EmptySet DEF Init, CountsInv
<1>2. CountsInv /\ [Next]_vars => CountsInv'
  BY CountsStep
<1>3. CountsInv => CountsExact
  BY CountsFromInv
<1>4. CountsInv /\ [Next]_vars => [Warmed]_vars
  BY MostAccessed, TopStep
<1>5. TopIsTop <=> [][Warmed]_vars
  BY DEF TopIsTop
<1> HIDE DEF Warmed
<1> QED
  BY <1>1, <1>2, <1>3, <1>4, <1>5, PTL DEF Spec, CountsDecide
=============================================================================
