--------------------------- MODULE MemoryLifecycle ---------------------------
(***************************************************************************)
(* The MAG commands of one user: record, update, refine, invalidate,       *)
(* archive and evolve a semantic fact, capture an episode, consolidate     *)
(* episodes into facts, record a procedure.                                *)
(*                                                                         *)
(* A command runs in one Postgres transaction of its caller (the           *)
(* repositories only flush) and writes Qdrant and Neo4j on the way, which  *)
(* take part in no transaction.  One action is one awaited call.  A        *)
(* timestamp that is set is `Set`; embeddings, confidence and wording are  *)
(* left out; an answer of the language model is any value of its type.     *)
(***************************************************************************)
EXTENDS Naturals, Sequences, FiniteSets

CONSTANTS Keys, Values, None, Set,
          Commands,      \* running commands, each with a transaction
          Ops,           \* the commands the instance starts
          MaxStarted,    \* bound: commands started in all
          MaxFaults,     \* bound: calls that fail
          BatchSize      \* batch_size of a consolidation

Operations == {"record", "update", "refine", "invalidate", "archive", "evolve",
               "capture", "consolidate", "procedure", "procedures"}

Row == [value: Values, until: {None, Set}, archived: {None, Set}]

ASSUME MemoryAssumption ==
    /\ MaxStarted \in Nat /\ MaxFaults \in Nat /\ BatchSize \in Nat \ {0}
    /\ Ops \subseteq Operations
    /\ None \notin Values \cup Keys \cup Row \cup Nat \cup Operations /\ Set # None
    /\ "episodes" \notin Keys /\ "procedure" \notin Keys

VARIABLES
    facts,      \* semantic_memory, committed
    history,    \* semantic_memory_history, committed: <<key, value>>
    episodes,   \* episodic_memory, committed: id -> consolidated?
    procedures, \* procedural_memory, committed: the workflow of one pattern
    points,     \* Qdrant, collection semantic_memory
    epPoints,   \* Qdrant, collection episodic_memory
    nodes,      \* Neo4j, Fact nodes
    epNodes,    \* Neo4j, Episode nodes
    edges,      \* Neo4j, relationships
    cmd,        \* program counter and locals of each command
    pend,       \* what its transaction has flushed and not committed
    locks,      \* row locks: <<command, row, mode>>
    clock,      \* the next episode timestamp, which is its id here
    started, faults,
    spoiled     \* history: <<store, key>> where a failed call may have left a
                \* copy that differs from the row

stores == <<facts, history, episodes, procedures, points, epPoints, nodes, epNodes, edges>>
vars == <<stores, cmd, pend, locks, clock, started, faults, spoiled>>

Rows == Keys \cup {"episodes", "procedure"}

NothingPending == [rows |-> [k \in Keys |-> None], hist |-> {}, eps |-> {},
                   done |-> {}, proc |-> None]

Idle == [pc |-> "idle", op |-> None, key |-> None, value |-> None, old |-> None,
         todo |-> {}, batch |-> {}, prev |-> None, ep |-> None, raced |-> {}]

Init ==
    /\ facts = [k \in Keys |-> None] /\ history = {}
    /\ episodes = [e \in {} |-> FALSE] /\ procedures = None
    /\ points = facts /\ epPoints = {} /\ nodes = facts /\ epNodes = {} /\ edges = {}
    /\ cmd = [c \in Commands |-> Idle]
    /\ pend = [c \in Commands |-> NothingPending]
    /\ locks = {} /\ clock = 1 /\ started = 0 /\ faults = 0 /\ spoiled = {}

-----------------------------------------------------------------------------
(* Postgres, as the repositories use it: read committed, row locks to the  *)
(* end of the transaction, a deadlock ended by aborting one transaction.   *)

Conflicts(m, n) == \/ "update" \in {m, n}
                   \/ m = "nokey" /\ n = "nokey"

(* The row lock a command needs for its next statement.  The history row   *)
(* references the fact row and so takes its key share lock; the upsert     *)
(* assigns the primary key and so takes the full lock.                     *)
Wants(c) ==
    CASE cmd[c].pc = "history" -> {<<cmd[c].key, "share">>}
      [] cmd[c].pc = "save"    -> {<<cmd[c].key, "update">>}
      [] cmd[c].pc = "flag"    -> {<<cmd[c].key, "nokey">>}
      [] cmd[c].pc = "mark"    -> {<<"episodes", "nokey">>}
      [] cmd[c].pc = "procedure" -> {<<"procedure", "update">>}
      [] OTHER -> {}

WaitsFor(c, d) ==
    /\ c # d
    /\ \E w \in Wants(c), l \in locks :
          l[1] = d /\ l[2] = w[1] /\ Conflicts(l[3], w[2])

TakeLock(c) ==
    /\ \A d \in Commands : ~WaitsFor(c, d)
    /\ locks' = locks \cup {<<c, w[1], w[2]>> : w \in Wants(c)}

find_by_key(c, k) == IF pend[c].rows[k] # None THEN pend[c].rows[k] ELSE facts[k]

(* The awaited calls of each command, in order. *)
RecordSemanticFact == <<"save", "index", "graph", "commit">>
UpdateMemory == <<"find", "history", "save", "index", "graph", "commit">>
RefineMemory == <<"find", "history", "save", "index", "graph", "commit">>
InvalidateMemory == <<"find", "flag", "flagindex", "flaggraph", "commit">>
ArchiveMemory == <<"find", "flag", "flagindex", "flaggraph", "commit">>
EvolveMemory == <<"classify">>
CaptureEpisode == <<"recent", "score", "epsave", "epindex", "epgraph", "commit">>
ConsolidateEpisodes ==
    <<"fetch", "find", "save", "index", "graph", "link", "mark", "commit">>
RecordProcedure == <<"procedure", "commit">>
ConsolidateProcedures == <<"gather", "procedure", "commit">>

Program(op) ==
    CASE op = "record" -> RecordSemanticFact  [] op = "update" -> UpdateMemory
      [] op = "refine" -> RefineMemory        [] op = "invalidate" -> InvalidateMemory
      [] op = "archive" -> ArchiveMemory      [] op = "evolve" -> EvolveMemory
      [] op = "capture" -> CaptureEpisode     [] op = "consolidate" -> ConsolidateEpisodes
      [] op = "procedure" -> RecordProcedure  [] op = "procedures" -> ConsolidateProcedures

After(c) == LET p == Program(cmd[c].op)
            IN  p[1 + CHOOSE i \in DOMAIN p : p[i] = cmd[c].pc]

Advance(c) == cmd' = [cmd EXCEPT ![c].pc = After(c)]

(* Fault: the session is left open. *)
EndTransaction_KeepsLocks(c) ==
    /\ pend' = [pend EXCEPT ![c] = NothingPending]
    /\ UNCHANGED locks

EndTransaction(c) ==
    /\ pend' = [pend EXCEPT ![c] = NothingPending]
    /\ locks' = {l \in locks : l[1] # c}

Written(c) == {k \in Keys : pend[c].rows[k] # None}

Rollback(c) ==
    /\ EndTransaction(c) /\ cmd' = [cmd EXCEPT ![c] = Idle]
    /\ spoiled' = spoiled \cup {"index", "graph"} \X Written(c)
    /\ UNCHANGED <<stores, clock, started>>

(* The end of `async with session.begin()`.  `raced` is history: the facts  *)
(* another command has committed since a command read them.                *)
Commit(c) ==
    /\ cmd[c].pc = "commit"
    /\ facts' = [k \in Keys |-> find_by_key(c, k)]
    /\ history' = history \cup pend[c].hist
    /\ episodes' = [e \in DOMAIN episodes \cup pend[c].eps |->
                      \/ e \in pend[c].done
                      \/ e \in DOMAIN episodes /\ episodes[e]]
    /\ procedures' = IF pend[c].proc # None THEN pend[c].proc ELSE procedures
    /\ cmd' = [d \in Commands |->
                 IF d = c THEN Idle
                 ELSE [cmd[d] EXCEPT !.raced = IF cmd[d].pc = "idle" THEN {}
                                               ELSE @ \cup Written(c)]]
    /\ EndTransaction(c)
    /\ UNCHANGED <<points, epPoints, nodes, epNodes, edges, clock, started, faults, spoiled>>

(* An awaited call raises, and so does the command. *)
Raise(c) ==
    /\ cmd[c].pc # "idle" /\ faults < MaxFaults
    /\ faults' = faults + 1 /\ Rollback(c)

(* Postgres ends a deadlock by failing the statement of one party. *)
DeadlockAbort(c) ==
    /\ \E S \in SUBSET Commands :
          c \in S /\ \A d \in S : \E e \in S : WaitsFor(d, e)
    /\ Rollback(c) /\ UNCHANGED faults

-----------------------------------------------------------------------------
(* Semantic facts.                                                         *)

(* The fact key and the text a command is called with. *)
Inputs(op) ==
    (IF op \in {"consolidate", "capture", "procedure", "procedures"} THEN {None} ELSE Keys)
    \X (IF op \in {"record", "update", "evolve", "procedure"} THEN Values ELSE {None})

Start(c, op, k, v) ==
    /\ cmd[c].pc = "idle" /\ started < MaxStarted
    /\ started' = started + 1
    /\ cmd' = [cmd EXCEPT ![c] = [Idle EXCEPT !.pc = Head(Program(op)), !.op = op,
                                              !.key = k, !.value = v]]
    /\ UNCHANGED <<stores, pend, locks, clock, faults, spoiled>>

(* What ClassifyFactEvolution may come to; three unusable answers of the    *)
(* model count as no_conflict.                                              *)
Classifications == {"update", "refine", "invalidate", "no_conflict"}

(* The dispatch of EvolveMemory: each operation reads the fact again. *)
Dispatched(op) == IF op = "no_conflict" THEN "commit" ELSE Head(Program(op))

Classify(c) ==
    /\ cmd[c].pc = "classify"
    /\ IF find_by_key(c, cmd[c].key) = None
         THEN Rollback(c)
         ELSE /\ \E op \in Classifications :
                    cmd' = [cmd EXCEPT ![c].op = op, ![c].pc = Dispatched(op)]
              /\ UNCHANGED <<stores, pend, locks, clock, started, spoiled>>
    /\ UNCHANGED faults

(* find_by_key at the head of a command; only a consolidation goes on      *)
(* without a fact.                                                         *)
Find(c) ==
    /\ cmd[c].pc = "find"
    /\ LET row == find_by_key(c, cmd[c].key) IN
       IF row = None /\ cmd[c].op # "consolidate"
         THEN Rollback(c)
         ELSE /\ cmd' = [cmd EXCEPT ![c].old = row, ![c].pc = After(c),
                                 ![c].raced = @ \ {cmd[c].key}]
              /\ UNCHANGED <<stores, pend, locks, clock, started, spoiled>>
    /\ UNCHANGED faults

(* The texts RefineMemory._merge may come back with: the model's merge, or  *)
(* the concatenation when it gave no usable one in three attempts.          *)
Merges(c) == IF cmd[c].op = "refine" THEN Values ELSE {cmd[c].value}

SaveHistory(c) ==
    /\ cmd[c].pc = "history" /\ TakeLock(c)
    /\ pend' = [pend EXCEPT ![c].hist = @ \cup {<<cmd[c].key, cmd[c].old.value>>}]
    /\ \E v \in Merges(c) : cmd' = [cmd EXCEPT ![c].value = v, ![c].pc = After(c)]
    /\ UNCHANGED <<stores, clock, started, faults, spoiled>>

(* Fault: the status is not handed on, and takes its default. *)
Recorded_ResetStatus(c) == [value |-> cmd[c].value, until |-> None, archived |-> None]

(* The row RecordSemanticFact writes: the content is new, the status that   *)
(* of the fact its caller read, and none when there was no such read.       *)
Recorded(c) ==
    [value |-> cmd[c].value,
     until |-> IF cmd[c].old = None THEN None ELSE cmd[c].old.until,
     archived |-> IF cmd[c].old = None THEN None ELSE cmd[c].old.archived]

Save(c) ==
    /\ cmd[c].pc = "save" /\ TakeLock(c)
    /\ pend' = [pend EXCEPT ![c].rows[cmd[c].key] = Recorded(c)]
    /\ Advance(c)
    /\ UNCHANGED <<stores, clock, started, faults, spoiled>>

(* The whole point is written, and must be: an error ends the command.     *)
IndexUpsert(c) ==
    /\ cmd[c].pc = "index"
    /\ points' = [points EXCEPT ![cmd[c].key] = Recorded(c)]
    /\ spoiled' = spoiled \ {<<"index", cmd[c].key>>}
    /\ Advance(c)
    /\ UNCHANGED <<facts, history, episodes, procedures, epPoints, nodes, epNodes, edges,
                   pend, locks, clock, started, faults>>

GraphUpsert(c) ==
    /\ cmd[c].pc = "graph"
    /\ nodes' = [nodes EXCEPT ![cmd[c].key] = Recorded(c)]
    /\ spoiled' = spoiled \ {<<"graph", cmd[c].key>>}
    /\ Advance(c)
    /\ UNCHANGED <<facts, history, episodes, procedures, points, epPoints, epNodes, edges,
                   pend, locks, clock, started, faults>>

invalidate(row) == [row EXCEPT !.until = Set]
archive(row) == [row EXCEPT !.archived = Set]
Flagged(op, row) == IF op = "invalidate" THEN invalidate(row) ELSE archive(row)

(* UPDATE ... SET valid_until (or archived_at) of the row as it is now. *)
Flag(c) ==
    /\ cmd[c].pc = "flag" /\ TakeLock(c)
    /\ pend' = [pend EXCEPT ![c].rows[cmd[c].key] =
                  Flagged(cmd[c].op, find_by_key(c, cmd[c].key))]
    /\ Advance(c)
    /\ UNCHANGED <<stores, clock, started, faults, spoiled>>

(* Fault: the whole point is written, from the fact as it was read. *)
FlagIndex_WholeRow(c) ==
    /\ cmd[c].pc = "flagindex"
    /\ points' = [points EXCEPT ![cmd[c].key] = Flagged(cmd[c].op, cmd[c].old)]
    /\ Advance(c)
    /\ UNCHANGED <<facts, history, episodes, procedures, epPoints, nodes, epNodes, edges,
                   pend, locks, clock, started, faults, spoiled>>

(* set_valid_until and set_archived_at touch their own payload key; a       *)
(* missing point is an error, which best_effort_index_write swallows.       *)
FlagIndex(c) ==
    /\ cmd[c].pc = "flagindex"
    /\ LET k == cmd[c].key IN
       points' = IF points[k] = None THEN points
                 ELSE [points EXCEPT ![k] = Flagged(cmd[c].op, @)]
    /\ Advance(c)
    /\ UNCHANGED <<facts, history, episodes, procedures, epPoints, nodes, epNodes, edges,
                   pend, locks, clock, started, faults, spoiled>>

FlagGraph(c) ==
    /\ cmd[c].pc = "flaggraph"
    /\ LET k == cmd[c].key IN
       nodes' = IF nodes[k] = None THEN nodes
                ELSE [nodes EXCEPT ![k] = Flagged(cmd[c].op, @)]
    /\ Advance(c)
    /\ UNCHANGED <<facts, history, episodes, procedures, points, epPoints, epNodes, edges,
                   pend, locks, clock, started, faults, spoiled>>

(* A best-effort write that fails is logged and skipped. *)
SkipWrite(c) ==
    /\ cmd[c].pc \in {"graph", "flagindex", "flaggraph"} /\ faults < MaxFaults
    /\ Advance(c)
    /\ faults' = faults + 1
    /\ spoiled' = spoiled \cup
          {<<IF cmd[c].pc = "flagindex" THEN "index" ELSE "graph", cmd[c].key>>}
    /\ UNCHANGED <<stores, pend, locks, clock, started>>

-----------------------------------------------------------------------------
(* Episodes, consolidation, procedures.                                    *)

(* Fault: the last episode is looked up in the index. *)
Recent_FromIndex(c) ==
    /\ cmd[c].pc = "recent"
    /\ cmd' = [cmd EXCEPT ![c].pc = After(c),
                 ![c].prev = IF epPoints = {} THEN None
                             ELSE CHOOSE e \in epPoints : \A f \in epPoints : f <= e]
    /\ UNCHANGED <<stores, pend, locks, clock, started, faults, spoiled>>

(* The episode that TEMPORALLY_FOLLOWS will point at is fetched before the  *)
(* new one has a timestamp.                                                 *)
Recent(c) ==
    /\ cmd[c].pc = "recent"
    /\ cmd' = [cmd EXCEPT ![c].pc = After(c),
                 ![c].prev = IF DOMAIN episodes = {} THEN None
                             ELSE CHOOSE e \in DOMAIN episodes :
                                     \A f \in DOMAIN episodes : f <= e]
    /\ UNCHANGED <<stores, pend, locks, clock, started, faults, spoiled>>

(* The arguments of EpisodicMemory(...): the timestamp, then the salience,  *)
(* for which the language model is asked.                                   *)
Stamp(c) ==
    /\ cmd[c].pc = "score"
    /\ cmd' = [cmd EXCEPT ![c].pc = After(c), ![c].ep = clock]
    /\ clock' = clock + 1
    /\ UNCHANGED <<stores, pend, locks, started, faults, spoiled>>

SaveEpisode(c) ==
    /\ cmd[c].pc = "epsave"
    /\ pend' = [pend EXCEPT ![c].eps = {cmd[c].ep}]
    /\ Advance(c)
    /\ UNCHANGED <<stores, locks, clock, started, faults, spoiled>>

IndexEpisode(c) ==
    /\ cmd[c].pc = "epindex"
    /\ epPoints' = epPoints \cup {cmd[c].ep}
    /\ Advance(c)
    /\ UNCHANGED <<facts, history, episodes, procedures, points, nodes, epNodes, edges,
                   pend, locks, clock, started, faults, spoiled>>

(* Node, PARTICIPATED_IN, TEMPORALLY_FOLLOWS, MENTIONS: each write is best   *)
(* effort, and the links match nodes that must be there.                     *)
GraphEpisode(c) ==
    /\ cmd[c].pc = "epgraph"
    /\ \E ok \in IF faults < MaxFaults THEN BOOLEAN ELSE {TRUE} :
          /\ epNodes' = IF ok THEN epNodes \cup {cmd[c].ep} ELSE epNodes
          /\ faults' = IF ok THEN faults ELSE faults + 1
    /\ edges' = edges \cup {<<"participated">>}
                  \cup {<<"mentions", e>> : e \in epNodes' \cap {cmd[c].ep}}
                  \cup {<<"follows", e, p>> : e \in epNodes' \cap {cmd[c].ep},
                                              p \in epNodes' \cap {cmd[c].prev}}
    /\ Advance(c)
    /\ UNCHANGED <<facts, history, episodes, procedures, points, epPoints, nodes,
                   pend, locks, clock, started, spoiled>>

(* The oldest BatchSize episodes that are not consolidated.  Without one the *)
(* command is done; otherwise the model is asked for facts, and three        *)
(* unusable answers count as none.                                           *)
Unconsolidated == {e \in DOMAIN episodes : ~episodes[e]}

Oldest(S) == {e \in S : Cardinality({f \in S : f < e}) < BatchSize}

(* After one fact of a consolidation: the next one, in the order of the      *)
(* model's list (any), or the mark.                                          *)
NextFact(c, todo, batch) ==
    IF todo = {} THEN cmd' = [cmd EXCEPT ![c].pc = "mark", ![c].batch = batch,
                                         ![c].todo = {}, ![c].key = None]
    ELSE \E k \in todo, v \in Values :
            cmd' = [cmd EXCEPT ![c].pc = "find", ![c].batch = batch, ![c].key = k,
                               ![c].value = v, ![c].todo = todo \ {k}]

Fetch(c) ==
    /\ cmd[c].pc = "fetch"
    /\ LET batch == Oldest(Unconsolidated) IN
       IF batch = {} THEN cmd' = [cmd EXCEPT ![c].pc = "commit"]
       ELSE \E todo \in SUBSET Keys : NextFact(c, todo, batch)
    /\ UNCHANGED <<stores, pend, locks, clock, started, faults, spoiled>>

(* ABSTRACTS_TO from every episode of the batch to the fact. *)
Link(c) ==
    /\ cmd[c].pc = "link"
    /\ edges' = edges \cup {<<"abstracts", e, cmd[c].key>> :
                   e \in {x \in cmd[c].batch \cap epNodes : nodes[cmd[c].key] # None}}
    /\ NextFact(c, cmd[c].todo, cmd[c].batch)
    /\ UNCHANGED <<facts, history, episodes, procedures, points, epPoints, nodes, epNodes,
                   pend, locks, clock, started, faults, spoiled>>

(* mark_consolidated, whether or not the batch gave any fact. *)
Mark(c) ==
    /\ cmd[c].pc = "mark" /\ TakeLock(c)
    /\ pend' = [pend EXCEPT ![c].done = cmd[c].batch]
    /\ Advance(c)
    /\ UNCHANGED <<stores, clock, started, faults, spoiled>>

(* ConsolidateProcedures is handed the whole session, consolidated or not;   *)
(* without episodes, or when the model names no pattern, it writes nothing.  *)
(* Patterns are written one by one like the facts of a consolidation; here    *)
(* the model names one at most.                                              *)
Gather(c) ==
    /\ cmd[c].pc = "gather"
    /\ \/ cmd' = [cmd EXCEPT ![c].pc = "commit"]
       \/ /\ DOMAIN episodes # {}
          /\ \E w \in Values : cmd' = [cmd EXCEPT ![c].pc = After(c), ![c].value = w]
    /\ UNCHANGED <<stores, pend, locks, clock, started, faults, spoiled>>

SaveProcedure(c) ==
    /\ cmd[c].pc = "procedure" /\ TakeLock(c)
    /\ pend' = [pend EXCEPT ![c].proc = cmd[c].value]
    /\ Advance(c)
    /\ UNCHANGED <<stores, clock, started, faults, spoiled>>

-----------------------------------------------------------------------------
Step(c) ==
    \/ Classify(c) \/ Find(c) \/ SaveHistory(c) \/ Save(c) \/ IndexUpsert(c)
    \/ GraphUpsert(c) \/ Flag(c) \/ FlagIndex(c) \/ FlagGraph(c)
    \/ Recent(c) \/ Stamp(c) \/ SaveEpisode(c) \/ IndexEpisode(c) \/ GraphEpisode(c)
    \/ Fetch(c) \/ Link(c) \/ Mark(c) \/ Gather(c) \/ SaveProcedure(c) \/ Commit(c)

Next ==
    \E c \in Commands :
       \/ \E op \in Ops : \E i \in Inputs(op) : Start(c, op, i[1], i[2])
       \/ Step(c) \/ SkipWrite(c) \/ Raise(c) \/ DeadlockAbort(c)

Spec == Init /\ [][Next]_vars

(* A coroutine that can go on does, a lock wait ends when the lock is free,  *)
(* and Postgres looks for deadlocks.                                         *)
FairSpec == Spec /\ \A c \in Commands : WF_vars(Step(c)) /\ WF_vars(DeadlockAbort(c))

-----------------------------------------------------------------------------
(* Properties.                                                             *)

(* What a search finds: it leaves out archived and invalidated facts. *)
search_by_similarity(row) == row # None /\ row.until = None /\ row.archived = None
index_search(point) == point # None /\ point.archived = None /\ point.until = None

Writing(k) == \E l \in locks : l[2] = k /\ l[3] # "share"

(* The three copies of a fact agree, and hence what the searches of Postgres *)
(* and Qdrant find, whenever no transaction holds the fact: the row lock is  *)
(* taken before the index is written and released after, so that concurrent  *)
(* commands write all stores in one order.  A copy that a failed or rolled   *)
(* back call has spoiled is the exception, until the fact is recorded again. *)
StoresAgree ==
    \A k \in Keys : ~Writing(k) =>
       /\ <<"index", k>> \notin spoiled =>
             points[k] = facts[k] /\ (index_search(points[k]) <=> search_by_similarity(facts[k]))
       /\ <<"graph", k>> \notin spoiled => nodes[k] = facts[k]

(* TEMPORALLY_FOLLOWS leads from an episode to an older one of the session  *)
(* that was committed, whatever captures run at the same time or fail; and  *)
(* only committed episodes are consolidated.                                *)
FollowsOlderCommitted ==
    /\ \A l \in edges : l[1] = "follows" => l[2] > l[3] /\ l[3] \in DOMAIN episodes
    /\ \A c \in Commands : pend[c].done \subseteq DOMAIN episodes

ContentOps == {"update", "refine", "consolidate"}

(* A new content keeps the status, and an update or refinement the old value *)
(* in the history, unless another command has committed the fact since it    *)
(* was read.                                                                 *)
UncontendedWriteLosesNothing ==
    [][\A c \in Commands, k \in Keys :
          (/\ Commit(c) /\ cmd[c].op \in ContentOps
           /\ k \in Written(c) \ cmd[c].raced /\ facts[k] # None) =>
             /\ facts'[k].until = facts[k].until
             /\ facts'[k].archived = facts[k].archived
             /\ cmd[c].op # "consolidate" => <<k, facts[k].value>> \in history']_vars

(* "Content and status are independent; updating one must not silently clear *)
(* the other" (update_memory.py).                                            *)
StatusSurvivesContent ==
    [][\A c \in Commands, k \in Keys :
          (/\ Commit(c) /\ cmd[c].op \in ContentOps
           /\ k \in Written(c) /\ facts[k] # None) =>
             /\ facts[k].until # None => facts'[k].until # None
             /\ facts[k].archived # None => facts'[k].archived # None]_vars

(* Every command ends, the ones that wait for one another's locks included. *)
CommandsEnd == \A c \in Commands : cmd[c].pc # "idle" ~> cmd[c].pc = "idle"
=============================================================================
