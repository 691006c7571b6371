--------------------------- MODULE MemoryRetrieval ---------------------------
(***************************************************************************)
(* How MAG reads memories: the retrieval strategies and their fusion, the    *)
(* gating of what they found, spreading activation over the memory graph,    *)
(* and the readings of a chat model's replies, retried a few times.          *)
(*                                                                         *)
(* Scores are integers.  An age of one is a half-life, where that is         *)
(* positive; decay is in quarters.                                          *)
(***************************************************************************)
EXTENDS Ranking, TLC

CONSTANTS NaN,                                \* nan of the Python code
          MaxAttempts,                        \* _MAX_..._ATTEMPTS
          FetchMultiplier, MinFetchK,         \* of RecencyDecayFusionRetrieval
          MaxHops                             \* _MAX_HOPS

-----------------------------------------------------------------------------
(* Readings of a reply: the first of MaxAttempts that passes validation, as   *)
(* a whole, or none.                                                         *)

Readings(replies, valid(_)) == {k \in 1..Len(FirstN(replies, MaxAttempts)) : valid(replies[k])}

(* CausalRetrieval: a reply is None (no JSON) or a list of [episode,       *)
(* score] entries.                                                           *)
_validate_scores(reply, count) ==
    reply # None /\ \A i \in 1..Len(reply) : reply[i].episode \in 1..count /\ reply[i].score \in 0..10

(* Of two entries for one episode the later counts; an episode without one   *)
(* scores zero.                                                              *)
ScoreMap(reply, e) ==
    LET of == SelectSeq(reply, LAMBDA entry : entry.episode = e)
    IN IF of = <<>> THEN 0 ELSE of[Len(of)].score

(* The model is shown the session oldest first; if no reply can be read, the  *)
(* oldest come back with a score of zero.                                    *)
get_by_session(episodes) == SortedBy(episodes, LAMBDA e : 0 - e.at)
CausalRetrieve(episodes, replies, top_k) ==
    LET shown == get_by_session(episodes)
        read == Readings(replies, LAMBDA r : _validate_scores(r, Len(shown)))
        score(i) == IF read = {} THEN 0 ELSE ScoreMap(replies[Min(read)], i)
        ranked == FirstN(SortedBy([i \in 1..Len(shown) |-> i], score), top_k)
    IN [k \in 1..Len(ranked) |-> [episode |-> shown[ranked[k]], score |-> score(ranked[k])]]

(* ConsolidateProcedures._reflect: an item is [pattern, workflow, rate]; a    *)
(* pattern seen before takes the place of the earlier one.                   *)
ProcedureOk(item) == item.pattern # None /\ item.workflow # None /\ item.rate \in 0..10

_validate_and_dedupe_procedures(reply) ==
    FoldLeft(LAMBDA out, item :
               IF \E i \in 1..Len(out) : out[i].pattern = item.pattern
               THEN [i \in 1..Len(out) |-> IF out[i].pattern = item.pattern THEN item ELSE out[i]]
               ELSE Append(out, item), <<>>, reply)

ReflectProcedures(replies) ==
    LET read == Readings(replies, LAMBDA r : r # None /\ \A i \in 1..Len(r) : ProcedureOk(r[i]))
    IN IF read = {} THEN <<>> ELSE _validate_and_dedupe_procedures(replies[Min(read)])

(* ClassifyFactEvolution: without a fact there is nothing to classify; failing *)
(* to read an operation means no operation.                                  *)
Operations == {"update", "invalidate", "refine", "no_conflict"}
ClassifyFactEvolution(existing, replies) ==
    LET read == Readings(replies, LAMBDA r : r \in Operations)
    IN CASE existing = None -> ValueError
         [] existing # None /\ read = {} -> "no_conflict"
         [] OTHER -> replies[Min(read)]

-----------------------------------------------------------------------------
(* Strategies: an episode is [id, session, at, salience, similarity, names].  *)

Of(episodes, session) == SelectSeq(episodes, LAMBDA e : e.session = session)
Scored(list, score(_)) == [i \in 1..Len(list) |-> [episode |-> list[i], score |-> score(i)]]
Newest(list) == SortedBy(list, LAMBDA e : e.at)

(* The queries of PostgresEpisodicMemoryRepository, in one session. *)
InWindow(episodes, within, top_k) ==
    FirstN(Newest(SelectSeq(episodes, LAMBDA e : within[1] <= e.at /\ e.at <= within[2])), top_k)
RankedBySalience(episodes, top_k) == FirstN(SortedBy(episodes, LAMBDA e : e.salience), top_k)
MatchingEntity(episodes, entity, top_k) ==
    FirstN(Newest(SelectSeq(episodes, LAMBDA e : entity \in e.names)), top_k)

(* The best score by rank in time; within a window, presence is the score.   *)
TemporalRetrieve(episodes, within, top_k) ==
    LET recent == IF within = None THEN FirstN(Newest(episodes), top_k) ELSE InWindow(episodes, within, top_k)
    IN Scored(recent, LAMBDA i : IF within = None THEN Len(recent) - i + 1 ELSE 1)

SalienceRetrieve(episodes, top_k) ==
    LET ranked == RankedBySalience(episodes, top_k) IN Scored(ranked, LAMBDA i : ranked[i].salience)

EntityRetrieve(episodes, entity, top_k) ==
    Scored(MatchingEntity(episodes, entity, top_k), LAMBDA i : 1)

SemanticSearch(points, session, top_k) ==
    LET ranked == FirstN(SortedBy(Of(points, session), LAMBDA e : e.similarity), top_k)
    IN Scored(ranked, LAMBDA i : ranked[i].similarity)

(* In sixths, which divide by every range of the scores. *)
_min_max_normalize(list) ==
    LET scores == {list[i].score : i \in 1..Len(list)}
    IN [i \in 1..Len(list) |-> IF Max(scores) = Min(scores) THEN 6
                               ELSE (6 * (list[i].score - Min(scores))) \div (Max(scores) - Min(scores))]

Age(at, now) == IF at > now THEN 0 ELSE now - at

_recency_decay(at, now) == 4 \div (2 ^ Age(at, now))

(* RecencyDecayFusionRetrieval.execute: `with` says which of the optional     *)
(* strategies run.  Weights are None, then all count alike, or a function of *)
(* strategies; one that it leaves out counts nothing.                        *)
FetchK(top_k) == IF top_k * FetchMultiplier > MinFetchK THEN top_k * FetchMultiplier ELSE MinFetchK
Strategies == <<"temporal", "salience", "semantic", "causal", "entity">>

FusedRetrieve(episodes, q) ==
    LET fetch_k == FetchK(q.top_k)
        mine == Of(episodes, q.session)
        lists == << TemporalRetrieve(mine, q.within, fetch_k), SalienceRetrieve(mine, fetch_k),
                    IF "semantic" \in q.with THEN SemanticSearch(episodes, q.session, fetch_k) ELSE <<>>,
                    IF "causal" \in q.with THEN CausalRetrieve(mine, q.replies, fetch_k) ELSE <<>>,
                    IF "entity" \in q.with THEN EntityRetrieve(mine, q.entity, fetch_k) ELSE <<>> >>
        weight(k) == CASE q.weights = None -> 1
                       [] q.weights # None /\ Strategies[k] \in DOMAIN q.weights -> q.weights[Strategies[k]]
                       [] OTHER -> 0
        part(k, e) == SumOver([i \in 1..Len(lists[k]) |-> i], LAMBDA i :
                        IF lists[k][i].episode # e THEN 0
                        ELSE weight(k) * _min_max_normalize(lists[k])[i] * _recency_decay(e.at, q.now))
        score(e) == SumOver([k \in 1..Len(lists) |-> k], LAMBDA k : part(k, e))
        seen == FoldLeft(LAMBDA out, s : IF s.episode \in ToSet(out) THEN out ELSE Append(out, s.episode),
                         <<>>, FlattenSeq(lists))
    IN IF q.half_life <= 0 THEN ValueError ELSE FirstN(SortedBy(seen, score), q.top_k)

-----------------------------------------------------------------------------
(* Facts are [id, owner, until, archived, score]: until and archived are      *)
(* times or None, the owner is a user of a tenant.                           *)

(* QdrantSemanticMemoryIndex.search. *)
SearchFactPoints(points, owner, now, top_k) ==
    FirstN(SortedBy(SelectSeq(points, LAMBDA f : /\ f.owner = owner /\ f.archived = None
                                                 /\ f.until = None \/ f.until > now),
                    LAMBDA f : f.score), top_k)

(* PostgresSemanticMemoryRepository: now() is that of the database. *)
search_by_similarity(rows, owner, now, top_k) ==
    FirstN(SortedBy(SelectSeq(rows, LAMBDA f : /\ f.owner = owner
                                               /\ f.until = None \/ f.until > now
                                               /\ f.archived = None),
                    LAMBDA f : f.score), top_k)

-----------------------------------------------------------------------------
(* GateMemories.execute: a candidate is [id, source, score, similarity, at,   *)
(* tokens]; a score may be NaN, similarity None (no embedding).  Facts have   *)
(* no time, graph nodes no embedding.                                        *)
from_scored_episode(e) == e @@ [source |-> "episode"]
from_scored_fact(f) == f @@ [source |-> "fact", at |-> None]
from_activated_node(n) == n @@ [source |-> "graph_node", similarity |-> None]

safe_score(score) == IF score = NaN THEN -1000 ELSE score

DynamicRerank(candidates) ==
    SortedBy([i \in 1..Len(candidates) |->
                IF candidates[i].similarity = None THEN candidates[i]
                ELSE [candidates[i] EXCEPT !.score = candidates[i].similarity]],
             LAMBDA c : safe_score(c.score))

(* Fault: a negative score is decayed towards zero. *)
Reweighted_Towards(c, now) ==
    IF c.score = NaN THEN c.score ELSE c.score * (IF c.at = None THEN 4 ELSE _recency_decay(c.at, now))

(* In quarters; without a time a candidate keeps its score. *)
Reweighted(c, now) ==
    CASE c.score = NaN -> c.score
      [] c.score # NaN /\ c.at = None -> 4 * c.score
      [] OTHER -> c.score * (IF c.score >= 0 THEN _recency_decay(c.at, now) ELSE 8 - _recency_decay(c.at, now))

RecencyWeighted(candidates, half_life, now) ==
    IF half_life <= 0 THEN ValueError
    ELSE SortedBy([i \in 1..Len(candidates) |-> [candidates[i] EXCEPT !.score = Reweighted(candidates[i], now)]],
                  LAMBDA c : safe_score(c.score))

TokenBudgetAllocation(candidates, budget) ==
    IF budget < 0 THEN <<>>
    ELSE Fitting(SortedBy(candidates, LAMBDA c : safe_score(c.score)), LAMBDA c : c.tokens, budget)

Priority == [fact |-> 0, episode |-> 1, graph_node |-> 2]
HierarchicalAssembly(candidates) ==
    SortedBy(SortedBy(candidates, LAMBDA c : safe_score(c.score)), LAMBDA c : 0 - Priority[c.source])

TaskSpecificFiltering(candidates, allowed) ==
    IF allowed = None THEN candidates ELSE SelectSeq(candidates, LAMBDA c : c.source \in allowed)

GateMemories(episodes, facts, nodes, reranks, allowed, half_life, budget, now) ==
    LET candidates == [i \in 1..Len(episodes) |-> from_scored_episode(episodes[i])]
                      \o [i \in 1..Len(facts) |-> from_scored_fact(facts[i])]
                      \o [i \in 1..Len(nodes) |-> from_activated_node(nodes[i])]
        scored == IF reranks THEN DynamicRerank(candidates) ELSE candidates
        weighted == RecencyWeighted(TaskSpecificFiltering(scored, allowed), half_life, now)
    IN IF weighted = ValueError THEN ValueError ELSE HierarchicalAssembly(TokenBudgetAllocation(weighted, budget))

-----------------------------------------------------------------------------
(* spread_activation: paths without a repeated relationship, of at most       *)
(* `hops`, through nodes of the tenant.  Activation is decay^hops, in 1/16,   *)
(* with decay in halves.                                                     *)
Nodes(g) == DOMAIN g.owner
Paths(g, from, hops) ==
    {p \in UNION {[1..n -> Nodes(g)] : n \in 2..(hops + 1)} :
       /\ p[1] = from
       /\ \A i \in 1..(Len(p) - 1) : {p[i], p[i + 1]} \in g.edges
       /\ \A i, j \in 1..(Len(p) - 1) : i # j => {p[i], p[i + 1]} # {p[j], p[j + 1]}
       /\ \A i \in 1..Len(p) : g.owner[p[i]] = g.tenant}

Starts(g) == {n \in Nodes(g) : g.owner[n] = g.tenant /\ n \in g.entities /\ g.name[n] \in g.asked}
Activation(g, hops) == (16 * g.decay ^ hops) \div (2 ^ hops)

Reached(g) ==
    LET paths == UNION {Paths(g, s, g.hops) : s \in Starts(g)}
        ends == {p[Len(p)] : p \in paths} \ Starts(g)
        shortest(n) == Min({Len(p) - 1 : p \in {q \in paths : q[Len(q)] = n}})
    IN {[node |-> s, hops |-> 0] : s \in Starts(g)} \cup {[node |-> n, hops |-> shortest(n)] : n \in ends}

Passes(g, record) == record.hops = 0 \/ Activation(g, record.hops) > g.threshold

(* Nodes are told apart by id or, without one, by name. *)
_node_identifier(g, n) == g.name[n]

(* Of two records for one identifier the more activated stays. *)
SpreadActivation(g) ==
    LET passing == {r \in Reached(g) : Passes(g, r)}
        id(r) == _node_identifier(g, r.node)
    IN IF g.hops \notin 1..MaxHops \/ g.decay <= 0 \/ g.decay >= 2 THEN ValueError
       ELSE {[id |-> id(r), hops |-> r.hops] :
               r \in {x \in passing : \A y \in passing : id(y) = id(x) => x.hops <= y.hops}}

-----------------------------------------------------------------------------
(* RedisWorkingMemoryStore: a session's turns are one list, pushed at the      *)
(* times `at`, that Redis drops once `ttl` has passed since its expiry was    *)
(* last set.                                                                 *)

push_turn(list, turn, ttl) ==
    [turns |-> IF list # None /\ turn.at < list.expires THEN Append(list.turns, turn) ELSE <<turn>>,
     expires |-> turn.at + ttl]

(* A limit of zero or less is no turns, not all. *)
get_recent_turns(list, now, limit) ==
    IF list = None \/ now >= list.expires \/ limit <= 0 THEN <<>>
    ELSE SubSeq(list.turns, IF limit < Len(list.turns) THEN Len(list.turns) - limit + 1 ELSE 1, Len(list.turns))

WorkingMemory(pushed, ttl, now, limit) ==
    get_recent_turns(FoldLeft(LAMBDA list, turn : push_turn(list, turn, ttl), None, pushed), now, limit)
=============================================================================
