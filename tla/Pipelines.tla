------------------------------ MODULE Pipelines ------------------------------
(***************************************************************************)
(* The question answering process and what runs inside it.  `job` is what    *)
(* the process was asked to do: answer a question (module Answering), embed  *)
(* texts from several threads (EmbeddingCache), or one call, to let a request *)
(* in, of a retriever, a chunker, a memory query or a cache engine, whose     *)
(* result is `output`.                                                       *)
(***************************************************************************)
EXTENDS RequestIntake, Answering, RagRetrieval, Chunking, MemoryRetrieval, EmbeddingCache, CacheEngines

CONSTANTS Jobs        \* bound: the calls that are looked at, records with a `kind`

ASSUME JobsAssumption ==
    \A j \in Jobs : /\ j.kind = "body" => j.limit \in Nat
                    /\ j.kind = "address" => j.hops \in Seq(STRING) /\ j.count \in Int
                    /\ j.kind = "decode" =>
                         /\ j.limit \in Nat /\ j.n \in Nat
                         /\ j.generator \in {"prompt_lookup", "lookahead", "medusa"}
                         /\ j.prompt \in Seq(j.tokens) /\ Len(j.prompt) >= 2
                         /\ j.next \in [j.tokens \X j.tokens -> j.tokens]

VARIABLES job, output
vars == <<job, output, answeringVars, embeddingVars>>

Init ==
    /\ job \in Jobs
    /\ output = IF job.kind = "decode" THEN NewRun ELSE None
    /\ case \in (IF job.kind = "answer" THEN Cases ELSE {None})
    /\ AnsweringInit(IF job.kind = "answer" THEN "asked" ELSE "off")
    /\ EmbeddingInit

Returns(result) == output = None /\ output' = result
Called(kind) == job.kind = kind /\ UNCHANGED <<job, answeringVars, embeddingVars>>

Answer == AnsweringNext /\ UNCHANGED <<job, output, embeddingVars>>
Embed == job.kind = "embed" /\ EmbeddingNext /\ UNCHANGED <<job, output, answeringVars>>

CallIntake ==
    \/ /\ Called("body") /\ Drained(job.declared, job.messages, job.limit)
       /\ Returns(MaxBodySize(job.declared, job.messages, job.limit))
    \/ Called("address") /\ Returns(real_client_ip(job.peer, job.hops, job.count))

CallClassifier == Called("vote") /\ Returns(PrototypeScores(job.exemplars, job.k))

CallRetriever ==
    \/ Called("multi_query") /\ Returns(MultiQueryRetrieve(job.inner, job.lines, job.top_k))
    \/ Called("hybrid") /\ Returns(HybridSearch(job.vector, job.keyword, job.candidate_k, job.top_k))
    \/ Called("parents") /\ Returns(ParentDocumentRetrieve(job.children, job.parent, job.stored))
    \/ Called("corrective") /\ Returns(CorrectiveRetrieve(job.inner, job.grades, job.refined, job.top_k))
    \/ Called("search") /\ Returns([vector |-> VectorSearch(job.stored, job.tenant, job.top_k),
                                    keyword |-> BM25KeywordSearch(job.stored, job.tenant, job.top_k)])
    \/ Called("hyde") /\ Returns(HyDERetrieve(job.inner, job.answer, job.top_k))
    \/ Called("encoders") /\ Returns([cross |-> CrossEncoderRank(job.found, job.score, job.top_k),
                                      bi |-> BiEncoderRank(job.found, job.score, job.overlap, job.top_k)])
    \/ Called("self_rag") /\ Returns(SelfRagSources(job.inner, job.gate, job.top_k))
    \/ Called("rerank") /\ Returns(RerankingRetrieve(job.found, job.candidate_k, job.score, job.top_k))
    \/ Called("state_aware") /\ Returns(StateAwareRetrieve(job.inner, job.rewritten, job.base, job.overlap,
                                                           job.facts, job.candidate_k, job.top_k))
    \/ Called("compress") /\ Returns(_compress(job.texts, job.target))
    \/ Called("warmed") /\ Returns(CacheWarmedRetrieve(job.warmed, job.similarity, job.held, job.threshold,
                                                       job.inner, job.top_k))

TextOf(j) == [i \in 1..Len(j.width) |-> i]
CallChunker ==
    \/ Called("fixed") /\ Returns(FixedSizeChunk(TextOf(job), job.width, job.size, job.ratio))
    \/ Called("parent_child") /\ Returns(chunk_with_parents(TextOf(job), job.width, job.again, job.parent, job.size,
                                                            job.ratio))
    \/ Called("sentences") /\ Returns(SentenceChunk(job.cost, job.size))
    \/ Called("semantic") /\ Returns(SemanticChunk(job.cost, job.sims, job.size))
    \/ Called("structure") /\ Returns(StructureChunk(job.lines, job.heading, job.size))

CallMemory ==
    \/ Called("facts") /\ Returns([points |-> SearchFactPoints(job.stored, job.owner, job.now, job.top_k),
                                   rows |-> search_by_similarity(job.stored, job.owner, job.now, job.top_k)])
    \/ Called("causal") /\ Returns(CausalRetrieve(job.episodes, job.replies, job.top_k))
    \/ Called("procedures") /\ Returns(ReflectProcedures(job.replies))
    \/ Called("classify") /\ Returns(ClassifyFactEvolution(job.existing, job.replies))
    \/ Called("recency_fusion") /\ Returns(FusedRetrieve(job.episodes, job.query))
    \/ Called("gate") /\ Returns(GateMemories(job.episodes, job.facts, job.nodes, job.reranks, job.allowed,
                                              job.half_life, job.budget, job.now))
    \/ Called("working") /\ Returns(WorkingMemory(job.pushed, job.ttl, job.now, job.limit))
    \/ Called("activation") /\ Returns(SpreadActivation(job.graph))

(* A round of decoding with candidates of any kind; those of the Medusa      *)
(* heads are arbitrary.                                                      *)
Decode ==
    /\ Called("decode") /\ Len(output.generated) < job.limit
    /\ \E candidates \in
          CASE job.generator = "prompt_lookup" ->
                 {PromptLookupPropose(job.prompt, output.generated, job.n, 1..2)}
            [] job.generator = "lookahead" -> {LookaheadPropose(job.prompt, output.generated, job.n, 1..2)}
            [] job.generator = "medusa" -> MedusaPropose(job.tokens, job.n) :
         output' = DecodeRound(output, job.next, job.prompt, candidates, job.limit)

CallEvictor ==
    \/ Called("h2o") /\ Returns(KeepHeavyAndRecent(job.scores, job.budget, job.recent))
    \/ Called("snapkv") /\ Returns(SnapKVSelect(job.scores, job.kernel, job.budget, job.recent))
    \/ Called("morphkv") /\ Returns(MorphKVSelect(job.windows, job.budget))
    \/ Called("nacl") /\ \E stay \in KeepWithChance(job.scores, job.budget, job.chance) : Returns(stay)
    \/ Called("hashevict") /\ Returns(KeepLastOfBucket(job.bucket, job.budget))
    \/ Called("distill") /\ Returns(DistillGroups(job.tokens, job.budget))

CallEngine ==
    \/ Called("batch") /\ Returns([fifo |-> FifoBatches(job.pending, job.size),
                                   prefix |-> PrefixBatches(job.pending, job.block, 1, job.size)])
    \/ /\ Called("session")
       /\ Returns([naive |-> [i \in 1..Len(job.turns) |-> NaiveCost(job.turns, i)],
                   incremental |-> [i \in 1..Len(job.turns) |-> IncrementalCost(job.turns, i)],
                   sglang |-> [i \in 1..Len(job.turns) |-> SglangCost(job.turns, i)],
                   memserve |-> MemServe(job.turns, job.resident),
                   kvzip |-> KVzip(job.turns, 5, 1), rocketkv |-> RocketKV(job.turns, 2),
                   shadowkv |-> ShadowKV(job.turns, 5)])
    \/ /\ Called("offload")
       /\ Returns([sequential |-> SequentialOffload(job.w), layerkv |-> LayerKVOffload(job.w),
                   inf2 |-> Inf2Offload(job.w, job.storage), infinigen |-> InfiniGenOffload(job.w),
                   oneiros |-> OneirosOffload(job.w, job.freed, job.stream), kvpr |-> KVPROffload(job.w)])
    \/ Called("quantise") /\ Returns(Decompress(Compress(job.kv, job.size, job.levels), job.levels))
    \/ Called("kvquant") /\ Returns(KVQuantDecompress(KVQuant(job.kv, job.spread2, job.levels)))
    \/ Called("chat") /\ Returns(ChatResident(job.new_tokens, job.budget, job.recent))
    \/ Called("long_context") /\ Returns(LongContext(job.kv, job.scores, job.budget, job.recent, job.size,
                                                     job.levels, job.width, job.w))

Next ==
    \/ Answer \/ Embed \/ CallIntake \/ CallClassifier \/ CallRetriever \/ CallChunker \/ CallMemory
    \/ Decode \/ CallEvictor \/ CallEngine

Spec == Init /\ [][Next]_vars

(* The event loop goes on with the search of the facts, and with the discard   *)
(* it shields, whatever becomes of the request.                              *)
Search == SearchStep /\ UNCHANGED <<job, output, embeddingVars>>
FairSpec == Spec /\ WF_vars(Search)

-----------------------------------------------------------------------------
Returned(kind) == job.kind = kind /\ output \notin {None, ValueError}

(* The routes see no body over their limit, and no body is refused within it. *)
BodiesBounded == Returned("body") => BodyBounded(job.declared, job.messages, job.limit, output)

(* A request is counted under an address its sender did not make up. *)
AddressesAnchored == Returned("address") => AddressAnchored(job.peer, job.hops, job.count, output)

(* The more an exemplar is like the question, the more its paradigms score,   *)
(* whichever exemplar it keeps out of the nearest; a score is between 0 and 1. *)
AlikeNeverHurts ==
    Returned("vote") =>
       /\ \A p \in Paradigms : 0 <= output.of[p] /\ output.of[p] <= output.total
       /\ \A i \in 1..Len(job.exemplars), p \in Paradigms : p \in job.exemplars[i].paradigms =>
            LET closer == PrototypeScores([job.exemplars EXCEPT ![i].similarity = @ + 1], job.k)
            IN output.of[p] * closer.total <= closer.of[p] * output.total

(* A search finds the best of the caller's own chunks, or of the user's facts  *)
(* that still hold: what belongs to others, has expired or is archived        *)
(* neither shows up nor takes the place of what should; both stores of the    *)
(* facts agree on it.                                                        *)
OwnAndValidFound ==
    /\ Returned("search") =>
         \A list \in {output.vector, output.keyword} :
            TopOf(SelectSeq(job.stored, LAMBDA c : c.tenant = job.tenant), LAMBDA c : c.score, list, job.top_k)
    /\ Returned("facts") =>
         \A list \in {output.points, output.rows} :
            TopOf(SelectSeq(job.stored, LAMBDA f : /\ f.owner = job.owner /\ f.archived = None
                                                   /\ f.until # None => f.until > job.now),
                  LAMBDA f : f.score, list, job.top_k)

(* Reciprocal rank fusion, of the variants of a question or of vector and     *)
(* keyword search, never lists a chunk ahead of one that is ahead in every    *)
(* list, and loses none within top_k.                                        *)
FusionRespectsLists ==
    /\ Returned("multi_query") =>
         LET asked == SelectSeq(job.lines, LAMBDA q : q # None)
             queries == IF asked = <<>> THEN <<Query>> ELSE asked
         IN FusionFollows([k \in 1..Len(queries) |-> FirstN(job.inner[queries[k]], job.top_k)], output, job.top_k)
    /\ Returned("hybrid") =>
         FusionFollows(<<FirstN(job.vector, job.candidate_k), FirstN(job.keyword, job.candidate_k)>>,
                       output, job.top_k)

(* Every parent that can be shown is shown once, in the place of the first of *)
(* its children.                                                             *)
ParentsShownOnce == Returned("parents") => ParentsFollow(job.children, job.parent, job.stored, output)

(* The corrective retriever comes back empty-handed only when the last        *)
(* search it ran found nothing, and mixes no irrelevant chunk with relevant   *)
(* ones.                                                                     *)
CorrectiveKeepsResults ==
    Returned("corrective") =>
       LET first == FirstN(job.inner[Query], job.top_k)
           retry == FirstN(job.inner[IF job.refined = None THEN Query ELSE job.refined], job.top_k)
       IN /\ output = <<>> => first = <<>> \/ retry = <<>>
          /\ (\E c \in ToSet(first) : job.grades[c] = "yes") =>
                ToSet(output) = {c \in ToSet(first) : job.grades[c] = "yes"}

(* A reranker or a boost decides over all the candidates, not only over those *)
(* that would have been returned without it.                                 *)
RerankSeesAllCandidates ==
    /\ Returned("rerank") =>
         TopOf(FirstN(job.found, job.candidate_k), LAMBDA c : IF job.score[c] = None THEN 0 ELSE job.score[c],
               output, job.top_k)
    /\ Returned("encoders") =>
         /\ TopOf(job.found, LAMBDA c : job.score[c], output.cross, job.top_k)
         /\ \A c, d \in ToSet(job.found) :
              /\ job.score[c] >= job.score[d] /\ job.overlap[c] > job.overlap[d] /\ d \in ToSet(output.bi)
              => Before(output.bi, c, d)
    /\ Returned("state_aware") =>
         /\ TopOf(FirstN(job.inner[output.episode.enriched], Most(job.top_k, job.candidate_k)),
                  LAMBDA c : IF job.facts = 0 THEN job.base[c] ELSE Boosted(job.base, job.overlap, job.facts, c),
                  output.results, job.top_k)
         /\ output.episode.top = IF output.results = <<>> THEN None ELSE Head(output.results)

(* Compression keeps within the target, reads in the order of the text, and   *)
(* drops no sentence for which there was still room.                         *)
CompressionReadable ==
    Returned("compress") =>
       LET left == FlattenSeq(output)
           total(s) == SumOver(s, LAMBDA x : TokensOf(job.texts, x))
       IN /\ total(left) <= job.target
          /\ \A i \in 1..(Len(left) - 1) :
               left[i][1] < left[i + 1][1] \/ (left[i][1] = left[i + 1][1] /\ left[i][2] < left[i + 1][2])
          /\ \A s \in ToSet(Sentences(job.texts)) \ ToSet(left) :
               total(SelectSeq(left, LAMBDA x : ScoreOf(job.texts, x) >= ScoreOf(job.texts, s)))
                 + TokensOf(job.texts, s) > job.target

(* A warmed document that is no longer held never hides one that is: the     *)
(* answer comes from the best held match if that is good enough, and from the *)
(* retriever only if none is.                                                *)
StaleNeverShadows ==
    Returned("warmed") =>
       LET good == {d \in ToSet(job.warmed) \cap job.held : job.similarity[d] >= job.threshold}
       IN IF good = {} THEN output = FirstN(job.inner[Query], job.top_k)
          ELSE Len(output) = 1 /\ output[1] \in good
               /\ \A d \in good : job.similarity[d] <= job.similarity[output[1]]

(* Windows of tokens, and the children cut from the text of each parent,      *)
(* leave no character out; what a window edge cuts is whole in another window *)
(* if the overlap is wide enough for it, and goes on to be whole in a child   *)
(* if both overlaps are.                                                     *)
WindowsLeaveNoGap ==
    /\ Returned("fixed") => WindowsKeepText(output, TextOf(job), job.width, job.size, Overlap(job.size, job.ratio))
    /\ Returned("parent_child") =>
         LET textsOf(children) == [k \in 1..Len(children) |-> children[k].text]
             overlaps == [parent |-> Overlap(job.parent, job.ratio), child |-> Overlap(job.size, job.ratio)]
         IN /\ WindowsKeepText(output.parents, TextOf(job), job.width, job.parent, overlaps.parent)
            /\ \A i \in 1..Len(output.parents) :
                 WindowsKeepText(textsOf(SelectSeq(output.children, LAMBDA c : c.parent = i)), output.parents[i],
                                 job.again, job.size, overlaps.child)
            /\ \A x \in ToSet(TextOf(job)) :
                 job.width[x] <= overlaps.parent + 1 /\ job.again[x] <= overlaps.child + 1 =>
                   x \in Covered(textsOf(output.children))

(* Sentence chunks are a partition of the text, within the size unless one    *)
(* sentence exceeds it, and split only where the next would not fit or is     *)
(* less alike than the average.                                              *)
SentencesPackedTightly ==
    /\ Returned("sentences") => PackedTightly(output, job.cost, job.size, {})
    /\ Returned("semantic") =>
         PackedTightly(output, job.cost, job.size,
           {i \in 2..Len(job.cost) : job.sims[i - 1] * Len(job.sims) < SumOver(job.sims, LAMBDA s : s)})

(* The structure of a document survives its chunking. *)
CodeBlocksWhole == Returned("structure") => StructureKept(output, job.lines, job.heading, job.size)

(* What the first valid of the replies that are asked for says last about an   *)
(* episode, which it knows by its place in time; zero if there is none.       *)
ScoreRead(episodes, replies, e) ==
    LET valid(r) == r # None /\ \A i \in 1..Len(r) : r[i].episode \in 1..Len(episodes) /\ r[i].score \in 0..10
        read == {k \in 1..Least(MaxAttempts, Len(replies)) : valid(replies[k])}
        reply == IF read = {} THEN <<>> ELSE replies[Min(read)]
        place == Cardinality({i \in 1..Len(episodes) : \/ episodes[i].at < e.at
                                                       \/ episodes[i].at = e.at /\ i <= At(episodes, e)})
        about == {k \in 1..Len(reply) : reply[k].episode = place}
    IN IF about = {} THEN 0 ELSE reply[Max(about)].score

(* What is taken from a chat model is one whole valid reply out of the first  *)
(* MaxAttempts, never parts of a bad one; without one, nothing changes.       *)
RepliesTakenWhole ==
    /\ Returned("procedures") =>
         LET ok(r) == r # None /\ \A i \in 1..Len(r) : ProcedureOk(r[i])
             read == {k \in 1..Least(MaxAttempts, Len(job.replies)) : ok(job.replies[k])}
             reply == job.replies[Min(read)]
         IN IF read = {} THEN output = <<>>
            ELSE /\ {output[i].pattern : i \in 1..Len(output)} = {reply[i].pattern : i \in 1..Len(reply)}
                 /\ \A i, j \in 1..Len(output) : output[i].pattern = output[j].pattern => i = j
                 /\ \A i \in 1..Len(output) : \E k \in 1..Len(reply) : output[i] = reply[k] /\
                      \A m \in (k + 1)..Len(reply) : reply[m].pattern # reply[k].pattern
    /\ Returned("classify") =>
         \/ output = "no_conflict"
         \/ \E k \in 1..Least(MaxAttempts, Len(job.replies)) :
              job.replies[k] = output /\ \A j \in 1..(k - 1) : job.replies[j] \notin Operations
    /\ Returned("causal") =>
         LET score(e) == ScoreRead(job.episodes, job.replies, e)
         IN /\ \A i \in 1..Len(output) : output[i].score = score(output[i].episode)
            /\ TopOf(job.episodes, score, [i \in 1..Len(output) |-> output[i].episode], job.top_k)

(* Fusion of the memory strategies stays in its session, and an episode that  *)
(* is newer, more salient, more alike, more of a cause and as much to the     *)
(* point as another is never listed after it, or dropped for it: whatever the *)
(* weights, and though each strategy only fetches so many.  The exception is  *)
(* a model that names no cause or cannot be read, in a session of more than   *)
(* that: the oldest are then taken for causes.                               *)
BetterMemoriesFirst ==
    Returned("recency_fusion") =>
       LET q == job.query
           session == SelectSeq(job.episodes, LAMBDA e : e.session = q.session)
           mine == ToSet(session)
           cause(e) == ScoreRead(session, q.replies, e)
           noCause == \A e \in mine : cause(e) = 0
           inside(e) == q.within = None \/ (q.within[1] <= e.at /\ e.at <= q.within[2])
           better(e, f) == /\ e.at > f.at /\ e.salience > f.salience /\ e.similarity > f.similarity
                           /\ inside(f) => inside(e)
                           /\ q.entity \in f.names => q.entity \in e.names
                           /\ "causal" \notin q.with \/ cause(e) > cause(f)
                              \/ (noCause /\ Len(session) <= FetchK(q.top_k))
       IN /\ ToSet(output) \subseteq mine /\ NoRepeats(output)
          /\ \A e \in mine, f \in ToSet(output) : better(e, f) => Before(output, e, f)

(* What passes the gate fits the budget; of two memories that differ only in  *)
(* age, the older never passes without the newer, nor goes first.            *)
AgeNeverHelps ==
    Returned("gate") =>
       LET passed == {output[i].id : i \in 1..Len(output)}
           place(c) == CHOOSE i \in 1..Len(output) : output[i].id = c.id
       IN /\ job.budget >= 0 => SumOver(output, LAMBDA c : c.tokens) <= job.budget
          /\ \A list \in {job.episodes, job.nodes} : \A c, d \in ToSet(list) :
               /\ c.at # None /\ d.at # None /\ d.at < c.at /\ c.at <= job.now
               /\ [c EXCEPT !.at = d.at, !.id = d.id] = d
               /\ (IF job.reranks /\ list = job.episodes /\ c.similarity # None THEN c.similarity ELSE c.score)
                    \notin {0, NaN}
               /\ d.id \in passed
               => c.id \in passed /\ place(c) < place(d)

(* Working memory gives the last turns of the conversation, as many as asked  *)
(* for, as long as no pause in it was as long as the time to live.           *)
ConversationRemembered ==
    Returned("working") =>
       LET n == Len(job.pushed)
           at(i) == IF i > n THEN job.now ELSE job.pushed[i].at
           alive(i) == \A k \in i..n : at(k + 1) - at(k) < job.ttl
       IN output = SelectSeq([i \in 1..n |-> job.pushed[i]], LAMBDA t :
                     \E i \in 1..n : job.pushed[i] = t /\ alive(i) /\ i > n - job.limit)

(* The nodes at each distance from the start. *)
Levels(g) ==
    LET level[h \in 0..g.hops] ==
          IF h = 0 THEN Starts(g)
          ELSE {n \in Nodes(g) \ UNION {level[k] : k \in 0..(h - 1)} :
                  g.owner[n] = g.tenant /\ \E m \in level[h - 1] : {m, n} \in g.edges}
    IN level

(* Activation is by distance from the nearest entity asked for, in one        *)
(* tenant, and no entity asked for is lost to the threshold.                 *)
ActivationByDistance ==
    Returned("activation") =>
       LET g == job.graph
           levels == Levels(g)
           shown(n, h) == n \in levels[h] /\ (h = 0 \/ Activation(g, h) > g.threshold)
           near == {p \in Nodes(g) \X (0..g.hops) : shown(p[1], p[2])}
       IN output = {[id |-> g.name[p[1]], hops |-> p[2]] :
                      p \in {x \in near : \A y \in near : g.name[y[1]] = g.name[x[1]] => x[2] <= y[2]}}

(* Decoding with candidates, whoever proposes them, says what the model would *)
(* have said without, in no more passes, and counts no token it did not keep. *)
DecodesGreedily ==
    job.kind = "decode" =>
       LET said == job.prompt \o output.generated
       IN /\ Len(output.generated) <= job.limit
          /\ \A i \in (Len(job.prompt) + 1)..Len(said) : said[i] = Greedy(job.next, SubSeq(said, 1, i - 1))
          /\ output.passes <= Len(output.generated)
          /\ output.accepted <= output.proposed /\ output.accepted <= Len(output.generated)
          /\ Len(output.generated) <= output.accepted + output.passes

(* Eviction keeps exactly what the budget allows, the recent window first,    *)
(* and gives up nothing older that scores more than what it keeps.           *)
EvictsLeastAttended ==
    LET scores == CASE job.kind = "snapkv" -> _pooled(job.scores, job.kernel)
                    [] job.kind = "morphkv" -> Fused(job.windows)
                    [] OTHER -> IF job.kind = "h2o" THEN job.scores ELSE <<>>
        n == Len(scores)
        recent == IF job.kind = "morphkv" THEN 0 ELSE Least(job.recent, n)
    IN Returned("h2o") \/ Returned("snapkv") \/ Returned("morphkv") =>
         /\ Cardinality(output) = Least(job.budget, n)
         /\ \A i \in 1..n : i > n - Least(recent, job.budget) => i \in output
         /\ \A i \in output, j \in (1..n) \ output : i <= n - recent => scores[j] <= scores[i]

(* The random and the hashing evictor keep within the budget; what goes is    *)
(* known to a newer entry of its bucket, or older than all that stays; and    *)
(* distilled groups are as even as they can be and leave out nothing.        *)
CompactionAccountsForAll ==
    /\ Returned("nacl") => Cardinality(output) = Least(job.budget, Len(job.scores))
    /\ Returned("hashevict") =>
         /\ Cardinality(output) <= job.budget /\ output # {}
         /\ \A i \in (1..Len(job.bucket)) \ output :
              \/ \E j \in (i + 1)..Len(job.bucket) : job.bucket[j] = job.bucket[i]
              \/ Cardinality(output) = job.budget /\ \A j \in output : i < j
    /\ Returned("distill") =>
         /\ SumOver(output, LAMBDA g : g) = job.tokens /\ Len(output) = Least(job.budget, job.tokens)
         /\ \A i, j \in 1..Len(output) : output[i] >= 1 /\ output[i] <= output[j] + 1

(* Every request is in one batch, whoever schedules; requests batched for     *)
(* their prefix share its whole blocks and wait in turn, and prefilling a     *)
(* batch never takes more than its requests one by one.                      *)
BatchesShareBlocks ==
    Returned("batch") =>
       LET all == [i \in 1..Len(job.pending) |-> i]
           sorted(batches) == SetToSortSeq(ToSet(FlattenSeq(batches)), <)
           alone == SumOver(job.pending, LAMBDA t : Len(t))
       IN \A batches \in {output.fifo, output.prefix} :
            /\ NoRepeats(FlattenSeq(batches)) /\ sorted(batches) = all
            /\ \A k \in 1..Len(batches) :
                 /\ Len(batches[k]) \in 1..job.size
                 /\ \A i, j \in 1..Len(batches[k]) : i < j => batches[k][i] < batches[k][j]
                 /\ batches = output.prefix /\ (\E i \in 1..Len(batches[k]) :
                                                   Len(job.pending[batches[k][i]]) >= job.block) =>
                      longest_common_block_prefix({job.pending[batches[k][i]] : i \in 1..Len(batches[k])},
                                                  job.block) >= job.block
            /\ prefill_tokens_required(job.pending, batches, job.block) <= alone

(* A cache that shares more never recomputes more: tree, last turn only, no   *)
(* cache at all; and what MemServe does not hold it transfers.  ShadowKV      *)
(* alone charges a token for a turn that has none.                           *)
SharingNeverCostsMore ==
    Returned("session") =>
       /\ \A i \in 1..Len(job.turns) :
            /\ job.turns[i].tokens <= output.sglang[i]
            /\ output.sglang[i] <= output.incremental[i]
            /\ output.incremental[i] <= output.naive[i]
       /\ \A i \in 1..Len(job.turns) : /\ output.rocketkv.cost[i] <= output.sglang[i]
                                        /\ output.shadowkv.cost[i] <= Most(1, output.sglang[i])
       /\ output.kvzip.peak <= output.shadowkv.peak
       /\ output.memserve.peak <= Max({0} \cup {output.naive[i] : i \in 1..Len(job.turns)})
       /\ SumOver(output.naive, LAMBDA n : n) <=
            output.memserve.transfer + SumOver(job.turns, LAMBDA t : t.tokens + job.resident)

(* However transfers overlap with compute, time is neither lost nor made up:  *)
(* what is hidden and what is waited for add up to the work; pipelining is    *)
(* never slower than doing one after the other.                              *)
OverlapAddsUp ==
    Returned("offload") =>
       /\ \A s \in DOMAIN output :
            /\ output[s].total + output[s].hidden =
                 job.w.layers * job.w.compute + output[s].issued + output[s].recompute
            /\ output[s].hidden <= output[s].issued
            /\ output[s].resident <= job.w.layers
       /\ output.layerkv.total <= output.sequential.total /\ output.infinigen.total <= output.layerkv.total

(* A quantised value is off by at most half a step of its group, and what is  *)
(* not in a whole group comes back as it was.                                *)
WithinHalfAStep ==
    Returned("quantise") =>
       /\ Len(output) = Len(job.kv)
       /\ \A i \in 1..Len(job.kv) :
            LET g == (i - 1) \div job.size
                whole == (g + 1) * job.size <= Len(job.kv)
                group == ToSet(SubSeq(job.kv, g * job.size + 1, (g + 1) * job.size))
                off == output[i] - job.kv[i] * job.levels
                error == IF off < 0 THEN 0 - off ELSE off
            IN error * 2 <= IF whole THEN Max(group) - Min(group) ELSE 0

(* Values quantised by quantile keep their order and stay among the values of *)
(* the channel; all that are coded alike average to what comes back.         *)
QuantilesKeepOrder ==
    Returned("kvquant") =>
       LET value(i) == output[i][1]
           count(i) == output[i][2]
       IN \A i, j \in 1..Len(job.kv) :
            /\ job.kv[i] <= job.kv[j] => value(i) * count(j) <= value(j) * count(i)
            /\ i \notin Outliers(job.kv, job.spread2) =>
                 LET alike == SelectSeq([k \in 1..Len(job.kv) |-> k], LAMBDA k :
                                k \notin Outliers(job.kv, job.spread2) /\ output[k] = output[i])
                 IN SumOver(alike, LAMBDA k : job.kv[k]) * count(i) = value(i) * Len(alike)

(* A conversation of any length stays within its budget, always with the      *)
(* last token; a long context keeps no more layers resident than there is     *)
(* room for, and no fewer if it needs them.                                  *)
ContextStaysBounded ==
    /\ Returned("chat") =>
         \A k \in 1..Len(job.new_tokens) :
            LET held == SumOver(SubSeq(job.new_tokens, 1, k), LAMBDA n : n)
            IN Cardinality(output[k]) = Least(job.budget, held) /\ (held > 0 => held \in output[k])
    /\ Returned("long_context") =>
         /\ Cardinality(output.kept) = Least(job.budget, Len(job.kv))
         /\ output.resident = Least(job.w.capacity, output.layers) /\ output.layers >= 1

-----------------------------------------------------------------------------
(* What is checked of each part, together. *)

(* The app counts and reads what a client really sent. *)
RequestsTakenRight == BodiesBounded /\ AddressesAnchored

(* A question is routed where its context may be, its context fits the        *)
(* budget and leaves out only what does not fit, and the budget is on record  *)
(* before the model is asked.                                                *)
AnswersFit == RouteRobust /\ ContextFits /\ DroppedDontFit /\ RecordedBeforeAnswer

(* A retriever shows the best of what the caller may see, each once, however  *)
(* lists are fused, expanded, graded, reranked, compressed or taken from a    *)
(* cache that may be stale; what is more alike counts for more.              *)
RetrievalSound ==
    /\ AlikeNeverHurts /\ OwnAndValidFound /\ FusionRespectsLists /\ ParentsShownOnce /\ CorrectiveKeepsResults
    /\ RerankSeesAllCandidates /\ CompressionReadable /\ StaleNeverShadows

(* Chunking leaves out no part of a text, cuts only where it has to, and tears *)
(* no character that fits the overlap and no code block.                     *)
TextKeptWhole == WindowsLeaveNoGap /\ SentencesPackedTightly /\ CodeBlocksWhole

(* A memory that is better in every respect never ranks behind, whatever      *)
(* scores, ages and model replies come in.                                   *)
MemoriesRanked ==
    /\ RepliesTakenWhole /\ BetterMemoriesFirst /\ AgeNeverHelps
    /\ ConversationRemembered /\ ActivationByDistance

(* The engines save work and change nothing: decoding says what the model     *)
(* would, eviction and batching account for all, costs add up, and what is    *)
(* compressed comes back within its error.                                   *)
EnginesExact ==
    /\ DecodesGreedily /\ EvictsLeastAttended /\ CompactionAccountsForAll
    /\ BatchesShareBlocks /\ SharingNeverCostsMore /\ OverlapAddsUp
    /\ WithinHalfAStep /\ QuantilesKeepOrder /\ ContextStaysBounded
=============================================================================
