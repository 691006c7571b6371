---------------------------- MODULE RagRetrieval ----------------------------
(***************************************************************************)
(* The retrievers of the RAG pipeline.  A retriever is composed around an   *)
(* inner one, which is given as `inner`: query -> the chunks it finds, best *)
(* first.  What a chat model replies is an input.                           *)
(***************************************************************************)
EXTENDS Ranking

CONSTANTS Query,                \* the query as asked
          DefaultRrfK, MaxRank  \* _DEFAULT_RRF_K; bound: the longest list fused

-----------------------------------------------------------------------------
(* The searches at the bottom: a stored chunk is [id, tenant, score], tenant   *)
(* None for a point without a payload.  The tenant is part of the query, so   *)
(* that the limit counts the tenant's own chunks; equal scores are in any     *)
(* order, here that of the store.                                            *)
VectorSearch(points, tenant, top_k) ==
    FirstN(SortedBy(SelectSeq(points, LAMBDA p : p.tenant = tenant), LAMBDA p : p.score), top_k)

get_chunks_for_tenant(rows, tenant) == SelectSeq(rows, LAMBDA c : c.tenant = tenant)

BM25KeywordSearch(rows, tenant, top_k) ==
    FirstN(SortedBy(get_chunks_for_tenant(rows, tenant), LAMBDA c : c.score), top_k)

(* The hypothetical answer takes the place of the query, even an empty one. *)
HyDERetrieve(inner, answer, top_k) == FirstN(inner[answer], top_k)

-----------------------------------------------------------------------------
(* 1 / (k + rank + 1), times the product of all the denominators there are. *)
Denominators == FoldLeft(LAMBDA p, r : p * (DefaultRrfK + r), 1, [r \in 1..MaxRank |-> r])
Reciprocal(rank) == Denominators \div (DefaultRrfK + rank)

RrfScore(lists, c) ==
    SumOver(lists, LAMBDA list : IF c \in ToSet(list) THEN Reciprocal(At(list, c)) ELSE 0)

(* Equal scores stay in the order in which the chunks were first seen. *)
reciprocal_rank_fusion(lists, top_k) ==
    LET seen == FoldLeft(LAMBDA ids, c : IF c \in ToSet(ids) THEN ids ELSE Append(ids, c), <<>>, FlattenSeq(lists))
    IN FirstN(SortedBy(seen, LAMBDA c : RrfScore(lists, c)), top_k)

(* Every non-blank line of the reply is searched for; no line, the query. *)
MultiQueryRetrieve(inner, lines, top_k) ==
    LET variants == SelectSeq(lines, LAMBDA q : q # None)
        asked == IF variants = <<>> THEN <<Query>> ELSE variants
    IN reciprocal_rank_fusion([k \in 1..Len(asked) |-> FirstN(inner[asked[k]], top_k)], top_k)

HybridSearch(vector, keyword, candidate_k, top_k) ==
    reciprocal_rank_fusion(<<FirstN(vector, candidate_k), FirstN(keyword, candidate_k)>>, top_k)

-----------------------------------------------------------------------------
(* A chunk for its parent, the first time the parent comes up: a child or a   *)
(* parent that is no longer stored, or has no parent, is left out.           *)
ParentDocumentRetrieve(children, parent, stored) ==
    FoldLeft(LAMBDA expanded, c :
               IF c \notin stored \/ parent[c] = None \/ parent[c] \notin stored
                  \/ \E i \in 1..Len(expanded) : expanded[i].chunk = parent[c]
               THEN expanded ELSE Append(expanded, [chunk |-> parent[c], by |-> c]), <<>>, children)

-----------------------------------------------------------------------------
(* _is_relevant: a grade that cannot be read is a no. *)
IsRelevant(grade) == grade = "yes"

(* One retry, with the refined query, and what it finds is not graded. *)
CorrectiveRetrieve(inner, grades, refined, top_k) ==
    LET results == FirstN(inner[Query], top_k)
        relevant == SelectSeq(results, LAMBDA c : IsRelevant(grades[c]))
    IN CASE results = <<>> -> results
         [] results # <<>> /\ relevant # <<>> -> relevant
         [] OTHER -> FirstN(inner[IF refined = None THEN Query ELSE refined], top_k)

(* SelfRAGAnswerQuestion: a gate that cannot be read lets the search run. *)
SelfRagSources(inner, gate, top_k) == IF gate = "no" THEN <<>> ELSE FirstN(inner[Query], top_k)

-----------------------------------------------------------------------------
(* LLMReranker: a reply without a number counts as zero. *)
Reranked(results, score, top_k) ==
    FirstN(SortedBy(results, LAMBDA c : IF score[c] = None THEN 0 ELSE score[c]), top_k)

(* CrossEncoderReranker, and BiEncoderRerankReranker, in tenths: cosine 0.7,  *)
(* shared words 0.3.                                                         *)
CrossEncoderRank(results, score, top_k) == FirstN(SortedBy(results, LAMBDA c : score[c]), top_k)

BiEncoderRank(results, semantic, lexical, top_k) ==
    FirstN(SortedBy(results, LAMBDA c : 7 * semantic[c] + 3 * lexical[c]), top_k)

RerankingRetrieve(found, candidate_k, score, top_k) ==
    Reranked(FirstN(found, candidate_k), score, top_k)

(* StateAwareRetrieve: the first line of the rewritten query, if any, the    *)
(* boost for words the user's facts share with a result, and then the cut.   *)
(* Scores are tenths, the boost weight 0.2; overlap is that of a chunk with  *)
(* `facts` words, by which the score is multiplied.                          *)
Boosted(base, overlap, facts, c) == base[c] * facts + 2 * overlap[c]

_apply_ranking_boost(results, base, overlap, facts) ==
    SortedBy(results, LAMBDA c : IF facts = 0 THEN base[c] ELSE Boosted(base, overlap, facts, c))

(* The first line of the reply, or the query as it was. *)
_rewrite_query(rewritten) == IF rewritten = None THEN Query ELSE rewritten

(* What is returned, and the episode that is captured with it. *)
Captured(results, query) ==
    [results |-> results, episode |-> [query |-> Query, enriched |-> query,
                                       top |-> IF results = <<>> THEN None ELSE results[1]]]

StateAwareRetrieve(inner, rewritten, base, overlap, facts, candidate_k, top_k) ==
    LET query == _rewrite_query(rewritten)
        asked == IF top_k > candidate_k THEN top_k ELSE candidate_k
    IN Captured(FirstN(_apply_ranking_boost(FirstN(inner[query], asked), base, overlap, facts), top_k), query)

-----------------------------------------------------------------------------
(* CompressingRetriever._compress: sentences are <<result, order>>, with      *)
(* their score and tokens.                                                   *)
Sentences(texts) ==
    FlattenSeq([r \in 1..Len(texts) |-> [o \in 1..Len(texts[r]) |-> <<r, o>>]])
ScoreOf(texts, s) == texts[s[1]][s[2]].score
TokensOf(texts, s) == texts[s[1]][s[2]].tokens

KeptSentences(texts, target) ==
    Fitting(SortedBy(Sentences(texts), LAMBDA s : ScoreOf(texts, s)), LAMBDA s : TokensOf(texts, s), target)

(* What is kept goes back to the order of its result; a result of which      *)
(* nothing is kept is dropped.                                               *)
_compress(texts, target) ==
    LET kept == ToSet(KeptSentences(texts, target))
        of(r) == SelectSeq([o \in 1..Len(texts[r]) |-> <<r, o>>], LAMBDA s : s \in kept)
    IN SelectSeq([r \in 1..Len(texts) |-> of(r)], LAMBDA k : k # <<>>)

-----------------------------------------------------------------------------
(* Fault: the best match decides, held or not. *)
BestWarmedMatch_Shadowed(warmed, similarity, held) ==
    LET best == SortedBy(warmed, LAMBDA d : similarity[d])
    IN IF warmed = <<>> \/ best[1] \notin held THEN None ELSE best[1]

(* CacheWarmedRetrieve.best_warmed_match and execute: warmed documents, best  *)
(* match first; `held` are those whose cache entry still has the warmed text.*)
BestWarmedMatch(warmed, similarity, held) ==
    LET confirmed == SelectSeq(SortedBy(warmed, LAMBDA d : similarity[d]), LAMBDA d : d \in held)
    IN IF confirmed = <<>> THEN None ELSE confirmed[1]

CacheWarmedRetrieve(warmed, similarity, held, threshold, inner, top_k) ==
    LET match == BestWarmedMatch(warmed, similarity, held)
    IN IF match # None /\ similarity[match] >= threshold THEN <<match>> ELSE FirstN(inner[Query], top_k)

-----------------------------------------------------------------------------
(* `c` is ahead of `d` in the lists: wherever `d` is listed, `c` is before it. *)
Outranks(lists, c, d) ==
    /\ \E k \in 1..Len(lists) : c \in ToSet(lists[k])
    /\ \A k \in 1..Len(lists) : d \in ToSet(lists[k]) => Before(lists[k], c, d)

(* Fusion lists nothing twice and nothing ahead of what outranks it.         *)
FusionFollows(lists, fused, top_k) ==
    LET all == UNION {ToSet(lists[k]) : k \in 1..Len(lists)}
    IN /\ NoRepeats(fused) /\ ToSet(fused) \subseteq all
       /\ Len(fused) = (IF top_k < Cardinality(all) THEN top_k ELSE Cardinality(all))
       /\ \A c, d \in all : Outranks(lists, c, d) /\ d \in ToSet(fused) => Before(fused, c, d)

(* Every stored parent of a stored child once, standing where the first of    *)
(* its children stood.                                                       *)
ParentsFollow(children, parent, stored, expanded) ==
    LET owed == {parent[c] : c \in ToSet(children) \cap stored} \cap stored
        ids == [i \in 1..Len(expanded) |-> expanded[i].chunk]
        first(p) == CHOOSE c \in ToSet(children) \cap stored : parent[c] = p /\
                       \A d \in ToSet(children) \cap stored : parent[d] = p => ~Before(children, d, c)
    IN /\ NoRepeats(ids) /\ ToSet(ids) = owed
       /\ \A i \in 1..Len(expanded) : expanded[i].by = first(expanded[i].chunk)
       /\ \A i, j \in 1..Len(expanded) : i < j => Before(children, expanded[i].by, expanded[j].by)

(* The best `top_k` of all candidates by the score that counts. *)
TopOf(candidates, score(_), result, top_k) ==
    /\ NoRepeats(result) /\ ToSet(result) \subseteq ToSet(candidates)
    /\ Len(result) = (IF top_k < Len(candidates) THEN top_k ELSE Len(candidates))
    /\ \A c \in ToSet(result), d \in ToSet(candidates) :
         score(d) > score(c) => Before(result, d, c)
=============================================================================
