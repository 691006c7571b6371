---------------------------- MODULE CacheEngines ----------------------------
(***************************************************************************)
(* The KV cache engines of CAG beside the allocators: speculative decoding,  *)
(* eviction, batching, multi-turn sessions, offloading and quantisation, and *)
(* the pipelines that chain them.  Models and their attention are inputs.    *)
(***************************************************************************)
EXTENDS Ranking, TLC

Least(a, b) == IF a < b THEN a ELSE b
Most(a, b) == IF a > b THEN a ELSE b

-----------------------------------------------------------------------------
(* Speculative decoding.  The target model is `next`: the greedy token after  *)
(* the last two.                                                             *)

Greedy(next, tokens) == next[<<tokens[Len(tokens) - 1], tokens[Len(tokens)]>>]

(* find_ngram_continuation: the longest n-gram of the tail first, its last     *)
(* occurrence before the ceiling.                                            *)
find_ngram_continuation(tail, haystack, n, sizes, max_start) ==
    LET ceiling == Least(max_start, Len(haystack))
        found(size) == {s \in 0..(ceiling - size) :
                          SubSeq(haystack, s + 1, s + size) = SubSeq(tail, Len(tail) - size + 1, Len(tail))}
        usable == {size \in sizes : size <= Len(tail) /\ found(size) # {}}
    IN IF tail = <<>> \/ haystack = <<>> \/ usable = {} THEN <<>>
       ELSE LET size == Max(usable)
                after == Max(found(size)) + size
            IN SubSeq(haystack, after + 1, Least(after + n, Len(haystack)))

LastOf(s, n) == SubSeq(s, Most(1, Len(s) - n + 1), Len(s))

PromptLookupPropose(prompt, generated, n, sizes) ==
    find_ngram_continuation(LastOf(prompt \o generated, Max(sizes)), prompt, n, sizes, Len(prompt) - 1)

LookaheadPropose(prompt, generated, n, sizes) ==
    find_ngram_continuation(LastOf(generated, Max(sizes)), generated, n, sizes, Len(generated) - 1)

(* What the heads may say is any token, one each. *)
MedusaPropose(tokens, n) == [1..n -> tokens]

Agreed(next, tokens, candidates) ==
    {k \in 0..Len(candidates) :
       \A i \in 1..k : candidates[i] = Greedy(next, tokens \o SubSeq(candidates, 1, i - 1))}

(* Fault: the bonus token is that after all candidates, not after those       *)
(* accepted.                                                                 *)
verify_candidates_LastBonus(next, tokens, candidates) ==
    [accepted |-> SubSeq(candidates, 1, Max(Agreed(next, tokens, candidates))),
     bonus |-> Greedy(next, tokens \o candidates)]

(* The candidates up to the first the model would not have said, and the     *)
(* token it would have said there.                                           *)
verify_candidates(next, tokens, candidates) ==
    LET accepted == SubSeq(candidates, 1, Max(Agreed(next, tokens, candidates)))
    IN [accepted |-> accepted, bonus |-> Greedy(next, tokens \o accepted)]

NewRun == [generated |-> <<>>, passes |-> 0, accepted |-> 0, proposed |-> 0]

(* A round of SpeculativeDecode.execute; accepted and bonus tokens stop at    *)
(* the limit.                                                                *)
DecodeRound(run, next, prompt, candidates, limit) ==
    LET result == verify_candidates(next, prompt \o run.generated, candidates)
        within == FirstN(result.accepted, limit - Len(run.generated))
        longer == run.generated \o within
    IN [generated |-> IF Len(longer) < limit THEN Append(longer, result.bonus) ELSE longer,
        passes |-> run.passes + 1,
        accepted |-> run.accepted + Len(within),
        proposed |-> run.proposed + Len(candidates)]

-----------------------------------------------------------------------------
(* Evictors: which positions of the cache stay within the budget.  With       *)
(* nothing to keep or no budget each raises ValueError.                      *)
Keeping(n, budget, kept) == IF n < 1 \/ budget < 1 THEN ValueError ELSE kept

Positions(scores) == [i \in 1..Len(scores) |-> i]
TopPositions(positions, scores, n) == ToSet(FirstN(SortedBy(positions, LAMBDA i : scores[i]), n))

(* H2OEvictor.select_keep_indices: the recent window, and the heaviest of    *)
(* the rest.                                                                 *)
KeepHeavyAndRecent(scores, budget, recent_window) ==
    LET n == Len(scores)
        recent == (n - Least(recent_window, n) + 1)..n
        others == SelectSeq(Positions(scores), LAMBDA i : i \notin recent)
    IN Keeping(n, budget,
         CASE budget >= n -> 1..n
           [] budget < n /\ budget <= Cardinality(recent) -> (n - budget + 1)..n
           [] OTHER -> recent \cup TopPositions(others, scores, budget - Cardinality(recent)))

(* SnapKVEvictor: the same over scores pooled with their neighbours. *)
_pooled(scores, kernel) ==
    [i \in 1..Len(scores) |-> Max({scores[j] : j \in {k \in 1..Len(scores) :
                                     k >= i - (kernel \div 2) /\ k <= i + (kernel \div 2)}})]

SnapKVSelect(scores, kernel, budget, recent_window) ==
    KeepHeavyAndRecent(_pooled(scores, kernel), budget, recent_window)

(* MorphKVEvictor: sum and maximum over the last windows. *)
Fused(windows) ==
    [i \in 1..Len(windows[1]) |-> SumOver(windows, LAMBDA w : w[i]) + Max({windows[k][i] : k \in 1..Len(windows)})]

MorphKVSelect(windows, budget) ==
    LET n == IF windows = <<>> THEN 0 ELSE Len(windows[1])
    IN IF \E w \in ToSet(windows) : Len(w) # n THEN ValueError
       ELSE Keeping(n, budget, IF budget >= n THEN 1..n
                               ELSE TopPositions(Positions(windows[1]), Fused(windows), budget))

(* NACLEvictor: the best, and of the rest a random sample. *)
KeepWithChance(scores, budget, chance) ==
    LET best == TopPositions(Positions(scores), scores, budget - chance)
        rest == (1..Len(scores)) \ best
        kept == IF budget >= Len(scores) THEN {1..Len(scores)}
                ELSE {best \cup lucky : lucky \in {s \in SUBSET rest :
                                                    Cardinality(s) = Least(chance, Cardinality(rest))}}
    IN {Keeping(Len(scores), budget, k) : k \in kept}

(* HASHEVICTEvictor: the newest of each bucket, and of those the newest. *)
KeepLastOfBucket(bucket, budget) ==
    LET n == Len(bucket)
        kept == {i \in 1..n : \A j \in (i + 1)..n : bucket[j] # bucket[i]}
    IN Keeping(n, budget, IF budget >= n THEN 1..n
                          ELSE {i \in kept : Cardinality({j \in kept : j >= i}) <= budget})

(* InfiniPotDistiller: the sizes of the groups that are averaged. *)
DistillGroups(n, budget) ==
    Keeping(n, budget, IF budget >= n THEN [g \in 1..n |-> 1]
                       ELSE [g \in 1..budget |-> (n \div budget) + (IF g <= n % budget THEN 1 ELSE 0)])

-----------------------------------------------------------------------------
(* Batch schedulers; a request is the sequence of its tokens, its number the  *)
(* position in `pending`.                                                    *)

Slices(members, size) ==
    [k \in 1..((Len(members) + size - 1) \div size) |->
       SubSeq(members, (k - 1) * size + 1, Least(k * size, Len(members)))]

FifoBatches(pending, size) == Slices([i \in 1..Len(pending) |-> i], size)

_signature(tokens, block, grouping) ==
    SubSeq(tokens, 1, Least(Len(tokens) \div block, grouping) * block)

(* Longest signature first, equal lengths in the order they came up. *)
PrefixBatches(pending, block, grouping, size) ==
    LET sig(i) == _signature(pending[i], block, grouping)
        firsts == SelectSeq([i \in 1..Len(pending) |-> i], LAMBDA i : \A j \in 1..(i - 1) : sig(j) # sig(i))
        group(i) == SelectSeq([j \in 1..Len(pending) |-> j], LAMBDA j : sig(j) = sig(i))
        ordered == SortedBy(firsts, LAMBDA i : Len(sig(i)))
    IN FlattenSeq([k \in 1..Len(ordered) |-> Slices(group(ordered[k]), size)])

longest_common_block_prefix(sequences, block) ==
    LET matched == Max({m \in 0..Min({Len(s) : s \in sequences}) :
                          \A s, t \in sequences : SubSeq(s, 1, m) = SubSeq(t, 1, m)})
    IN (matched \div block) * block

prefill_tokens_required(pending, batches, block) ==
    SumOver(batches, LAMBDA batch :
      LET shared == longest_common_block_prefix({pending[batch[k]] : k \in 1..Len(batch)}, block)
      IN shared + SumOver(batch, LAMBDA i : Len(pending[i]) - shared))

-----------------------------------------------------------------------------
(* Multi-turn sessions: a turn is [id, tokens, parent]. *)

TurnOf(turns, id) == LET of == SelectSeq(turns, LAMBDA t : t.id = id) IN of[Len(of)]
Known(turns, id) == \E i \in 1..Len(turns) : turns[i].id = id

(* history_tokens_before: up the parents, until one is unknown or repeats.    *)
Ancestors(turns, index) ==
    LET step(done, n) ==
            LET up == IF done = <<>> THEN turns[index].parent
                      ELSE TurnOf(turns, done[Len(done)]).parent
            IN IF Len(done) < n \/ up = None \/ ~Known(turns, up) \/ up \in ToSet(done)
               THEN done ELSE Append(done, up)
    IN FoldLeft(step, <<>>, [n \in 1..Len(turns) |-> n - 1])

History(turns, index) == SumOver(Ancestors(turns, index), LAMBDA id : TurnOf(turns, id).tokens)

NaiveCost(turns, i) == History(turns, i) + turns[i].tokens

(* IncrementalAppendSession: only the turn before can be continued. *)
IncrementalCost(turns, i) ==
    IF turns[i].parent = (IF i = 1 THEN None ELSE turns[i - 1].id) THEN turns[i].tokens
    ELSE NaiveCost(turns, i)

(* What SGLang has in its tree before turn `i`: earlier turns, their parents. *)
Materialised(turns, i) ==
    {turns[j].id : j \in 1..(i - 1)} \cup ({turns[j].parent : j \in 1..(i - 1)} \ {None})

SglangCost(turns, i) ==
    IF turns[i].parent # None /\ turns[i].parent \notin Materialised(turns, i)
    THEN NaiveCost(turns, i) ELSE turns[i].tokens

(* MemServeSession: what is not held locally is transferred. *)
MemServe(turns, resident) ==
    [transfer |-> SumOver([i \in 1..Len(turns) |-> i], LAMBDA i : Most(0, History(turns, i) - resident)),
     peak |-> Max({0} \cup {Least(History(turns, i), resident) + turns[i].tokens : i \in 1..Len(turns)})]

(* KVzip recomputes the overhead once and holds a tenth-wise share of the     *)
(* history; RocketKV recomputes a budget per turn; ShadowKV what its subspace *)
(* does not cover, at least one token.                                       *)
PeakHeld(turns) == Max({0} \cup {NaiveCost(turns, i) : i \in 1..Len(turns)})

KVzip(turns, tenths, overhead) ==
    [cost |-> [i \in 1..Len(turns) |-> turns[i].tokens + (IF i = 1 THEN overhead ELSE 0)],
     peak |-> (PeakHeld(turns) * tenths) \div 10]

RocketKV(turns, budget) ==
    [cost |-> [i \in 1..Len(turns) |-> Least(turns[i].tokens, budget)], peak |-> PeakHeld(turns)]

ShadowKV(turns, reused) ==
    [cost |-> [i \in 1..Len(turns) |->
                 IF i = 1 THEN turns[i].tokens ELSE Most(1, (turns[i].tokens * (10 - reused)) \div 10)],
     peak |-> PeakHeld(turns)]

-----------------------------------------------------------------------------
(* Offloading: w is [layers, compute, warm, cold, capacity]; the strategies   *)
(* differ in what a layer that is not resident costs to fetch.               *)

Resident(w) == Least(w.capacity, w.layers)

(* The first fetch stalls; each other one overlaps the compute before it. *)
pipeline_total(layers, compute, fetches) ==
    LET following == Append(Tail(fetches), 0)
    IN [total |-> fetches[1] + SumOver(following, LAMBDA f : Most(compute, f)),
        hidden |-> SumOver(following, LAMBDA f : Least(compute, f))]

Pipelined(w, resident, held, fetch) ==
    LET fetches == [layer \in 1..w.layers |-> IF layer <= resident THEN held ELSE fetch]
    IN pipeline_total(w.layers, w.compute, fetches) @@
       [issued |-> SumOver(fetches, LAMBDA f : f), resident |-> resident, recompute |-> 0]

SequentialOffload(w) ==
    LET issued == (w.layers - Resident(w)) * w.warm
    IN [total |-> w.layers * w.compute + issued, hidden |-> 0, issued |-> issued,
        resident |-> Resident(w), recompute |-> 0]

LayerKVOffload(w) == Pipelined(w, Resident(w), 0, w.warm)

(* In halves: INF2 moves part of the cold fetch, and computes in storage;     *)
(* InfiniGen fetches the critical fraction.                                  *)
Inf2Offload(w, storage) == Pipelined(w, Resident(w), 0, (w.cold \div 2) + storage)
InfiniGenOffload(w) == Pipelined(w, Resident(w), 0, w.warm \div 2)

(* Oneiros makes room by streaming parameters, for every layer. *)
OneirosOffload(w, freed, stream) ==
    Pipelined(w, Least(w.capacity + freed, w.layers), stream, w.warm + stream)

(* KVPR recomputes half of a layer while it fetches the other half. *)
KVPROffload(w) ==
    LET offloaded == w.layers - Resident(w)
        recompute == w.compute \div 2
        transfer == w.warm \div 2
    IN [total |-> w.layers * w.compute + offloaded * Most(recompute, transfer),
        hidden |-> offloaded * Least(recompute, transfer), issued |-> offloaded * transfer,
        resident |-> Resident(w), recompute |-> offloaded * recompute]

-----------------------------------------------------------------------------
(* KIVICompressor over one channel: whole groups are quantised between their  *)
(* least and greatest value, the rest is kept.                               *)

(* round(a / b), halves to even. *)
RoundDiv(a, b) ==
    LET q == a \div b
        r == 2 * (a % b)
    IN IF r > b \/ (r = b /\ q % 2 = 1) THEN q + 1 ELSE q

CompressGroup(group, levels) ==
    LET low == Min(ToSet(group))
        spread == Max(ToSet(group)) - low
    IN [zero |-> low, spread |-> IF spread > 0 THEN spread ELSE levels,
        codes |-> [i \in 1..Len(group) |-> RoundDiv((group[i] - low) * levels, IF spread > 0 THEN spread ELSE levels)]]

Compress(kv, size, levels) ==
    LET whole == Len(kv) \div size
    IN [groups |-> [g \in 1..whole |-> CompressGroup(SubSeq(kv, (g - 1) * size + 1, g * size), levels)],
        residual |-> SubSeq(kv, whole * size + 1, Len(kv))]

(* Values in units of 1 / levels. *)
Decompress(c, levels) ==
    FlattenSeq([g \in 1..Len(c.groups) |->
                  [i \in 1..Len(c.groups[g].codes) |->
                     c.groups[g].zero * levels + c.groups[g].codes[i] * c.groups[g].spread]])
    \o [i \in 1..Len(c.residual) |-> c.residual[i] * levels]

(* KVQuantCompressor over one channel: values far from the mean are kept,     *)
(* those within `spread2` times the variance are coded by quantile, and come *)
(* back as the mean of those coded alike, here <<sum, count>>.               *)
Outliers(kv, spread2) ==
    LET n == Len(kv)
        sum == SumOver(kv, LAMBDA v : v)
        squares == SumOver(kv, LAMBDA v : v * v)
        off(v) == n * v - sum
    IN {i \in 1..n : off(kv[i]) * off(kv[i]) > spread2 * (n * squares - sum * sum)}

Boundaries(values, levels) ==
    LET sorted == SortedBy(values, LAMBDA v : 0 - v)
        n == Len(sorted)
    IN [k \in 1..(levels - 1) |-> sorted[1 + Least(RoundDiv(k * n, levels), n - 1)]]

(* bisect_right, for the buckets as for the codes. *)
CodeOf(value, boundaries) == Cardinality({k \in 1..Len(boundaries) : boundaries[k] <= value})

(* A bucket nothing is in has the mean of the channel. *)
Codebook(inliers, kv, boundaries, code) ==
    LET bucket == SelectSeq(inliers, LAMBDA v : CodeOf(v, boundaries) = code)
        of == IF bucket = <<>> THEN kv ELSE bucket
    IN <<SumOver(of, LAMBDA v : v), Len(of)>>

KVQuant(kv, spread2, levels) ==
    LET out == Outliers(kv, spread2)
        inliers == SelectSeq([i \in 1..Len(kv) |-> i], LAMBDA i : i \notin out)
        values == [k \in 1..Len(inliers) |-> kv[inliers[k]]]
        boundaries == IF values = <<>> THEN <<>> ELSE Boundaries(values, levels)
    IN [outliers |-> [i \in out |-> kv[i]],
        codebook |-> [code \in 0..(levels - 1) |-> Codebook(values, kv, boundaries, code)],
        codes |-> [i \in 1..Len(kv) |-> IF i \in out THEN -1 ELSE CodeOf(kv[i], boundaries)]]

KVQuantDecompress(c) ==
    [i \in 1..Len(c.codes) |-> IF i \in DOMAIN c.outliers THEN <<c.outliers[i], 1>> ELSE c.codebook[c.codes[i]]]

(* payload_bits of a KIVI payload: codes are narrow, scales, zero points and  *)
(* residual rows are floats, and the group size is one more integer.         *)
PayloadBits(c, width) ==
    width * (1 + SumOver(c.groups, LAMBDA g : Len(g.codes))) + 32 * (2 * Len(c.groups) + Len(c.residual))

(* The eviction of RealTimeChatPipeline.execute: what stays after each turn,  *)
(* scored by recency, with a budget.  Until a turn has tokens there is        *)
(* nothing to score.                                                         *)
ChatResident(new_tokens, budget, recent_window) ==
    IF new_tokens[1] = 0 THEN ValueError
    ELSE [k \in 1..Len(new_tokens) |->
            LET held == SumOver(SubSeq(new_tokens, 1, k), LAMBDA n : n)
            IN KeepHeavyAndRecent([i \in 1..held |-> i], Least(budget, held), recent_window)]

(* LongContextPipeline.execute: evict, compress, offload. *)
LongContext(kv, scores, budget, recent_window, size, levels, width, w) ==
    LET kept == KeepHeavyAndRecent(scores, budget, recent_window)
        rows == SelectSeq([i \in 1..Len(kv) |-> [at |-> i, v |-> kv[i]]], LAMBDA r : r.at \in kept)
        packed == Compress([i \in 1..Len(rows) |-> rows[i].v], size, levels)
        layers == Most(1, PayloadBits(packed, width) \div 32)
        run == LayerKVOffload([w EXCEPT !.layers = layers])
    IN IF kv = <<>> \/ kept = ValueError THEN ValueError
       ELSE [kept |-> kept, layers |-> layers, resident |-> Least(run.resident, layers)]
=============================================================================
