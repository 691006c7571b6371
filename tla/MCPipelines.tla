----------------------------- MODULE MCPipelines -----------------------------
(* Small instances of Pipelines: for each kind of call, the arguments that    *)
(* are tried.                                                                *)
EXTENDS Pipelines

SmallShares == [cag |-> 40, mag |-> 25, rag |-> 20, query |-> 10, reserve |-> 5]

Item(p, s, c) == [paradigm |-> p, score |-> s, cost |-> c]
SmallCases ==
    [total : {40, 57}, tokens : {1, 5}, scores : {None, [cag |-> 6, mag |-> None, rag |-> 11]} \cup [Paradigms -> {0, 4, 6}],
     items : {<<>>, <<Item("cag", 1, 9), Item("cag", 3, 14), Item("cag", 2, 7)>>,
              <<Item("mag", 2, 8), Item("rag", 1, 6), Item("mag", 3, 12)>>,
              <<Item("rag", 3, 9), Item("cag", 1, 20), Item("rag", 2, 30), Item("rag", 1, 8)>>}]

UpTo(S, n) == UNION {[1..k -> S] : k \in 0..n}
Lists(S) == {s \in UpTo(S, Cardinality(S)) : NoRepeats(s)}
Perms(S) == {s \in [1..Cardinality(S) -> S] : NoRepeats(s)}
ABC == {"a", "b", "c"}

Message(type, bytes, more) == [type |-> type, bytes |-> bytes, more |-> more]
IntakeJobs ==
    {[kind |-> "body", declared |-> declared, limit |-> 3,
      messages |-> Append([i \in 1..Len(parts) |-> Message("http.request", parts[i], TRUE)], end)] :
       declared \in {None, 0, 3, 4}, parts \in UpTo(0..4, 3),
       end \in {Message("http.request", 0, FALSE), Message("http.request", 2, FALSE), Message("http.request", 1, TRUE),
               Message("http.disconnect", 0, FALSE)}}
    \cup {[kind |-> "vote", k |-> k, exemplars |-> [i \in 1..3 |-> [similarity |-> s[i], paradigms |-> ps[i]]]] :
            s \in [1..3 -> -1..2], ps \in [1..3 -> {{"cag"}, {"rag"}, {"mag", "rag"}}], k \in {1, 2}}
    \cup [kind : {"address"}, peer : {"peer"}, hops : UpTo({"x", "y", "z"}, 4), count : 0..2]

RetrieverJobs ==
    [kind : {"multi_query"}, inner : [{"q", "v"} -> Lists(ABC)], top_k : {1, 3},
     lines : {<<>>, <<None>>, <<"q", "v">>, <<"v", None, "q">>}]
    \cup [kind : {"hybrid"}, vector : Lists(ABC \cup {"d"}), keyword : Lists(ABC), candidate_k : {2, 4}, top_k : {1, 3}]
    \cup {[kind |-> "search", tenant |-> "t", top_k |-> top_k,
           stored |-> [i \in 1..3 |-> [id |-> i, tenant |-> tenants[i], score |-> scores[i]]]] :
            tenants \in [1..3 -> {None, "t", "u"}], scores \in [1..3 -> 0..2], top_k \in 1..2}
    \cup [kind : {"hyde"}, inner : [{"q", "v"} -> Lists({"a", "b"})], answer : {"q", "v"}, top_k : {1}]
    \cup [kind : {"encoders"}, found : Lists(ABC), score : [ABC -> {-1, 0, 1}], overlap : [ABC -> {0, 2}], top_k : {2}]
    \cup [kind : {"parents"}, children : {<<"a", "b", "c">>, <<"b", "a">>}, parent : [ABC -> {None, "p", "r"}],
          stored : SUBSET (ABC \cup {"p", "r"})]
    \cup [kind : {"corrective"}, inner : [{"q", "v"} -> Lists({"a", "b"})],
          grades : [{"a", "b"} -> {"yes", "no", "unread"}], refined : {None, "v"}, top_k : {1, 2}]
    \cup [kind : {"self_rag"}, inner : [{"q"} -> Lists({"a", "b"})], gate : {"yes", "no", "unread"}, top_k : {1}]
    \cup [kind : {"rerank"}, found : Lists(ABC), candidate_k : {2, 3}, score : [ABC -> {None, 1, 2}], top_k : {1, 2}]
    \cup [kind : {"state_aware"}, rewritten : {None, "v"}, base : [ABC -> {1, 3}], overlap : [ABC -> {0, 2}],
          inner : {[q |-> <<"a", "b", "c">>, v |-> <<"c", "a">>]}, facts : {0, 2}, candidate_k : {2, 3}, top_k : {1, 2}]
    \cup [kind : {"compress"}, target : 0..4,
          texts : LET S == [score : 1..2, tokens : 1..2]
                  IN {<<s, t>> : s, t \in [1..2 -> S]} \cup {<<s>> : s \in [1..3 -> S]}]
    \cup [kind : {"warmed"}, warmed : Perms(ABC) \cup {<<>>}, similarity : [ABC -> 0..2], held : SUBSET ABC,
          threshold : {1}, inner : {[q |-> <<"d">>]}, top_k : {1}]

ChunkerJobs ==
    [kind : {"fixed"}, width : UpTo(1..3, 4) \cup [1..9 -> {1}], size : 1..4,
     ratio : {<<0, 1>>, <<1, 3>>, <<1, 2>>, <<3, 4>>, <<1, 1>>}]
    \cup UNION {[kind : {"parent_child"}, width : [1..n -> {1, 2}], again : [1..n -> {1, 2}], parent : 3..5, size : {2},
                 ratio : {<<0, 1>>, <<1, 2>>}] : n \in 0..5}
    \cup [kind : {"sentences"}, cost : UpTo(1..3, 4), size : {2, 3}]
    \cup {j \in [kind : {"semantic"}, cost : UpTo(1..2, 4), sims : UpTo(0..2, 3), size : {3}] :
            Len(j.sims) = (IF j.cost = <<>> THEN 0 ELSE Len(j.cost) - 1)}
    \cup [kind : {"structure"}, lines : UpTo({"heading", "text", "fence"}, 5), heading : {1, 3}, size : {2}]

Entry(e, s) == [episode |-> e, score |-> s]
Procedure(p, w, r) == [pattern |-> p, workflow |-> w, rate |-> r]
Seen(at, salience, similarity, session, names) ==
    [i \in 1..3 |-> [id |-> i, session |-> IF i = 3 THEN session ELSE "s", at |-> at[i],
                     salience |-> salience[i], similarity |-> similarity[i],
                     names |-> IF i \in names THEN {"n"} ELSE {}]]
Episode(id, score, sim, at) == [id |-> id, score |-> score, similarity |-> sim, at |-> at, tokens |-> 1]
Node(id, score, at) == [id |-> id, score |-> score, at |-> at, tokens |-> 1]

MemoryJobs ==
    {[kind |-> "facts", owner |-> "u", now |-> 2, top_k |-> top_k,
      stored |-> [i \in 1..3 |-> [id |-> i, owner |-> IF i = foreign THEN "v" ELSE "u", until |-> until[i],
                                  archived |-> IF i = archived THEN 1 ELSE None, score |-> scores[i]]]] :
       foreign \in 0..3, archived \in 0..3, until \in [1..3 -> {None, 1, 2, 3}],
       scores \in {<<1, 2, 3>>, <<3, 2, 1>>, <<2, 2, 0>>}, top_k \in 1..2}
    \cup
    [kind : {"causal"}, episodes : {<<[id |-> 1, at |-> 0], [id |-> 2, at |-> at]>> : at \in {-1, 0, 1}}, top_k : {1, 2},
     replies : UpTo({None, <<Entry(1, 5), Entry(2, 7)>>, <<Entry(3, 5)>>, <<Entry(2, 3), Entry(2, 0)>>}, 4)]
    \cup [kind : {"procedures"},
          replies : UpTo({None, <<Procedure("p", "w", 5), Procedure("q", "w", 5), Procedure("p", "x", 9)>>,
                          <<Procedure("p", "w", 5), Procedure("q", "w", 11)>>, <<Procedure(None, "w", 5)>>}, 4)]
    \cup [kind : {"classify"}, existing : {None, "fact"}, replies : UpTo({"update", "refine", "no_conflict", "unread"}, 4)]
    \cup {[kind |-> "recency_fusion", episodes |-> Seen(at, salience, similarity, session, names),
           query |-> [top_k |-> top_k, session |-> "s", within |-> within, with |-> strategies, entity |-> "n",
                      replies |-> replies, half_life |-> half_life, weights |-> weights, now |-> 2]] :
            at \in {<<2, 1, 0>>, <<0, 2, 1>>, <<1, 1, 2>>}, salience \in [1..3 -> {0, 2}],
            similarity \in {<<0, 1, 2>>, <<2, 1, 0>>, <<2, 0, 2>>}, session \in {"s", "t"}, names \in {{1}, {2, 3}},
            top_k \in {1, 3}, within \in {None, <<1, 2>>},
            strategies \in {{}, {"semantic", "entity"}, {"causal"}, {"semantic", "causal", "entity"}},
            replies \in {<<None, <<>>, <<Entry(1, 1)>> >>, <<<<Entry(2, 2)>> >>, <<<<Entry(1, 1), Entry(2, 3)>> >>},
            half_life \in {0, 1}, weights \in {None, [salience |-> 1, semantic |-> 2, causal |-> 3]}}
    \cup {[kind |-> "gate", reranks |-> reranks, allowed |-> allowed, budget |-> budget, now |-> 2, half_life |-> half_life,
           episodes |-> <<Episode(1, score, sim, at), Episode(2, score, sim, later)>>,
           facts |-> <<[id |-> 3, score |-> 1, similarity |-> sim, tokens |-> 2]>>,
           nodes |-> <<Node(4, score, at), Node(5, score, later)>>] :
            score \in {NaN, -1, 0, 2}, sim \in {None, -1, 1}, at \in 0..1,
            later \in 0..2, reranks \in BOOLEAN, allowed \in {None, {"fact"}, {"graph_node", "episode"}},
            budget \in {-1, 1, 2, 3, 5}, half_life \in {0, 1}}
    \cup {[kind |-> "working", pushed |-> [i \in 1..Len(at) |-> [turn |-> i, at |-> at[i]]],
           ttl |-> 2, now |-> now, limit |-> limit] :
            at \in {s \in UpTo(0..4, 4) : \A i \in 1..(Len(s) - 1) : s[i] <= s[i + 1]},
            now \in 4..6, limit \in {-1, 0, 1, 2, 5}}
    \cup {[kind |-> "activation",
           graph |-> [owner |-> [n \in 1..4 |-> IF n = foreign THEN "u" ELSE "t"], edges |-> edges,
                      name |-> <<"A", "B", "C", last>>, entities |-> {1, 2, 4}, asked |-> asked, tenant |-> "t",
                      hops |-> hops, decay |-> decay, threshold |-> threshold]] :
            foreign \in {0, 2, 4}, edges \in SUBSET {{1, 2}, {1, 3}, {2, 3}, {2, 4}, {3, 4}}, last \in {"A", "C", "D"},
            asked \in {{"A"}, {"A", "B"}, {"E"}}, hops \in {0, 2, 3, 4}, decay \in {1, 2}, threshold \in {2, 4, 16}}

DecodeJobs ==
    [kind : {"decode"}, prompt : [1..3 -> {0, 1}], next : [{0, 1} \X {0, 1} -> {0, 1}],
     generator : {"prompt_lookup", "lookahead", "medusa"}, n : {2}, limit : {4}, tokens : {{0, 1}}]

EvictorJobs ==
    [kind : {"h2o"}, scores : UpTo(0..2, 4), budget : 0..4, recent : 0..2]
    \cup [kind : {"snapkv"}, scores : [1..4 -> 0..2], budget : 1..4, recent : {0, 1}, kernel : {1, 3}]
    \cup [kind : {"morphkv"}, windows : [1..2 -> [1..3 -> 0..1]] \cup {<<>>, <<<<1>>, <<1, 0>> >>}, budget : 0..4]
    \cup {j \in [kind : {"nacl"}, scores : [1..3 -> 0..1] \cup {<<>>}, budget : 0..4, chance : 0..4] : j.chance <= j.budget}
    \cup [kind : {"hashevict"}, bucket : UpTo(1..3, 4), budget : 0..3]
    \cup [kind : {"distill"}, tokens : 0..9, budget : 0..5]

EngineJobs ==
    [kind : {"batch"}, block : {2}, size : {2},
     pending : UpTo({<<0>>, <<0, 1>>, <<0, 0>>, <<0, 1, 1>>, <<0, 1, 0>>, <<1, 1>>}, 3)]
    \cup {[kind |-> "session", resident |-> resident,
           turns |-> [i \in 1..Len(parents) |-> [id |-> i, tokens |-> IF i = empty THEN 0 ELSE i, parent |-> parents[i]]]] :
            parents \in UpTo({None, 1, 2, 3, 9}, 4), resident \in {0, 2}, empty \in 0..2}
    \cup [kind : {"offload"}, storage : {1}, freed : 0..1, stream : {0, 1},
          w : [layers : 1..3, compute : {0, 2, 4}, warm : {0, 2, 4}, cold : {4}, capacity : 0..3]]
    \cup [kind : {"quantise"}, kv : UpTo(0..4, 4) \ {<<>>}, size : {2, 3}, levels : {1, 3}]
    \cup [kind : {"kvquant"}, kv : UpTo({0, 1, 2, 6}, 5) \ {<<>>}, spread2 : {2}, levels : {2, 4}]
    \cup [kind : {"chat"}, new_tokens : UpTo(0..2, 3) \ {<<>>}, budget : 1..3, recent : 0..2]
    \cup [kind : {"long_context"}, kv : {<<1, 4, 2, 3>>}, scores : [1..4 -> 0..1], budget : 0..4, recent : 0..2,
          size : {2}, levels : {3}, width : {2}, w : [layers : {1}, compute : {10}, warm : {6}, cold : {40}, capacity : 1..3]]

SmallJobs ==
    {[kind |-> "answer"], [kind |-> "embed"]} \cup IntakeJobs \cup RetrieverJobs \cup ChunkerJobs \cup MemoryJobs
    \cup DecodeJobs \cup EvictorJobs \cup EngineJobs
=============================================================================
