------------------------------ MODULE Answering ------------------------------
(***************************************************************************)
(* UnifiedAnswerQuestion.execute: embed, route, run the cascade, divide the *)
(* context budget, assemble, record, generate.  The MAG search the cascade  *)
(* starts owns a database session (SessionScopedSemanticFactSearch) and may *)
(* be cancelled by the tier's timeout, or with the request, at any await.   *)
(*                                                                         *)
(* Scores and shares are integers: a score is one of 0..10, shares are      *)
(* percentages.  What the tiers answer is an input; LatencyCascade models   *)
(* how they get there.                                                      *)
(***************************************************************************)
EXTENDS Ranking

CONSTANTS SelectThreshold, Margin,       \* of decide, in tenths
          Shares,                        \* paradigm and "query" -> percent
          Cases                          \* bound: [total, tokens, scores, items] records; scores are
                                         \* None (no classifier) or what it said of each paradigm

Paradigms == {"cag", "mag", "rag"}

ASSUME AnsweringAssumption ==
    /\ SelectThreshold \in 0..10 /\ Margin \in 0..10
    /\ Shares \in [Paradigms \cup {"query", "reserve"} -> 0..100]
    /\ Shares["cag"] + Shares["mag"] + Shares["rag"] + Shares["query"] + Shares["reserve"] = 100

ASSUME CasesAssumption ==
    /\ \A c \in Cases : /\ c.total \in Nat /\ c.tokens \in Nat
                        /\ c.items \in Seq([paradigm : Paradigms, score : Int, cost : Nat])
    /\ None \notin {"classifier_timeout", "classifier_error"}
    /\ None \notin [Paradigms \cup {"query", "reserve"} -> Int]

VARIABLES case,        \* what the request and the tiers bring along
          stage, decision, fallback, slices, recorded,
          found,       \* the items of the tiers that answered: positions in case.items
          kept, dropped,
          db,          \* the session of the MAG search
          facts,       \* has the search got its rows?
          cancelled    \* has the search been cancelled?

requestVars == <<stage, decision, fallback, found, slices, kept, dropped, recorded>>
searchVars == <<db, facts, cancelled>>
answeringVars == <<case, requestVars, searchVars>>

AnsweringInit(start) ==
    /\ stage = start /\ decision = None /\ fallback = None /\ found = {}
    /\ slices = None /\ kept = {} /\ dropped = None /\ recorded = None
    /\ db = "none" /\ facts = FALSE /\ cancelled = FALSE

-----------------------------------------------------------------------------
(* Pure parts: paradigm_router, budget_allocator, assemble_context. *)

fallback_decision == [paradigms |-> Paradigms, mode |-> "parallel"]

Distance(score) == IF score >= SelectThreshold THEN score - SelectThreshold ELSE SelectThreshold - score

decide(scores) ==
    LET selected == {p \in Paradigms : scores[p] >= SelectThreshold}
        uncertain == {p \in Paradigms : Distance(scores[p]) < Margin}
    IN IF selected = {} THEN fallback_decision
       ELSE [paradigms |-> selected \cup uncertain,
             mode |-> IF uncertain = {} THEN "cascade" ELSE "parallel"]

(* PrototypeQueryClassifier.score: each paradigm's share, `of` over `total`,   *)
(* of the similarity of the k nearest exemplars; no share if there is none.  *)
PrototypeScores(exemplars, k) ==
    LET weight(e) == IF e.similarity > 0 THEN e.similarity ELSE 0
        nearest == FirstN(SortedBy(exemplars, LAMBDA e : e.similarity), k)
        of(p) == SumOver(SelectSeq(nearest, LAMBDA e : p \in e.paradigms), weight)
    IN [total |-> SumOver(nearest, weight), of |-> [p \in Paradigms |-> of(p)]]

Slice(total, name) == (total * Shares[name]) \div 100

(* Who gets what an idle paradigm does not need: the first of two for RAG    *)
(* and CAG, both for MAG.                                                    *)
_recipients(idle, active) ==
    LET first(a, b) == IF a \in active THEN {a} ELSE {b} \cap active
    IN CASE idle = "rag" -> first("mag", "cag")
         [] idle = "cag" -> first("rag", "mag")
         [] idle = "mag" -> {"cag", "rag"} \cap active

Total(S, f(_)) ==
    LET of(p) == IF p \in S THEN f(p) ELSE 0 IN of("cag") + of("mag") + of("rag")

(* What `p` gets of the slice of `idle`: all of it, or in proportion. *)
Portion(total, idle, active, p) ==
    LET to == _recipients(idle, active)
        weight == Total(to, LAMBDA q : Shares[q])
    IN CASE p \notin to -> 0
         [] p \in to /\ Cardinality(to) = 1 -> Slice(total, idle)
         [] p \in to /\ Cardinality(to) > 1 ->
              IF weight = 0 THEN 0 ELSE (Slice(total, idle) * Shares[p]) \div weight

Received(total, active, p) ==
    Total(Paradigms \ active, LAMBDA idle : Portion(total, idle, active, p))

(* Fault: a paradigm gives its slice away and keeps it. *)
Divided_Kept(total, active, p) == Slice(total, p) + Received(total, active, p)

(* The slice of an idle paradigm is given away once, as it is at first. *)
Divided(total, active, p) ==
    IF p \in active THEN Slice(total, p) + Received(total, active, p) ELSE 0

(* What has no recipient, and what flooring leaves, is reserve. *)
allocate(total, active) ==
    LET base == Total(Paradigms, LAMBDA p : Slice(total, p))
        given == Total(Paradigms \ active, LAMBDA p : Slice(total, p))
        taken == Total(active, LAMBDA p : Received(total, active, p))
    IN [cag |-> Divided(total, active, "cag"), mag |-> Divided(total, active, "mag"),
        rag |-> Divided(total, active, "rag"), query |-> Slice(total, "query"),
        reserve |-> (total - base - Slice(total, "query")) + (given - taken)]

(* The n-th of the positions I in sorted(..., key=score, reverse=True): equal  *)
(* scores keep their order.                                                  *)
Ahead(items, i, j) == items[i].score > items[j].score \/ (items[i].score = items[j].score /\ i < j)
Ranked(items, I, n) == CHOOSE i \in I : Cardinality({j \in I : Ahead(items, j, i)}) = n - 1

(* One more item: one that does not fit is skipped. *)
Packed(so_far, i, cost, budget) ==
    LET fits == so_far.tokens_used + cost <= budget
    IN [kept |-> so_far.kept \cup (IF fits THEN {i} ELSE {}),
        dropped |-> so_far.dropped + (IF fits THEN 0 ELSE 1),
        tokens_used |-> so_far.tokens_used + (IF fits THEN cost ELSE 0)]

(* What is kept after the first n items, best score first. *)
Walk(items, I, budget) ==
    LET walk[n \in 0..Cardinality(I)] ==
          IF n = 0 THEN [kept |-> {}, dropped |-> 0, tokens_used |-> 0]
          ELSE Packed(walk[n - 1], Ranked(items, I, n), items[Ranked(items, I, n)].cost, budget)
    IN walk

Mine(items, S, p) == {i \in S : items[i].paradigm = p}

(* assemble_context: each paradigm's items within its own slice. *)
assemble_context(items, S, slice) ==
    [p \in Paradigms |->
       LET mine == Mine(items, S, p) IN Walk(items, mine, slice[p])[Cardinality(mine)]]

-----------------------------------------------------------------------------
(* execute *)

(* The question has to fit its slice before anything is spent on it. *)
Ask ==
    /\ stage = "asked"
    /\ stage' = IF case.tokens > Slice(case.total, "query") THEN "QueryExceedsBudget" ELSE "route"
    /\ UNCHANGED <<case, decision, fallback, found, slices, kept, dropped, recorded, searchVars>>

(* What the chat model replied for each paradigm; None is nothing, or no     *)
(* number.  One value that is none of 0..1 spoils the reply.                 *)
_parse_scores(reply) == IF \A p \in Paradigms : reply[p] \in 0..10 THEN reply ELSE None

(* _route: scores, a timeout, or any exception, a reply _parse_scores cannot *)
(* read among them.  Without a classifier the cascade runs unrouted.         *)
Route ==
    /\ stage = "route" /\ stage' = "cascade"
    /\ \/ case.scores = None /\ UNCHANGED <<decision, fallback>>
       \/ /\ case.scores # None /\ _parse_scores(case.scores) # None
          /\ decision' = decide(case.scores) /\ fallback' = None
       \/ /\ case.scores # None
          /\ decision' = fallback_decision /\ fallback' \in {"classifier_timeout", "classifier_error"}
    /\ UNCHANGED <<case, found, slices, kept, dropped, recorded, searchVars>>

Tiers == IF decision = None THEN Paradigms ELSE decision.paradigms
SessionOver == db \in {"closed", "invalid", "lost"}

(* The cascade has heard of every tier: MAG's search is over, or given up.   *)
CascadeEnds ==
    /\ stage = "cascade" /\ stage' = "assemble"
    /\ "mag" \in Tiers => SessionOver \/ cancelled
    /\ found' = {i \in 1..Len(case.items) :
                   /\ case.items[i].paradigm \in Tiers
                   /\ case.items[i].paradigm = "mag" => facts /\ ~cancelled}
    /\ UNCHANGED <<case, decision, fallback, slices, kept, dropped, recorded, searchVars>>

Assemble ==
    /\ stage = "assemble" /\ stage' = "record"
    /\ LET contributing == {case.items[i].paradigm : i \in found}
           slice == allocate(case.total, contributing)
           assembled == assemble_context(case.items, found, slice)
       IN /\ slices' = slice
          /\ kept' = UNION {assembled[p].kept : p \in Paradigms}
          /\ dropped' = [p \in Paradigms |-> assembled[p].dropped]
    /\ UNCHANGED <<case, decision, fallback, found, recorded, searchVars>>

(* The recorder's own transaction; the session may be gone or another's.     *)
(* UnifiedAnswerQuestion can be built without a recorder and then goes on at  *)
(* once; the API always passes one.                                          *)
Record ==
    /\ stage = "record"
    /\ \/ stage' = "generate" /\ recorded' = slices
       \/ stage' \in {"SessionNotFound", "RecordFailed"} /\ UNCHANGED recorded
    /\ UNCHANGED <<case, decision, fallback, found, slices, kept, dropped, searchVars>>

Generate ==
    /\ stage = "generate" /\ stage' \in {"answered", "GenerateFailed"}
    /\ UNCHANGED <<case, decision, fallback, found, slices, kept, dropped, recorded, searchVars>>

-----------------------------------------------------------------------------
(* SessionScopedSemanticFactSearch.search. *)

SearchOpen ==
    /\ stage = "cascade" /\ "mag" \in Tiers /\ db = "none" /\ db' = "open"
    /\ UNCHANGED <<case, requestVars, facts, cancelled>>

(* set_tenant_context and the query, close, and the shielded _discard. *)
SearchStep ==
    /\ \/ db = "open" /\ db' = "searched" /\ facts' = TRUE
       \/ db = "open" /\ db' = "discarding" /\ UNCHANGED facts
       \/ db = "searched" /\ db' \in {"closed", "discarding"} /\ UNCHANGED facts
       \/ db = "discarding" /\ db' \in {"invalid", "lost"} /\ UNCHANGED facts
    /\ UNCHANGED <<case, requestVars, cancelled>>

(* Fault: a cancellation is no Exception, and is let through. *)
Aborted_Through(was) == IF was = "discarding" THEN was ELSE "abandoned"

(* What a CancelledError makes of the session: whatever await it hits, the   *)
(* session is discarded, and a discard under way is shielded.                *)
Aborted(was) == "discarding"

CancelSearch ==
    /\ stage = "cascade" /\ db \in {"open", "searched", "discarding"}
    /\ cancelled' = TRUE /\ db' = Aborted(db)
    /\ UNCHANGED <<case, requestVars, facts>>

AnsweringNext ==
    \/ Ask \/ Route \/ CascadeEnds \/ Assemble \/ Record \/ Generate
    \/ SearchOpen \/ SearchStep \/ CancelSearch

-----------------------------------------------------------------------------
Asked == stage # "off"

(* Scores that differ by less than the margin from those of the classifier   *)
(* would not have selected a paradigm the route leaves out.                  *)
RouteRobust ==
    Asked /\ decision # None /\ fallback = None =>
       \A p \in Paradigms \ decision.paradigms :
          \A score \in 0..10 : score > case.scores[p] - Margin /\ score < case.scores[p] + Margin
                                => score < SelectThreshold

(* The tokens of some items: as many pairs as there are tokens in them. *)
CostOf(items, S) == Cardinality(UNION {{i} \X (1..items[i].cost) : i \in S})

(* The context the model is given fits: the question, what each tier had     *)
(* included and the reserve divide exactly the tokens there are, and no tier *)
(* exceeds its slice.                                                        *)
ContextFits ==
    slices # None =>
       /\ slices.cag + slices.mag + slices.rag + slices.query + slices.reserve = case.total
       /\ \A s \in DOMAIN slices : slices[s] >= 0
       /\ case.tokens <= slices.query
       /\ \A p \in Paradigms : CostOf(case.items, Mine(case.items, kept, p)) <= slices[p]

(* No item is dropped that would still have fitted, and none for one that    *)
(* scores less, unless it was too large; every item is kept or counted as     *)
(* dropped.                                                                  *)
DroppedDontFit ==
    dropped # None =>
       /\ kept \subseteq found
       /\ \A p \in Paradigms :
             dropped[p] = Cardinality(Mine(case.items, found, p)) - Cardinality(Mine(case.items, kept, p))
       /\ \A i \in found \ kept :
             LET item == case.items[i]
                 better == {j \in Mine(case.items, kept, item.paradigm) : case.items[j].score >= item.score}
             IN CostOf(case.items, better) + item.cost > slices[item.paradigm]

(* An answer is paid for only when its budget is on record, and the record   *)
(* is that of the answer.                                                    *)
RecordedBeforeAnswer ==
    stage \in {"generate", "answered", "GenerateFailed"} => recorded # None /\ recorded = slices

(* Whatever cancels a search, its session is closed or discarded in the end. *)
SessionsEnd == db = "open" ~> SessionOver
=============================================================================
