------------------------------- MODULE Ranking -------------------------------
(***************************************************************************)
(* What Python's sorted, slices and the greedy budget loops of the          *)
(* retrievers have in common.                                               *)
(***************************************************************************)
EXTENDS Integers, Sequences, FiniteSets, FiniteSetsExt, SequencesExt

CONSTANTS None,            \* of the Python code
          ValueError       \* what a call comes to that raises it

FirstN(s, n) == SubSeq(s, 1, IF n < Len(s) THEN n ELSE Len(s))

(* sorted(s, key=key, reverse=True): equal keys keep their order. *)
SortedBy(s, key(_)) ==
    FoldLeft(LAMBDA done, x :
               LET before == Cardinality({i \in 1..Len(done) : key(done[i]) >= key(x)})
               IN SubSeq(done, 1, before) \o <<x>> \o SubSeq(done, before + 1, Len(done)), <<>>, s)

SumOver(s, f(_)) == FoldLeft(LAMBDA n, x : n + f(x), 0, s)

(* An element that does not fit is skipped, and the walk goes on. *)
Fitting(s, cost(_), budget) ==
    FoldLeft(LAMBDA kept, x :
               IF SumOver(kept, cost) + cost(x) > budget THEN kept ELSE Append(kept, x), <<>>, s)

(* The positions of what `s` and `t` both list, each listed once in `t`. *)
At(t, x) == CHOOSE i \in 1..Len(t) : t[i] = x
Before(t, x, y) == x \in ToSet(t) /\ y \in ToSet(t) /\ At(t, x) < At(t, y)
NoRepeats(t) == Cardinality(ToSet(t)) = Len(t)
=============================================================================
