--------------------------- MODULE EmbeddingCache ---------------------------
(***************************************************************************)
(* CachingEmbeddingModel, shared by the threads that embed questions.  The   *)
(* lock is held twice in a call: for the lookup, and to store what the inner *)
(* model computed in between, without the lock.                             *)
(***************************************************************************)
EXTENDS Ranking

CONSTANTS Threads, Texts, max_entries,
          MaxEmbeds                    \* bound: calls of embed

ASSUME EmbeddingAssumption == max_entries \in Nat \ {0} /\ "none" \notin Texts

VARIABLES entries,      \* texts held, the least recently used first
          hits, misses,
          thread,       \* thread -> the text it embeds, or "none"
          touched       \* history: texts in the order they were used or stored
embeddingVars == <<entries, hits, misses, thread, touched>>

EmbeddingInit ==
    entries = <<>> /\ hits = 0 /\ misses = 0 /\ thread = [t \in Threads |-> "none"] /\ touched = <<>>

Calls == hits + misses + Cardinality({t \in Threads : thread[t] # "none"})

(* Fault: a hit leaves the entry where it was. *)
MovedToEnd_Not(held, text) == IF text \in ToSet(held) THEN held ELSE Append(held, text)

MovedToEnd(held, text) ==
    Append(IF text \in ToSet(held) THEN RemoveAt(held, At(held, text)) ELSE held, text)

Hit(t, text) ==
    /\ thread[t] = "none" /\ Calls < MaxEmbeds /\ text \in ToSet(entries)
    /\ entries' = MovedToEnd(entries, text) /\ hits' = hits + 1 /\ touched' = Append(touched, text)
    /\ UNCHANGED <<misses, thread>>

Miss(t, text) ==
    /\ thread[t] = "none" /\ Calls < MaxEmbeds /\ text \notin ToSet(entries)
    /\ thread' = [thread EXCEPT ![t] = text]
    /\ UNCHANGED <<entries, hits, misses, touched>>

(* Stores whatever another thread stored meanwhile, and drops the oldest. *)
Store(t) ==
    /\ thread[t] # "none" /\ thread' = [thread EXCEPT ![t] = "none"]
    /\ misses' = misses + 1 /\ touched' = Append(touched, thread[t])
    /\ LET held == MovedToEnd(entries, thread[t])
       IN entries' = IF Len(held) > max_entries THEN Tail(held) ELSE held
    /\ UNCHANGED hits

(* The inner model raised: nothing is stored or counted. *)
EmbedFails(t) ==
    /\ thread[t] # "none" /\ thread' = [thread EXCEPT ![t] = "none"]
    /\ UNCHANGED <<entries, hits, misses, touched>>

EmbeddingNext ==
    \E t \in Threads : (\E text \in Texts : Hit(t, text) \/ Miss(t, text)) \/ Store(t) \/ EmbedFails(t)

(* Where `text` is for the last time in `s`. *)
LastUse(s, text) == CHOOSE i \in 1..Len(s) : s[i] = text /\ \A j \in (i + 1)..Len(s) : s[j] # text

(* Whatever the threads' order, the cache holds the texts last used, as many  *)
(* as it may, and counts every use once.                                     *)
HoldsMostRecent ==
    LET later(text) == {other \in ToSet(touched) : LastUse(touched, other) > LastUse(touched, text)}
    IN /\ ToSet(entries) = {text \in ToSet(touched) : Cardinality(later(text)) < max_entries}
       /\ NoRepeats(entries) /\ hits + misses = Len(touched)
=============================================================================
