----------------------------- MODULE RateLimiter -----------------------------
(***************************************************************************)
(* RedisRateLimiter: fixed windows counted in Redis.  INCR, EXPIRE NX and  *)
(* TTL run in one MULTI, so a check is one step.                           *)
(***************************************************************************)
EXTENDS ApiBase, Sequences

(* A bucket, and whose it is. *)
LimitKeys == {"register", "login", "chat", "sessions", "data-sources", "global"} \X (Users \cup {None})

Counter == [count : Nat \ {0}, expires : Nat]

ASSUME LimiterAssumption == None \notin Counter

VARIABLES counters,     \* key -> Counter, None once Redis dropped it
          passes        \* history: times at which each key was let through

limiterVars == <<counters, passes>>

LimiterInit == /\ counters = [k \in LimitKeys |-> None]
               /\ passes = [k \in LimitKeys |-> <<>>]

Running(key, now) == counters[key] # None /\ counters[key].expires > now

(* Fault: EXPIRE without NX, every call starts the window anew. *)
Counted_Extends(key, window, now) ==
    [count |-> 1 + IF Running(key, now) THEN counters[key].count ELSE 0,
     expires |-> now + window]

Counted(key, window, now) ==
    IF Running(key, now) THEN [counters[key] EXCEPT !.count = @ + 1]
    ELSE [count |-> 1, expires |-> now + window]

Allowed(entry, limit) == entry.count <= limit

check(key, limit, window, now, allowed) ==
    LET entry == Counted(key, window, now)
    IN /\ allowed = Allowed(entry, limit)
       /\ counters' = [counters EXCEPT ![key] = entry]
       /\ passes' = IF allowed THEN [passes EXCEPT ![key] = Append(@, now)] ELSE passes

(* How often key was let through in the `window` ticks before and at t. *)
PassedWithin(key, window, t) ==
    Cardinality({i \in DOMAIN passes[key] : passes[key][i] <= t /\ passes[key][i] + window > t})
=============================================================================
