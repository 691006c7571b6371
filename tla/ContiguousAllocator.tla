-------------------------- MODULE ContiguousAllocator --------------------------
(***************************************************************************)
(* ContiguousKVAllocator: each sequence occupies one run of a flat pool;   *)
(* runs are found first fit, a fork copies, growth may relocate.           *)
(***************************************************************************)
EXTENDS KVSequences, SequencesExt

CONSTANT TotalSlots

ASSUME ContiguousAssumption == TotalSlots \in Nat \ {0} /\ None \notin Nat \X Nat

VARIABLE regions      \* sequence -> <<start, length>>

ContiguousInit == regions = [s \in SequenceIds |-> None]

Others(ignoring) == {s \in SequenceIds : regions[s] # None /\ s # ignoring}

Occupied(ignoring) == {regions[s] : s \in Others(ignoring)}

(* The order of sorted() on (start, length) pairs. *)
Before(r, t) == r[1] < t[1] \/ (r[1] = t[1] /\ r[2] < t[2])

(* The cursor of the scan behind the regions it has passed: max() over them. *)
Cursor(passed) == Max({0} \cup {r[1] + r[2] : r \in passed})

Passed(r, occupied) == {t \in occupied : Before(t, r)}

(* The cursors with room for `size` slots before the next region or, behind  *)
(* all of them, before the end of the pool.                                  *)
Runs(size, occupied) ==
    {Cursor(Passed(r, occupied)) :
       r \in {t \in occupied : t[1] >= Cursor(Passed(t, occupied)) + size}}
    \cup {c \in {Cursor(occupied)} : TotalSlots >= c + size}

(* The cursor never moves down: the first run the scan meets is the lowest. *)
Scan(size, occupied) ==
    LET runs == Runs(size, occupied)
    IN CASE size = 0 -> 0
         [] size # 0 /\ runs # {} -> Min(runs)
         [] OTHER -> None

(* Fault: the region that is about to move still counts as in the way. *)
_find_run_InTheWay(size, ignoring) == Scan(size, Occupied(None))

_find_run(size, ignoring) == Scan(size, Occupied(ignoring))

(* The region of s becomes a run of n slots at `at`, if there is one. *)
Place(s, at, n, ok) ==
    /\ ok = (at # None)
    /\ regions' = IF ok THEN [regions EXCEPT ![s] = <<at, n>>] ELSE regions

ContiguousAllocate(s, n, ok) == regions[s] = None /\ Place(s, _find_run(n, None), n, ok)

(* Fault: only the last slot of the run is looked at. *)
Blocked_LastSlot(s, start, n) ==
    \E t \in Others(s) : regions[t][1] < start + n /\ regions[t][1] + regions[t][2] >= start + n

(* Another region in the way of a run of n slots from `start`. *)
Blocked(s, start, n) ==
    \E t \in Others(s) : regions[t][1] < start + n /\ regions[t][1] + regions[t][2] > start

ContiguousExtend(s, n, ok) ==
    /\ regions[s] # None
    /\ LET start == regions[s][1]
           target == regions[s][2] + n
           inPlace == ~Blocked(s, start, target) /\ start + target <= TotalSlots
       IN Place(s, IF inPlace THEN start ELSE _find_run(target, s), target, ok)

ContiguousFork(parent, child, ok) ==
    regions[parent] # None /\ ContiguousAllocate(child, regions[parent][2], ok)

ContiguousFree(s) == regions[s] # None /\ regions' = [regions EXCEPT ![s] = None]

-----------------------------------------------------------------------------
(* The sum of some lengths: as many pairs as there are units in them. *)
Summed(length) == Cardinality(UNION {{i} \X (1..length[i]) : i \in DOMAIN length})

contiguous_slots_used == Summed([s \in Others(None) |-> regions[s][2]])

(* The gap the scan meets from `cursor` on, if there is one. *)
Gap(cursor, end) == IF end > cursor THEN {<<cursor, end - cursor>>} ELSE {}

(* The code lists the lengths only; here each run is <<start, length>>. *)
contiguous_free_runs ==
    LET occupied == Occupied(None)
    IN Gap(Cursor(occupied), TotalSlots) \cup UNION {Gap(Cursor(Passed(r, occupied)), r[1]) : r \in occupied}

Slots(s) == {regions[s][1] + i : i \in 0..(regions[s][2] - 1)}

(* No slot of the pool belongs to two sequences, whatever the order in       *)
(* which they grow, move and end, and none lies outside the pool.            *)
RegionsDisjoint ==
    \A s \in Others(None) :
       /\ \A i \in Slots(s) : i < TotalSlots
       /\ \A t \in Others(s) : Slots(s) \cap Slots(t) = {}

Fits(start, size, ignoring) ==
    /\ start + size <= TotalSlots
    /\ \A t \in Others(ignoring) :
          regions[t][1] >= start + size \/ regions[t][1] + regions[t][2] <= start

(* The scan refuses a request only if there is no run for it at all, and    *)
(* otherwise answers with the lowest one.                                   *)
FirstFit ==
    \A n \in 1..TotalSlots, s \in SequenceIds \cup {None} :
       LET runs == {a \in 0..TotalSlots : Fits(a, n, s)}
           found == _find_run(n, s)
       IN IF runs = {} THEN found = None
          ELSE found \in runs /\ \A a \in runs : found <= a
=============================================================================
