-------------------------- MODULE KVAllocatorsProofs --------------------------
(***************************************************************************)
(* Theorems about the two allocators and the port they stand behind, for   *)
(* every pool, block size and set of sequences.                            *)
(***************************************************************************)
EXTENDS KVAllocators, TLAPS, FiniteSetTheorems, FunctionTheorems, SequenceTheorems,
        WellFoundedInduction

-----------------------------------------------------------------------------
(* Least and greatest elements. *)

\* A set of naturals that is not empty has a least element.
LEMMA Least ==
  ASSUME NEW S, S \subseteq Nat, S # {}
  PROVE  \E m \in S : \A k \in S : m <= k
<1> DEFINE R == OpToRel(<, Nat)
<1>1. IsWellFoundedOn(R, Nat)
  BY NatLessThanWellFounded
<1>2. \A x, y \in Nat : x < y => <<x, y>> \in R
  BY DEF OpToRel
<1> HIDE DEF R
<1>3. PICK x \in S : \A y \in S : ~ (<<y, x>> \in R)
  BY <1>1, WFMin
<1>4. \A y \in S : ~ (y < x)
  BY <1>2, <1>3
<1> QED
  BY <1>4

\* Min is the least element.
LEMMA MinIsLeast ==
  ASSUME NEW S, S \subseteq Nat, S # {}
  PROVE  Min(S) \in S /\ \A k \in S : Min(S) <= k
  BY Least DEF Min

\* Max is the greatest element of a set of naturals with a bound.
LEMMA MaxIsGreatest ==
  ASSUME NEW n \in Nat, NEW S, S \subseteq 0..n, S # {}
  PROVE  Max(S) \in S /\ \A k \in S : Max(S) >= k
<1> DEFINE Rest == {n - x : x \in S}
<1>0. \A x \in S : n - x \in Nat
  OBVIOUS
<1>1. Rest \subseteq Nat /\ Rest # {}
  <2>1. PICK x \in S : TRUE
    OBVIOUS
  <2>2. n - x \in Rest
    OBVIOUS
  <2> QED
    BY <1>0, <2>2
<1>2. PICK m \in Rest : \A k \in Rest : m <= k
  BY <1>1, Least
<1>3. PICK x \in S : m = n - x
  BY <1>2
<1>4. \A k \in S : n - x <= n - k
  BY <1>2, <1>3
<1>5. \A k \in S : x >= k
  BY <1>4
<1> QED
  BY <1>5 DEF Max

-----------------------------------------------------------------------------
(* The scan of the contiguous allocator. *)

Regions == {r \in Nat \X Nat : r[1] + r[2] <= TotalSlots}

\* The cursor is behind every region passed, and behind one of them or at 0.
LEMMA CursorBehind ==
  ASSUME NEW passed, passed \subseteq Regions
  PROVE  /\ Cursor(passed) \in 0..TotalSlots
         /\ \A r \in passed : r[1] + r[2] <= Cursor(passed)
         /\ Cursor(passed) = 0 \/ \E r \in passed : Cursor(passed) = r[1] + r[2]
<1> DEFINE S == {0} \cup {r[1] + r[2] : r \in passed}
<1>1. S \subseteq 0..TotalSlots /\ S # {} /\ TotalSlots \in Nat
  BY ContiguousAssumption DEF Regions
<1>2. Max(S) \in S /\ \A k \in S : Max(S) >= k
  BY <1>1, MaxIsGreatest
<1>3. Cursor(passed) = Max(S)
  BY DEF Cursor
<1>4. \A r \in passed : r[1] + r[2] \in S
  OBVIOUS
<1>5. Max(S) \in 0..TotalSlots
  BY <1>1, <1>2
<1>6. Max(S) = 0 \/ \E r \in passed : Max(S) = r[1] + r[2]
  BY <1>2
<1> HIDE DEF S
<1>7. \A r \in passed : r[1] + r[2] <= Max(S)
  BY <1>1, <1>2, <1>4
<1> QED
  BY <1>3, <1>5, <1>6, <1>7

\* A run the scan may answer with is free.
LEMMA RunsAreFree ==
  ASSUME NEW occupied, occupied \subseteq Regions, NEW n \in Nat, NEW c \in Runs(n, occupied)
  PROVE  /\ c \in Nat /\ c + n <= TotalSlots
         /\ \A t \in occupied : t[1] >= c + n \/ t[1] + t[2] <= c
<1>0. TotalSlots \in Nat
  BY ContiguousAssumption
<1>1. CASE \E r \in occupied : c = Cursor(Passed(r, occupied)) /\ r[1] >= c + n
  <2>1. PICK r \in occupied : c = Cursor(Passed(r, occupied)) /\ r[1] >= c + n
    BY <1>1
  <2>2. Passed(r, occupied) \subseteq Regions
    BY DEF Passed
  <2>3. c \in Nat /\ \A t \in Passed(r, occupied) : t[1] + t[2] <= c
    BY <1>0, <2>1, <2>2, CursorBehind
  <2>4. ASSUME NEW t \in occupied PROVE t[1] >= c + n \/ t[1] + t[2] <= c
    <3>1. t[1] \in Nat /\ t[2] \in Nat /\ r[1] \in Nat /\ r[2] \in Nat
      BY DEF Regions
    <3>2. CASE Before(t, r)
      BY <2>3, <3>2 DEF Passed
    <3>3. CASE ~Before(t, r)
      BY <2>1, <2>3, <3>1, <3>3 DEF Before
    <3> QED
      BY <3>2, <3>3
  <2>5. c + n <= TotalSlots
    BY <1>0, <2>1, <2>3 DEF Regions
  <2> QED
    BY <2>3, <2>4, <2>5
<1>2. CASE c = Cursor(occupied) /\ TotalSlots >= c + n
  <2>1. c \in Nat /\ \A t \in occupied : t[1] + t[2] <= c
    BY <1>0, <1>2, CursorBehind
  <2> QED
    BY <1>0, <1>2, <2>1
<1> QED
  BY <1>1, <1>2 DEF Runs

\* Of some regions one is first in the order of the scan.
LEMMA FirstRegion ==
  ASSUME NEW later, later # {}, \A t \in later : t[1] \in Nat /\ t[2] \in Nat
  PROVE  \E r \in later : \A t \in later : ~Before(t, r)
<1>1. PICK m \in {t[1] : t \in later} : \A k \in {t[1] : t \in later} : m <= k
  <2>1. {t[1] : t \in later} \subseteq Nat /\ {t[1] : t \in later} # {}
    OBVIOUS
  <2> QED
    BY <2>1, Least
<1> DEFINE lowest == {t \in later : t[1] = m}
<1>2. PICK l \in {t[2] : t \in lowest} : \A k \in {t[2] : t \in lowest} : l <= k
  <2>1. {t[2] : t \in lowest} \subseteq Nat /\ {t[2] : t \in lowest} # {}
    BY <1>1
  <2> QED
    BY <2>1, Least
<1>3. PICK r \in lowest : r[2] = l
  BY <1>2
<1>4. ASSUME NEW t \in later PROVE ~Before(t, r)
  <2>1. t[1] \in Nat /\ t[2] \in Nat /\ r[1] = m /\ r[2] = l /\ m \in Nat /\ l \in Nat
    BY <1>3
  <2>2. m <= t[1]
    BY <1>1, <1>4
  <2>3. t[1] = m => l <= t[2]
    BY <1>2, <1>4
  <2> QED
    BY <2>1, <2>2, <2>3 DEF Before
<1> QED
  BY <1>3, <1>4

\* Wherever there is room, the scan passes a run no higher.
LEMMA FreeIsFound ==
  ASSUME NEW occupied, occupied \subseteq Regions, NEW n \in Nat \ {0},
         NEW a \in Nat, a + n <= TotalSlots,
         \A t \in occupied : t[1] >= a + n \/ t[1] + t[2] <= a
  PROVE  \E c \in Runs(n, occupied) : c <= a
<1> DEFINE later == {t \in occupied : t[1] >= a + n}
<1>0. TotalSlots \in Nat
  BY ContiguousAssumption
<1>1. \A t \in occupied : t[1] \in Nat /\ t[2] \in Nat
  BY DEF Regions
<1>2. ASSUME NEW passed, passed \subseteq occupied, \A t \in passed : t[1] + t[2] <= a
      PROVE  Cursor(passed) \in Nat /\ Cursor(passed) <= a
  <2>1. passed \subseteq Regions
    BY <1>2
  <2>2. /\ Cursor(passed) \in 0..TotalSlots
        /\ Cursor(passed) = 0 \/ \E r \in passed : Cursor(passed) = r[1] + r[2]
    BY <2>1, CursorBehind
  <2> QED
    BY <1>0, <1>2, <2>2
<1>3. CASE later = {}
  <2>1. \A t \in occupied : t[1] + t[2] <= a
    BY <1>3
  <2>2. Cursor(occupied) \in Nat /\ Cursor(occupied) <= a
    BY <1>2, <2>1
  <2>3. TotalSlots >= Cursor(occupied) + n
    BY <1>0, <2>2
  <2> QED
    BY <2>2, <2>3 DEF Runs
<1>4. CASE later # {}
  <2>1. PICK r \in later : \A t \in later : ~Before(t, r)
    BY <1>1, <1>4, FirstRegion
  <2>2. \A t \in Passed(r, occupied) : t[1] + t[2] <= a
    BY <2>1 DEF Passed
  <2>3. Passed(r, occupied) \subseteq occupied
    BY DEF Passed
  <2>4. Cursor(Passed(r, occupied)) \in Nat /\ Cursor(Passed(r, occupied)) <= a
    BY <1>2, <2>2, <2>3
  <2>5. r \in occupied /\ r[1] >= Cursor(Passed(r, occupied)) + n
    BY <1>1, <2>1, <2>4
  <2> QED
    BY <2>4, <2>5 DEF Runs
<1> QED
  BY <1>3, <1>4

-----------------------------------------------------------------------------
(* The contiguous allocator. *)

\* Regions lie in the pool.
RegionsType == regions \in [SequenceIds -> Regions \cup {None}]

\* Any two regions that hold something lie one behind the other.
RegionsApart ==
  \A s, t \in SequenceIds :
    s # t /\ regions[s] # None /\ regions[t] # None =>
      \/ regions[s][2] = 0 \/ regions[t][2] = 0
      \/ regions[s][1] + regions[s][2] <= regions[t][1]
      \/ regions[t][1] + regions[t][2] <= regions[s][1]

ContiguousInv == RegionsType /\ RegionsApart

\* The regions in the way are regions.
LEMMA OccupiedType ==
  ASSUME RegionsType, NEW ignoring
  PROVE  /\ Occupied(ignoring) \subseteq Regions
         /\ \A s \in SequenceIds : regions[s] # None /\ s # ignoring => regions[s] \in Occupied(ignoring)
  BY DEF RegionsType, Occupied, Others

\* What _find_run answers is a run of the pool that no other sequence's region reaches into.
LEMMA FoundIsFree ==
  ASSUME RegionsType, NEW n \in Nat, NEW ignoring, _find_run(n, ignoring) # None
  PROVE  LET a == _find_run(n, ignoring)
         IN  /\ a \in Nat /\ a + n <= TotalSlots
             /\ n # 0 => \A t \in Occupied(ignoring) : t[1] >= a + n \/ t[1] + t[2] <= a
<1> DEFINE a == _find_run(n, ignoring)
<1>0. TotalSlots \in Nat
  BY ContiguousAssumption
<1>1. CASE n = 0
  BY <1>0, <1>1 DEF _find_run, Scan
<1>2. CASE n # 0
  <2> DEFINE runs == Runs(n, Occupied(ignoring))
  <2>1. Occupied(ignoring) \subseteq Regions
    BY OccupiedType
  <2>2. runs # {} /\ a = Min(runs)
    BY <1>2 DEF _find_run, Scan
  <2>3. runs \subseteq Nat
    BY <2>1, RunsAreFree
  <2>4. a \in runs
    BY <2>2, <2>3, MinIsLeast
  <2> QED
    BY <2>1, <2>4, RunsAreFree
<1> QED
  BY <1>1, <1>2

\* A sequence that gets a free run stays apart from the others.
LEMMA PlaceKeepsApart ==
  ASSUME ContiguousInv, NEW s \in SequenceIds, NEW a \in Nat, NEW n \in Nat, a + n <= TotalSlots,
         n # 0 => \A t \in SequenceIds : regions[t] # None /\ t # s =>
                     regions[t][1] >= a + n \/ regions[t][1] + regions[t][2] <= a,
         regions' = [regions EXCEPT ![s] = <<a, n>>]
  PROVE  ContiguousInv'
<1>1. <<a, n>> \in Regions /\ <<a, n>>[1] = a /\ <<a, n>>[2] = n
  BY DEF Regions
<1>2. RegionsType'
  BY <1>1 DEF ContiguousInv, RegionsType
<1>3. ASSUME NEW x \in SequenceIds, NEW y \in SequenceIds,
             x # y, regions'[x] # None, regions'[y] # None
      PROVE  \/ regions'[x][2] = 0 \/ regions'[y][2] = 0
             \/ regions'[x][1] + regions'[x][2] <= regions'[y][1]
             \/ regions'[y][1] + regions'[y][2] <= regions'[x][1]
  <2>0. regions \in [SequenceIds -> Regions \cup {None}]
    BY DEF ContiguousInv, RegionsType
  <2>1. CASE x # s /\ y # s
    BY <1>3, <2>0, <2>1 DEF ContiguousInv, RegionsApart
  <2>2. CASE x = s
    <3>1. regions'[x] = <<a, n>> /\ regions'[y] = regions[y] /\ regions[y] # None
      BY <1>3, <2>0, <2>2
    <3> QED
      BY <1>1, <1>3, <2>2, <3>1
  <2>3. CASE y = s
    <3>1. regions'[y] = <<a, n>> /\ regions'[x] = regions[x] /\ regions[x] # None
      BY <1>3, <2>0, <2>3
    <3> QED
      BY <1>1, <1>3, <2>3, <3>1
  <2> QED
    BY <2>1, <2>2, <2>3
<1> QED
  BY <1>2, <1>3 DEF ContiguousInv, RegionsApart

\* allocate keeps the regions apart.
LEMMA ContiguousAllocateSafe ==
  ASSUME ContiguousInv, NEW s \in SequenceIds, NEW n \in Nat, NEW ok \in BOOLEAN,
         ContiguousAllocate(s, n, ok)
  PROVE  ContiguousInv'
<1>1. CASE ~ok
  <2>1. regions' = regions
    BY <1>1 DEF ContiguousAllocate, Place
  <2> QED
    BY <2>1 DEF ContiguousInv, RegionsType, RegionsApart
<1>2. CASE ok
  <2> DEFINE a == _find_run(n, None)
  <2>0. RegionsType
    BY DEF ContiguousInv
  <2>1. a # None /\ regions' = [regions EXCEPT ![s] = <<a, n>>] /\ regions[s] = None
    BY <1>2 DEF ContiguousAllocate, Place
  <2>2. /\ a \in Nat /\ a + n <= TotalSlots
        /\ n # 0 => \A t \in Occupied(None) : t[1] >= a + n \/ t[1] + t[2] <= a
    BY <2>0, <2>1, FoundIsFree
  <2>3. \A t \in SequenceIds : regions[t] # None => regions[t] \in Occupied(None)
    BY <2>0, OccupiedType, SequencesAssumption
  <2> HIDE DEF a
  <2> QED
    BY <2>1, <2>2, <2>3, PlaceKeepsApart
<1> QED
  BY <1>1, <1>2

\* extend keeps the regions apart, in place or relocated.
LEMMA ContiguousExtendSafe ==
  ASSUME ContiguousInv, NEW s \in SequenceIds, NEW n \in Nat, NEW ok \in BOOLEAN,
         ContiguousExtend(s, n, ok)
  PROVE  ContiguousInv'
<1> DEFINE start == regions[s][1]
           target == regions[s][2] + n
           inPlace == ~Blocked(s, start, target) /\ start + target <= TotalSlots
           a == IF inPlace THEN start ELSE _find_run(target, s)
<1>0. RegionsType /\ regions[s] # None
  BY DEF ContiguousInv, ContiguousExtend
<1>1. start \in Nat /\ target \in Nat
  BY <1>0 DEF RegionsType, Regions
<1>2. Place(s, a, target, ok)
  BY DEF ContiguousExtend
<1> HIDE DEF start, target
<1>3. CASE ~ok
  <2>1. regions' = regions
    BY <1>2, <1>3 DEF Place
  <2> QED
    BY <2>1 DEF ContiguousInv, RegionsType, RegionsApart
<1>4. CASE ok
  <2>1. a # None /\ regions' = [regions EXCEPT ![s] = <<a, target>>]
    BY <1>2, <1>4 DEF Place
  <2>2. \A t \in SequenceIds : regions[t] # None => regions[t][1] \in Nat /\ regions[t][2] \in Nat
    BY <1>0 DEF RegionsType, Regions
  <2>3. /\ a \in Nat /\ a + target <= TotalSlots
        /\ target # 0 => \A t \in SequenceIds : regions[t] # None /\ t # s =>
               regions[t][1] >= a + target \/ regions[t][1] + regions[t][2] <= a
    <3>1. CASE inPlace
      <4>1. \A t \in SequenceIds : regions[t] # None /\ t # s =>
               regions[t][1] >= start + target \/ regions[t][1] + regions[t][2] <= start
        BY <1>1, <2>2, <3>1 DEF Blocked, Others
      <4> QED
        BY <1>1, <3>1, <4>1
    <3>2. CASE ~inPlace
      <4>1. a = _find_run(target, s)
        BY <3>2
      <4>2. \A t \in SequenceIds : regions[t] # None /\ t # s => regions[t] \in Occupied(s)
        BY <1>0, OccupiedType
      <4> HIDE DEF a
      <4>3. /\ a \in Nat /\ a + target <= TotalSlots
            /\ target # 0 => \A t \in Occupied(s) : t[1] >= a + target \/ t[1] + t[2] <= a
        BY <1>0, <1>1, <2>1, <4>1, FoundIsFree
      <4> QED
        BY <4>2, <4>3
    <3> QED
      BY <3>1, <3>2
  <2> HIDE DEF a
  <2> QED
    BY <1>1, <2>1, <2>3, PlaceKeepsApart
<1> QED
  BY <1>3, <1>4

-----------------------------------------------------------------------------
(* Arithmetic of blocks. *)

\* A quotient is rounded down.
LEMMA DivisionBounds ==
  ASSUME NEW x \in Nat, NEW y \in Nat \ {0}
  PROVE  x \div y \in Nat /\ y * (x \div y) <= x /\ x < y * (x \div y) + y
  BY Z3

\* A quotient without remainder is exact.
LEMMA DivisionExact ==
  ASSUME NEW x \in Nat, NEW y \in Nat \ {0}, x % y = 0
  PROVE  y * (x \div y) = x
  BY Z3

\* The blocks needed hold the tokens, and one block less does not.
LEMMA NeededBounds ==
  ASSUME NEW m \in Nat
  PROVE  /\ _blocks_needed(m) \in Nat
         /\ m <= BlockSize * _blocks_needed(m)
         /\ BlockSize * _blocks_needed(m) < m + BlockSize
<1> DEFINE x == m + BlockSize - 1
           k == x \div BlockSize
           bk == BlockSize * k
<1>1. BlockSize \in Nat \ {0} /\ x \in Nat
  BY PagedAssumption
<1>2. k \in Nat /\ bk <= x /\ x < bk + BlockSize
  BY <1>1, DivisionBounds
<1>3. bk \in Nat
  BY <1>1, <1>2
<1>4. _blocks_needed(m) = k
  BY DEF _blocks_needed
<1> HIDE DEF bk
<1>5. m <= bk /\ bk < m + BlockSize
  BY <1>1, <1>2, <1>3
<1> QED
  BY <1>2, <1>4, <1>5 DEF bk

\* A product with the block size grows by a block size at a time.
LEMMA BlocksGrow ==
  ASSUME NEW i \in Nat, NEW j \in Nat, i < j
  PROVE  BlockSize * i + BlockSize <= BlockSize * j
<1>1. BlockSize \in Nat
  BY PagedAssumption
<1>2. \A b, d \in Nat : b * (i + 1 + d) = b * i + b + b * d /\ b * d \in Nat /\ b * i \in Nat
  BY Z3
<1>3. PICK d \in Nat : j = i + 1 + d
  <2>1. j - (i + 1) \in Nat /\ j = i + 1 + (j - (i + 1))
    OBVIOUS
  <2> QED
    BY <2>1
<1>4. BlockSize * j = BlockSize * i + BlockSize + BlockSize * d /\ BlockSize * d \in Nat /\ BlockSize * i \in Nat
  BY <1>1, <1>2, <1>3
<1> QED
  BY <1>1, <1>4

\* More tokens never need fewer blocks.
LEMMA NeededGrows ==
  ASSUME NEW m \in Nat, NEW n \in Nat
  PROVE  _blocks_needed(m) <= _blocks_needed(m + n)
<1> DEFINE a == _blocks_needed(m)
           b == _blocks_needed(m + n)
<1>1. a \in Nat /\ b \in Nat /\ BlockSize * a < m + BlockSize /\ m + n <= BlockSize * b
  BY NeededBounds
<1>2. BlockSize * a \in Nat /\ BlockSize * b \in Nat /\ BlockSize \in Nat
  BY <1>1, PagedAssumption
<1>3. b < a => BlockSize * b + BlockSize <= BlockSize * a
  BY <1>1, BlocksGrow
<1> DEFINE ba == BlockSize * a
           bb == BlockSize * b
<1>4. /\ a \in Nat /\ b \in Nat /\ ba \in Nat /\ bb \in Nat /\ BlockSize \in Nat
      /\ ba < m + BlockSize /\ m + n <= bb /\ (b < a => bb + BlockSize <= ba)
  BY <1>1, <1>2, <1>3
<1> HIDE DEF a, b, ba, bb
<1>5. a <= b
  BY <1>4
<1> QED
  BY <1>5 DEF a, b

\* Blocks before the last are full, and so is the last when nothing is left over.
LEMMA FullBlocks ==
  ASSUME NEW m \in Nat, NEW i \in 1.._blocks_needed(m),
         i < _blocks_needed(m) \/ m % BlockSize = 0
  PROVE  i * BlockSize <= m
<1> DEFINE k == _blocks_needed(m)
<1>0. BlockSize \in Nat \ {0}
  BY PagedAssumption
<1>1. k \in Nat /\ m <= BlockSize * k /\ BlockSize * k < m + BlockSize
  BY NeededBounds
<1>2. i \in Nat /\ i <= k /\ BlockSize * k \in Nat /\ BlockSize * i \in Nat /\ i * BlockSize = BlockSize * i
  BY <1>0, <1>1
<1>3. CASE i < k
  <2>1. BlockSize * i + BlockSize <= BlockSize * k
    BY <1>1, <1>2, <1>3, BlocksGrow
  <2> QED
    BY <1>0, <1>1, <1>2, <2>1
<1>4. CASE ~(i < k)
  <2> DEFINE d == m \div BlockSize
  <2>1. i = k /\ m % BlockSize = 0
    BY <1>1, <1>2, <1>4
  <2>2. d \in Nat /\ BlockSize * d = m
    BY <1>0, <2>1, DivisionBounds, DivisionExact
  <2>3. d < k => BlockSize * d + BlockSize <= BlockSize * k
    BY <1>1, <2>2, BlocksGrow
  <2>4. k < d => BlockSize * k + BlockSize <= BlockSize * d
    BY <1>1, <2>2, BlocksGrow
  <2> HIDE DEF d, k
  <2>5. d = k
    BY <1>0, <1>1, <1>2, <2>2, <2>3, <2>4
  <2> QED
    BY <1>2, <2>1, <2>2, <2>5
<1> QED
  BY <1>3, <1>4

-----------------------------------------------------------------------------
(* The paged allocator. *)

\* Tables and counts of tokens exist for the same sequences.
PagedType ==
  /\ free_blocks \subseteq Blocks
  /\ block_tables \in [SequenceIds -> Seq(Blocks) \cup {None}]
  /\ token_counts \in [SequenceIds -> Nat \cup {None}]
  /\ refcounts \in [Blocks -> Nat]
  /\ \A s \in SequenceIds : block_tables[s] = None <=> token_counts[s] = None

\* A table has the blocks its tokens need.
LengthsFit == \A s \in Known : Len(block_tables[s]) = _blocks_needed(token_counts[s])

\* A block's count is the number of its holders, and it is free when it has none.
BlocksCounted ==
  \A b \in Blocks : /\ refcounts[b] = Cardinality(Holders(b))
                    /\ b \in free_blocks <=> Holders(b) = {}

PagedInv == PagedType /\ LengthsFit /\ BlocksCounted /\ SharedBlocksAgree

\* No table is the absent one.
LEMMA NoneIsNoTable == ~(None \in Seq(Blocks))
  BY PagedAssumption

\* What _take hands out: as many blocks as asked for, all free, none twice.
LEMMA TakeIsFresh ==
  ASSUME NEW free, free \subseteq Blocks, NEW n \in Nat, NEW q \in _take(n, free)
  PROVE  /\ q \in Seq(Blocks) /\ Len(q) = n
         /\ \A i \in 1..n : q[i] \in free
         /\ \A i, j \in 1..n : q[i] = q[j] => i = j
<1>1. q \in [1..n -> free] /\ \A i, j \in 1..n : i # j => q[i] # q[j]
  BY DEF _take
<1>2. q \in [1..n -> Blocks]
  BY <1>1
<1>3. q \in Seq(Blocks) /\ Len(q) = n
  BY <1>2
<1> QED
  BY <1>1, <1>3

\* Membership in a table.
LEMMA InTable ==
  ASSUME NEW t \in Seq(Blocks)
  PROVE  \A b : b \in Range(t) <=> \E i \in 1..Len(t) : t[i] = b
  BY DEF Range

\* The sequences that hold a block are finitely many.
LEMMA HoldersFinite ==
  ASSUME NEW b
  PROVE  IsFiniteSet(Holders(b)) /\ Cardinality(Holders(b)) \in Nat
<1>1. Holders(b) \in SUBSET SequenceIds
  BY DEF Holders, Known
<1> QED
  BY <1>1, SequencesAssumption, FS_Subset, FS_CardinalityType

\* How the holders of a block change when the table of one sequence does.
LEMMA HoldersAfter ==
  ASSUME PagedType, NEW s \in SequenceIds, NEW table \in Seq(Blocks) \cup {None},
         block_tables' = [block_tables EXCEPT ![s] = table],
         NEW b \in Blocks, NEW has \in BOOLEAN,
         has <=> (table # None /\ b \in Range(table))
  PROVE  /\ (s \in Holders(b) <=> has) => Holders(b)' = Holders(b)
         /\ s \notin Holders(b) /\ has =>
               /\ Holders(b)' = Holders(b) \cup {s}
               /\ Cardinality(Holders(b)') = Cardinality(Holders(b)) + 1
         /\ s \in Holders(b) /\ ~has =>
               /\ Holders(b)' = Holders(b) \ {s}
               /\ Cardinality(Holders(b)') = Cardinality(Holders(b)) - 1
<1>1. \A t \in SequenceIds : t # s => block_tables'[t] = block_tables[t]
  BY DEF PagedType
<1>2. block_tables'[s] = table
  BY DEF PagedType
<1>3. \A t : t \in Holders(b)' <=> t \in SequenceIds /\ block_tables'[t] # None /\ b \in Range(block_tables'[t])
  BY DEF Holders, Known
<1>4. \A t : t \in Holders(b) <=> t \in SequenceIds /\ block_tables[t] # None /\ b \in Range(block_tables[t])
  BY DEF Holders, Known
<1>5. \A t : t # s => (t \in Holders(b)' <=> t \in Holders(b))
  BY <1>1, <1>3, <1>4
<1>6. s \in Holders(b)' <=> has
  BY <1>2, <1>3
<1>7. IsFiniteSet(Holders(b))
  BY HoldersFinite
<1> DEFINE old == Holders(b)
           new == Holders(b)'
<1> HIDE DEF old, new
<1>8. \A t : t # s => (t \in new <=> t \in old)
  BY <1>5 DEF old, new
<1>9. s \in new <=> has
  BY <1>6 DEF new
<1>10. CASE s \in old <=> has
  <2>0. \A t : t \in new <=> t \in old
    BY <1>8, <1>9, <1>10
  <2>1. new = old
    BY <2>0
  <2> QED
    BY <1>10, <2>1 DEF old, new
<1>11. CASE s \notin old /\ has
  <2>1. new = old \cup {s}
    BY <1>8, <1>9, <1>11
  <2>2. Cardinality(old \cup {s}) = Cardinality(old) + 1
    BY <1>7, <1>11, FS_AddElement DEF old
  <2> QED
    BY <1>11, <2>1, <2>2 DEF old, new
<1>12. CASE s \in old /\ ~has
  <2>1. new = old \ {s}
    BY <1>8, <1>9, <1>12
  <2>2. Cardinality(old \ {s}) = Cardinality(old) - 1
    BY <1>7, <1>12, FS_RemoveElement DEF old
  <2> QED
    BY <1>12, <2>1, <2>2 DEF old, new
<1> QED
  BY <1>10, <1>11, <1>12 DEF old

\* A step that leaves the allocator alone keeps its invariant.
LEMMA PagedUnchanged == PagedInv /\ UNCHANGED pagedVars => PagedInv'
<1> SUFFICES ASSUME PagedInv, UNCHANGED pagedVars PROVE PagedInv'
  OBVIOUS
<1>0. UNCHANGED <<free_blocks, block_tables, token_counts, refcounts>>
  BY DEF pagedVars
<1>1. PagedType' /\ LengthsFit'
  BY <1>0 DEF PagedInv, PagedType, LengthsFit, Known
<1>2. BlocksCounted'
  <2>1. \A b : Holders(b)' = Holders(b)
    BY <1>0 DEF Holders, Known
  <2> QED
    BY <1>0, <2>1 DEF PagedInv, BlocksCounted
<1>3. SharedBlocksAgree'
  <2>1. Known' = Known /\ \A s, i : Fill(s, i)' = Fill(s, i)
    BY <1>0 DEF Known, Fill
  <2> QED
    BY <1>0, <2>1 DEF PagedInv, SharedBlocksAgree
<1> QED
  BY <1>1, <1>2, <1>3 DEF PagedInv

\* allocate: the new table's blocks had no holder.
LEMMA PagedAllocateSafe ==
  ASSUME PagedInv, NEW s \in SequenceIds, NEW n \in Nat, NEW ok \in BOOLEAN,
         PagedAllocate(s, n, ok)
  PROVE  PagedInv'
<1>1. CASE ~ok
  <2>1. UNCHANGED pagedVars
    BY <1>1 DEF PagedAllocate
  <2> QED
    BY <2>1, PagedUnchanged
<1>2. CASE ok
  <2>0. PagedType /\ LengthsFit /\ BlocksCounted /\ SharedBlocksAgree /\ block_tables[s] = None
    BY DEF PagedInv, PagedAllocate
  <2>a. /\ free_blocks \subseteq Blocks
        /\ block_tables \in [SequenceIds -> Seq(Blocks) \cup {None}]
        /\ token_counts \in [SequenceIds -> Nat \cup {None}]
        /\ refcounts \in [Blocks -> Nat]
        /\ None \notin Nat
    BY <2>0, SequencesAssumption DEF PagedType
  <2>1. PICK q \in _take(_blocks_needed(n), free_blocks) :
          /\ block_tables' = [block_tables EXCEPT ![s] = q]
          /\ token_counts' = [token_counts EXCEPT ![s] = n]
          /\ free_blocks' = free_blocks \ Range(q)
          /\ refcounts' = [b \in Blocks |-> IF b \in Range(q) THEN 1 ELSE refcounts[b]]
    BY <1>2 DEF PagedAllocate
  <2>2. _blocks_needed(n) \in Nat
    BY NeededBounds
  <2>3. /\ q \in Seq(Blocks) /\ Len(q) = _blocks_needed(n)
        /\ \A i \in 1..Len(q) : q[i] \in free_blocks
        /\ \A i, j \in 1..Len(q) : q[i] = q[j] => i = j
        /\ \A b : b \in Range(q) <=> \E i \in 1..Len(q) : q[i] = b
    <3> DEFINE m == _blocks_needed(n)
    <3>1. m \in Nat /\ q \in _take(m, free_blocks) /\ free_blocks \subseteq Blocks
      BY <2>1, <2>2, <2>a
    <3> HIDE DEF m
    <3>2. /\ q \in Seq(Blocks) /\ Len(q) = m
          /\ \A i \in 1..m : q[i] \in free_blocks
          /\ \A i, j \in 1..m : q[i] = q[j] => i = j
      BY <3>1, TakeIsFresh
    <3> QED
      BY <3>2, InTable DEF m
  <2>4. q # None
    BY <2>3, NoneIsNoTable
  <2>5. PagedType'
    BY <2>0, <2>1, <2>3, <2>4, <2>a DEF PagedType
  <2>6. Known' = Known \cup {s}
    BY <2>1, <2>4, <2>a DEF Known
  <2>7. LengthsFit'
    BY <2>0, <2>1, <2>3, <2>6, <2>a DEF LengthsFit, Known
  <2>8. BlocksCounted'
    <3> SUFFICES ASSUME NEW b \in Blocks
                 PROVE  /\ refcounts'[b] = Cardinality(Holders(b)')
                        /\ b \in free_blocks' <=> Holders(b)' = {}
      BY DEF BlocksCounted
    <3>1. s \notin Holders(b)
      BY <2>0 DEF Holders, Known
    <3>2. refcounts[b] = Cardinality(Holders(b)) /\ (b \in free_blocks <=> Holders(b) = {})
      BY <2>0 DEF BlocksCounted
    <3>3. CASE b \in Range(q)
      <4>1. Holders(b) = {}
        BY <2>3, <3>2, <3>3
      <4>2. Holders(b)' = Holders(b) \cup {s} /\ Cardinality(Holders(b)') = Cardinality(Holders(b)) + 1
        BY <2>0, <2>1, <2>3, <2>4, <3>1, <3>3, HoldersAfter
      <4>3. Cardinality(Holders(b)') = 1
        BY <4>1, <4>2, FS_EmptySet
      <4> QED
        BY <2>1, <3>3, <4>2, <4>3
    <3>4. CASE b \notin Range(q)
      <4>1. Holders(b)' = Holders(b)
        BY <2>0, <2>1, <2>3, <2>4, <3>1, <3>4, HoldersAfter
      <4> QED
        BY <2>1, <3>2, <3>4, <4>1
    <3> QED
      BY <3>3, <3>4
  <2>9. SharedBlocksAgree'
    <3> SUFFICES ASSUME NEW x \in Known', NEW y \in Known',
                        NEW i \in DOMAIN block_tables'[x], NEW j \in DOMAIN block_tables'[y],
                        block_tables'[x][i] = block_tables'[y][j]
                 PROVE  i = j /\ Fill(x, i)' = Fill(y, i)'
      BY DEF SharedBlocksAgree
    <3>1. ASSUME NEW z \in Known', z # s
          PROVE  /\ z \in Known /\ block_tables'[z] = block_tables[z] /\ token_counts'[z] = token_counts[z]
                 /\ \A k \in DOMAIN block_tables[z] : block_tables[z][k] \notin free_blocks
      <4>1. z \in Known /\ block_tables'[z] = block_tables[z] /\ token_counts'[z] = token_counts[z]
        BY <2>1, <2>6, <2>a, <3>1 DEF Known
      <4>2. ASSUME NEW k \in DOMAIN block_tables[z] PROVE block_tables[z][k] \notin free_blocks
        <5>1. block_tables[z] \in Seq(Blocks)
          BY <2>a, <4>1 DEF Known
        <5>2. block_tables[z][k] \in Blocks /\ z \in Holders(block_tables[z][k])
          BY <4>1, <5>1 DEF Holders, Range
        <5> QED
          BY <2>0, <5>2 DEF BlocksCounted
      <4> QED
        BY <4>1, <4>2
    <3>2. block_tables'[s] = q /\ DOMAIN q = 1..Len(q)
      BY <2>1, <2>3, <2>a
    <3>3. CASE x = s /\ y = s
      BY <2>3, <3>2, <3>3 DEF Fill
    <3>4. CASE x # s /\ y # s
      <4>1. i = j /\ Fill(x, i) = Fill(y, i)
        BY <2>0, <3>1, <3>4 DEF SharedBlocksAgree
      <4> QED
        BY <3>1, <3>4, <4>1 DEF Fill
    <3>5. CASE (x = s /\ y # s) \/ (x # s /\ y = s)
      BY <2>3, <3>1, <3>2, <3>5
    <3> QED
      BY <3>3, <3>4, <3>5
  <2> QED
    BY <2>5, <2>7, <2>8, <2>9 DEF PagedInv
<1> QED
  BY <1>1, <1>2

\* A held block is not free, and its holder is one of its holders.
LEMMA HeldIsNotFree ==
  ASSUME PagedInv, NEW s \in Known
  PROVE  /\ block_tables[s] \in Seq(Blocks) /\ token_counts[s] \in Nat
         /\ Len(block_tables[s]) = _blocks_needed(token_counts[s])
         /\ \A i \in 1..Len(block_tables[s]) :
              /\ block_tables[s][i] \in Blocks \ free_blocks
              /\ s \in Holders(block_tables[s][i])
         /\ \A i, j \in 1..Len(block_tables[s]) : block_tables[s][i] = block_tables[s][j] => i = j
<1>1. block_tables[s] \in Seq(Blocks) /\ token_counts[s] \in Nat
  BY DEF PagedInv, PagedType, Known
<1>2. Len(block_tables[s]) = _blocks_needed(token_counts[s])
  BY DEF PagedInv, LengthsFit
<1>3. ASSUME NEW i \in 1..Len(block_tables[s])
      PROVE  block_tables[s][i] \in Blocks \ free_blocks /\ s \in Holders(block_tables[s][i])
  <2>1. block_tables[s][i] \in Blocks /\ block_tables[s][i] \in Range(block_tables[s])
    BY <1>1, InTable
  <2>2. s \in Holders(block_tables[s][i])
    BY <2>1 DEF Holders
  <2> QED
    BY <2>1, <2>2 DEF PagedInv, BlocksCounted
<1>4. ASSUME NEW i \in 1..Len(block_tables[s]), NEW j \in 1..Len(block_tables[s]),
             block_tables[s][i] = block_tables[s][j]
      PROVE  i = j
  BY <1>1, <1>4 DEF PagedInv, SharedBlocksAgree
<1> QED
  BY <1>1, <1>2, <1>3, <1>4

\* The private copy, if there is one, is a free block in the place of the last one.
LEMMA CopyIsFresh ==
  ASSUME PagedInv, NEW s \in Known, NEW q \in Copies(s)
  PROVE  LET old == block_tables[s]
         IN  /\ WithCopy(s, q) \in Seq(Blocks) /\ Len(WithCopy(s, q)) = Len(old)
             /\ q = <<>> => ~CopiesLast(s) /\ WithCopy(s, q) = old /\ Range(q) = {}
             /\ q # <<>> => /\ CopiesLast(s) /\ Len(old) \in Nat \ {0} /\ q[1] \in free_blocks
                            /\ Range(q) = {q[1]}
                            /\ WithCopy(s, q)[Len(old)] = q[1]
                            /\ \A i \in 1..(Len(old) - 1) : WithCopy(s, q)[i] = old[i]
<1> DEFINE old == block_tables[s]
<1>0. old \in Seq(Blocks) /\ free_blocks \subseteq Blocks
  BY HeldIsNotFree DEF PagedInv, PagedType
<1>1. CASE ~CopiesLast(s)
  <2>1. q = <<>>
    BY <1>1 DEF Copies
  <2>2. Range(q) = {}
    BY <2>1 DEF Range
  <2> QED
    BY <1>0, <1>1, <2>1, <2>2 DEF WithCopy
<1>2. CASE CopiesLast(s)
  <2>1. q \in _take(1, free_blocks)
    BY <1>2 DEF Copies
  <2>2. q \in Seq(Blocks) /\ Len(q) = 1 /\ q[1] \in free_blocks
    <3>1. 1 \in Nat /\ free_blocks \subseteq Blocks
      BY <1>0
    <3>2. q \in Seq(Blocks) /\ Len(q) = 1 /\ \A i \in 1..1 : q[i] \in free_blocks
      BY <2>1, <3>1, TakeIsFresh
    <3> QED
      BY <3>2
  <2>3. q # <<>>
    BY <2>2
  <2>4. Range(q) = {q[1]}
    BY <2>2 DEF Range
  <2>5. Len(old) \in Nat \ {0}
    BY <1>0, <1>2 DEF CopiesLast
  <2>6. WithCopy(s, q) = [old EXCEPT ![Len(old)] = q[1]]
    BY <2>3 DEF WithCopy
  <2>7. q[1] \in Blocks
    BY <1>0, <2>2
  <2> DEFINE e == q[1]
             copy == [old EXCEPT ![Len(old)] = e]
  <2> HIDE DEF old, e
  <2>8. /\ copy \in Seq(Blocks) /\ Len(copy) = Len(old)
        /\ \A i \in 1..Len(old) : copy[i] = IF i = Len(old) THEN e ELSE old[i]
    <3>1. e \in Blocks /\ Len(old) \in 1..Len(old)
      BY <2>5, <2>7 DEF e
    <3> QED
      BY <1>0, <3>1, ExceptSeq
  <2> QED
    BY <1>2, <2>2, <2>3, <2>4, <2>5, <2>6, <2>8 DEF e, old
<1> QED
  BY <1>1, <1>2

\* The table extend leaves: the old one with the copy, then fresh blocks.
LEMMA GrownTable ==
  ASSUME PagedInv, NEW s \in Known, NEW q \in Copies(s), NEW n \in Nat,
         NEW r \in _take(n, free_blocks \ Range(q))
  PROVE  LET old == block_tables[s]
             new == WithCopy(s, q) \o r
         IN  /\ new \in Seq(Blocks) /\ Len(new) = Len(old) + n
             /\ \A i \in 1..Len(new) :
                  \/ i \in 1..Len(old) /\ ~(q # <<>> /\ i = Len(old)) /\ new[i] = old[i]
                  \/ new[i] \in free_blocks
             /\ \A i \in 1..Len(old) : ~(q # <<>> /\ i = Len(old)) => new[i] = old[i]
             /\ \A i, j \in 1..Len(new) : new[i] = new[j] => i = j
             /\ \A b : b \in Range(q) \cup Range(r) => b \in free_blocks /\ b \in Range(new)
             /\ \A b \in free_blocks : b \in Range(new) => b \in Range(q) \cup Range(r)
<1> DEFINE old == block_tables[s]
           copy == WithCopy(s, q)
           new == copy \o r
           fresh == free_blocks \ Range(q)
<1>1. /\ old \in Seq(Blocks) /\ free_blocks \subseteq Blocks
      /\ \A i \in 1..Len(old) : old[i] \notin free_blocks
      /\ \A i, j \in 1..Len(old) : old[i] = old[j] => i = j
  BY HeldIsNotFree DEF PagedInv, PagedType
<1>2. /\ copy \in Seq(Blocks) /\ Len(copy) = Len(old)
      /\ q = <<>> => copy = old /\ Range(q) = {}
      /\ q # <<>> => /\ Len(old) \in Nat \ {0} /\ q[1] \in free_blocks /\ Range(q) = {q[1]}
                     /\ copy[Len(old)] = q[1]
                     /\ \A i \in 1..(Len(old) - 1) : copy[i] = old[i]
  BY CopyIsFresh
<1>3. /\ r \in Seq(Blocks) /\ Len(r) = n
      /\ \A i \in 1..n : r[i] \in fresh
      /\ \A i, j \in 1..n : r[i] = r[j] => i = j
  <2>1. fresh \subseteq Blocks
    BY <1>1
  <2> QED
    BY <2>1, TakeIsFresh
<1> HIDE DEF old, copy
<1>4. /\ new \in Seq(Blocks) /\ Len(new) = Len(old) + n /\ Len(old) \in Nat
      /\ \A i \in 1..Len(old) : new[i] = copy[i]
      /\ \A i \in (Len(old) + 1)..(Len(old) + n) : new[i] = r[i - Len(old)]
  BY <1>1, <1>2, <1>3
<1>5. \A i \in 1..Len(old) : ~(q # <<>> /\ i = Len(old)) => copy[i] = old[i]
  BY <1>1, <1>2
<1>6. \A i \in 1..Len(old) : q # <<>> /\ i = Len(old) => copy[i] = q[1] /\ q[1] \in free_blocks /\ q[1] \in Range(q)
  BY <1>1, <1>2
<1>7. \A i \in (Len(old) + 1)..(Len(old) + n) : i - Len(old) \in 1..n
  BY <1>4
<1> HIDE DEF new
<1>8. \A i \in (Len(old) + 1)..(Len(old) + n) : new[i] \in free_blocks /\ new[i] \notin Range(q)
  BY <1>3, <1>4, <1>7
<1>9. \A i \in 1..Len(new) :
         \/ i \in 1..Len(old) /\ ~(q # <<>> /\ i = Len(old)) /\ new[i] = old[i]
         \/ i \in 1..Len(old) /\ q # <<>> /\ i = Len(old) /\ new[i] = q[1] /\ new[i] \in free_blocks
         \/ /\ i \in (Len(old) + 1)..(Len(old) + n) /\ new[i] = r[i - Len(old)]
            /\ new[i] \in free_blocks /\ new[i] \notin Range(q)
  BY <1>4, <1>5, <1>6, <1>8
<1>10. ASSUME NEW i \in 1..Len(new), NEW j \in 1..Len(new), new[i] = new[j], i < j
       PROVE  FALSE
  <2>1. CASE j \in 1..Len(old)
    BY <1>1, <1>4, <1>9, <1>10, <2>1
  <2>2. CASE j \in (Len(old) + 1)..(Len(old) + n)
    <3>1. new[j] \in free_blocks /\ new[j] \notin Range(q) /\ new[j] = r[j - Len(old)]
      BY <1>4, <1>8, <2>2
    <3>2. i \in (Len(old) + 1)..(Len(old) + n) /\ new[i] = r[i - Len(old)]
      BY <1>1, <1>6, <1>9, <1>10, <3>1
    <3> QED
      BY <1>3, <1>4, <1>7, <1>10, <2>2, <3>1, <3>2
  <2> QED
    BY <1>4, <2>1, <2>2
<1>11. \A i, j \in 1..Len(new) : new[i] = new[j] => i = j
  <2>1. Len(new) \in Nat
    BY <1>4
  <2> QED
    BY <1>10, <2>1
<1>12. ASSUME NEW b \in Range(q) \cup Range(r) PROVE b \in free_blocks /\ b \in Range(new)
  <2>1. CASE b \in Range(q)
    <3>1. q # <<>> /\ b = q[1] /\ Len(old) \in 1..Len(old)
      BY <1>2, <2>1
    <3>2. new[Len(old)] = b /\ Len(old) \in 1..Len(new) /\ b \in free_blocks
      BY <1>4, <1>6, <3>1
    <3> QED
      BY <1>4, <3>2, InTable
  <2>2. CASE b \in Range(r)
    <3>1. PICK i \in 1..n : r[i] = b
      BY <1>3, <2>2, InTable
    <3>2. i + Len(old) \in (Len(old) + 1)..(Len(old) + n) /\ (i + Len(old)) - Len(old) = i
      BY <1>4
    <3>3. new[i + Len(old)] = b /\ i + Len(old) \in 1..Len(new)
      BY <1>4, <3>1, <3>2
    <3> QED
      BY <1>3, <1>4, <3>1, <3>3, InTable
  <2> QED
    BY <1>12, <2>1, <2>2
<1>13. ASSUME NEW b \in free_blocks, b \in Range(new) PROVE b \in Range(q) \cup Range(r)
  <2>1. PICK i \in 1..Len(new) : new[i] = b
    BY <1>4, <1>13, InTable
  <2>2. CASE i \in 1..Len(old) /\ q # <<>> /\ i = Len(old)
    BY <1>6, <1>9, <2>1, <2>2, <1>4
  <2>3. CASE i \in (Len(old) + 1)..(Len(old) + n)
    BY <1>3, <1>4, <1>7, <2>1, <2>3, InTable
  <2> QED
    BY <1>1, <1>9, <2>1, <2>2, <2>3
<1> QED
  BY <1>4, <1>5, <1>9, <1>11, <1>12, <1>13 DEF new, copy, old

\* A block with two holders is counted more than once.
LEMMA TwoHolders ==
  ASSUME PagedInv, NEW b \in Blocks, NEW s \in Holders(b), NEW t \in Holders(b), s # t
  PROVE  refcounts[b] > 1
<1>1. IsFiniteSet(Holders(b)) /\ Cardinality(Holders(b)) \in Nat
  BY HoldersFinite
<1>2. {s, t} \in SUBSET Holders(b)
  OBVIOUS
<1>3. Cardinality({s, t}) = 2
  <2>1. IsFiniteSet({s}) /\ Cardinality({s}) = 1
    BY FS_Singleton
  <2>2. Cardinality({s} \cup {t}) = 2
    <3> DEFINE S == {s}
    <3>1. IsFiniteSet(S) /\ Cardinality(S) = 1 /\ t \notin S
      BY <2>1
    <3> HIDE DEF S
    <3>2. Cardinality(S \cup {t}) = Cardinality(S) + 1
      BY <3>1, FS_AddElement
    <3> QED
      BY <3>1, <3>2 DEF S
  <2>3. {s, t} = {s} \cup {t}
    OBVIOUS
  <2> QED
    BY <2>2, <2>3
<1>4. Cardinality({s, t}) <= Cardinality(Holders(b))
  BY <1>1, <1>2, FS_Subset
<1> QED
  BY <1>1, <1>3, <1>4 DEF PagedInv, BlocksCounted

\* What is filled stays filled: growing leaves the fill of a block that another sequence holds alone.
LEMMA SharedFillKept ==
  ASSUME PagedInv, NEW s \in Known, NEW y \in Known, y # s,
         NEW i \in 1..Len(block_tables[s]), y \in Holders(block_tables[s][i]), NEW n \in Nat,
         ~CopiesLast(s) \/ i # Len(block_tables[s])
  PROVE  i * BlockSize <= token_counts[s] /\ i * BlockSize <= token_counts[s] + n
<1> DEFINE m == token_counts[s]
           old == block_tables[s]
<1>0. /\ old \in Seq(Blocks) /\ m \in Nat /\ Len(old) = _blocks_needed(m)
      /\ old[i] \in Blocks /\ s \in Holders(old[i])
  BY HeldIsNotFree
<1>1. i < Len(old) \/ m % BlockSize = 0
  <2>1. CASE i = Len(old)
    <3>1. refcounts[old[i]] > 1
      BY <1>0, TwoHolders
    <3>2. old # <<>>
      BY <1>0
    <3> QED
      BY <2>1, <3>1, <3>2 DEF CopiesLast, Last
  <2> QED
    BY <1>0, <2>1
<1>2. i * BlockSize <= m
  BY <1>0, <1>1, FullBlocks
<1>3. i * BlockSize \in Nat
  BY <1>0, PagedAssumption
<1> QED
  BY <1>0, <1>2, <1>3

\* extend: the copy is made before the sequence grows into the block, and stays when it cannot grow.
LEMMA PagedExtendSafe ==
  ASSUME PagedInv, NEW s \in SequenceIds, NEW n \in Nat, NEW ok \in BOOLEAN,
         PagedExtend(s, n, ok)
  PROVE  PagedInv'
<1> DEFINE old == block_tables[s]
           tokens == token_counts[s]
<1>0. s \in Known
  BY DEF PagedExtend, Known
<1>a. /\ free_blocks \subseteq Blocks
      /\ block_tables \in [SequenceIds -> Seq(Blocks) \cup {None}]
      /\ token_counts \in [SequenceIds -> Nat \cup {None}]
      /\ refcounts \in [Blocks -> Nat]
      /\ None \notin Nat
      /\ \A t \in SequenceIds : block_tables[t] = None <=> token_counts[t] = None
  BY SequencesAssumption DEF PagedInv, PagedType
<1>b. old \in Seq(Blocks) /\ tokens \in Nat /\ Len(old) = _blocks_needed(tokens)
  BY <1>0, HeldIsNotFree
<1>1. CASE /\ Copies(s) = {} /\ ~ok
           /\ UNCHANGED <<free_blocks, block_tables, refcounts>>
  <2>1. UNCHANGED pagedVars
    BY <1>1 DEF PagedExtend, Counted, pagedVars
  <2> QED
    BY <2>1, PagedUnchanged
<1>2. ASSUME NEW q \in Copies(s), NEW extra \in Nat,
             ok => extra = Extra(s, tokens + n), ~ok => extra = 0,
             NEW r \in _take(extra, free_blocks \ Range(q)),
             free_blocks' = (free_blocks \ Range(q)) \ Range(r),
             refcounts' = [b \in Blocks |-> IF b \in Range(r) THEN 1 ELSE AfterCopy(s, q)[b]],
             block_tables' = [block_tables EXCEPT ![s] = WithCopy(s, q) \o r]
      PROVE  PagedInv'
  <2> DEFINE new == WithCopy(s, q) \o r
  <2>1. /\ new \in Seq(Blocks) /\ Len(new) = Len(old) + extra
        /\ \A i \in 1..Len(new) :
             \/ i \in 1..Len(old) /\ ~(q # <<>> /\ i = Len(old)) /\ new[i] = old[i]
             \/ new[i] \in free_blocks
        /\ \A i \in 1..Len(old) : ~(q # <<>> /\ i = Len(old)) => new[i] = old[i]
        /\ \A i, j \in 1..Len(new) : new[i] = new[j] => i = j
        /\ \A b : b \in Range(q) \cup Range(r) => b \in free_blocks /\ b \in Range(new)
        /\ \A b \in free_blocks : b \in Range(new) => b \in Range(q) \cup Range(r)
    BY <1>0, <1>2, GrownTable
  <2>2. block_tables' = [block_tables EXCEPT ![s] = new]
    BY <1>2
  <2> HIDE DEF new
  <2>3. new # None /\ block_tables'[s] = new
    BY <1>a, <2>1, <2>2, NoneIsNoTable
  <2>4. Known' = Known
    BY <1>0, <1>a, <2>2, <2>3 DEF Known
  <2>5. /\ token_counts' \in [SequenceIds -> Nat \cup {None}]
        /\ token_counts'[s] = IF ok THEN tokens + n ELSE tokens
        /\ \A t \in SequenceIds : t # s => token_counts'[t] = token_counts[t]
    <3>1. token_counts' = IF ok THEN [token_counts EXCEPT ![s] = tokens + n] ELSE token_counts
      BY DEF PagedExtend, Counted
    <3>2. tokens + n \in Nat
      BY <1>b
    <3> QED
      BY <1>a, <1>b, <3>1, <3>2
  <2>c. \A b \in Blocks : b \in Range(q) => ~(q # <<>> /\ b = Last(old))
    <3> SUFFICES ASSUME NEW b \in Range(q), q # <<>>, b = Last(old) PROVE FALSE
      OBVIOUS
    <3>1. Len(old) \in 1..Len(old) /\ b \in free_blocks
      BY <1>0, <2>1, CopyIsFresh
    <3> QED
      BY <1>0, <3>1, HeldIsNotFree DEF Last
  <2>6. refcounts' \in [Blocks -> Nat]
    <3> SUFFICES ASSUME NEW b \in Blocks PROVE AfterCopy(s, q)[b] \in Nat
      BY <1>2
    <3>1. CASE b \in Range(q) \/ ~(q # <<>> /\ b = Last(old))
      BY <1>a, <2>c, <3>1 DEF AfterCopy
    <3>2. CASE b \notin Range(q) /\ q # <<>> /\ b = Last(old)
      <4>1. refcounts[b] > 1
        BY <1>0, <3>2, CopyIsFresh DEF CopiesLast
      <4>2. AfterCopy(s, q)[b] = refcounts[b] - 1
        BY <3>2 DEF AfterCopy
      <4> QED
        BY <1>a, <4>1, <4>2
    <3> QED
      BY <3>1, <3>2
  <2>7. PagedType'
    <3>1. \A t \in SequenceIds : block_tables'[t] = None <=> token_counts'[t] = None
      BY <1>a, <1>b, <2>2, <2>3, <2>5
    <3> QED
      BY <1>2, <1>a, <2>1, <2>2, <2>5, <2>6, <3>1 DEF PagedType
  <2>8. LengthsFit'
    <3>1. Len(new) = _blocks_needed(token_counts'[s])
      <4>1. CASE ~ok
        BY <1>2, <1>b, <2>1, <2>5, <4>1
      <4>2. CASE ok
        <5>1. _blocks_needed(tokens) <= _blocks_needed(tokens + n)
          BY <1>b, NeededGrows
        <5>2. _blocks_needed(tokens) \in Nat /\ _blocks_needed(tokens + n) \in Nat
          <6>1. tokens + n \in Nat
            BY <1>b
          <6> QED
            BY <1>b, <6>1, NeededBounds
        <5>3. extra = Extra(s, tokens + n)
          BY <1>2, <4>2
        <5>4. extra = _blocks_needed(tokens + n) - Len(old)
          BY <1>b, <5>1, <5>2, <5>3 DEF Extra
        <5> QED
          BY <1>b, <2>1, <2>5, <4>2, <5>2, <5>4
      <4> QED
        BY <4>1, <4>2
    <3>2. ASSUME NEW t \in Known, t # s
          PROVE  Len(block_tables'[t]) = _blocks_needed(token_counts'[t])
      <4>1. t \in SequenceIds
        BY DEF Known
      <4>2. block_tables'[t] = block_tables[t] /\ token_counts'[t] = token_counts[t]
        BY <1>a, <2>2, <2>5, <3>2, <4>1
      <4> QED
        BY <4>2 DEF PagedInv, LengthsFit
    <3> QED
      BY <2>3, <2>4, <3>1, <3>2 DEF LengthsFit
  <2>9. BlocksCounted'
    <3> SUFFICES ASSUME NEW b \in Blocks
                 PROVE  /\ refcounts'[b] = Cardinality(Holders(b)')
                        /\ b \in free_blocks' <=> Holders(b)' = {}
      BY DEF BlocksCounted
    <3>0. PagedType
      BY DEF PagedInv
    <3>1. refcounts[b] = Cardinality(Holders(b)) /\ (b \in free_blocks <=> Holders(b) = {})
      BY DEF PagedInv, BlocksCounted
    <3>2. s \in Holders(b) <=> b \in Range(old)
      BY <1>0 DEF Holders
    <3>3. CASE b \in Range(q) \cup Range(r)
      <4>1. b \in free_blocks /\ b \in Range(new) /\ Holders(b) = {}
        BY <2>1, <3>1, <3>3
      <4>2. /\ Holders(b)' = Holders(b) \cup {s}
            /\ Cardinality(Holders(b)') = Cardinality(Holders(b)) + 1
        BY <2>1, <2>2, <2>3, <3>0, <4>1, HoldersAfter
      <4>3. Cardinality(Holders(b)') = 1
        BY <4>1, <4>2, FS_EmptySet
      <4>4. refcounts'[b] = 1
        BY <1>2, <2>c, <3>3 DEF AfterCopy
      <4>5. b \notin free_blocks'
        BY <1>2, <3>3
      <4> QED
        BY <4>2, <4>3, <4>4, <4>5
    <3>4. CASE b \notin Range(q) \cup Range(r) /\ q # <<>> /\ b = Last(old)
      <4>1. CopiesLast(s) /\ Len(old) \in 1..Len(old) /\ old[Len(old)] = b
        BY <1>0, <1>b, <3>4, CopyIsFresh DEF Last
      <4>2. b \notin free_blocks /\ s \in Holders(b)
        BY <1>0, <4>1, HeldIsNotFree
      <4>3. b \notin Range(new)
        <5>1. ASSUME NEW i \in 1..Len(new), new[i] = b PROVE FALSE
          <6>1. i \in 1..Len(old) /\ i # Len(old) /\ old[i] = b
            BY <2>1, <3>4, <4>2, <5>1
          <6> QED
            BY <1>0, <4>1, <6>1, HeldIsNotFree
        <5> QED
          BY <2>1, <5>1, InTable
      <4>4. /\ Holders(b)' = Holders(b) \ {s}
            /\ Cardinality(Holders(b)') = Cardinality(Holders(b)) - 1
        BY <2>1, <2>2, <2>3, <3>0, <4>2, <4>3, HoldersAfter
      <4>5. refcounts'[b] = refcounts[b] - 1
        BY <1>2, <3>4 DEF AfterCopy
      <4>6. refcounts[b] > 1
        BY <3>4, <4>1 DEF CopiesLast
      <4>7. Holders(b)' # {}
        <5>1. Cardinality(Holders(b)') # 0
          BY <1>a, <3>1, <4>4, <4>6
        <5> QED
          BY <5>1, FS_EmptySet
      <4> QED
        BY <1>2, <3>1, <4>2, <4>4, <4>5, <4>7
    <3>5. CASE b \notin Range(q) \cup Range(r) /\ ~(q # <<>> /\ b = Last(old))
      <4>1. b \in Range(new) <=> b \in Range(old)
        <5>1. ASSUME b \in Range(new) PROVE b \in Range(old)
          <6>1. PICK i \in 1..Len(new) : new[i] = b
            BY <2>1, <5>1, InTable
          <6>2. b \notin free_blocks
            BY <2>1, <3>5, <5>1
          <6>3. i \in 1..Len(old) /\ old[i] = b
            BY <2>1, <6>1, <6>2
          <6> QED
            BY <1>b, <6>3, InTable
        <5>2. ASSUME b \in Range(old) PROVE b \in Range(new)
          <6>1. PICK i \in 1..Len(old) : old[i] = b
            BY <1>b, <5>2, InTable
          <6>2. ~(q # <<>> /\ i = Len(old))
            BY <3>5, <6>1 DEF Last
          <6>3. new[i] = b /\ i \in 1..Len(new)
            BY <1>b, <2>1, <6>1, <6>2
          <6> QED
            BY <2>1, <6>3, InTable
        <5> QED
          BY <5>1, <5>2
      <4>2. Holders(b)' = Holders(b)
        BY <2>1, <2>2, <2>3, <3>0, <3>2, <4>1, HoldersAfter
      <4>3. refcounts'[b] = refcounts[b]
        BY <1>2, <3>5 DEF AfterCopy
      <4> QED
        BY <1>2, <3>1, <3>5, <4>2, <4>3
    <3> QED
      BY <3>3, <3>4, <3>5
  <2>10. SharedBlocksAgree'
    <3> SUFFICES ASSUME NEW x \in Known', NEW y \in Known',
                        NEW i \in DOMAIN block_tables'[x], NEW j \in DOMAIN block_tables'[y],
                        block_tables'[x][i] = block_tables'[y][j]
                 PROVE  i = j /\ Fill(x, i)' = Fill(y, i)'
      BY DEF SharedBlocksAgree
    <3>1. ASSUME NEW z \in Known, z # s
          PROVE  /\ block_tables'[z] = block_tables[z] /\ \A k : Fill(z, k)' = Fill(z, k)
                 /\ block_tables[z] \in Seq(Blocks)
                 /\ \A k \in DOMAIN block_tables[z] :
                      block_tables[z][k] \notin free_blocks /\ z \in Holders(block_tables[z][k])
      <4>1. z \in SequenceIds
        BY DEF Known
      <4>2. block_tables'[z] = block_tables[z] /\ token_counts'[z] = token_counts[z]
        BY <1>a, <2>2, <2>5, <3>1, <4>1
      <4> QED
        BY <4>2, HeldIsNotFree DEF Fill
    <3>2. DOMAIN new = 1..Len(new)
      BY <2>1
    <3>3. ASSUME NEW z \in Known, z # s, NEW k \in 1..Len(new), NEW l \in DOMAIN block_tables[z],
                 new[k] = block_tables[z][l]
          PROVE  k = l /\ Fill(s, k)' = Fill(z, k)
      <4>1. new[k] \notin free_blocks /\ z \in Holders(new[k])
        BY <3>1, <3>3
      <4>2. k \in 1..Len(old) /\ ~(q # <<>> /\ k = Len(old)) /\ new[k] = old[k]
        BY <2>1, <4>1
      <4>3. k = l /\ Fill(s, k) = Fill(z, k)
        <5>1. k \in DOMAIN block_tables[s] /\ block_tables[s][k] = block_tables[z][l]
          BY <1>b, <3>3, <4>2
        <5> QED
          BY <1>0, <3>3, <5>1 DEF PagedInv, SharedBlocksAgree
      <4>4. ~CopiesLast(s) \/ k # Len(old)
        BY <1>0, <4>2, CopyIsFresh
      <4>5. k * BlockSize <= tokens /\ k * BlockSize <= tokens + n
        BY <1>0, <3>3, <4>1, <4>2, <4>4, SharedFillKept
      <4>6. Fill(s, k)' = Fill(s, k)
        BY <1>b, <2>5, <4>5 DEF Fill
      <4> QED
        BY <4>3, <4>6
    <3>4. CASE x = s /\ y = s
      BY <2>1, <2>3, <3>2, <3>4
    <3>5. CASE x # s /\ y # s
      BY <2>4, <3>1, <3>5 DEF PagedInv, SharedBlocksAgree
    <3>6. CASE x = s /\ y # s
      BY <2>3, <2>4, <3>1, <3>2, <3>3, <3>6
    <3>7. CASE x # s /\ y = s
      <4>1. j = i /\ Fill(s, j)' = Fill(x, j)
        BY <2>3, <2>4, <3>1, <3>2, <3>3, <3>7
      <4> QED
        BY <2>4, <3>1, <3>7, <4>1
    <3> QED
      BY <3>4, <3>5, <3>6, <3>7
  <2> QED
    BY <2>7, <2>8, <2>9, <2>10 DEF PagedInv
<1>3. ASSUME NEW q \in Copies(s), NEW r,
             ok = (Extra(s, tokens + n) <= Cardinality(free_blocks \ Range(q))),
             r \in _take(IF ok THEN Extra(s, tokens + n) ELSE 0, free_blocks \ Range(q)),
             free_blocks' = (free_blocks \ Range(q)) \ Range(r),
             refcounts' = [b \in Blocks |-> IF b \in Range(r) THEN 1 ELSE AfterCopy(s, q)[b]],
             block_tables' = [block_tables EXCEPT ![s] = WithCopy(s, q) \o r]
      PROVE  PagedInv'
  <2>1. Extra(s, tokens + n) \in Nat
    <3>1. _blocks_needed(tokens + n) \in Nat /\ Len(old) \in Nat
      <4>1. tokens + n \in Nat
        BY <1>b
      <4> QED
        BY <1>b, <4>1, NeededBounds
    <3> QED
      BY <3>1 DEF Extra
  <2> QED
    BY <1>2, <1>3, <2>1
<1> QED
  BY <1>1, <1>3 DEF PagedExtend

\* fork: the child holds what its parent holds, as far filled.
LEMMA PagedForkSafe ==
  ASSUME PagedInv, NEW p \in SequenceIds, NEW c \in SequenceIds, PagedFork(p, c)
  PROVE  PagedInv'
<1> DEFINE table == block_tables[p]
<1>0. p \in Known /\ c \notin Known /\ p # c
  BY DEF PagedFork, Known
<1>a. /\ free_blocks \subseteq Blocks
      /\ block_tables \in [SequenceIds -> Seq(Blocks) \cup {None}]
      /\ token_counts \in [SequenceIds -> Nat \cup {None}]
      /\ refcounts \in [Blocks -> Nat]
      /\ None \notin Nat
      /\ \A t \in SequenceIds : block_tables[t] = None <=> token_counts[t] = None
  BY SequencesAssumption DEF PagedInv, PagedType
<1>b. table \in Seq(Blocks) /\ table # None /\ token_counts[p] \in Nat
  BY <1>0, HeldIsNotFree DEF Known
<1>1. /\ block_tables' = [block_tables EXCEPT ![c] = table]
      /\ token_counts' = [token_counts EXCEPT ![c] = token_counts[p]]
      /\ refcounts' = [b \in Blocks |-> IF b \in Range(table) THEN refcounts[b] + 1 ELSE refcounts[b]]
      /\ free_blocks' = free_blocks
  BY DEF PagedFork
<1> HIDE DEF table
<1>2. PagedType'
  <2>1. refcounts' \in [Blocks -> Nat]
    BY <1>1, <1>a
  <2> QED
    BY <1>1, <1>a, <1>b, <2>1 DEF PagedType
<1>3. /\ Known' = Known \cup {c}
      /\ \A t \in Known : block_tables'[t] = block_tables[t] /\ token_counts'[t] = token_counts[t]
      /\ block_tables'[c] = table /\ token_counts'[c] = token_counts[p]
  BY <1>0, <1>1, <1>a, <1>b DEF Known
<1>4. LengthsFit'
  BY <1>0, <1>3 DEF PagedInv, LengthsFit, table
<1>5. BlocksCounted'
  <2> SUFFICES ASSUME NEW b \in Blocks
               PROVE  /\ refcounts'[b] = Cardinality(Holders(b)')
                      /\ b \in free_blocks' <=> Holders(b)' = {}
    BY DEF BlocksCounted
  <2>0. PagedType
    BY DEF PagedInv
  <2>1. refcounts[b] = Cardinality(Holders(b)) /\ (b \in free_blocks <=> Holders(b) = {})
    BY DEF PagedInv, BlocksCounted
  <2>2. c \notin Holders(b) /\ (p \in Holders(b) <=> b \in Range(table))
    BY <1>0 DEF Holders, table
  <2>3. CASE b \in Range(table)
    <3>1. Holders(b)' = Holders(b) \cup {c} /\ Cardinality(Holders(b)') = Cardinality(Holders(b)) + 1
      BY <1>1, <1>b, <2>0, <2>2, <2>3, HoldersAfter
    <3> QED
      BY <1>1, <2>1, <2>2, <2>3, <3>1
  <2>4. CASE b \notin Range(table)
    <3>1. Holders(b)' = Holders(b)
      BY <1>1, <1>b, <2>0, <2>2, <2>4, HoldersAfter
    <3> QED
      BY <1>1, <2>1, <2>4, <3>1
  <2> QED
    BY <2>3, <2>4
<1>6. SharedBlocksAgree'
  <2> DEFINE from(z) == IF z = c THEN p ELSE z
  <2>1. ASSUME NEW z \in Known'
        PROVE  /\ from(z) \in Known /\ block_tables'[z] = block_tables[from(z)]
               /\ \A k : Fill(z, k)' = Fill(from(z), k)
    <3>1. /\ from(z) \in Known /\ block_tables'[z] = block_tables[from(z)]
          /\ token_counts'[z] = token_counts[from(z)]
      BY <1>0, <1>3 DEF table
    <3> QED
      BY <3>1 DEF Fill
  <2> HIDE DEF from
  <2> SUFFICES ASSUME NEW x \in Known', NEW y \in Known',
                      NEW i \in DOMAIN block_tables'[x], NEW j \in DOMAIN block_tables'[y],
                      block_tables'[x][i] = block_tables'[y][j]
               PROVE  i = j /\ Fill(x, i)' = Fill(y, i)'
    BY DEF SharedBlocksAgree
  <2>2. i = j /\ Fill(from(x), i) = Fill(from(y), i)
    BY <2>1 DEF PagedInv, SharedBlocksAgree
  <2> QED
    BY <2>1, <2>2
<1> QED
  BY <1>2, <1>4, <1>5, <1>6 DEF PagedInv

\* free: a block goes back to the pool with its last holder.
LEMMA PagedFreeSafe ==
  ASSUME PagedInv, NEW s \in SequenceIds, PagedFree(s)
  PROVE  PagedInv'
<1> DEFINE old == block_tables[s]
           refs == [b \in Blocks |-> IF b \in Range(old) THEN refcounts[b] - 1 ELSE refcounts[b]]
<1>0. s \in Known
  BY DEF PagedFree, Known
<1>a. /\ free_blocks \subseteq Blocks
      /\ block_tables \in [SequenceIds -> Seq(Blocks) \cup {None}]
      /\ token_counts \in [SequenceIds -> Nat \cup {None}]
      /\ refcounts \in [Blocks -> Nat]
      /\ None \notin Nat
      /\ \A t \in SequenceIds : block_tables[t] = None <=> token_counts[t] = None
  BY SequencesAssumption DEF PagedInv, PagedType
<1>1. /\ block_tables' = [block_tables EXCEPT ![s] = None]
      /\ token_counts' = [token_counts EXCEPT ![s] = None]
      /\ refcounts' = refs
      /\ free_blocks' = free_blocks \cup {b \in Range(old) : refs[b] = 0}
  BY DEF PagedFree, Dropped
<1>b. old \in Seq(Blocks) /\ \A b \in Range(old) : b \in Blocks
  <2>1. old \in Seq(Blocks)
    BY <1>0, HeldIsNotFree
  <2> QED
    BY <2>1, InTable
<1>2. ASSUME NEW b \in Blocks
      PROVE  /\ refs[b] = Cardinality(Holders(b)')
             /\ b \in free_blocks' <=> Holders(b)' = {}
             /\ refs[b] \in Nat
  <2>0. PagedType
    BY DEF PagedInv
  <2>1. refcounts[b] = Cardinality(Holders(b)) /\ (b \in free_blocks <=> Holders(b) = {})
    BY DEF PagedInv, BlocksCounted
  <2>2. s \in Holders(b) <=> b \in Range(old)
    BY <1>0 DEF Holders
  <2>3. CASE b \in Range(old)
    <3>1. /\ Holders(b)' = Holders(b) \ {s}
          /\ Cardinality(Holders(b)') = Cardinality(Holders(b)) - 1
      BY <1>1, <2>0, <2>2, <2>3, HoldersAfter
    <3>2. IsFiniteSet(Holders(b)') /\ Cardinality(Holders(b)') \in Nat
      <4>1. Holders(b)' \in SUBSET Holders(b)
        BY <3>1
      <4> QED
        BY <4>1, HoldersFinite, FS_Subset, FS_CardinalityType
    <3>3. Cardinality(Holders(b)') = 0 <=> Holders(b)' = {}
      BY <3>2, FS_EmptySet
    <3>4. refs[b] = Cardinality(Holders(b)') /\ b \notin free_blocks
      BY <2>1, <2>2, <2>3, <3>1
    <3> QED
      BY <1>1, <2>3, <3>2, <3>3, <3>4
  <2>4. CASE b \notin Range(old)
    <3>1. Holders(b)' = Holders(b)
      BY <1>1, <2>0, <2>2, <2>4, HoldersAfter
    <3> QED
      BY <1>1, <1>a, <2>1, <2>4, <3>1
  <2> QED
    BY <2>3, <2>4
<1>3. BlocksCounted'
  BY <1>1, <1>2 DEF BlocksCounted
<1>4. PagedType'
  <2>1. refcounts' \in [Blocks -> Nat]
    BY <1>1, <1>2
  <2>2. free_blocks' \subseteq Blocks
    BY <1>1, <1>a, <1>b
  <2> HIDE DEF refs, old
  <2> QED
    BY <1>1, <1>a, <2>1, <2>2 DEF PagedType
<1>5. /\ Known' = Known \ {s}
      /\ \A t \in Known' : block_tables'[t] = block_tables[t] /\ token_counts'[t] = token_counts[t]
  BY <1>1, <1>a DEF Known
<1>6. LengthsFit'
  BY <1>5 DEF PagedInv, LengthsFit
<1>7. SharedBlocksAgree'
  <2>1. \A t \in Known' : \A k : Fill(t, k)' = Fill(t, k)
    BY <1>5 DEF Fill
  <2> QED
    BY <1>5, <2>1 DEF PagedInv, SharedBlocksAgree
<1> QED
  BY <1>3, <1>4, <1>6, <1>7 DEF PagedInv

\* An empty pool of sequences holds nothing.
LEMMA PagedInitial == PagedInit => PagedInv
<1> SUFFICES ASSUME PagedInit PROVE PagedInv
  OBVIOUS
<1>1. Known = {} /\ \A b : Holders(b) = {}
  BY DEF PagedInit, Known, Holders
<1>2. PagedType
  BY DEF PagedInit, PagedType
<1>3. BlocksCounted
  BY <1>1, FS_EmptySet DEF PagedInit, BlocksCounted
<1> QED
  BY <1>1, <1>2, <1>3 DEF PagedInv, LengthsFit, SharedBlocksAgree

-----------------------------------------------------------------------------
(* Both allocators behind the port. *)

AllocatorsInv == PagedInv /\ ContiguousInv /\ kind \in {"paged", "contiguous"}

\* Regions left alone stay apart.
LEMMA ContiguousUnchanged == ContiguousInv /\ UNCHANGED regions => ContiguousInv'
  BY DEF ContiguousInv, RegionsType, RegionsApart

\* Freeing a region keeps the others apart.
LEMMA ContiguousFreeSafe ==
  ASSUME ContiguousInv, NEW s \in SequenceIds, ContiguousFree(s)
  PROVE  ContiguousInv'
<1>0. regions \in [SequenceIds -> Regions \cup {None}] /\ regions' = [regions EXCEPT ![s] = None]
  BY DEF ContiguousInv, RegionsType, ContiguousFree
<1>1. RegionsType'
  BY <1>0 DEF RegionsType
<1>2. \A t \in SequenceIds : regions'[t] # None => regions'[t] = regions[t]
  BY <1>0
<1>3. RegionsApart'
  BY <1>2 DEF ContiguousInv, RegionsApart
<1> QED
  BY <1>1, <1>3 DEF ContiguousInv

\* A forked region has the length of a region.
LEMMA RegionLength ==
  ASSUME ContiguousInv, NEW s \in SequenceIds, regions[s] # None
  PROVE  regions[s][1] \in Nat /\ regions[s][2] \in Nat
  BY DEF ContiguousInv, RegionsType, Regions

\* Every call of either allocator keeps the invariant.
LEMMA AllocatorsStep == AllocatorsInv /\ [Next]_vars => AllocatorsInv'
<1> SUFFICES ASSUME AllocatorsInv, [Next]_vars PROVE AllocatorsInv'
  OBVIOUS
<1>0. PagedInv /\ ContiguousInv /\ kind \in {"paged", "contiguous"} /\ MaxTokens \in Nat
  BY SequencesAssumption DEF AllocatorsInv
<1>a. ASSUME NEW op, NEW s, NEW n, NEW ok, Paged(op, s, n, ok), PagedInv' PROVE AllocatorsInv'
  BY <1>0, <1>a, ContiguousUnchanged DEF Paged, Answered, AllocatorsInv
<1>b. ASSUME NEW op, NEW s, NEW n, NEW ok, Contiguous(op, s, n, ok), ContiguousInv' PROVE AllocatorsInv'
  BY <1>0, <1>b, PagedUnchanged DEF Contiguous, Answered, AllocatorsInv
<1>1. ASSUME NEW s \in SequenceIds, NEW n \in 0..MaxTokens, NEW ok \in BOOLEAN,
             \/ PagedAllocate(s, n, ok) /\ Paged("allocate", s, n, ok)
             \/ PagedExtend(s, n, ok) /\ Paged("extend", s, n, ok)
      PROVE  AllocatorsInv'
  <2>1. n \in Nat
    BY <1>0
  <2>2. PagedInv'
    BY <1>0, <1>1, <2>1, PagedAllocateSafe, PagedExtendSafe
  <2> QED
    BY <1>1, <1>a, <2>2
<1>2. ASSUME NEW s \in SequenceIds, NEW n \in 0..MaxTokens, NEW ok \in BOOLEAN,
             \/ ContiguousAllocate(s, n, ok) /\ Contiguous("allocate", s, n, ok)
             \/ ContiguousExtend(s, n, ok) /\ Contiguous("extend", s, n, ok)
      PROVE  AllocatorsInv'
  <2>1. n \in Nat
    BY <1>0
  <2>2. ContiguousInv'
    BY <1>0, <1>2, <2>1, ContiguousAllocateSafe, ContiguousExtendSafe
  <2> QED
    BY <1>2, <1>b, <2>2
<1>3. ASSUME NEW p \in SequenceIds, NEW c \in SequenceIds, NEW ok \in BOOLEAN,
             PagedFork(p, c) /\ ok /\ Paged("fork", c, Held(p), ok)
      PROVE  AllocatorsInv'
  BY <1>0, <1>3, <1>a, PagedForkSafe
<1>4. ASSUME NEW p \in SequenceIds, NEW c \in SequenceIds, NEW ok \in BOOLEAN,
             ContiguousFork(p, c, ok) /\ Contiguous("fork", c, Held(p), ok)
      PROVE  AllocatorsInv'
  <2>1. regions[p] # None /\ ContiguousAllocate(c, regions[p][2], ok)
    BY <1>4 DEF ContiguousFork
  <2>2. regions[p][2] \in Nat
    BY <1>0, <2>1, RegionLength
  <2>3. ContiguousInv'
    BY <1>0, <2>1, <2>2, ContiguousAllocateSafe
  <2> QED
    BY <1>4, <1>b, <2>3
<1>5. ASSUME NEW s \in SequenceIds,
             \/ PagedFree(s) /\ Paged("free", s, Held(s), TRUE)
             \/ ContiguousFree(s) /\ Contiguous("free", s, Held(s), TRUE)
      PROVE  AllocatorsInv'
  <2>1. CASE PagedFree(s) /\ Paged("free", s, Held(s), TRUE)
    BY <1>0, <1>a, <2>1, PagedFreeSafe
  <2>2. CASE ContiguousFree(s) /\ Contiguous("free", s, Held(s), TRUE)
    BY <1>0, <1>b, <2>2, ContiguousFreeSafe
  <2> QED
    BY <1>5, <2>1, <2>2
<1>6. CASE UNCHANGED vars
  BY <1>0, <1>6, PagedUnchanged, ContiguousUnchanged DEF vars, AllocatorsInv
<1> QED
  BY <1>1, <1>2, <1>3, <1>4, <1>5, <1>6 DEF Next

\* AllocatorsInv holds in every state of every behaviour.
LEMMA AllocatorsInvariant == Spec => []AllocatorsInv
<1>1. Init => AllocatorsInv
  <2>1. ContiguousInit => ContiguousInv
    BY DEF ContiguousInit, ContiguousInv, RegionsType, RegionsApart
  <2> QED
    BY <2>1, PagedInitial DEF Init, AllocatorsInv
<1> QED
  BY <1>1, AllocatorsStep, PTL DEF Spec

\* A sequence without repetitions has as many elements as positions.
LEMMA DistinctCount ==
  ASSUME NEW t \in Seq(Blocks), \A i, j \in 1..Len(t) : t[i] = t[j] => i = j
  PROVE  Cardinality(Range(t)) = Len(t)
<1>1. Len(t) \in Nat /\ DOMAIN t = 1..Len(t)
  OBVIOUS
<1>2. IsFiniteSet(1..Len(t)) /\ Cardinality(1..Len(t)) = Len(t)
  BY <1>1, FS_Interval
<1>3. t \in [1..Len(t) -> Range(t)]
  BY <1>1 DEF Range
<1>4. t \in Surjection(1..Len(t), Range(t))
  BY <1>1, <1>3 DEF Surjection, Range
<1>5. t \in Injection(1..Len(t), Range(t))
  BY <1>1, <1>3 DEF Injection, IsInjective
<1> QED
  BY <1>2, <1>4, <1>5, FS_Surjection

\* Paged blocks are never leaked and never given out twice: a block's count is the number of tables
\* that hold it, the free blocks are those no table holds, and every table holds, each once, the
\* blocks its tokens need, after any sequence of allocate, extend, fork and free, refused ones too.
THEOREM BlocksStayAccountedFor == Spec => []BlocksAccountedFor
<1>1. AllocatorsInv => BlocksAccountedFor
  <2> SUFFICES ASSUME AllocatorsInv PROVE BlocksAccountedFor
    OBVIOUS
  <2>0. PagedInv
    BY DEF AllocatorsInv
  <2>1. ASSUME NEW s \in Known
        PROVE  /\ Len(block_tables[s]) = _blocks_needed(token_counts[s])
               /\ Cardinality(Range(block_tables[s])) = Len(block_tables[s])
    BY <2>0, HeldIsNotFree, DistinctCount
  <2> QED
    BY <2>0, <2>1 DEF BlocksAccountedFor, TablesFit, PagedInv, BlocksCounted
<1> QED
  BY AllocatorsInvariant, <1>1, PTL

\* Copy on write: sequences that share a block agree on its place and on how far it is filled.
THEOREM SharedBlocksStayAgreed == Spec => []SharedBlocksAgree
<1>1. AllocatorsInv => SharedBlocksAgree
  BY DEF AllocatorsInv, PagedInv
<1> QED
  BY AllocatorsInvariant, <1>1, PTL

\* The contiguous allocator never gives one slot of the pool to two sequences, nor one outside it.
THEOREM RegionsStayDisjoint == Spec => []RegionsDisjoint
<1>1. AllocatorsInv => RegionsDisjoint
  <2> SUFFICES ASSUME AllocatorsInv, NEW s \in Others(None)
               PROVE  /\ \A i \in Slots(s) : i < TotalSlots
                      /\ \A t \in Others(s) : Slots(s) \cap Slots(t) = {}
    BY DEF RegionsDisjoint
  <2>0. ContiguousInv /\ TotalSlots \in Nat
    BY ContiguousAssumption DEF AllocatorsInv
  <2>1. s \in SequenceIds /\ regions[s] # None
    BY DEF Others
  <2>2. \A x \in SequenceIds : regions[x] # None =>
           /\ regions[x][1] \in Nat /\ regions[x][2] \in Nat
           /\ regions[x][1] + regions[x][2] <= TotalSlots
    BY <2>0 DEF ContiguousInv, RegionsType, Regions
  <2>3. \A x \in SequenceIds : regions[x] # None =>
           \A i \in Slots(x) : i \in Nat /\ regions[x][1] <= i /\ i < regions[x][1] + regions[x][2]
    BY <2>2 DEF Slots
  <2>4. \A i \in Slots(s) : i < TotalSlots
    BY <2>0, <2>1, <2>2, <2>3
  <2>5. ASSUME NEW t \in Others(s), NEW i \in Slots(s) \cap Slots(t) PROVE FALSE
    <3>1. t \in SequenceIds /\ regions[t] # None /\ t # s
      BY DEF Others
    <3>2. \/ regions[s][2] = 0 \/ regions[t][2] = 0
          \/ regions[s][1] + regions[s][2] <= regions[t][1]
          \/ regions[t][1] + regions[t][2] <= regions[s][1]
      BY <2>0, <2>1, <3>1 DEF ContiguousInv, RegionsApart
    <3> QED
      BY <2>1, <2>2, <2>3, <3>1, <3>2
  <2> QED
    BY <2>4, <2>5
<1> QED
  BY AllocatorsInvariant, <1>1, PTL

\* First fit: in every reachable pool _find_run refuses a request only if no run of that size is free,
\* and otherwise answers with the lowest one, for any request and any region about to move.
THEOREM ScanIsFirstFit == Spec => []FirstFit
<1>1. AllocatorsInv => FirstFit
  <2> SUFFICES ASSUME AllocatorsInv, NEW n \in 1..TotalSlots, NEW s \in SequenceIds \cup {None}
               PROVE  LET runs == {a \in 0..TotalSlots : Fits(a, n, s)}
                          found == _find_run(n, s)
                      IN IF runs = {} THEN found = None
                         ELSE found \in runs /\ \A a \in runs : found <= a
    BY DEF FirstFit
  <2> DEFINE runs == {a \in 0..TotalSlots : Fits(a, n, s)}
             found == _find_run(n, s)
             met == Runs(n, Occupied(s))
  <2>0. RegionsType /\ TotalSlots \in Nat /\ n \in Nat \ {0} /\ None \notin Nat
    BY ContiguousAssumption, SequencesAssumption DEF AllocatorsInv, ContiguousInv
  <2>1. Occupied(s) \subseteq Regions
    BY <2>0, OccupiedType
  <2>2. found = IF met # {} THEN Min(met) ELSE None
    BY <2>0 DEF _find_run, Scan
  <2>3. \A a \in 0..TotalSlots :
           Fits(a, n, s) <=> /\ a + n <= TotalSlots
                             /\ \A t \in Occupied(s) : t[1] >= a + n \/ t[1] + t[2] <= a
    BY DEF Fits, Occupied
  <2>4. ASSUME NEW c \in met PROVE c \in runs /\ c \in Nat
    <3>1. /\ c \in Nat /\ c + n <= TotalSlots
          /\ \A t \in Occupied(s) : t[1] >= c + n \/ t[1] + t[2] <= c
      BY <2>0, <2>1, RunsAreFree
    <3>2. c \in 0..TotalSlots
      BY <2>0, <3>1
    <3> QED
      BY <2>3, <3>1, <3>2
  <2>5. ASSUME NEW a \in runs PROVE \E c \in met : c <= a
    <3>1. /\ a \in Nat /\ a + n <= TotalSlots
          /\ \A t \in Occupied(s) : t[1] >= a + n \/ t[1] + t[2] <= a
      BY <2>0, <2>3
    <3> QED
      BY <2>0, <2>1, <3>1, FreeIsFound
  <2>6. \A a \in runs : a \in Nat
    BY <2>0
  <2> HIDE DEF met, runs, found
  <2>7. runs = {} => found = None
    BY <2>2, <2>4
  <2>8. ASSUME runs # {} PROVE found \in runs /\ \A a \in runs : found <= a
    <3>1. met # {} /\ met \subseteq Nat
      BY <2>4, <2>5, <2>8
    <3>2. Min(met) \in met /\ \A c \in met : Min(met) <= c
      BY <3>1, MinIsLeast
    <3>3. found = Min(met) /\ found \in runs /\ found \in Nat
      BY <2>2, <2>4, <3>1, <3>2
    <3>4. ASSUME NEW a \in runs PROVE found <= a
      <4>1. PICK c \in met : c <= a
        BY <2>5
      <4>2. found <= c /\ c \in Nat /\ a \in Nat
        BY <2>4, <2>6, <3>2, <3>3
      <4> QED
        BY <3>3, <4>1, <4>2
    <3> QED
      BY <3>3, <3>4
  <2> QED
    BY <2>7, <2>8 DEF runs, found
<1> QED
  BY AllocatorsInvariant, <1>1, PTL

-----------------------------------------------------------------------------
(* What is reported as used and as free. *)

\* The slots of the pool that lie in some of the spans st[i], of length ln[i].
Covered(n, st, ln) == {x \in 0..(n - 1) : \E i \in DOMAIN ln : st[i] <= x /\ x < st[i] + ln[i]}

\* Lengths of spans that lie one behind the other add up to the slots they cover.
LEMMA SummedCovers ==
  ASSUME NEW I, NEW st \in [I -> Nat], NEW ln \in [I -> Nat], NEW n \in Nat,
         \A i \in I : st[i] + ln[i] <= n,
         \A i, j \in I : i # j => \/ ln[i] = 0 \/ ln[j] = 0
                                  \/ st[i] + ln[i] <= st[j] \/ st[j] + ln[j] <= st[i]
  PROVE  Summed(ln) = Cardinality(Covered(n, st, ln))
<1> DEFINE P == UNION {{i} \X (1..ln[i]) : i \in I}
           C == Covered(n, st, ln)
           f == [p \in P |-> st[p[1]] + p[2] - 1]
<1>1. \A p \in P : p[1] \in I /\ p[2] \in 1..ln[p[1]] /\ p = <<p[1], p[2]>>
  OBVIOUS
<1>2. \A i \in I : \A k \in 1..ln[i] : <<i, k>> \in P
  OBVIOUS
<1> HIDE DEF P
<1>3. C = {x \in 0..(n - 1) : \E i \in I : st[i] <= x /\ x < st[i] + ln[i]}
  BY DEF Covered
<1> HIDE DEF C
<1>4. ASSUME NEW p \in P  PROVE f[p] = st[p[1]] + p[2] - 1 /\ f[p] \in C
  <2>1. p[1] \in I /\ p[2] \in 1..ln[p[1]] /\ st[p[1]] \in Nat /\ ln[p[1]] \in Nat /\ st[p[1]] + ln[p[1]] <= n
    BY <1>1
  <2> DEFINE x == st[p[1]] + p[2] - 1
  <2>2. x \in 0..(n - 1) /\ st[p[1]] <= x /\ x < st[p[1]] + ln[p[1]]
    BY <2>1
  <2>3. x \in C
    BY <1>3, <2>1, <2>2
  <2> QED
    BY <2>3
<1>5. f \in [P -> C]
  BY <1>4
<1>6. ASSUME NEW p \in P, NEW q \in P, f[p] = f[q]  PROVE p = q
  <2>1. /\ p[1] \in I /\ p[2] \in 1..ln[p[1]] /\ st[p[1]] \in Nat /\ ln[p[1]] \in Nat /\ p = <<p[1], p[2]>>
        /\ q[1] \in I /\ q[2] \in 1..ln[q[1]] /\ st[q[1]] \in Nat /\ ln[q[1]] \in Nat /\ q = <<q[1], q[2]>>
    BY <1>1
  <2>2. st[p[1]] + p[2] - 1 = st[q[1]] + q[2] - 1
    BY <1>4, <1>6
  <2>3. p[1] = q[1]
    <3> SUFFICES ASSUME p[1] # q[1]  PROVE FALSE
      OBVIOUS
    <3>1. \/ ln[p[1]] = 0 \/ ln[q[1]] = 0
          \/ st[p[1]] + ln[p[1]] <= st[q[1]] \/ st[q[1]] + ln[q[1]] <= st[p[1]]
      BY <2>1
    <3> QED
      BY <2>1, <2>2, <3>1
  <2>4. p[2] = q[2]
    BY <2>1, <2>2, <2>3
  <2> QED
    BY <2>1, <2>3, <2>4
<1>7. ASSUME NEW x \in C  PROVE \E p \in P : f[p] = x
  <2>1. PICK i \in I : st[i] <= x /\ x < st[i] + ln[i] /\ x \in Nat
    BY <1>3
  <2>2. x - st[i] + 1 \in 1..ln[i] /\ st[i] + (x - st[i] + 1) - 1 = x
    BY <2>1
  <2> DEFINE p == <<i, x - st[i] + 1>>
  <2>3. p \in P /\ p[1] = i /\ p[2] = x - st[i] + 1
    BY <1>2, <2>2
  <2> HIDE DEF p
  <2>4. f[p] = x
    BY <1>4, <2>2, <2>3
  <2> QED
    BY <2>3, <2>4
<1> HIDE DEF f
<1>8. f \in Bijection(P, C)
  BY <1>5, <1>6, <1>7, Zenon DEF Bijection, Injection, Surjection, IsInjective
<1>9. ExistsBijection(C, P)
  <2>1. ExistsBijection(P, C)
    BY <1>8, Zenon DEF ExistsBijection
  <2> QED
    BY <2>1, Fun_ExistsBijSymmetric
<1>10. IsFiniteSet(C)
  <2>1. IsFiniteSet(0..(n - 1))
    BY FS_Interval
  <2>2. C \subseteq 0..(n - 1)
    BY <1>3
  <2> QED
    BY <2>1, <2>2, FS_Subset
<1>11. Cardinality(P) = Cardinality(C)
  BY <1>9, <1>10, FS_Bijection
<1>12. Summed(ln) = Cardinality(P)
  BY DEF Summed, P
<1> QED
  BY <1>11, <1>12 DEF C

\* The regions before a region are regions, and the cursor behind them.
LEMMA PassedBehind ==
  ASSUME NEW occupied, occupied \subseteq Regions, NEW r \in occupied
  PROVE  /\ Cursor(Passed(r, occupied)) \in Nat
         /\ \A t \in occupied : Before(t, r) => t[1] + t[2] <= Cursor(Passed(r, occupied))
<1>1. Passed(r, occupied) \subseteq Regions
  BY DEF Passed
<1>2. \A t \in occupied : Before(t, r) => t \in Passed(r, occupied)
  BY DEF Passed
<1>3. Cursor(Passed(r, occupied)) \in 0..TotalSlots
  BY <1>1, CursorBehind
<1> QED
  BY <1>1, <1>2, <1>3, CursorBehind

\* The gaps between some regions of the pool, and behind all of them.
Gaps(occupied) ==
  Gap(Cursor(occupied), TotalSlots) \cup UNION {Gap(Cursor(Passed(r, occupied)), r[1]) : r \in occupied}

\* A gap is in front of a region, or behind all of them.
LEMMA GapIsSomewhere ==
  ASSUME NEW occupied, NEW g
  PROVE  g \in Gaps(occupied) <=> \/ \E r \in occupied : g \in Gap(Cursor(Passed(r, occupied)), r[1])
                                  \/ g \in Gap(Cursor(occupied), TotalSlots)
<1> DEFINE before(r) == Gap(Cursor(Passed(r, occupied)), r[1])
           fronts == {before(r) : r \in occupied}
           behind == Gap(Cursor(occupied), TotalSlots)
<1>1. Gaps(occupied) = behind \cup UNION fronts
  BY DEF Gaps
<1>2. \A s : s \in fronts <=> \E r \in occupied : s = before(r)
  OBVIOUS
<1> HIDE DEF before, behind, fronts
<1>3. g \in Gaps(occupied) <=> (\E s \in fronts : g \in s) \/ g \in behind
  BY <1>1, Zenon
<1>4. g \in Gaps(occupied) <=> (\E r \in occupied : g \in before(r)) \/ g \in behind
  BY <1>2, <1>3, Zenon
<1> QED
  BY <1>4 DEF before, behind

\* A gap lies in the pool, and every region in front of it or behind it.
LEMMA GapsAreFree ==
  ASSUME NEW occupied, occupied \subseteq Regions, NEW g \in Gaps(occupied)
  PROVE  /\ g \in Nat \X Nat /\ g[2] > 0 /\ g[1] + g[2] <= TotalSlots
         /\ \/ \E r \in occupied : g = <<Cursor(Passed(r, occupied)), r[1] - Cursor(Passed(r, occupied))>>
            \/ g = <<Cursor(occupied), TotalSlots - Cursor(occupied)>>
         /\ \A t \in occupied : t[1] >= g[1] + g[2] \/ t[1] + t[2] <= g[1]
<1>0. TotalSlots \in Nat /\ \A t \in occupied : t[1] \in Nat /\ t[2] \in Nat /\ t[1] + t[2] <= TotalSlots
  BY ContiguousAssumption DEF Regions
<1>1. CASE \E r \in occupied : g \in Gap(Cursor(Passed(r, occupied)), r[1])
  <2>1. PICK r \in occupied : g \in Gap(Cursor(Passed(r, occupied)), r[1])
    BY <1>1
  <2> DEFINE c == Cursor(Passed(r, occupied))
  <2>2. c \in Nat /\ \A t \in occupied : Before(t, r) => t[1] + t[2] <= c
    BY PassedBehind
  <2>3. r[1] > c /\ g = <<c, r[1] - c>>
    BY <2>1 DEF Gap
  <2>4. g \in Nat \X Nat /\ g[1] = c /\ g[2] = r[1] - c /\ g[2] > 0 /\ g[1] + g[2] = r[1] /\ r[1] <= TotalSlots
    BY <1>0, <2>2, <2>3
  <2>5. ASSUME NEW t \in occupied  PROVE t[1] >= r[1] \/ t[1] + t[2] <= c
    BY <1>0, <2>2 DEF Before
  <2>6. g[1] + g[2] <= TotalSlots
    BY <1>0, <2>4
  <2>7. \E s \in occupied : g = <<Cursor(Passed(s, occupied)), s[1] - Cursor(Passed(s, occupied))>>
    BY <2>3
  <2> HIDE DEF c
  <2> QED
    BY <2>4, <2>5, <2>6, <2>7
<1>2. CASE g \in Gap(Cursor(occupied), TotalSlots)
  <2> DEFINE c == Cursor(occupied)
  <2>1. c \in Nat /\ \A t \in occupied : t[1] + t[2] <= c
    BY <1>0, CursorBehind
  <2>2. TotalSlots > c /\ g = <<c, TotalSlots - c>>
    BY <1>2 DEF Gap
  <2>3. g \in Nat \X Nat /\ g[1] = c /\ g[2] > 0 /\ g[1] + g[2] <= TotalSlots
    BY <1>0, <2>1, <2>2
  <2>4. g = <<Cursor(occupied), TotalSlots - Cursor(occupied)>>
    BY <2>2
  <2> HIDE DEF c
  <2> QED
    BY <2>1, <2>3, <2>4
<1> QED
  BY <1>1, <1>2, GapIsSomewhere

\* Two gaps lie one behind the other.
LEMMA GapsApart ==
  ASSUME NEW occupied, occupied \subseteq Regions, NEW g \in Gaps(occupied), NEW h \in Gaps(occupied), g # h
  PROVE  g[1] + g[2] <= h[1] \/ h[1] + h[2] <= g[1]
<1>0. TotalSlots \in Nat /\ \A t \in occupied : t[1] \in Nat /\ t[2] \in Nat /\ t[1] + t[2] <= TotalSlots
  BY ContiguousAssumption DEF Regions
<1> DEFINE of(k, r) == k = <<Cursor(Passed(r, occupied)), r[1] - Cursor(Passed(r, occupied))>>
           last == <<Cursor(occupied), TotalSlots - Cursor(occupied)>>
<1>1. (g = last \/ \E r \in occupied : of(g, r)) /\ (h = last \/ \E r \in occupied : of(h, r))
  BY GapsAreFree
<1>2. ASSUME NEW k, NEW r \in occupied, of(k, r)
      PROVE  k[1] \in Nat /\ k[1] = Cursor(Passed(r, occupied)) /\ k[1] + k[2] = r[1]
  <2>1. Cursor(Passed(r, occupied)) \in Nat
    BY PassedBehind
  <2> QED
    BY <1>0, <1>2, <2>1
<1>3. last[1] = Cursor(occupied) /\ Cursor(occupied) \in Nat /\ \A t \in occupied : t[1] <= Cursor(occupied)
  <2>1. Cursor(occupied) \in 0..TotalSlots /\ \A t \in occupied : t[1] + t[2] <= Cursor(occupied)
    BY CursorBehind
  <2> QED
    BY <1>0, <2>1
<1>4. ASSUME NEW k, NEW r \in occupied, of(k, r)  PROVE k[1] + k[2] <= last[1]
  BY <1>2, <1>3, <1>4
<1>5. ASSUME NEW r \in occupied, NEW s \in occupied, of(g, r), of(h, s)
      PROVE  g[1] + g[2] <= h[1] \/ h[1] + h[2] <= g[1]
  <2>1. r # s
    BY <1>5
  <2>2. g[1] + g[2] = r[1] /\ h[1] + h[2] = s[1]
        /\ g[1] = Cursor(Passed(r, occupied)) /\ h[1] = Cursor(Passed(s, occupied))
    BY <1>2, <1>5
  <2>3. Before(r, s) \/ Before(s, r)
    <3>1. r \in Nat \X Nat /\ s \in Nat \X Nat
      BY DEF Regions
    <3>2. r[1] # s[1] \/ r[2] # s[2]
      BY <2>1, <3>1
    <3> QED
      BY <1>0, <3>2 DEF Before
  <2>4. CASE Before(r, s)
    <3>1. r[1] + r[2] <= h[1] /\ h[1] \in Nat
      BY <2>2, <2>4, PassedBehind
    <3> QED
      BY <1>0, <2>2, <3>1
  <2>5. CASE Before(s, r)
    <3>1. s[1] + s[2] <= g[1] /\ g[1] \in Nat
      BY <2>2, <2>5, PassedBehind
    <3> QED
      BY <1>0, <2>2, <3>1
  <2> QED
    BY <2>3, <2>4, <2>5
<1> HIDE DEF of, last
<1> QED
  BY <1>1, <1>4, <1>5

\* A slot of the pool in no region is in a gap.
LEMMA FreeIsInGap ==
  ASSUME NEW occupied, occupied \subseteq Regions, NEW x \in Nat, x < TotalSlots,
         \A t \in occupied : t[1] > x \/ t[1] + t[2] <= x
  PROVE  \E g \in Gaps(occupied) : g[1] <= x /\ x < g[1] + g[2]
<1> DEFINE later == {t \in occupied : t[1] > x}
<1>0. TotalSlots \in Nat
  BY ContiguousAssumption
<1>1. \A t \in occupied : t[1] \in Nat /\ t[2] \in Nat
  BY DEF Regions
<1>2. ASSUME NEW passed, passed \subseteq occupied, \A t \in passed : t[1] + t[2] <= x
      PROVE  Cursor(passed) \in Nat /\ Cursor(passed) <= x
  <2>1. passed \subseteq Regions
    BY <1>2
  <2>2. /\ Cursor(passed) \in 0..TotalSlots
        /\ Cursor(passed) = 0 \/ \E r \in passed : Cursor(passed) = r[1] + r[2]
    BY <2>1, CursorBehind
  <2> QED
    BY <1>0, <1>2, <2>2
<1>3. ASSUME NEW c \in Nat, NEW e \in Nat, c <= x, x < e
      PROVE  \E g \in Gap(c, e) : g[1] <= x /\ x < g[1] + g[2]
  <2> DEFINE g == <<c, e - c>>
  <2>1. g \in Gap(c, e) /\ g[1] = c /\ g[2] = e - c
    BY <1>3 DEF Gap
  <2>2. g[1] <= x /\ x < g[1] + g[2]
    BY <1>3, <2>1
  <2> QED
    BY <2>1, <2>2
<1>4. CASE later = {}
  <2>1. Cursor(occupied) \in Nat /\ Cursor(occupied) <= x
    BY <1>2, <1>4
  <2>2. \E g \in Gap(Cursor(occupied), TotalSlots) : g[1] <= x /\ x < g[1] + g[2]
    BY <1>0, <1>3, <2>1
  <2> QED
    BY <2>2, GapIsSomewhere
<1>5. CASE later # {}
  <2>1. PICK r \in later : \A t \in later : ~Before(t, r)
    BY <1>1, <1>5, FirstRegion
  <2>2. \A t \in Passed(r, occupied) : t[1] + t[2] <= x
    BY <2>1 DEF Passed
  <2>3. Passed(r, occupied) \subseteq occupied
    BY DEF Passed
  <2>4. Cursor(Passed(r, occupied)) \in Nat /\ Cursor(Passed(r, occupied)) <= x
    BY <1>2, <2>2, <2>3
  <2>5. \E g \in Gap(Cursor(Passed(r, occupied)), r[1]) : g[1] <= x /\ x < g[1] + g[2]
    BY <1>1, <1>3, <2>4
  <2> QED
    BY <2>5, GapIsSomewhere
<1> QED
  BY <1>4, <1>5

\* The regions in use and the gaps between them add up to the pool.
LEMMA ContiguousAddsUp ==
  ASSUME ContiguousInv
  PROVE  contiguous_slots_used + Summed([r \in contiguous_free_runs |-> r[2]]) = TotalSlots
<1> DEFINE I == Others(None)
           st == [s \in I |-> regions[s][1]]
           ln == [s \in I |-> regions[s][2]]
           occupied == Occupied(None)
           G == contiguous_free_runs
           from == [g \in G |-> g[1]]
           size == [g \in G |-> g[2]]
           U == Covered(TotalSlots, st, ln)
           F == Covered(TotalSlots, from, size)
           pool == 0..(TotalSlots - 1)
<1>0. TotalSlots \in Nat /\ RegionsType /\ RegionsApart
  BY ContiguousAssumption DEF ContiguousInv
<1>1. \A s \in I : /\ s \in SequenceIds /\ regions[s] # None /\ regions[s] \in occupied
                   /\ regions[s][1] \in Nat /\ regions[s][2] \in Nat
                   /\ regions[s][1] + regions[s][2] <= TotalSlots
  BY <1>0 DEF RegionsType, Regions, Others, Occupied
<1>2. occupied \subseteq Regions /\ \A t \in occupied : \E s \in I : t = regions[s]
  BY <1>0, OccupiedType DEF Occupied
<1>3. G = Gaps(occupied)
  BY DEF contiguous_free_runs, Gaps
<1>4. contiguous_slots_used = Cardinality(U)
  <2>1. contiguous_slots_used = Summed(ln)
    BY DEF contiguous_slots_used
  <2>2. st \in [I -> Nat] /\ ln \in [I -> Nat] /\ \A i \in I : st[i] + ln[i] <= TotalSlots
    BY <1>1
  <2>3. \A i, j \in I : i # j => \/ ln[i] = 0 \/ ln[j] = 0
                                 \/ st[i] + ln[i] <= st[j] \/ st[j] + ln[j] <= st[i]
    BY <1>0, <1>1 DEF RegionsApart
  <2> HIDE DEF st, ln, I
  <2> QED
    BY <1>0, <2>1, <2>2, <2>3, SummedCovers
<1>5. Summed(size) = Cardinality(F)
  <2>1. \A g \in G : g[1] \in Nat /\ g[2] \in Nat /\ g[1] + g[2] <= TotalSlots
    BY <1>2, <1>3, GapsAreFree
  <2>2. from \in [G -> Nat] /\ size \in [G -> Nat] /\ \A g \in G : from[g] + size[g] <= TotalSlots
    BY <2>1
  <2>3. \A g, h \in G : g # h => from[g] + size[g] <= from[h] \/ from[h] + size[h] <= from[g]
    BY <1>2, <1>3, GapsApart
  <2> HIDE DEF from, size, G
  <2> QED
    BY <1>0, <2>2, <2>3, SummedCovers
<1>6. U = {x \in pool : \E s \in I : regions[s][1] <= x /\ x < regions[s][1] + regions[s][2]}
  BY DEF Covered
<1>7. F = {x \in pool : \E g \in G : g[1] <= x /\ x < g[1] + g[2]}
  BY DEF Covered
<1> HIDE DEF U, F, I, G, occupied
<1>8. U \cap F = {}
  <2> SUFFICES ASSUME NEW x \in U, x \in F  PROVE FALSE
    OBVIOUS
  <2>1. PICK s \in I : regions[s][1] <= x /\ x < regions[s][1] + regions[s][2]
    BY <1>6
  <2>2. PICK g \in G : g[1] <= x /\ x < g[1] + g[2]
    BY <1>7
  <2>3. /\ g[1] \in Nat /\ g[2] \in Nat
        /\ regions[s][1] >= g[1] + g[2] \/ regions[s][1] + regions[s][2] <= g[1]
    BY <1>1, <1>2, <1>3, GapsAreFree
  <2>4. x \in Nat
    BY <1>0, <1>6
  <2> QED
    BY <1>1, <2>1, <2>2, <2>3, <2>4
<1>9. U \cup F = pool
  <2> SUFFICES ASSUME NEW x \in pool, x \notin U  PROVE x \in F
    BY <1>6, <1>7
  <2>1. x \in Nat /\ x < TotalSlots
    BY <1>0
  <2>2. \A t \in occupied : t[1] > x \/ t[1] + t[2] <= x
    <3> SUFFICES ASSUME NEW t \in occupied  PROVE t[1] > x \/ t[1] + t[2] <= x
      OBVIOUS
    <3>1. PICK s \in I : t = regions[s]
      BY <1>2
    <3>2. ~(regions[s][1] <= x /\ x < regions[s][1] + regions[s][2])
      BY <1>6
    <3> QED
      BY <1>1, <2>1, <3>1, <3>2
  <2>3. \E g \in Gaps(occupied) : g[1] <= x /\ x < g[1] + g[2]
    BY <1>2, <2>1, <2>2, FreeIsInGap
  <2> QED
    BY <1>3, <1>7, <2>3
<1>10. IsFiniteSet(pool) /\ Cardinality(pool) = TotalSlots
  <2>1. /\ IsFiniteSet(0..(TotalSlots - 1))
        /\ Cardinality(0..(TotalSlots - 1)) = IF 0 > TotalSlots - 1 THEN 0 ELSE TotalSlots - 1 - 0 + 1
    BY <1>0, FS_Interval
  <2>2. (IF 0 > TotalSlots - 1 THEN 0 ELSE TotalSlots - 1 - 0 + 1) = TotalSlots
    BY <1>0
  <2> QED
    BY <2>1, <2>2
<1> HIDE DEF pool
<1>11. IsFiniteSet(U) /\ IsFiniteSet(F)
  <2>1. U \subseteq pool /\ F \subseteq pool
    BY <1>9
  <2> QED
    BY <1>10, <2>1, FS_Subset
<1>12. Cardinality(U \cup F) = Cardinality(U) + Cardinality(F)
  <2>1. Cardinality(U \cup F) = Cardinality(U) + Cardinality(F) - Cardinality(U \cap F)
    BY <1>11, FS_Union
  <2>2. Cardinality(U \cap F) = 0 /\ Cardinality(U) \in Nat /\ Cardinality(F) \in Nat
    BY <1>8, <1>11, FS_EmptySet, FS_CardinalityType
  <2> QED
    BY <2>1, <2>2
<1> QED
  BY <1>4, <1>5, <1>9, <1>10, <1>12 DEF G

\* The blocks in use and the free ones add up to the pool.
LEMMA PagedAddsUp ==
  ASSUME PagedInv
  PROVE  paged_slots_used + paged_free_runs[1] = Cardinality(Blocks) * BlockSize
<1> DEFINE used == {b \in Blocks : refcounts[b] > 0}
<1>1. free_blocks \subseteq Blocks /\ BlocksCounted /\ IsFiniteSet(Blocks) /\ BlockSize \in Nat
  BY PagedAssumption DEF PagedInv, PagedType
<1>2. \A b \in Blocks : refcounts[b] > 0 <=> b \notin free_blocks
  <2> SUFFICES ASSUME NEW b \in Blocks  PROVE refcounts[b] > 0 <=> b \notin free_blocks
    OBVIOUS
  <2>1. refcounts[b] = Cardinality(Holders(b)) /\ (b \in free_blocks <=> Holders(b) = {})
    BY <1>1 DEF BlocksCounted
  <2>2. Cardinality(Holders(b)) \in Nat /\ (Cardinality(Holders(b)) = 0 <=> Holders(b) = {})
    BY HoldersFinite, FS_EmptySet
  <2> QED
    BY <2>1, <2>2
<1>3. used \cup free_blocks = Blocks /\ used \cap free_blocks = {}
  BY <1>1, <1>2
<1>4. IsFiniteSet(used) /\ IsFiniteSet(free_blocks)
  <2>1. used \subseteq Blocks
    OBVIOUS
  <2> QED
    BY <1>1, <2>1, FS_Subset
<1> HIDE DEF used
<1>5. Cardinality(Blocks) = Cardinality(used) + Cardinality(free_blocks)
      /\ Cardinality(used) \in Nat /\ Cardinality(free_blocks) \in Nat
  <2>1. Cardinality(used \cup free_blocks) =
          Cardinality(used) + Cardinality(free_blocks) - Cardinality(used \cap free_blocks)
    BY <1>4, FS_Union
  <2>2. Cardinality(used \cap free_blocks) = 0 /\ Cardinality(used) \in Nat /\ Cardinality(free_blocks) \in Nat
    BY <1>3, <1>4, FS_EmptySet, FS_CardinalityType
  <2>3. Cardinality(Blocks) = Cardinality(used) + Cardinality(free_blocks) - Cardinality(used \cap free_blocks)
    BY <1>3, <2>1
  <2> QED
    BY <2>2, <2>3
<1>6. \A x, y, z \in Nat : x * z + y * z = (x + y) * z
  BY Z3
<1>7. paged_slots_used = Cardinality(used) * BlockSize /\ paged_free_runs[1] = Cardinality(free_blocks) * BlockSize
  BY DEF paged_slots_used, paged_free_runs, used
<1>8. Cardinality(used) * BlockSize + Cardinality(free_blocks) * BlockSize
        = (Cardinality(used) + Cardinality(free_blocks)) * BlockSize
  BY <1>1, <1>5, <1>6
<1> QED
  BY <1>5, <1>7, <1>8, Zenon

\* The figures add up and the scan is first fit, in every reachable pool: a request is refused only
\* if there is no run for it, and what is reported as used and as free is the pool.
THEOREM ScansStayExact == Spec => []ScansExact
<1>1. AllocatorsInv => SlotsAddUp
  BY PagedAddsUp, ContiguousAddsUp DEF AllocatorsInv, SlotsAddUp
<1>2. Spec => []SlotsAddUp
  BY AllocatorsInvariant, <1>1, PTL
<1>3. FirstFit /\ SlotsAddUp => ScansExact
  BY DEF ScansExact
<1> QED
  BY ScanIsFirstFit, <1>2, <1>3, PTL

-----------------------------------------------------------------------------
(* The allocators implement KVCachePort. *)

\* What each allocator holds of a sequence, and that None stands for an unknown one.
LEMMA HeldOf ==
  ASSUME AllocatorsInv, NEW s \in SequenceIds
  PROVE  /\ kind = "paged" => Held(s) = token_counts[s] /\ (block_tables[s] = None <=> Held(s) = None)
         /\ kind # "paged" => Held(s) = IF regions[s] = None THEN None ELSE regions[s][2]
         /\ kind # "paged" => (regions[s] = None <=> Held(s) = None)
         /\ Held(s) # None => Held(s) \in Nat
<1>1. None \notin Nat
  BY SequencesAssumption
<1>2. CASE kind = "paged"
  BY <1>1, <1>2 DEF Held, AllocatorsInv, PagedInv, PagedType
<1>3. CASE kind # "paged"
  <2>1. regions[s] # None => regions[s][2] \in Nat
    BY RegionLength DEF AllocatorsInv
  <2> QED
    BY <1>1, <1>3, <2>1 DEF Held
<1> QED
  BY <1>2, <1>3

\* Whatever the tokens of one sequence become, held is that function.
LEMMA HeldAfter ==
  ASSUME AllocatorsInv, AllocatorsInv', kind' = kind, NEW s \in SequenceIds, NEW v,
         kind = "paged" => token_counts' = [token_counts EXCEPT ![s] = v],
         kind # "paged" =>
            /\ \A t \in SequenceIds : t # s => regions'[t] = regions[t]
            /\ IF v = None THEN regions'[s] = None ELSE regions'[s] # None /\ regions'[s][2] = v
  PROVE  [t \in SequenceIds |-> Held(t)]' = [[t \in SequenceIds |-> Held(t)] EXCEPT ![s] = v]
<1>1. ASSUME NEW t \in SequenceIds PROVE Held(t)' = IF t = s THEN v ELSE Held(t)
  <2>1. CASE kind = "paged"
    BY <2>1 DEF Held, AllocatorsInv, PagedInv, PagedType
  <2>2. CASE kind # "paged"
    <3>1. CASE t = s
      BY <2>2, <3>1 DEF Held
    <3>2. CASE t # s
      BY <2>2, <3>2 DEF Held
    <3> QED
      BY <3>1, <3>2
  <2> QED
    BY <2>1, <2>2
<1> QED
  BY <1>1

\* Calls that change no count and no region leave held alone.
LEMMA HeldSame ==
  ASSUME UNCHANGED <<token_counts, regions, kind>>
  PROVE  UNCHANGED [t \in SequenceIds |-> Held(t)]
  BY DEF Held

\* A region placed at a run has the length asked for.
LEMMA PlacedLength ==
  ASSUME AllocatorsInv, NEW s \in SequenceIds, NEW a \in Nat, NEW n \in Nat,
         regions' = [regions EXCEPT ![s] = <<a, n>>]
  PROVE  /\ regions'[s] # None /\ regions'[s][2] = n /\ n # None
         /\ \A t \in SequenceIds : t # s => regions'[t] = regions[t]
<1>1. <<a, n>> \in Nat \X Nat /\ None \notin Nat \X Nat /\ None \notin Nat
  BY ContiguousAssumption, SequencesAssumption
<1>2. regions'[s] = <<a, n>> /\ \A t \in SequenceIds : t # s => regions'[t] = regions[t]
  BY DEF AllocatorsInv, ContiguousInv, RegionsType
<1> QED
  BY <1>1, <1>2

\* allocate of the contiguous allocator: the tokens asked for, or nothing.
LEMMA AllocatedHeld ==
  ASSUME AllocatorsInv, AllocatorsInv', kind = "contiguous", UNCHANGED kind,
         NEW s \in SequenceIds, NEW n \in Nat, NEW ok \in BOOLEAN,
         ContiguousAllocate(s, n, ok), UNCHANGED pagedVars
  PROVE  LET held == [t \in SequenceIds |-> Held(t)]
         IN  held[s] = None /\ held' = IF ok THEN [held EXCEPT ![s] = n] ELSE held
<1>0. Held(s) = None
  BY HeldOf DEF ContiguousAllocate
<1>1. CASE ~ok
  <2>1. UNCHANGED <<token_counts, regions, kind>>
    BY <1>1 DEF ContiguousAllocate, Place, pagedVars
  <2> QED
    BY <1>0, <1>1, <2>1, HeldSame
<1>2. CASE ok
  <2> DEFINE a == _find_run(n, None)
  <2>1. a # None /\ regions' = [regions EXCEPT ![s] = <<a, n>>]
    BY <1>2 DEF ContiguousAllocate, Place
  <2>2. a \in Nat
    BY <2>1, FoundIsFree DEF AllocatorsInv, ContiguousInv
  <2> HIDE DEF a
  <2>3. /\ regions'[s] # None /\ regions'[s][2] = n /\ n # None
        /\ \A t \in SequenceIds : t # s => regions'[t] = regions[t]
    BY <2>1, <2>2, PlacedLength
  <2> QED
    BY <1>0, <1>2, <2>3, HeldAfter
<1> QED
  BY <1>1, <1>2

\* extend of the contiguous allocator, in place or moved: the tokens asked for in addition, or nothing.
LEMMA ExtendedHeld ==
  ASSUME AllocatorsInv, AllocatorsInv', kind = "contiguous", UNCHANGED kind,
         NEW s \in SequenceIds, NEW n \in Nat, NEW ok \in BOOLEAN,
         ContiguousExtend(s, n, ok), UNCHANGED pagedVars
  PROVE  LET held == [t \in SequenceIds |-> Held(t)]
         IN  held[s] # None /\ held' = IF ok THEN [held EXCEPT ![s] = @ + n] ELSE held
<1> DEFINE target == regions[s][2] + n
           inPlace == ~Blocked(s, regions[s][1], target) /\ regions[s][1] + target <= TotalSlots
           a == IF inPlace THEN regions[s][1] ELSE _find_run(target, s)
<1>0. regions[s] # None /\ Place(s, a, target, ok)
  BY DEF ContiguousExtend
<1>1. Held(s) # None /\ Held(s) = regions[s][2] /\ Held(s) \in Nat /\ target \in Nat
  BY <1>0, HeldOf
<1>2. regions[s][1] \in Nat
  BY <1>0 DEF AllocatorsInv, ContiguousInv, RegionsType, Regions
<1>3. CASE ~ok
  <2>1. UNCHANGED <<token_counts, regions, kind>>
    BY <1>0, <1>3 DEF Place, pagedVars
  <2> QED
    BY <1>1, <1>3, <2>1, HeldSame
<1>4. CASE ok
  <2>1. a # None /\ regions' = [regions EXCEPT ![s] = <<a, target>>]
    BY <1>0, <1>4 DEF Place
  <2>2. a \in Nat
    <3>1. ASSUME ~inPlace PROVE a \in Nat
      BY <1>1, <2>1, <3>1, FoundIsFree DEF AllocatorsInv, ContiguousInv
    <3> QED
      BY <1>2, <3>1
  <2> HIDE DEF a
  <2>3. /\ regions'[s] # None /\ regions'[s][2] = target /\ target # None
        /\ \A t \in SequenceIds : t # s => regions'[t] = regions[t]
    BY <1>1, <2>1, <2>2, PlacedLength
  <2>4. [t \in SequenceIds |-> Held(t)]' = [[t \in SequenceIds |-> Held(t)] EXCEPT ![s] = target]
    BY <2>3, HeldAfter
  <2> QED
    BY <1>1, <1>4, <2>4
<1> QED
  BY <1>3, <1>4

\* allocate and extend of the paged allocator: a refused extend may have copied the last block, and
\* still counts no token.
LEMMA PagedHeld ==
  ASSUME AllocatorsInv, AllocatorsInv', kind = "paged", UNCHANGED <<kind, regions>>,
         NEW s \in SequenceIds, NEW n \in Nat, NEW ok \in BOOLEAN
  PROVE  LET held == [t \in SequenceIds |-> Held(t)]
         IN  /\ PagedAllocate(s, n, ok) =>
                   held[s] = None /\ held' = IF ok THEN [held EXCEPT ![s] = n] ELSE held
             /\ PagedExtend(s, n, ok) =>
                   held[s] # None /\ held' = IF ok THEN [held EXCEPT ![s] = @ + n] ELSE held
<1>0. Held(s) = token_counts[s] /\ (block_tables[s] = None <=> Held(s) = None)
  BY HeldOf
<1>t. token_counts = [t \in SequenceIds |-> token_counts[t]]
  BY DEF AllocatorsInv, PagedInv, PagedType
<1>1. ASSUME ~ok, token_counts' = token_counts
      PROVE  [t \in SequenceIds |-> Held(t)]' = [t \in SequenceIds |-> Held(t)]
  BY <1>1, HeldSame
<1>2. ASSUME NEW v, token_counts' = [token_counts EXCEPT ![s] = v]
      PROVE  [t \in SequenceIds |-> Held(t)]' = [[t \in SequenceIds |-> Held(t)] EXCEPT ![s] = v]
  BY <1>2, HeldAfter
<1>3. ASSUME PagedAllocate(s, n, ok)
      PROVE  /\ Held(s) = None
             /\ token_counts' = IF ok THEN [token_counts EXCEPT ![s] = n] ELSE token_counts
  BY <1>0, <1>3 DEF PagedAllocate, pagedVars
<1>4. ASSUME PagedExtend(s, n, ok)
      PROVE  /\ Held(s) # None
             /\ token_counts' = IF ok THEN [token_counts EXCEPT ![s] = token_counts[s] + n]
                                ELSE token_counts
  BY <1>0, <1>4 DEF PagedExtend, Counted
<1>5. ASSUME PagedAllocate(s, n, ok)
      PROVE  [t \in SequenceIds |-> Held(t)]' =
                IF ok THEN [[t \in SequenceIds |-> Held(t)] EXCEPT ![s] = n]
                ELSE [t \in SequenceIds |-> Held(t)]
  BY <1>1, <1>2, <1>3, <1>5
<1>6. ASSUME PagedExtend(s, n, ok)
      PROVE  [t \in SequenceIds |-> Held(t)]' =
                IF ok THEN [[t \in SequenceIds |-> Held(t)] EXCEPT ![s] = token_counts[s] + n]
                ELSE [t \in SequenceIds |-> Held(t)]
  BY <1>1, <1>2, <1>4, <1>6
<1> QED
  BY <1>0, <1>3, <1>4, <1>5, <1>6

\* Every step of the allocators is a step of the port or leaves it alone.
LEMMA PortStep ==
  AllocatorsInv /\ AllocatorsInv' /\ [Next]_vars =>
     [Port!Next]_<<[s \in SequenceIds |-> Held(s)], call>>
<1> SUFFICES ASSUME AllocatorsInv, AllocatorsInv', [Next]_vars
             PROVE  [Port!Next]_<<[s \in SequenceIds |-> Held(s)], call>>
  OBVIOUS
<1> DEFINE held == [s \in SequenceIds |-> Held(s)]
<1>0. \A s \in SequenceIds : held[s] = Held(s)
  OBVIOUS
<1>n. \A n \in 0..MaxTokens : n \in Nat
  BY SequencesAssumption
<1>p. ASSUME NEW op, NEW s, NEW n, NEW ok, Paged(op, s, n, ok)
      PROVE  /\ kind = "paged" /\ UNCHANGED <<kind, regions>>
             /\ call' = [op |-> op, s |-> s, n |-> n, ok |-> ok]
  BY <1>p DEF Paged, Answered
<1>c. ASSUME NEW op, NEW s, NEW n, NEW ok, Contiguous(op, s, n, ok)
      PROVE  /\ kind = "contiguous" /\ UNCHANGED kind /\ UNCHANGED pagedVars
             /\ call' = [op |-> op, s |-> s, n |-> n, ok |-> ok]
  BY <1>c DEF Contiguous, Answered
<1>1. ASSUME NEW s \in SequenceIds, NEW n \in 0..MaxTokens, NEW ok \in BOOLEAN,
             \/ PagedAllocate(s, n, ok) /\ Paged("allocate", s, n, ok)
             \/ ContiguousAllocate(s, n, ok) /\ Contiguous("allocate", s, n, ok)
      PROVE  Port!Next
  <2>1. /\ held[s] = None /\ held' = IF ok THEN [held EXCEPT ![s] = n] ELSE held
        /\ call' = [op |-> "allocate", s |-> s, n |-> n, ok |-> ok]
    <3>1. CASE PagedAllocate(s, n, ok) /\ Paged("allocate", s, n, ok)
      <4>1. /\ kind = "paged" /\ UNCHANGED <<kind, regions>> /\ n \in Nat
            /\ call' = [op |-> "allocate", s |-> s, n |-> n, ok |-> ok]
        BY <1>n, <1>p, <3>1
      <4> QED
        BY <3>1, <4>1, PagedHeld
    <3>2. CASE ContiguousAllocate(s, n, ok) /\ Contiguous("allocate", s, n, ok)
      BY <1>n, <1>c, <3>2, AllocatedHeld
    <3> QED
      BY <1>1, <3>1, <3>2
  <2>2. Port!allocate(s, n, ok)
    BY <2>1 DEF Port!allocate, Port!Answered
  <2> QED
    BY <2>2 DEF Port!Next
<1>2. ASSUME NEW s \in SequenceIds, NEW n \in 0..MaxTokens, NEW ok \in BOOLEAN,
             \/ PagedExtend(s, n, ok) /\ Paged("extend", s, n, ok)
             \/ ContiguousExtend(s, n, ok) /\ Contiguous("extend", s, n, ok)
      PROVE  Port!Next
  <2>1. /\ held[s] # None /\ held' = IF ok THEN [held EXCEPT ![s] = @ + n] ELSE held
        /\ call' = [op |-> "extend", s |-> s, n |-> n, ok |-> ok]
    <3>1. CASE PagedExtend(s, n, ok) /\ Paged("extend", s, n, ok)
      <4>1. /\ kind = "paged" /\ UNCHANGED <<kind, regions>> /\ n \in Nat
            /\ call' = [op |-> "extend", s |-> s, n |-> n, ok |-> ok]
        BY <1>n, <1>p, <3>1
      <4> QED
        BY <3>1, <4>1, PagedHeld
    <3>2. CASE ContiguousExtend(s, n, ok) /\ Contiguous("extend", s, n, ok)
      BY <1>n, <1>c, <3>2, ExtendedHeld
    <3> QED
      BY <1>2, <3>1, <3>2
  <2>2. Port!extend(s, n, ok)
    BY <2>1 DEF Port!extend, Port!Answered
  <2> QED
    BY <2>2 DEF Port!Next
<1>3. ASSUME NEW p \in SequenceIds, NEW c \in SequenceIds, NEW ok \in BOOLEAN,
             \/ PagedFork(p, c) /\ ok /\ Paged("fork", c, Held(p), ok)
             \/ ContiguousFork(p, c, ok) /\ Contiguous("fork", c, Held(p), ok)
      PROVE  Port!Next
  <2>1. /\ held[p] # None /\ held[c] = None
        /\ held' = IF ok THEN [held EXCEPT ![c] = held[p]] ELSE held
        /\ call' = [op |-> "fork", s |-> c, n |-> held[p], ok |-> ok]
    <3>1. CASE PagedFork(p, c) /\ ok /\ Paged("fork", c, Held(p), ok)
      <4>1. /\ kind = "paged" /\ UNCHANGED kind
            /\ call' = [op |-> "fork", s |-> c, n |-> Held(p), ok |-> ok]
        BY <1>p, <3>1
      <4>2. Held(p) # None /\ Held(c) = None /\ Held(p) = token_counts[p]
        BY <3>1, <4>1, HeldOf DEF PagedFork
      <4>3. token_counts' = [token_counts EXCEPT ![c] = Held(p)]
        BY <3>1, <4>2 DEF PagedFork
      <4>4. held' = [held EXCEPT ![c] = Held(p)]
        BY <4>1, <4>3, HeldAfter
      <4> QED
        BY <3>1, <4>1, <4>2, <4>4
    <3>2. CASE ContiguousFork(p, c, ok) /\ Contiguous("fork", c, Held(p), ok)
      <4>1. /\ kind = "contiguous" /\ UNCHANGED kind /\ UNCHANGED pagedVars
            /\ call' = [op |-> "fork", s |-> c, n |-> Held(p), ok |-> ok]
        BY <1>c, <3>2
      <4>2. regions[p] # None /\ ContiguousAllocate(c, regions[p][2], ok)
        BY <3>2 DEF ContiguousFork
      <4>3. Held(p) # None /\ Held(p) = regions[p][2] /\ Held(p) \in Nat
        BY <4>1, <4>2, HeldOf
      <4>4. held[c] = None /\ held' = IF ok THEN [held EXCEPT ![c] = Held(p)] ELSE held
        BY <4>1, <4>2, <4>3, AllocatedHeld
      <4> QED
        BY <4>1, <4>3, <4>4
    <3> QED
      BY <1>3, <3>1, <3>2
  <2>2. Port!fork(p, c, ok)
    BY <2>1 DEF Port!fork, Port!Answered
  <2> QED
    BY <2>2 DEF Port!Next
<1>4. ASSUME NEW s \in SequenceIds,
             \/ PagedFree(s) /\ Paged("free", s, Held(s), TRUE)
             \/ ContiguousFree(s) /\ Contiguous("free", s, Held(s), TRUE)
      PROVE  Port!Next
  <2>1. /\ held[s] # None /\ held' = [held EXCEPT ![s] = None]
        /\ call' = [op |-> "free", s |-> s, n |-> held[s], ok |-> TRUE]
    <3>1. CASE PagedFree(s) /\ Paged("free", s, Held(s), TRUE)
      <4>1. /\ kind = "paged" /\ UNCHANGED kind
            /\ call' = [op |-> "free", s |-> s, n |-> Held(s), ok |-> TRUE]
        BY <1>p, <3>1
      <4>2. Held(s) # None /\ token_counts' = [token_counts EXCEPT ![s] = None]
        BY <3>1, <4>1, HeldOf DEF PagedFree, Dropped
      <4>3. held' = [held EXCEPT ![s] = None]
        BY <4>1, <4>2, HeldAfter
      <4> QED
        BY <4>1, <4>2, <4>3
    <3>2. CASE ContiguousFree(s) /\ Contiguous("free", s, Held(s), TRUE)
      <4>1. /\ kind = "contiguous" /\ UNCHANGED kind
            /\ call' = [op |-> "free", s |-> s, n |-> Held(s), ok |-> TRUE]
        BY <1>c, <3>2
      <4>2. regions[s] # None /\ regions' = [regions EXCEPT ![s] = None]
        BY <3>2 DEF ContiguousFree
      <4>3. Held(s) # None
        BY <4>1, <4>2, HeldOf
      <4>4. regions'[s] = None /\ \A t \in SequenceIds : t # s => regions'[t] = regions[t]
        BY <4>2 DEF AllocatorsInv, ContiguousInv, RegionsType
      <4>5. held' = [held EXCEPT ![s] = None]
        BY <4>1, <4>4, HeldAfter
      <4> QED
        BY <4>1, <4>3, <4>5
    <3> QED
      BY <1>4, <3>1, <3>2
  <2>2. Port!free(s)
    BY <2>1 DEF Port!free, Port!Answered
  <2> QED
    BY <2>2 DEF Port!Next
<1>5. CASE UNCHANGED vars
  <2>1. UNCHANGED held
    BY <1>5, HeldSame DEF vars, pagedVars
  <2> QED
    BY <1>5, <2>1 DEF vars
<1> QED
  BY <1>1, <1>2, <1>3, <1>4, <1>5 DEF Next

\* The detailed allocators implement the port: a call answered True gives the sequence it names the
\* tokens asked for and a refused one takes tokens from nobody, whichever allocator the engine has.
THEOREM AllocatorsImplementPort == Spec => ImplementsPort
<1>1. Init => Port!Init
  BY DEF Init, Port!Init, PagedInit, ContiguousInit, Held
<1> QED
  BY <1>1, AllocatorsInvariant, PortStep, PTL DEF Spec, ImplementsPort, Port!Spec
=============================================================================
