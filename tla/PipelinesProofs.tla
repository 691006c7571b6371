-------------------------- MODULE PipelinesProofs --------------------------
(***************************************************************************)
(* Theorems about Pipelines for every value of its constants.              *)
(***************************************************************************)
EXTENDS Pipelines, TLAPS, SequenceTheorems, FiniteSetTheorems, FunctionTheorems, WellFoundedInduction

-----------------------------------------------------------------------------
(* The embedding cache. *)

\* `i` is where `s` has `text` for the last time.
LastAt(s, text, i) == i \in 1..Len(s) /\ s[i] = text /\ \A j \in (i + 1)..Len(s) : s[j] # text

\* Whatever is in `s` has a last position in it.
LastKnown(s) == \A text \in ToSet(s) : \E i \in 1..Len(s) : LastAt(s, text, i)

\* A last position is the one LastUse names.
LEMMA LastUseIs ==
  ASSUME NEW S, NEW s \in Seq(S), NEW text, NEW i \in 1..Len(s), LastAt(s, text, i)
  PROVE  LastUse(s, text) = i
<1>1. \A k \in 1..Len(s) :
        s[k] = text /\ (\A j \in (k + 1)..Len(s) : s[j] # text) => k = i
  BY LenProperties DEF LastAt
<1>2. s[i] = text /\ (\A j \in (i + 1)..Len(s) : s[j] # text)
  BY DEF LastAt
<1> QED
  BY <1>1, <1>2 DEF LastUse

\* `t` is `s` after one more use: the text used is last at its end, every other where it was.
Used(s, x, t) ==
  /\ t \in Seq(Texts) /\ Len(t) = Len(s) + 1 /\ ToSet(t) = ToSet(s) \cup {x}
  /\ LastKnown(t) /\ LastUse(t, x) = Len(s) + 1
  /\ \A y \in ToSet(s) \ {x} : LastUse(t, y) = LastUse(s, y)

\* Appending a text is using it once more.
LEMMA AppendUses ==
  ASSUME NEW s \in Seq(Texts), NEW x \in Texts, LastKnown(s)
  PROVE  Used(s, x, Append(s, x))
<1> DEFINE t == Append(s, x)
<1>1. /\ t \in Seq(Texts) /\ Len(t) = Len(s) + 1 /\ Len(s) \in Nat /\ t[Len(t)] = x
      /\ \A i \in 1..Len(s) : t[i] = s[i]
  BY AppendProperties, LenProperties
<1> HIDE DEF t
<1>2. ToSet(t) = ToSet(s) \cup {x}
  <2>1. DOMAIN s = 1..Len(s) /\ DOMAIN t = 1..Len(t)
    BY <1>1, LenProperties
  <2>2. \A i \in 1..Len(t) : i = Len(t) \/ i \in 1..Len(s)
    BY <1>1
  <2>3. Len(t) \in 1..Len(t) /\ \A i \in 1..Len(s) : i \in 1..Len(t)
    BY <1>1
  <2> QED
    BY <1>1, <2>1, <2>2, <2>3, Zenon DEF ToSet
<1>3. LastAt(t, x, Len(t)) /\ Len(t) \in 1..Len(t)
  BY <1>1 DEF LastAt
<1>4. LastUse(t, x) = Len(s) + 1
  BY <1>1, <1>3, LastUseIs
<1>5. ASSUME NEW y \in ToSet(s)
      PROVE  /\ LastUse(s, y) \in 1..Len(s)
             /\ y # x => LastAt(t, y, LastUse(s, y)) /\ LastUse(t, y) = LastUse(s, y)
  <2>1. PICK i \in 1..Len(s) : LastAt(s, y, i)
    BY DEF LastKnown
  <2>2. LastUse(s, y) = i
    BY <2>1, LastUseIs
  <2>3. ASSUME y # x  PROVE LastAt(t, y, i)
    BY <1>1, <2>1, <2>3 DEF LastAt
  <2>4. ASSUME y # x  PROVE LastUse(t, y) = i
    <3>1. i \in 1..Len(t)
      BY <1>1
    <3> QED
      BY <1>1, <2>3, <2>4, <3>1, LastUseIs
  <2> QED
    BY <2>2, <2>3, <2>4
<1>6. LastKnown(t)
  <2> SUFFICES ASSUME NEW y \in ToSet(t)  PROVE \E i \in 1..Len(t) : LastAt(t, y, i)
    BY DEF LastKnown
  <2>1. CASE y = x
    BY <1>3, <2>1
  <2>2. CASE y # x
    <3>1. LastAt(t, y, LastUse(s, y)) /\ LastUse(s, y) \in 1..Len(t)
      BY <1>1, <1>2, <1>5, <2>2
    <3> QED
      BY <3>1
  <2> QED
    BY <2>1, <2>2
<1>7. Used(s, x, t)
  BY <1>1, <1>2, <1>4, <1>5, <1>6 DEF Used
<1> QED
  BY <1>7 DEF t

\* `h` is `e` with the text moved to its end, the others closed up.
Moved(e, x, h) ==
  /\ h \in Seq(Texts) /\ Len(e) \in Nat
  /\ Len(h) = IF x \in ToSet(e) THEN Len(e) ELSE Len(e) + 1
  /\ h[Len(h)] = x
  /\ \A i \in 1..(Len(h) - 1) : \E k \in 1..Len(e) : h[i] = e[k] /\ e[k] # x
  /\ \A k \in 1..Len(e) : e[k] # x => \E i \in 1..(Len(h) - 1) : h[i] = e[k]
  /\ \A i, j \in 1..(Len(h) - 1), k, m \in 1..Len(e) : i < j /\ h[i] = e[k] /\ h[j] = e[m] => k < m

\* MovedToEnd does that to a list without repetitions.
LEMMA MovedToEndMoves ==
  ASSUME NEW e \in Seq(Texts), NEW x \in Texts, \A i, j \in 1..Len(e) : e[i] = e[j] => i = j
  PROVE  Moved(e, x, MovedToEnd(e, x))
<1> DEFINE h == MovedToEnd(e, x)
<1>0. Len(e) \in Nat /\ DOMAIN e = 1..Len(e)
  BY LenProperties
<1>1. CASE x \notin ToSet(e)
  <2>1. h = Append(e, x)
    BY <1>1 DEF MovedToEnd
  <2> HIDE DEF h
  <2>2. h \in Seq(Texts) /\ Len(h) = Len(e) + 1 /\ h[Len(h)] = x /\ \A i \in 1..Len(e) : h[i] = e[i]
    BY <2>1, AppendProperties, <1>0
  <2>3. \A i \in 1..Len(e) : e[i] # x
    BY <1>0, <1>1 DEF ToSet
  <2>4. Moved(e, x, h)
    BY <1>0, <1>1, <2>2, <2>3 DEF Moved
  <2> QED
    BY <2>4 DEF h
<1>2. CASE x \in ToSet(e)
  <2> DEFINE a == At(e, x)
  <2>1. a \in 1..Len(e) /\ e[a] = x
    <3>1. \E i \in 1..Len(e) : e[i] = x
      BY <1>0, <1>2 DEF ToSet
    <3> QED
      BY <3>1 DEF At
  <2> DEFINE p == SubSeq(e, 1, a - 1)
             q == SubSeq(e, a + 1, Len(e))
  <2>2. h = Append(p \o q, x)
    BY <1>2 DEF MovedToEnd, RemoveAt
  <2> HIDE DEF a, h
  <2>3. p \in Seq(Texts) /\ Len(p) = a - 1 /\ \A i \in 1..(a - 1) : p[i] = e[i]
    BY <1>0, <2>1, SubSeqProperties
  <2>4. q \in Seq(Texts) /\ Len(q) = Len(e) - a /\ \A i \in 1..(Len(e) - a) : q[i] = e[a + i]
    <3>1. /\ q \in Seq(Texts)
          /\ Len(q) = IF a + 1 <= Len(e) THEN Len(e) - (a + 1) + 1 ELSE 0
          /\ \A i \in 1..(Len(e) - (a + 1) + 1) : q[i] = e[a + 1 + i - 1]
      BY <1>0, <2>1, SubSeqProperties
    <3>2. \A i \in 1..(Len(e) - a) : a + 1 + i - 1 = a + i /\ i \in 1..(Len(e) - (a + 1) + 1)
      BY <1>0, <2>1
    <3>3. \A n \in Nat : \A k \in 1..n : (IF k + 1 <= n THEN n - (k + 1) + 1 ELSE 0) = n - k
      OBVIOUS
    <3> QED
      BY <1>0, <2>1, <3>1, <3>2, <3>3
  <2> HIDE DEF p, q
  <2> DEFINE r == p \o q
  <2>5. r \in Seq(Texts) /\ Len(r) = Len(e) - 1
    <3>1. r \in Seq(Texts) /\ Len(r) = Len(p) + Len(q)
      BY <2>3, <2>4, ConcatProperties
    <3>2. (a - 1) + (Len(e) - a) = Len(e) - 1
      BY <1>0, <2>1
    <3> QED
      BY <2>3, <2>4, <3>1, <3>2
  <2>6. \A i \in 1..(Len(e) - 1) : r[i] = IF i < a THEN e[i] ELSE e[i + 1]
    <3> SUFFICES ASSUME NEW i \in 1..(Len(e) - 1)  PROVE r[i] = IF i < a THEN e[i] ELSE e[i + 1]
      OBVIOUS
    <3>1. r[i] = IF i <= Len(p) THEN p[i] ELSE q[i - Len(p)]
      BY <1>0, <2>1, <2>3, <2>4, ConcatProperties
    <3>2. CASE i < a
      BY <1>0, <2>1, <2>3, <3>1, <3>2
    <3>3. CASE ~(i < a)
      <4>1. i - Len(p) = i - a + 1 /\ i - a + 1 \in 1..(Len(e) - a) /\ a + (i - a + 1) = i + 1 /\ ~(i <= Len(p))
        BY <1>0, <2>1, <2>3, <3>3
      <4> QED
        BY <2>4, <3>1, <3>3, <4>1
    <3> QED
      BY <3>2, <3>3
  <2> HIDE DEF r
  <2>7. h = Append(r, x)
    BY <2>2 DEF r
  <2>8. h \in Seq(Texts) /\ Len(h) = Len(e) /\ h[Len(h)] = x /\ \A i \in 1..(Len(e) - 1) : h[i] = r[i]
    BY <2>5, <2>7, <1>0, <2>1, AppendProperties
  <2>9. \A i \in 1..(Len(e) - 1) : h[i] = IF i < a THEN e[i] ELSE e[i + 1]
    BY <2>6, <2>8
  <2>10. \A i \in 1..(Len(h) - 1) : \E k \in 1..Len(e) : h[i] = e[k] /\ e[k] # x
    <3> SUFFICES ASSUME NEW i \in 1..(Len(h) - 1)
                 PROVE  \E k \in 1..Len(e) : h[i] = e[k] /\ e[k] # x
      OBVIOUS
    <3>1. CASE i < a
      <4>1. i \in 1..Len(e) /\ i # a /\ h[i] = e[i]
        BY <1>0, <2>1, <2>8, <2>9, <3>1
      <4> QED
        BY <2>1, <4>1
    <3>2. CASE ~(i < a)
      <4>1. i + 1 \in 1..Len(e) /\ i + 1 # a /\ h[i] = e[i + 1]
        BY <1>0, <2>1, <2>8, <2>9, <3>2
      <4> QED
        BY <2>1, <4>1
    <3> QED
      BY <3>1, <3>2
  <2>11. \A k \in 1..Len(e) : e[k] # x => \E i \in 1..(Len(h) - 1) : h[i] = e[k]
    <3> SUFFICES ASSUME NEW k \in 1..Len(e), e[k] # x
                 PROVE  \E i \in 1..(Len(h) - 1) : h[i] = e[k]
      OBVIOUS
    <3>0. k # a
      BY <2>1
    <3>1. CASE k < a
      <4>1. k \in 1..(Len(h) - 1) /\ h[k] = e[k]
        BY <1>0, <2>1, <2>8, <2>9, <3>1
      <4> QED
        BY <4>1
    <3>2. CASE k > a
      <4>1. k - 1 \in 1..(Len(h) - 1) /\ h[k - 1] = e[k] /\ k = (k - 1) + 1
        BY <1>0, <2>1, <2>8, <2>9, <3>2
      <4> QED
        BY <4>1
    <3> QED
      BY <1>0, <2>1, <3>0, <3>1, <3>2
  <2>12. ASSUME NEW i \in 1..(Len(h) - 1), NEW j \in 1..(Len(h) - 1), NEW k \in 1..Len(e), NEW m \in 1..Len(e),
               i < j, h[i] = e[k], h[j] = e[m]
        PROVE  k < m
    <3>1. k = IF i < a THEN i ELSE i + 1
      BY <1>0, <2>1, <2>8, <2>9, <2>12
    <3>2. m = IF j < a THEN j ELSE j + 1
      BY <1>0, <2>1, <2>8, <2>9, <2>12
    <3> QED
      BY <1>0, <2>1, <3>1, <3>2, <2>12
  <2>13. Moved(e, x, h)
    BY <1>0, <1>2, <2>8, <2>10, <2>11, <2>12 DEF Moved
  <2> QED
    BY <2>13 DEF h
<1> QED
  BY <1>1, <1>2

-----------------------------------------------------------------------------
(* The inductive invariant of the cache. *)

EmbeddingTypes ==
  /\ entries \in Seq(Texts) /\ touched \in Seq(Texts) /\ hits \in Nat /\ misses \in Nat
  /\ thread \in [Threads -> Texts \cup {"none"}]

\* What is held was used, and is in the order of last use.
InOrder(e, t) ==
  /\ Len(e) <= max_entries /\ ToSet(e) \subseteq ToSet(t)
  /\ \A i, j \in 1..Len(e) : i < j => LastUse(t, e[i]) < LastUse(t, e[j])

\* What was used and is not held made room for texts used later, as many as the cache holds.
MadeRoom(e, t) ==
  \A y \in ToSet(t) \ ToSet(e) :
     Len(e) = max_entries /\ \A i \in 1..Len(e) : LastUse(t, y) < LastUse(t, e[i])

Recent(e, t) == LastKnown(t) /\ InOrder(e, t) /\ MadeRoom(e, t)

EmbeddingInv == EmbeddingTypes /\ Recent(entries, touched) /\ hits + misses = Len(touched)

\* A list in the order of last use has no repetitions.
LEMMA InOrderDistinct ==
  ASSUME NEW e \in Seq(Texts), NEW t \in Seq(Texts), LastKnown(t), InOrder(e, t)
  PROVE  /\ \A i, j \in 1..Len(e) : e[i] = e[j] => i = j
         /\ \A i \in 1..Len(e) : e[i] \in ToSet(t) /\ e[i] \in ToSet(e)
         /\ \A y \in ToSet(t) : LastUse(t, y) \in 1..Len(t)
<1>1. \A y \in ToSet(t) : LastUse(t, y) \in 1..Len(t)
  BY LastUseIs DEF LastKnown
<1>2. \A i \in 1..Len(e) : e[i] \in ToSet(e)
  BY LenProperties DEF ToSet
<1>3. \A i \in 1..Len(e) : e[i] \in ToSet(t)
  BY <1>2 DEF InOrder
<1>4. \A i, j \in 1..Len(e) : i < j => e[i] # e[j]
  <2>1. Len(t) \in Nat
    BY LenProperties
  <2> QED
    BY <1>1, <1>3, <2>1 DEF InOrder
<1>5. \A i, j \in 1..Len(e) : e[i] = e[j] => i = j
  <2>1. Len(e) \in Nat
    BY LenProperties
  <2>2. \A i, j \in 1..Len(e) : i < j \/ j < i \/ i = j
    BY <2>1
  <2> QED
    BY <1>4, <2>2
<1> QED
  BY <1>1, <1>2, <1>3, <1>5

\* A position is the last one, or one of those before.
LEMMA LastOrBefore ==
  \A n \in Nat : /\ \A i \in 1..n : i = n \/ i \in 1..(n - 1)
                 /\ \A i, j \in 1..n : i < j => i \in 1..(n - 1)
  OBVIOUS

\* `f` is `h` without its oldest text, if that is one too many.
Trimmed(h, f) ==
  /\ f \in Seq(Texts)
  /\ Len(h) <= max_entries => f = h
  /\ ~(Len(h) <= max_entries) => Len(f) = Len(h) - 1 /\ \A i \in 1..Len(f) : f[i] = h[i + 1]

\* One more use, of a text held or not, keeps what is held the most recent.
LEMMA UseKeepsRecent ==
  ASSUME NEW e \in Seq(Texts), NEW t \in Seq(Texts), NEW x \in Texts, Recent(e, t),
         NEW h, Moved(e, x, h), NEW u, Used(t, x, u), NEW f, Trimmed(h, f)
  PROVE  Recent(f, u)
<1>0. max_entries \in Nat \ {0} /\ LastKnown(t) /\ InOrder(e, t) /\ MadeRoom(e, t)
      /\ Len(e) <= max_entries
  BY EmbeddingAssumption DEF Recent, InOrder
<1>1. /\ \A i, j \in 1..Len(e) : e[i] = e[j] => i = j
      /\ \A i \in 1..Len(e) : e[i] \in ToSet(t) /\ e[i] \in ToSet(e)
      /\ \A y \in ToSet(t) : LastUse(t, y) \in 1..Len(t)
  BY <1>0, InOrderDistinct
<1>2. /\ h \in Seq(Texts) /\ Len(e) \in Nat
      /\ Len(h) = IF x \in ToSet(e) THEN Len(e) ELSE Len(e) + 1
      /\ h[Len(h)] = x
      /\ \A i \in 1..(Len(h) - 1) : \E k \in 1..Len(e) : h[i] = e[k] /\ e[k] # x
      /\ \A k \in 1..Len(e) : e[k] # x => \E i \in 1..(Len(h) - 1) : h[i] = e[k]
      /\ \A i, j \in 1..(Len(h) - 1), k, m \in 1..Len(e) : i < j /\ h[i] = e[k] /\ h[j] = e[m] => k < m
  BY DEF Moved
<1>3. /\ u \in Seq(Texts) /\ Len(u) = Len(t) + 1 /\ ToSet(u) = ToSet(t) \cup {x}
      /\ LastKnown(u) /\ LastUse(u, x) = Len(t) + 1
      /\ \A y \in ToSet(t) \ {x} : LastUse(u, y) = LastUse(t, y)
  BY DEF Used
<1>4. Len(t) \in Nat /\ Len(h) \in Nat \ {0} /\ DOMAIN h = 1..Len(h)
  <2>1. Len(h) # 0
    <3>1. x \in ToSet(e) => Len(e) # 0
      BY <1>2, LenProperties DEF ToSet
    <3> QED
      BY <1>2, <3>1
  <2> QED
    BY <1>2, <2>1, LenProperties
<1>4a. Len(h) \in Nat
  BY <1>4
<1>5. \A i \in 1..(Len(h) - 1) : h[i] \in ToSet(t) \ {x} /\ h[i] \in ToSet(e)
  BY <1>1, <1>2
<1>6. \A i, j \in 1..Len(h) : i < j => LastUse(u, h[i]) < LastUse(u, h[j])
  <2> SUFFICES ASSUME NEW i \in 1..Len(h), NEW j \in 1..Len(h), i < j
               PROVE  LastUse(u, h[i]) < LastUse(u, h[j])
    OBVIOUS
  <2>1. i \in 1..(Len(h) - 1) /\ (j = Len(h) \/ j \in 1..(Len(h) - 1))
    BY <1>4a, LastOrBefore, Zenon
  <2>2. LastUse(u, h[i]) = LastUse(t, h[i]) /\ LastUse(t, h[i]) \in 1..Len(t)
    BY <1>1, <1>3, <1>5, <2>1
  <2>3. CASE j = Len(h)
    BY <1>2, <1>3, <1>4, <2>2, <2>3
  <2>4. CASE j \in 1..(Len(h) - 1)
    <3>1. PICK k \in 1..Len(e) : h[i] = e[k]
      BY <1>2, <2>1
    <3>2. PICK m \in 1..Len(e) : h[j] = e[m]
      BY <1>2, <2>4
    <3>3. k < m
      BY <1>2, <2>1, <2>4, <3>1, <3>2
    <3>4. LastUse(t, e[k]) < LastUse(t, e[m])
      BY <1>0, <3>3 DEF InOrder
    <3>5. LastUse(u, h[j]) = LastUse(t, h[j])
      BY <1>3, <1>5, <2>4
    <3> QED
      BY <2>2, <3>1, <3>2, <3>4, <3>5
  <2> QED
    BY <2>1, <2>3, <2>4
<1>7. ToSet(h) = ToSet(e) \cup {x}
  <2>1. ASSUME NEW y \in ToSet(h)  PROVE y \in ToSet(e) \cup {x}
    <3>1. PICK i \in 1..Len(h) : y = h[i]
      BY <1>4 DEF ToSet
    <3>2. i = Len(h) \/ i \in 1..(Len(h) - 1)
      BY <1>4a, LastOrBefore, Zenon
    <3> QED
      BY <1>2, <1>5, <3>1, <3>2
  <2>2. ASSUME NEW y \in ToSet(e), y # x  PROVE y \in ToSet(h)
    <3>1. PICK k \in 1..Len(e) : y = e[k]
      BY LenProperties DEF ToSet
    <3>2. PICK i \in 1..(Len(h) - 1) : h[i] = y
      BY <1>2, <2>2, <3>1
    <3>3. i \in DOMAIN h
      BY <1>4
    <3> QED
      BY <3>2, <3>3 DEF ToSet
  <2>3. x \in ToSet(h)
    <3>1. Len(h) \in DOMAIN h
      BY <1>4
    <3> QED
      BY <1>2, <3>1 DEF ToSet
  <2> QED
    BY <2>1, <2>2, <2>3
<1>8. \A y \in ToSet(t) \ ToSet(h) :
        /\ Len(e) = max_entries /\ y # x /\ y \notin ToSet(e)
        /\ \A i \in 1..Len(h) : LastUse(u, y) < LastUse(u, h[i])
  <2> SUFFICES ASSUME NEW y \in ToSet(t) \ ToSet(h)
               PROVE  /\ Len(e) = max_entries /\ y # x /\ y \notin ToSet(e)
                      /\ \A i \in 1..Len(h) : LastUse(u, y) < LastUse(u, h[i])
    OBVIOUS
  <2>1. y # x /\ y \notin ToSet(e)
    BY <1>7
  <2>2. Len(e) = max_entries /\ \A i \in 1..Len(e) : LastUse(t, y) < LastUse(t, e[i])
    BY <1>0, <2>1 DEF MadeRoom
  <2>3. LastUse(u, y) = LastUse(t, y) /\ LastUse(t, y) \in 1..Len(t)
    BY <1>1, <1>3, <2>1
  <2>4. ASSUME NEW i \in 1..Len(h)  PROVE LastUse(u, y) < LastUse(u, h[i])
    <3>1. CASE i = Len(h)
      BY <1>2, <1>3, <1>4, <2>3, <3>1
    <3>2. CASE i # Len(h)
      <4>1. i \in 1..(Len(h) - 1)
        BY <1>4a, <3>2, LastOrBefore, Zenon
      <4>2. PICK k \in 1..Len(e) : h[i] = e[k]
        BY <1>2, <4>1
      <4>3. LastUse(u, h[i]) = LastUse(t, h[i])
        BY <1>3, <1>5, <4>1
      <4> QED
        BY <2>2, <2>3, <4>2, <4>3
    <3> QED
      BY <3>1, <3>2
  <2> QED
    BY <2>1, <2>2, <2>4
<1>9. CASE Len(h) <= max_entries
  <2>1. f = h
    BY <1>9 DEF Trimmed
  <2>2. InOrder(f, u)
    <3>1. ToSet(e) \subseteq ToSet(t)
      BY <1>0 DEF InOrder
    <3> QED
      BY <1>3, <1>6, <1>7, <1>9, <2>1, <3>1 DEF InOrder
  <2>3. ASSUME NEW y \in ToSet(u) \ ToSet(f)
        PROVE  Len(f) = max_entries /\ \A i \in 1..Len(f) : LastUse(u, y) < LastUse(u, f[i])
    <3>1. y \in ToSet(t) \ ToSet(h)
      BY <1>3, <1>7, <2>1
    <3>2. Len(h) = max_entries
      BY <1>0, <1>2, <1>8, <1>9, <3>1
    <3> QED
      BY <1>8, <2>1, <3>1, <3>2
  <2> QED
    BY <1>2, <1>3, <2>1, <2>2, <2>3 DEF Recent, MadeRoom
<1>10. CASE ~(Len(h) <= max_entries)
  <2>1. x \notin ToSet(e) /\ Len(e) = max_entries /\ Len(h) = max_entries + 1
    BY <1>0, <1>2, <1>4, <1>10
  <2>2. f \in Seq(Texts) /\ Len(f) = max_entries /\ \A i \in 1..Len(f) : f[i] = h[i + 1]
    <3>1. f \in Seq(Texts) /\ Len(f) = Len(h) - 1 /\ \A i \in 1..Len(f) : f[i] = h[i + 1]
      BY <1>10 DEF Trimmed
    <3>2. Len(f) = max_entries
      BY <1>0, <2>1, <3>1
    <3> QED
      BY <3>1, <3>2
  <2>3. \A i \in 1..Len(f) : i + 1 \in 1..Len(h)
    BY <1>0, <2>1, <2>2
  <2>4. ToSet(f) = ToSet(h) \ {h[1]}
    <3>1. ASSUME NEW y \in ToSet(f)  PROVE y \in ToSet(h) \ {h[1]}
      <4>1. PICK i \in 1..Len(f) : y = f[i]
        BY <2>2, LenProperties DEF ToSet
      <4>2. y = h[i + 1] /\ i + 1 \in 1..Len(h) /\ 1 \in 1..Len(h) /\ 1 < i + 1
        BY <1>4, <2>2, <2>3, <4>1
      <4>3. LastUse(u, h[1]) < LastUse(u, h[i + 1])
        BY <1>6, <4>2
      <4>4. h[i + 1] \in ToSet(u) /\ LastUse(u, h[i + 1]) \in 1..Len(u)
        <5>1. h[i + 1] \in ToSet(h)
          BY <1>4, <4>2 DEF ToSet
        <5>2. ToSet(e) \subseteq ToSet(t)
          BY <1>0 DEF InOrder
        <5> QED
          BY <1>3, <1>7, <5>1, <5>2, LastUseIs DEF LastKnown
      <4>5. h[1] # h[i + 1]
        <5>1. Len(u) \in Nat
          BY <1>3, <1>4
        <5> QED
          BY <4>3, <4>4, <5>1
      <4> QED
        BY <1>4, <4>2, <4>5 DEF ToSet
    <3>2. ASSUME NEW y \in ToSet(h), y # h[1]  PROVE y \in ToSet(f)
      <4>1. PICK j \in 1..Len(h) : y = h[j]
        BY <1>4 DEF ToSet
      <4>2. j - 1 \in 1..Len(f) /\ (j - 1) + 1 = j
        <5>1. j # 1
          BY <3>2, <4>1
        <5> QED
          BY <1>0, <2>1, <2>2, <5>1
      <4>3. f[j - 1] = y /\ j - 1 \in DOMAIN f
        BY <2>2, <4>1, <4>2, LenProperties
      <4> QED
        BY <4>3 DEF ToSet
    <3> QED
      BY <3>1, <3>2
  <2>5. InOrder(f, u)
    <3>1. ToSet(f) \subseteq ToSet(u)
      BY <1>0, <1>3, <1>7, <2>4 DEF InOrder
    <3>2. ASSUME NEW i \in 1..Len(f), NEW j \in 1..Len(f), i < j
          PROVE  LastUse(u, f[i]) < LastUse(u, f[j])
      <4>1. i + 1 < j + 1
        BY <2>2, <3>2, <1>0
      <4> QED
        BY <1>6, <2>2, <2>3, <4>1
    <3> QED
      BY <1>0, <2>2, <3>1, <3>2 DEF InOrder
  <2>6. ASSUME NEW y \in ToSet(u) \ ToSet(f)
        PROVE  Len(f) = max_entries /\ \A i \in 1..Len(f) : LastUse(u, y) < LastUse(u, f[i])
    <3>1. CASE y = h[1]
      <4>1. \A i \in 1..Len(f) : 1 \in 1..Len(h) /\ 1 < i + 1
        BY <1>0, <1>4, <2>2
      <4>2. \A i \in 1..Len(f) : LastUse(u, y) < LastUse(u, h[i + 1])
        BY <1>6, <2>3, <3>1, <4>1
      <4> QED
        BY <2>2, <4>2
    <3>2. CASE y # h[1]
      <4>1. y \in ToSet(t) \ ToSet(h)
        BY <1>3, <1>7, <2>4, <3>2
      <4> QED
        BY <1>8, <2>2, <2>3, <4>1
    <3> QED
      BY <3>1, <3>2
  <2> QED
    BY <1>3, <2>1, <2>2, <2>5, <2>6 DEF Recent, MadeRoom
<1> QED
  BY <1>9, <1>10

\* A lookup that hits, and the store of what was missing, keep the invariant.
LEMMA EmbeddingStep ==
  ASSUME EmbeddingInv, [EmbeddingNext]_embeddingVars
  PROVE  EmbeddingInv'
<1>0. EmbeddingTypes /\ Recent(entries, touched) /\ hits + misses = Len(touched) /\ LastKnown(touched)
      /\ InOrder(entries, touched)
  BY DEF EmbeddingInv, Recent
<1>1. /\ entries \in Seq(Texts) /\ touched \in Seq(Texts) /\ hits \in Nat /\ misses \in Nat
      /\ thread \in [Threads -> Texts \cup {"none"}]
  BY <1>0 DEF EmbeddingTypes
<1>2. \A i, j \in 1..Len(entries) : entries[i] = entries[j] => i = j
  BY <1>0, <1>1, InOrderDistinct
<1>3. ASSUME NEW x \in Texts
      PROVE  Moved(entries, x, MovedToEnd(entries, x)) /\ Used(touched, x, Append(touched, x))
  BY <1>0, <1>1, <1>2, MovedToEndMoves, AppendUses
<1>4. ASSUME NEW t \in Threads, NEW text \in Texts, Hit(t, text)  PROVE EmbeddingInv'
  <2>1. /\ entries' = MovedToEnd(entries, text) /\ hits' = hits + 1 /\ touched' = Append(touched, text)
        /\ misses' = misses /\ thread' = thread /\ text \in ToSet(entries)
    BY <1>4 DEF Hit
  <2>2. Moved(entries, text, entries') /\ Used(touched, text, touched')
    BY <1>3, <2>1
  <2>3. Len(entries') = Len(entries) /\ entries' \in Seq(Texts)
    BY <2>1, <2>2 DEF Moved
  <2>4. Len(entries) <= max_entries
    BY <1>0 DEF InOrder
  <2>5. Trimmed(entries', entries')
    BY <2>3, <2>4 DEF Trimmed
  <2>6. Recent(entries', touched')
    BY <1>0, <1>1, <2>2, <2>5, UseKeepsRecent
  <2>7. touched' \in Seq(Texts) /\ Len(touched') = Len(touched) + 1
    BY <2>2 DEF Used
  <2>8. hits' + misses' = Len(touched')
    BY <1>0, <1>1, <2>1, <2>7
  <2>9. EmbeddingTypes'
    BY <1>1, <2>1, <2>3, <2>7 DEF EmbeddingTypes
  <2> QED
    BY <2>6, <2>8, <2>9 DEF EmbeddingInv
<1>5. ASSUME NEW t \in Threads, NEW text \in Texts, Miss(t, text)  PROVE EmbeddingInv'
  BY <1>0, <1>1, <1>5 DEF Miss, EmbeddingInv, EmbeddingTypes
<1>6. ASSUME NEW t \in Threads, Store(t)  PROVE EmbeddingInv'
  <2> DEFINE x == thread[t]
             held == MovedToEnd(entries, x)
  <2>1. /\ x \in Texts /\ thread' = [thread EXCEPT ![t] = "none"] /\ misses' = misses + 1
        /\ touched' = Append(touched, x) /\ hits' = hits
        /\ entries' = IF Len(held) > max_entries THEN Tail(held) ELSE held
    BY <1>1, <1>6 DEF Store
  <2>2. Moved(entries, x, held) /\ Used(touched, x, touched')
    BY <1>3, <2>1
  <2> HIDE DEF held, x
  <2>3. held \in Seq(Texts) /\ Len(held) \in Nat
    BY <2>2, LenProperties DEF Moved
  <2>4. Trimmed(held, entries')
    <3>1. CASE Len(held) <= max_entries
      <4>1. entries' = held
        BY <2>1, <2>3, <3>1, EmbeddingAssumption
      <4> QED
        BY <2>3, <3>1, <4>1 DEF Trimmed
    <3>2. CASE ~(Len(held) <= max_entries)
      <4>1. Len(held) > max_entries /\ Len(held) # 0
        BY <2>3, <3>2, EmbeddingAssumption
      <4>2. entries' = Tail(held) /\ held # <<>>
        BY <2>1, <4>1
      <4>3. /\ entries' \in Seq(Texts) /\ Len(entries') = Len(held) - 1
            /\ \A i \in 1..Len(entries') : entries'[i] = held[i + 1]
        BY <2>3, <4>2, HeadTailProperties
      <4> QED
        BY <3>2, <4>3 DEF Trimmed
    <3> QED
      BY <3>1, <3>2
  <2>5. Recent(entries', touched')
    BY <1>0, <1>1, <2>1, <2>2, <2>4, UseKeepsRecent
  <2>6. touched' \in Seq(Texts) /\ Len(touched') = Len(touched) + 1
    BY <2>2 DEF Used
  <2>7. hits' + misses' = Len(touched')
    BY <1>0, <1>1, <2>1, <2>6
  <2>8. EmbeddingTypes'
    <3>1. entries' \in Seq(Texts)
      BY <2>4 DEF Trimmed
    <3> QED
      BY <1>1, <2>1, <2>6, <3>1 DEF EmbeddingTypes
  <2> QED
    BY <2>5, <2>7, <2>8 DEF EmbeddingInv
<1>7. ASSUME NEW t \in Threads, EmbedFails(t)  PROVE EmbeddingInv'
  BY <1>0, <1>1, <1>7 DEF EmbedFails, EmbeddingInv, EmbeddingTypes
<1>8. CASE UNCHANGED embeddingVars
  BY <1>8 DEF embeddingVars, EmbeddingInv, EmbeddingTypes
<1> QED
  BY <1>4, <1>5, <1>6, <1>7, <1>8 DEF EmbeddingNext

\* A sequence without repetitions has as many members as it is long.
LEMMA DistinctCount ==
  ASSUME NEW S, NEW e \in Seq(S), \A i, j \in 1..Len(e) : e[i] = e[j] => i = j
  PROVE  IsFiniteSet(ToSet(e)) /\ Cardinality(ToSet(e)) = Len(e)
<1>1. Len(e) \in Nat /\ DOMAIN e = 1..Len(e)
  BY LenProperties
<1> DEFINE f == [i \in 1..Len(e) |-> e[i]]
<1>2. ToSet(e) = {e[i] : i \in 1..Len(e)}
  BY <1>1 DEF ToSet
<1>3. f \in Bijection(1..Len(e), ToSet(e))
  <2>1. f \in [1..Len(e) -> ToSet(e)]
    BY <1>2
  <2>2. \A a, b \in 1..Len(e) : f[a] = f[b] => a = b
    OBVIOUS
  <2>3. \A y \in ToSet(e) : \E i \in 1..Len(e) : f[i] = y
    BY <1>2
  <2> QED
    BY <2>1, <2>2, <2>3, Zenon DEF Bijection, Injection, Surjection, IsInjective
<1>4. ExistsBijection(1..Len(e), ToSet(e))
  BY <1>3, Zenon DEF ExistsBijection
<1>5. IsFiniteSet(ToSet(e))
  BY <1>1, <1>4, FS_NatBijection, Zenon
<1> QED
  BY <1>1, <1>4, <1>5, FS_CountingElements, Zenon

\* What is held in that order is what was used last.
LEMMA RecentHolds == EmbeddingInv => HoldsMostRecent
<1> SUFFICES ASSUME EmbeddingInv  PROVE HoldsMostRecent
  OBVIOUS
<1>0. /\ LastKnown(touched) /\ InOrder(entries, touched) /\ MadeRoom(entries, touched)
      /\ hits + misses = Len(touched) /\ entries \in Seq(Texts) /\ touched \in Seq(Texts)
  BY DEF EmbeddingInv, EmbeddingTypes, Recent
<1>1. /\ \A i, j \in 1..Len(entries) : entries[i] = entries[j] => i = j
      /\ \A y \in ToSet(touched) : LastUse(touched, y) \in 1..Len(touched)
  BY <1>0, InOrderDistinct
<1>2. /\ IsFiniteSet(ToSet(entries)) /\ Cardinality(ToSet(entries)) = Len(entries)
      /\ Len(entries) \in Nat /\ DOMAIN entries = 1..Len(entries) /\ Len(touched) \in Nat
  BY <1>0, <1>1, DistinctCount, LenProperties
<1>3. ToSet(entries) \subseteq ToSet(touched) /\ Len(entries) <= max_entries /\ max_entries \in Nat \ {0}
  BY <1>0, EmbeddingAssumption DEF InOrder
<1> DEFINE later(text) == {other \in ToSet(touched) : LastUse(touched, other) > LastUse(touched, text)}
<1>4. IsFiniteSet(ToSet(touched))
  <2>1. IsFiniteSet(1..Len(touched))
    BY <1>2, FS_Interval
  <2>2. touched \in Surjection(1..Len(touched), ToSet(touched))
    <3>1. touched \in [1..Len(touched) -> ToSet(touched)]
      BY <1>0, LenProperties DEF ToSet
    <3>2. \A y \in ToSet(touched) : \E i \in 1..Len(touched) : touched[i] = y
      BY <1>0, LenProperties DEF ToSet
    <3> QED
      BY <3>1, <3>2, Zenon DEF Surjection
  <2> QED
    BY <2>1, <2>2, FS_Surjection, Zenon
<1>5. ASSUME NEW x \in ToSet(entries)  PROVE Cardinality(later(x)) < max_entries
  <2>1. later(x) \subseteq ToSet(entries) \ {x}
    <3> SUFFICES ASSUME NEW y \in later(x)  PROVE y \in ToSet(entries) \ {x}
      OBVIOUS
    <3>1. y \in ToSet(touched) /\ LastUse(touched, y) > LastUse(touched, x)
      OBVIOUS
    <3>2. LastUse(touched, y) \in Nat /\ LastUse(touched, x) \in Nat
      BY <1>1, <1>3, <3>1
    <3>3. PICK i \in 1..Len(entries) : x = entries[i]
      BY <1>2 DEF ToSet
    <3>4. y \in ToSet(entries)
      <4>1. CASE y \notin ToSet(entries)
        <5>1. LastUse(touched, y) < LastUse(touched, x)
          BY <1>0, <3>1, <3>3, <4>1 DEF MadeRoom
        <5> QED
          BY <3>1, <3>2, <5>1
      <4> QED
        BY <4>1
    <3> QED
      BY <3>1, <3>2, <3>4
  <2>2. IsFiniteSet(ToSet(entries) \ {x}) /\ Cardinality(ToSet(entries) \ {x}) = Cardinality(ToSet(entries)) - 1
    BY <1>2, FS_RemoveElement
  <2> HIDE DEF later
  <2>3. /\ Cardinality(later(x)) <= Cardinality(ToSet(entries) \ {x})
        /\ Cardinality(later(x)) \in Nat
    BY <2>1, <2>2, FS_Subset, FS_CardinalityType
  <2> QED
    BY <1>2, <1>3, <2>2, <2>3
<1>6. ASSUME NEW x \in ToSet(touched), x \notin ToSet(entries)  PROVE ~(Cardinality(later(x)) < max_entries)
  <2>1. Len(entries) = max_entries /\ \A i \in 1..Len(entries) : LastUse(touched, x) < LastUse(touched, entries[i])
    BY <1>0, <1>6 DEF MadeRoom
  <2>2. ToSet(entries) \subseteq later(x)
    <3> SUFFICES ASSUME NEW y \in ToSet(entries)  PROVE y \in later(x)
      OBVIOUS
    <3>1. LastUse(touched, x) < LastUse(touched, y)
      BY <1>2, <2>1 DEF ToSet
    <3>2. y \in ToSet(touched) /\ LastUse(touched, y) \in Nat /\ LastUse(touched, x) \in Nat
      BY <1>1, <1>3
    <3> QED
      BY <3>1, <3>2
  <2>3. IsFiniteSet(later(x))
    <3>1. later(x) \subseteq ToSet(touched)
      OBVIOUS
    <3> QED
      BY <1>4, <3>1, FS_Subset
  <2> HIDE DEF later
  <2>4. Cardinality(ToSet(entries)) <= Cardinality(later(x)) /\ Cardinality(later(x)) \in Nat
    BY <2>2, <2>3, FS_Subset, FS_CardinalityType
  <2> QED
    BY <1>2, <1>3, <2>1, <2>4
<1>7. ToSet(entries) = {text \in ToSet(touched) : Cardinality(later(text)) < max_entries}
  <2> HIDE DEF later
  <2> QED
    BY <1>3, <1>5, <1>6
<1> QED
  BY <1>0, <1>2, <1>7 DEF HoldsMostRecent, NoRepeats

\* Only Embed touches the cache.
LEMMA EmbeddingOnly == [Next]_vars => [EmbeddingNext]_embeddingVars
  BY DEF Next, vars, Answer, Embed, Called, CallIntake, CallClassifier, CallRetriever, CallChunker,
         CallMemory, Decode, CallEvictor, CallEngine

\* The embedding cache holds the texts used last, as many as it may, and counts every use
\* once: whatever the threads do between the lookup and the store, for every number of them.
THEOREM CacheHoldsMostRecent == Spec => []HoldsMostRecent
<1>1. Init => EmbeddingInv
  <2> SUFFICES ASSUME EmbeddingInit  PROVE EmbeddingInv
    BY DEF Init
  <2>1. entries = <<>> /\ touched = <<>> /\ hits = 0 /\ misses = 0 /\ thread = [t \in Threads |-> "none"]
    BY DEF EmbeddingInit
  <2>2. <<>> \in Seq(Texts) /\ Len(<<>>) = 0 /\ ToSet(<<>>) = {}
    BY EmptySeq DEF ToSet
  <2>3. EmbeddingTypes
    BY <2>1, <2>2 DEF EmbeddingTypes
  <2>4. Recent(entries, touched)
    BY <2>1, <2>2, EmbeddingAssumption DEF Recent, LastKnown, InOrder, MadeRoom
  <2> QED
    BY <2>1, <2>2, <2>3, <2>4 DEF EmbeddingInv
<1>2. EmbeddingInv /\ [Next]_vars => EmbeddingInv'
  BY EmbeddingOnly, EmbeddingStep
<1>3. EmbeddingInv => HoldsMostRecent
  BY RecentHolds
<1> QED
  BY <1>1, <1>2, <1>3, PTL DEF Spec

-----------------------------------------------------------------------------
(* What is let in. *)

\* A set of naturals that is not empty has a least element.
LEMMA LeastElement ==
  ASSUME NEW S, S \subseteq Nat, S # {}
  PROVE  \E m \in S : \A k \in S : m <= k
<1> DEFINE R == OpToRel(<, Nat)
<1>1. IsWellFoundedOn(R, Nat)
  BY NatLessThanWellFounded
<1>2. \A x, y \in Nat : x < y => <<x, y>> \in R
  BY DEF OpToRel
<1> HIDE DEF R
<1>3. PICK x \in S : \A y \in S : ~ (<<y, x>> \in R)
  BY <1>1, WFMin
<1>4. \A y \in S : ~ (y < x)
  BY <1>2, <1>3
<1> QED
  BY <1>4

\* Min is the least element.
LEMMA MinIs ==
  ASSUME NEW S \in SUBSET Nat, S # {}
  PROVE  Min(S) \in S /\ \A n \in S : Min(S) <= n
  BY LeastElement DEF Min

\* What the middleware answers, once it has drained the body, is bounded by its limit.
LEMMA BodyIsBounded ==
  ASSUME NEW declared, NEW messages, NEW limit \in Nat, Drained(declared, messages, limit)
  PROVE  BodyBounded(declared, messages, limit, MaxBodySize(declared, messages, limit))
<1> DEFINE D == Deciding(messages, limit)
           over == {n \in 1..Len(messages) : Sent(messages, n) > limit}
           n == Min(D)
           read == IF messages[n].type = "http.request" THEN n ELSE n - 1
           result == MaxBodySize(declared, messages, limit)
<1>0. D \subseteq 1..Len(messages) /\ over \subseteq D
  BY DEF Deciding, OverLimit
<1>1. D \in SUBSET Nat /\ over \in SUBSET Nat
  BY <1>0
<1>2. over # {} => Min(over) \in over /\ Min(over) \in Nat \ {0}
  BY <1>1, MinIs
<1> SUFFICES /\ ~(result.body > limit)
             /\ result.status = 413 <=> TooLong(declared, limit) \/ result.read \in over
             /\ over # {} => result.read <= Min(over)
             /\ result.status = 200 =>
                  /\ result.body = Sent(messages, result.read)
                  /\ \A k \in 1..result.read :
                       messages[k].type = "http.request" /\ (messages[k].more \/ k = result.read)
                  /\ \/ result.read \in 1..Len(messages) /\ ~messages[result.read].more
                     \/ result.read + 1 \in 1..Len(messages) /\ messages[result.read + 1].type # "http.request"
  BY DEF BodyBounded
<1>3. CASE TooLong(declared, limit)
  <2>1. result = [status |-> 413, read |-> 0, body |-> 0]
    BY <1>3 DEF MaxBodySize
  <2> HIDE DEF result, over
  <2> QED
    BY <1>2, <1>3, <2>1
<1>4. CASE ~TooLong(declared, limit)
  <2>1. D # {}
    BY <1>4 DEF Drained
  <2>2. n \in D /\ \A k \in D : n <= k
    BY <1>1, <2>1, MinIs
  <2>3. n \in 1..Len(messages)
    BY <1>0, <2>2
  <2>4. n \in Nat \ {0}
    BY <2>3
  <2>5. ASSUME NEW k \in 1..(n - 1)
        PROVE  messages[k].type = "http.request" /\ ~OverLimit(messages, k, limit) /\ messages[k].more
    <3>1. k \in 1..Len(messages) /\ ~(n <= k)
      BY <2>3, <2>4
    <3>2. k \notin D
      BY <2>2, <3>1
    <3> QED
      BY <3>1, <3>2 DEF Deciding
  <2>6. over # {} => n <= Min(over)
    BY <1>0, <1>2, <2>2
  <2>7. read \in Nat /\ read <= n
    BY <2>4
  <2>8. over # {} => read <= Min(over)
    BY <1>2, <2>4, <2>6, <2>7
  <2>9. result = IF messages[n].type = "http.request" /\ OverLimit(messages, n, limit)
                 THEN [status |-> 413, read |-> read, body |-> 0]
                 ELSE [status |-> 200, read |-> read, body |-> Sent(messages, read)]
    BY <1>4 DEF MaxBodySize
  <2> HIDE DEF result
  <2>10. CASE messages[n].type = "http.request" /\ OverLimit(messages, n, limit)
    <3>1. read = n /\ n \in over
      BY <2>3, <2>10 DEF OverLimit
    <3> HIDE DEF over, n, read
    <3>2. result.status = 413 /\ result.read = read /\ result.body = 0
      BY <2>9, <2>10
    <3> QED
      BY <2>8, <3>1, <3>2
  <2>11. CASE messages[n].type = "http.request" /\ ~OverLimit(messages, n, limit)
    <3>1. read = n /\ ~messages[n].more /\ ~(Sent(messages, n) > limit)
      BY <2>2, <2>11 DEF Deciding, OverLimit
    <3>2. n \notin over
      BY <3>1
    <3>3. \A k \in 1..n : k = n \/ k \in 1..(n - 1)
      BY <2>4
    <3>4. \A k \in 1..n : messages[k].type = "http.request" /\ (messages[k].more \/ k = n)
      BY <2>5, <2>11, <3>3
    <3> HIDE DEF over, n, read
    <3>5. result.status = 200 /\ result.read = n /\ result.body = Sent(messages, n)
      BY <2>9, <2>11, <3>1
    <3> QED
      BY <1>4, <2>3, <2>8, <3>1, <3>2, <3>4, <3>5
  <2>12. CASE messages[n].type # "http.request"
    <3>1. read = n - 1 /\ read + 1 = n
      BY <2>4, <2>12
    <3>2. read \notin over /\ ~(Sent(messages, read) > limit)
      <4>1. CASE n = 1
        <5>1. read = 0 /\ 0 \notin 1..Len(messages)
          BY <3>1, <4>1
        <5>2. Sent(messages, read) = 0
          BY <5>1 DEF Sent
        <5> QED
          BY <5>1, <5>2
      <4>2. CASE n # 1
        <5>1. read \in 1..(n - 1)
          BY <2>4, <3>1, <4>2
        <5> QED
          BY <2>5, <5>1 DEF OverLimit
      <4> QED
        BY <4>1, <4>2
    <3>3. \A k \in 1..read : messages[k].type = "http.request" /\ messages[k].more
      BY <2>5, <3>1
    <3> HIDE DEF over, n, read
    <3>4. result.status = 200 /\ result.read = read /\ result.body = Sent(messages, read)
      BY <2>9, <2>12
    <3> QED
      BY <1>4, <2>3, <2>8, <2>12, <3>1, <3>2, <3>3, <3>4
  <2> QED
    BY <2>10, <2>11, <2>12
<1> QED
  BY <1>3, <1>4

\* An entry the client puts in front of the header does not change the address.
LEMMA AddressIsAnchored ==
  ASSUME NEW peer, NEW hops \in Seq(STRING), NEW count \in Int
  PROVE  AddressAnchored(peer, hops, count, real_client_ip(peer, hops, count))
<1> SUFFICES ASSUME Len(hops) > count
             PROVE  real_client_ip(peer, hops, count) = real_client_ip(peer, Tail(hops), count)
  BY DEF AddressAnchored
<1>1. CASE count > 0
  <2>1. Len(hops) \in Nat /\ hops # <<>>
    BY <1>1, LenProperties
  <2>2. Len(Tail(hops)) = Len(hops) - 1 /\ \A i \in 1..Len(Tail(hops)) : Tail(hops)[i] = hops[i + 1]
    BY <2>1, HeadTailProperties
  <2> DEFINE i == Len(hops) - count
  <2>3. /\ Len(hops) >= count /\ Len(Tail(hops)) >= count /\ i \in 1..Len(Tail(hops))
        /\ Len(Tail(hops)) - count + 1 = i /\ Len(hops) - count + 1 = i + 1
    BY <1>1, <2>1, <2>2
  <2>4. Tail(hops)[i] = hops[i + 1]
    BY <2>2, <2>3
  <2> HIDE DEF i
  <2>5. real_client_ip(peer, hops, count) = hops[i + 1]
    BY <1>1, <2>3 DEF real_client_ip
  <2>6. real_client_ip(peer, Tail(hops), count) = Tail(hops)[i]
    BY <1>1, <2>3 DEF real_client_ip
  <2> QED
    BY <2>4, <2>5, <2>6
<1>2. CASE ~(count > 0)
  BY <1>2 DEF real_client_ip
<1> QED
  BY <1>1, <1>2

\* What a call returned, and for whom.
IntakeInv == job \in Jobs /\ BodiesBounded /\ AddressesAnchored

\* The routes see no body over their limit and no body is refused within it, whatever was
\* declared and however it arrives; a request is counted under an address its sender did not
\* make up: whatever the calls of the middleware and the headers are.
THEOREM RequestsStayTakenRight == Spec => []RequestsTakenRight
<1>1. Init => IntakeInv
  BY DEF Init, IntakeInv, BodiesBounded, AddressesAnchored, Returned
<1>2. IntakeInv /\ [Next]_vars => IntakeInv'
  <2> SUFFICES ASSUME IntakeInv, [Next]_vars  PROVE IntakeInv'
    OBVIOUS
  <2>0. job \in Jobs /\ BodiesBounded /\ AddressesAnchored
    BY DEF IntakeInv
  <2>1. job' = job
    BY DEF Next, vars, Answer, Embed, Called, CallIntake, CallClassifier, CallRetriever, CallChunker,
           CallMemory, Decode, CallEvictor, CallEngine
  <2>2. \/ output' = output
        \/ job.kind \notin {"body", "address"}
        \/ CallIntake
    BY DEF Next, vars, Answer, Embed, Called, CallClassifier, CallRetriever, CallChunker,
           CallMemory, Decode, CallEvictor, CallEngine
  <2>3. CASE output' = output
    BY <2>0, <2>1, <2>3 DEF IntakeInv, BodiesBounded, AddressesAnchored, Returned
  <2>4. CASE job.kind \notin {"body", "address"}
    BY <2>0, <2>1, <2>4 DEF IntakeInv, BodiesBounded, AddressesAnchored, Returned
  <2>5. CASE Called("body") /\ Drained(job.declared, job.messages, job.limit)
               /\ Returns(MaxBodySize(job.declared, job.messages, job.limit))
    <3>1. job.kind = "body" /\ output' = MaxBodySize(job.declared, job.messages, job.limit)
      BY <2>5 DEF Called, Returns
    <3>2. job.limit \in Nat
      BY <2>0, <3>1, JobsAssumption
    <3>3. BodyBounded(job.declared, job.messages, job.limit, output')
      BY <2>5, <3>1, <3>2, BodyIsBounded
    <3> QED
      BY <2>0, <2>1, <3>1, <3>3 DEF IntakeInv, BodiesBounded, AddressesAnchored, Returned
  <2>6. CASE Called("address") /\ Returns(real_client_ip(job.peer, job.hops, job.count))
    <3>1. job.kind = "address" /\ output' = real_client_ip(job.peer, job.hops, job.count)
      BY <2>6 DEF Called, Returns
    <3>2. job.hops \in Seq(STRING) /\ job.count \in Int
      BY <2>0, <3>1, JobsAssumption
    <3>3. AddressAnchored(job.peer, job.hops, job.count, output')
      BY <3>1, <3>2, AddressIsAnchored
    <3> QED
      BY <2>0, <2>1, <3>1, <3>3 DEF IntakeInv, BodiesBounded, AddressesAnchored, Returned
  <2> QED
    BY <2>2, <2>3, <2>4, <2>5, <2>6 DEF CallIntake
<1>3. IntakeInv => RequestsTakenRight
  BY DEF IntakeInv, RequestsTakenRight
<1> QED
  BY <1>1, <1>2, <1>3, PTL DEF Spec

-----------------------------------------------------------------------------
(* The budget. *)

\* Floor division.
LEMMA Floors ==
  ASSUME NEW w \in Nat, w > 0, NEW x \in Nat
  PROVE  x \div w \in Nat /\ (x \div w) * w <= x
  OBVIOUS

\* The slices are naturals, and no more than there is.
LEMMA SlicesFit ==
  ASSUME NEW total \in Nat
  PROVE  /\ \A p \in Paradigms \cup {"query"} : Slice(total, p) \in Nat
         /\ Slice(total, "cag") + Slice(total, "mag") + Slice(total, "rag") + Slice(total, "query") <= total
<1> DEFINE a == Shares["cag"]
           b == Shares["mag"]
           c == Shares["rag"]
           d == Shares["query"]
           e == Shares["reserve"]
<1>1. a \in Nat /\ b \in Nat /\ c \in Nat /\ d \in Nat /\ e \in Nat /\ a + b + c + d + e = 100
  BY AnsweringAssumption DEF Paradigms
<1>2. /\ Slice(total, "cag") = (total * a) \div 100 /\ Slice(total, "mag") = (total * b) \div 100
      /\ Slice(total, "rag") = (total * c) \div 100 /\ Slice(total, "query") = (total * d) \div 100
  BY DEF Slice
<1> HIDE DEF a, b, c, d, e
<1>3. total * a + total * b + total * c + total * d + total * e = total * (a + b + c + d + e)
  BY <1>1
<1>4. total * a \in Nat /\ total * b \in Nat /\ total * c \in Nat /\ total * d \in Nat /\ total * e \in Nat
  BY <1>1
<1>5. \A v, w, x, y, z \in Nat : v + w + x + y + z = total * 100 =>
        /\ v \div 100 \in Nat /\ w \div 100 \in Nat /\ x \div 100 \in Nat /\ y \div 100 \in Nat
        /\ (v \div 100) + (w \div 100) + (x \div 100) + (y \div 100) <= total
  OBVIOUS
<1>6. total * a + total * b + total * c + total * d + total * e = total * 100
  BY <1>1, <1>3
<1> QED
  BY <1>2, <1>4, <1>5, <1>6 DEF Paradigms

\* Two floors of parts that make up the whole are no more than the whole.
LEMMA PartsFit ==
  ASSUME NEW d \in Nat, NEW x \in Nat, NEW y \in Nat, x + y > 0
  PROVE  /\ (d * x) \div (x + y) \in Nat /\ (d * y) \div (x + y) \in Nat
         /\ (d * x) \div (x + y) + (d * y) \div (x + y) <= d
<1> DEFINE w == x + y
           m == (d * x) \div w
           n == (d * y) \div w
<1>1. w \in Nat /\ w > 0 /\ d * x \in Nat /\ d * y \in Nat /\ d * x + d * y = d * w
  OBVIOUS
<1>2. m \in Nat /\ n \in Nat /\ m * w <= d * x /\ n * w <= d * y
  BY <1>1, Floors
<1> HIDE DEF w, m, n
<1>3. (m + n) * w <= d * w
  <2>1. (m + n) * w = m * w + n * w /\ m * w \in Nat /\ n * w \in Nat /\ d * w \in Nat
    BY <1>1, <1>2
  <2> QED
    BY <1>1, <1>2, <2>1
<1>4. m + n <= d
  <2> SUFFICES ASSUME m + n >= d + 1  PROVE FALSE
    BY <1>2
  <2>1. \A k \in Nat : k >= d + 1 => k * w >= (d + 1) * w
    BY <1>1
  <2>2. (d + 1) * w = d * w + w /\ d * w \in Nat
    BY <1>1
  <2> QED
    BY <1>1, <1>2, <1>3, <2>1, <2>2
<1> QED
  BY <1>2, <1>4 DEF m, n, w

\* An idle paradigm gives away no more than its slice, and to active ones only.
LEMMA PortionsFit ==
  ASSUME NEW total \in Nat, NEW active \in SUBSET Paradigms, NEW idle \in Paradigms \ active
  PROVE  /\ \A p \in Paradigms : /\ Portion(total, idle, active, p) \in Nat
                                 /\ p \notin active => Portion(total, idle, active, p) = 0
         /\ Portion(total, idle, active, "cag") + Portion(total, idle, active, "mag")
              + Portion(total, idle, active, "rag") <= Slice(total, idle)
<1> DEFINE d == Slice(total, idle)
           to == _recipients(idle, active)
           weight == Total(to, LAMBDA q : Shares[q])
           of(p) == Portion(total, idle, active, p)
<1>1. d \in Nat
  BY SlicesFit
<1>2. \A p \in Paradigms : Shares[p] \in Nat
  BY AnsweringAssumption DEF Paradigms
<1>3. \/ to = {} \/ to = {"cag"} \/ to = {"mag"} \/ to = {"rag"}
      \/ to = {"cag", "rag"}
  BY DEF _recipients, Paradigms
<1>4. to \subseteq active
  BY DEF _recipients, Paradigms
<1>5. \A p \in Paradigms \ to : of(p) = 0
  BY DEF Portion
<1>6. ASSUME NEW p \in Paradigms, to = {p}  PROVE of(p) = d
  <2>1. Cardinality(to) = 1
    BY <1>6, FS_Singleton
  <2> QED
    BY <1>6, <2>1 DEF Portion
<1>7. ASSUME to = {"cag", "rag"}
      PROVE  of("cag") \in Nat /\ of("rag") \in Nat /\ of("cag") + of("rag") <= d
  <2>1. Cardinality(to) = 2
    <3>1. Cardinality({"cag", "rag"}) = Cardinality({"cag"}) + 1
      <4>1. {"cag"} \cup {"rag"} = {"cag", "rag"} /\ "rag" \notin {"cag"} /\ IsFiniteSet({"cag"})
        BY FS_Singleton
      <4> QED
        BY <4>1, FS_AddElement
    <3> QED
      <4>1. Cardinality({"cag"}) = 1
        BY FS_Singleton
      <4> QED
        BY <1>7, <3>1, <4>1
  <2>2. weight = Shares["cag"] + Shares["rag"]
    <3>1. "cag" \in to /\ "rag" \in to /\ "mag" \notin to
      BY <1>7
    <3>2. Shares["cag"] \in Nat /\ Shares["rag"] \in Nat
      BY <1>2 DEF Paradigms
    <3> QED
      BY <3>1, <3>2 DEF Total
  <2> HIDE DEF weight
  <2>3. ASSUME NEW p \in {"cag", "rag"}  PROVE of(p) = IF weight = 0 THEN 0 ELSE (d * Shares[p]) \div weight
    BY <1>7, <2>1 DEF Portion, weight
  <2>4. Shares["cag"] \in Nat /\ Shares["rag"] \in Nat
    BY <1>2 DEF Paradigms
  <2> HIDE DEF of, d
  <2>5. CASE weight = 0
    BY <1>1, <2>3, <2>5
  <2>6. CASE weight # 0
    <3>1. Shares["cag"] + Shares["rag"] > 0
      BY <2>2, <2>4, <2>6
    <3>2. /\ (d * Shares["cag"]) \div weight \in Nat /\ (d * Shares["rag"]) \div weight \in Nat
          /\ (d * Shares["cag"]) \div weight + (d * Shares["rag"]) \div weight <= d
      BY <1>1, <2>2, <2>4, <3>1, PartsFit
    <3> QED
      BY <2>3, <2>6, <3>2
  <2> QED
    BY <2>5, <2>6
<1> HIDE DEF of, d, to
<1>8. /\ \A p \in Paradigms : of(p) \in Nat
      /\ of("cag") + of("mag") + of("rag") <= d
  <2>1. CASE to = {}
    BY <1>1, <1>5, <2>1 DEF Paradigms
  <2>2. CASE to = {"cag"}
    BY <1>1, <1>5, <1>6, <2>2 DEF Paradigms
  <2>3. CASE to = {"mag"}
    BY <1>1, <1>5, <1>6, <2>3 DEF Paradigms
  <2>4. CASE to = {"rag"}
    BY <1>1, <1>5, <1>6, <2>4 DEF Paradigms
  <2>5. CASE to = {"cag", "rag"}
    BY <1>1, <1>5, <1>7, <2>5 DEF Paradigms
  <2> QED
    BY <1>3, <2>1, <2>2, <2>3, <2>4, <2>5
<1> QED
  BY <1>4, <1>5, <1>8 DEF of, d

\* What a paradigm receives is a natural, and no more is taken than was given.
LEMMA ReceivedFits ==
  ASSUME NEW total \in Nat, NEW active \in SUBSET Paradigms
  PROVE  /\ \A p \in Paradigms : /\ Received(total, active, p) \in Nat
                                 /\ p \notin active => Received(total, active, p) = 0
         /\ Received(total, active, "cag") + Received(total, active, "mag") + Received(total, active, "rag")
              <= Total(Paradigms \ active, LAMBDA p : Slice(total, p))
<1> DEFINE give(idle, p) == IF idle \in Paradigms \ active THEN Portion(total, idle, active, p) ELSE 0
           had(idle) == IF idle \in Paradigms \ active THEN Slice(total, idle) ELSE 0
<1>1. ASSUME NEW idle \in Paradigms
      PROVE  /\ \A p \in Paradigms : give(idle, p) \in Nat /\ (p \notin active => give(idle, p) = 0)
             /\ give(idle, "cag") + give(idle, "mag") + give(idle, "rag") <= had(idle)
             /\ had(idle) \in Nat
  <2>1. CASE idle \in active
    BY <2>1 DEF Paradigms
  <2>2. CASE idle \notin active
    BY <2>2, PortionsFit, SlicesFit
  <2> QED
    BY <2>1, <2>2
<1>2. \A p \in Paradigms : Received(total, active, p) = give("cag", p) + give("mag", p) + give("rag", p)
  BY DEF Received, Total
<1>3. Total(Paradigms \ active, LAMBDA p : Slice(total, p)) = had("cag") + had("mag") + had("rag")
  BY DEF Total
<1> HIDE DEF give, had
<1>4. \A idle, p \in Paradigms : give(idle, p) \in Nat
  BY <1>1
<1>5. /\ give("cag", "cag") + give("cag", "mag") + give("cag", "rag") <= had("cag")
      /\ give("mag", "cag") + give("mag", "mag") + give("mag", "rag") <= had("mag")
      /\ give("rag", "cag") + give("rag", "mag") + give("rag", "rag") <= had("rag")
      /\ had("cag") \in Nat /\ had("mag") \in Nat /\ had("rag") \in Nat
  BY <1>1 DEF Paradigms
<1>6. \A p \in Paradigms : /\ Received(total, active, p) \in Nat
                           /\ p \notin active => Received(total, active, p) = 0
  BY <1>1, <1>2 DEF Paradigms
<1>7. /\ "cag" \in Paradigms /\ "mag" \in Paradigms /\ "rag" \in Paradigms
  BY DEF Paradigms
<1>8. Received(total, active, "cag") + Received(total, active, "mag") + Received(total, active, "rag")
        <= had("cag") + had("mag") + had("rag")
  BY <1>2, <1>4, <1>5, <1>7
<1> QED
  BY <1>3, <1>6, <1>8

\* What allocate promises: five parts of the total, none of them negative; the query's is the one
\* the question was measured against.
Allocated(total, slice) ==
  /\ slice \in [Paradigms \cup {"query", "reserve"} -> Nat]
  /\ slice["cag"] + slice["mag"] + slice["rag"] + slice["query"] + slice["reserve"] = total
  /\ slice["query"] = Slice(total, "query")

\* The slices divide the tokens exactly, whoever contributes.
LEMMA BudgetDivides ==
  ASSUME NEW total \in Nat, NEW active \in SUBSET Paradigms
  PROVE  Allocated(total, allocate(total, active))
<1> DEFINE a == allocate(total, active)
           own(p) == IF p \in active THEN Slice(total, p) ELSE 0
           got(p) == IF p \in active THEN Received(total, active, p) ELSE 0
           base == Total(Paradigms, LAMBDA p : Slice(total, p))
           given == Total(Paradigms \ active, LAMBDA p : Slice(total, p))
           taken == Total(active, LAMBDA p : Received(total, active, p))
           q == Slice(total, "query")
<1>0. "cag" \in Paradigms /\ "mag" \in Paradigms /\ "rag" \in Paradigms
  BY DEF Paradigms
<1>1. /\ \A p \in Paradigms : Slice(total, p) \in Nat
      /\ q \in Nat /\ base = Slice(total, "cag") + Slice(total, "mag") + Slice(total, "rag")
      /\ base + q <= total /\ base \in Nat
  BY <1>0, SlicesFit DEF Total
<1>2. /\ \A p \in Paradigms : got(p) \in Nat /\ got(p) = Received(total, active, p)
      /\ taken = got("cag") + got("mag") + got("rag") /\ taken \in Nat
  BY <1>0, ReceivedFits DEF Total
<1>3. \A p \in Paradigms : own(p) \in Nat
  BY <1>1
<1>4. given = (Slice(total, "cag") - own("cag")) + (Slice(total, "mag") - own("mag"))
                + (Slice(total, "rag") - own("rag"))
  BY <1>0, <1>1 DEF Total
<1>5. taken <= given /\ given \in Nat
  <2>1. taken <= given
    BY <1>0, <1>2, ReceivedFits
  <2>2. \A p \in Paradigms : Slice(total, p) - own(p) \in Nat
    BY <1>1
  <2> QED
    BY <1>0, <1>4, <2>1, <2>2
<1>6. \A p \in Paradigms : Divided(total, active, p) = own(p) + got(p)
  BY DEF Divided
<1>7. a = [cag |-> Divided(total, active, "cag"), mag |-> Divided(total, active, "mag"),
           rag |-> Divided(total, active, "rag"), query |-> q,
           reserve |-> (total - base - q) + (given - taken)]
  BY DEF allocate
<1> HIDE DEF a, own, got, base, given, taken, q
<1>8. /\ a["cag"] = own("cag") + got("cag") /\ a["mag"] = own("mag") + got("mag")
      /\ a["rag"] = own("rag") + got("rag") /\ a["query"] = q
      /\ a["reserve"] = (total - base - q) + (given - taken)
  BY <1>0, <1>6, <1>7
<1>9. (total - base - q) + (given - taken) \in Nat
  BY <1>1, <1>2, <1>5
<1>10. a["cag"] + a["mag"] + a["rag"] + a["query"] + a["reserve"] = total
  BY <1>0, <1>1, <1>2, <1>3, <1>4, <1>5, <1>8
<1>11. a \in [Paradigms \cup {"query", "reserve"} -> Nat]
  <2>1. DOMAIN a = Paradigms \cup {"query", "reserve"}
    BY <1>7 DEF Paradigms
  <2>2. \A x \in DOMAIN a : a[x] \in Nat
    BY <1>1, <1>2, <1>3, <1>8, <1>9, <2>1 DEF Paradigms
  <2>3. a = [x \in DOMAIN a |-> a[x]]
    BY <1>7
  <2> QED
    BY <2>1, <2>2, <2>3
<1> QED
  BY <1>8, <1>10, <1>11 DEF Allocated, a, q

-----------------------------------------------------------------------------
(* Ranks, walks and costs. *)

\* `g` is the run of the step F from `start` on.
Run(g, S, start, F, n) == g \in [0..n -> S] /\ g[0] = start /\ \A k \in 1..n : g[k] = F[<<g[k - 1], k>>]

\* Whatever a step makes of a state and a number, there is a run of it of every length.
LEMMA RunExists ==
  ASSUME NEW S, NEW start \in S, NEW F \in [S \X Nat -> S], NEW N \in Nat
  PROVE  \E g : Run(g, S, start, F, N)
<1> DEFINE RunTo(g, n) == Run(g, S, start, F, n)
           without == {n \in Nat : ~ \E g : RunTo(g, n)}
<1>1. \E g : RunTo(g, 0)
  <2> DEFINE g == [k \in 0..0 |-> start]
  <2>1. RunTo(g, 0)
    BY DEF Run
  <2> QED
    BY <2>1
<1>2. ASSUME NEW n \in Nat, NEW g, RunTo(g, n)  PROVE \E h : RunTo(h, n + 1)
  <2> DEFINE x == F[<<g[n], n + 1>>]
             h == [k \in 0..(n + 1) |-> IF k <= n THEN g[k] ELSE x]
  <2>1. g \in [0..n -> S] /\ g[0] = start /\ \A k \in 1..n : g[k] = F[<<g[k - 1], k>>]
    BY <1>2 DEF Run
  <2>2. x \in S
    BY <2>1
  <2> HIDE DEF x
  <2>3. h \in [0..(n + 1) -> S]
    BY <2>1, <2>2
  <2>4. h[0] = start
    BY <2>1
  <2>5. ASSUME NEW k \in 1..(n + 1)  PROVE h[k] = F[<<h[k - 1], k>>]
    <3>1. CASE k <= n
      <4>1. k \in 1..n /\ k - 1 \in 0..n /\ k - 1 <= n
        BY <3>1
      <4> QED
        BY <2>1, <4>1
    <3>2. CASE k = n + 1
      <4>1. k - 1 = n /\ n \in 0..(n + 1) /\ ~(k <= n)
        BY <3>2
      <4> QED
        BY <3>2, <4>1 DEF x
    <3> QED
      BY <3>1, <3>2
  <2> HIDE DEF h
  <2> QED
    BY <2>3, <2>4, <2>5 DEF Run
<1> HIDE DEF RunTo
<1>3. without = {}
  <2> SUFFICES ASSUME without # {}  PROVE FALSE
    OBVIOUS
  <2>1. PICK n \in without : \A k \in without : n <= k
    BY LeastElement
  <2>2. n # 0 /\ n \in Nat
    BY <1>1, <2>1
  <2>3. n - 1 \in Nat /\ n - 1 \notin without
    BY <2>1, <2>2
  <2>4. PICK g : RunTo(g, n - 1)
    BY <2>3
  <2>5. (n - 1) + 1 = n
    BY <2>2
  <2>6. \E h : RunTo(h, (n - 1) + 1)
    BY <1>2, <2>3, <2>4
  <2> QED
    BY <2>1, <2>2, <2>5, <2>6
<1>4. \E g : RunTo(g, N)
  BY <1>3
<1> QED
  BY <1>4 DEF RunTo

\* The items as the tiers bring them.
Item == [paradigm : Paradigms, score : Int, cost : Nat]
Items == Seq(Item)

\* An item of them.
LEMMA ItemType ==
  ASSUME NEW items \in Items, NEW i \in 1..Len(items)
  PROVE  i \in Nat /\ items[i].paradigm \in Paradigms /\ items[i].score \in Int /\ items[i].cost \in Nat
<1>1. Len(items) \in Nat
  BY LenProperties DEF Items
<1>2. items[i] \in Item
  BY ElementOfSeq DEF Items
<1> QED
  BY <1>1, <1>2 DEF Item

\* What a state of the walk over the positions I is.
Steps(I) == [kept : SUBSET I, dropped : Nat, tokens_used : Nat]

\* The order of the ranks.
LEMMA AheadOrders ==
  ASSUME NEW items \in Items, NEW i \in 1..Len(items), NEW j \in 1..Len(items)
  PROVE  /\ ~Ahead(items, i, i)
         /\ i # j => Ahead(items, i, j) \/ Ahead(items, j, i)
         /\ Ahead(items, i, j) => ~Ahead(items, j, i) /\ items[i].score >= items[j].score
         /\ \A k \in 1..Len(items) : Ahead(items, i, j) /\ Ahead(items, j, k) => Ahead(items, i, k)
<1>1. \A k \in 1..Len(items) : items[k].score \in Int /\ k \in Nat
  BY ItemType
<1> QED
  BY <1>1 DEF Ahead

\* Every rank is that of one item.
LEMMA RankedAll ==
  ASSUME NEW items \in Items, NEW I \in SUBSET (1..Len(items))
  PROVE  /\ IsFiniteSet(I) /\ Cardinality(I) \in Nat
         /\ \A n \in 1..Cardinality(I) :
              /\ Ranked(items, I, n) \in I
              /\ \A m \in 1..Cardinality(I) : m < n => Ahead(items, Ranked(items, I, m), Ranked(items, I, n))
         /\ \A i \in I : \E n \in 1..Cardinality(I) : Ranked(items, I, n) = i
<1> DEFINE N == Cardinality(I)
           first(i) == {j \in I : Ahead(items, j, i)}
           T == 0..(N - 1)
           rank == [i \in I |-> Cardinality(first(i))]
<1>1. IsFiniteSet(I) /\ N \in Nat
  <2>1. Len(items) \in Nat
    BY LenProperties DEF Items
  <2>2. IsFiniteSet(1..Len(items))
    BY <2>1, FS_Interval
  <2> QED
    BY <2>2, FS_Subset, FS_CardinalityType
<1>2. \A i \in I : IsFiniteSet(first(i)) /\ Cardinality(first(i)) \in Nat
  BY <1>1, FS_Subset, FS_CardinalityType
<1>3. ASSUME NEW i \in I, NEW j \in I, Ahead(items, i, j)  PROVE Cardinality(first(i)) < Cardinality(first(j))
  <2>1. first(i) \subseteq first(j)
    BY <1>3, AheadOrders
  <2>2. i \in first(j) /\ i \notin first(i)
    BY <1>3, AheadOrders
  <2>3. first(i) # first(j)
    BY <2>2
  <2> HIDE DEF first
  <2>4. Cardinality(first(i)) <= Cardinality(first(j)) /\ Cardinality(first(i)) # Cardinality(first(j))
    BY <1>2, <2>1, <2>3, FS_Subset
  <2> QED
    BY <1>2, <2>4
<1>4. ASSUME NEW i \in I  PROVE Cardinality(first(i)) \in T
  <2>1. first(i) \subseteq I /\ first(i) # I
    BY AheadOrders
  <2>2. Cardinality(first(i)) <= N /\ Cardinality(first(i)) # N
    BY <1>1, <2>1, FS_Subset
  <2> QED
    BY <1>1, <1>2, <2>2
<1> HIDE DEF first
<1>5. rank \in [I -> T]
  BY <1>4
<1>6. \A i, j \in I : rank[i] = rank[j] => i = j
  <2> SUFFICES ASSUME NEW i \in I, NEW j \in I, rank[i] = rank[j], i # j  PROVE FALSE
    OBVIOUS
  <2>1. Cardinality(first(i)) < Cardinality(first(j)) \/ Cardinality(first(j)) < Cardinality(first(i))
    BY <1>3, AheadOrders
  <2> QED
    BY <1>2, <2>1
<1>7. IsFiniteSet(T) /\ Cardinality(T) = N
  <2>1. IsFiniteSet(0..(N - 1)) /\ Cardinality(0..(N - 1)) = IF 0 > N - 1 THEN 0 ELSE (N - 1) - 0 + 1
    BY <1>1, FS_Interval
  <2>2. (IF 0 > N - 1 THEN 0 ELSE (N - 1) - 0 + 1) = N
    BY <1>1
  <2> QED
    BY <2>1, <2>2
<1> HIDE DEF T
<1>8. rank \in Surjection(I, T)
  <2> HIDE DEF rank
  <2>1. rank \in Injection(I, T)
    BY <1>5, <1>6, Zenon DEF Injection, IsInjective
  <2> QED
    BY <1>7, <2>1, FS_Injection
<1>9. ASSUME NEW n \in 1..N
      PROVE  Ranked(items, I, n) \in I /\ Cardinality(first(Ranked(items, I, n))) = n - 1
  <2>1. n - 1 \in T
    BY <1>1 DEF T
  <2>2. \E i \in I : rank[i] = n - 1
    <3> HIDE DEF rank
    <3> QED
      BY <1>8, <2>1, Zenon DEF Surjection
  <2>3. \E i \in I : Cardinality(first(i)) = n - 1
    BY <2>2
  <2> QED
    BY <2>3 DEF Ranked, first
<1>10. ASSUME NEW i \in I  PROVE \E n \in 1..N : Ranked(items, I, n) = i
  <2> DEFINE n == Cardinality(first(i)) + 1
  <2>1. n \in 1..N /\ n - 1 = Cardinality(first(i))
    BY <1>1, <1>2, <1>4 DEF T
  <2> HIDE DEF n
  <2>2. Ranked(items, I, n) \in I /\ Cardinality(first(Ranked(items, I, n))) = Cardinality(first(i))
    BY <1>9, <2>1
  <2>3. Ranked(items, I, n) = i
    BY <1>6, <2>2
  <2> QED
    BY <2>1, <2>3
<1>11. ASSUME NEW n \in 1..N, NEW m \in 1..N, m < n
       PROVE  Ahead(items, Ranked(items, I, m), Ranked(items, I, n))
  <2> DEFINE i == Ranked(items, I, m)
             j == Ranked(items, I, n)
  <2>1. i \in I /\ j \in I /\ Cardinality(first(i)) = m - 1 /\ Cardinality(first(j)) = n - 1
    BY <1>9
  <2> HIDE DEF i, j
  <2>2. i # j
    BY <1>1, <1>11, <2>1
  <2>3. ~Ahead(items, j, i)
    <3> SUFFICES ASSUME Ahead(items, j, i)  PROVE FALSE
      OBVIOUS
    <3>1. Cardinality(first(j)) < Cardinality(first(i))
      BY <1>3, <2>1
    <3> QED
      BY <1>1, <1>11, <2>1, <3>1
  <2> QED
    BY <2>1, <2>2, <2>3, AheadOrders DEF i, j
<1> QED
  BY <1>1, <1>9, <1>10, <1>11

\* The walk takes the items one by one, in the order of their ranks.
LEMMA WalkSteps ==
  ASSUME NEW items \in Items, NEW I \in SUBSET (1..Len(items)), NEW budget \in Nat
  PROVE  LET walk == Walk(items, I, budget)
         IN /\ walk[0] = [kept |-> {}, dropped |-> 0, tokens_used |-> 0]
            /\ \A n \in 1..Cardinality(I) :
                 walk[n] = Packed(walk[n - 1], Ranked(items, I, n), items[Ranked(items, I, n)].cost, budget)
<1> DEFINE N == Cardinality(I)
           start == [kept |-> {}, dropped |-> 0, tokens_used |-> 0]
           at(n) == Ranked(items, I, n)
           step(x, n) == Packed(x, at(n), items[at(n)].cost, budget)
           F == [y \in Steps(I) \X Nat |-> IF y[2] \in 1..N THEN step(y[1], y[2]) ELSE y[1]]
           Is(g) == g = [n \in 0..N |-> IF n = 0 THEN start ELSE step(g[n - 1], n)]
<1>1. N \in Nat /\ \A n \in 1..N : at(n) \in I /\ items[at(n)].cost \in Nat
  BY RankedAll, ItemType
<1>2. \A x \in Steps(I), n \in 1..N : step(x, n) \in Steps(I)
  <2> HIDE DEF at
  <2> SUFFICES ASSUME NEW x \in Steps(I), NEW n \in 1..N  PROVE step(x, n) \in Steps(I)
    OBVIOUS
  <2> DEFINE c == items[at(n)].cost
  <2>1. at(n) \in I /\ c \in Nat
    BY <1>1
  <2> HIDE DEF c
  <2>2. x.kept \subseteq I /\ x.dropped \in Nat /\ x.tokens_used \in Nat
        /\ x = [kept |-> x.kept, dropped |-> x.dropped, tokens_used |-> x.tokens_used]
    BY DEF Steps
  <2> QED
    BY <2>1, <2>2 DEF Packed, Steps, c
<1> HIDE DEF at, step
<1>3. F \in [Steps(I) \X Nat -> Steps(I)]
  BY <1>2
<1>4. start \in Steps(I)
  BY DEF Steps
<1>5. \A x \in Steps(I), n \in 1..N : F[<<x, n>>] = step(x, n)
  BY <1>1
<1> HIDE DEF F, start, N
<1>6. PICK g : Run(g, Steps(I), start, F, N)
  BY <1>1, <1>3, <1>4, RunExists
<1>r. g \in [0..N -> Steps(I)] /\ g[0] = start /\ \A k \in 1..N : g[k] = F[<<g[k - 1], k>>]
  BY <1>6 DEF Run
<1>7. Is(g)
  <2>1. ASSUME NEW n \in 0..N  PROVE g[n] = IF n = 0 THEN start ELSE step(g[n - 1], n)
    <3>1. CASE n = 0
      BY <1>r, <3>1
    <3>2. CASE n # 0
      <4>1. n \in 1..N /\ n - 1 \in 0..N
        BY <1>1, <3>2
      <4>2. g[n - 1] \in Steps(I)
        BY <1>r, <4>1
      <4> QED
        BY <1>5, <1>r, <3>2, <4>1, <4>2
    <3> QED
      BY <3>1, <3>2
  <2> QED
    BY <1>r, <2>1
<1>8. Walk(items, I, budget) = CHOOSE h : Is(h)
  BY DEF Walk, start, step, at, N
<1>9. Is(Walk(items, I, budget))
  <2> HIDE DEF Is
  <2> QED
    BY <1>7, <1>8, Zenon
<1> DEFINE w == Walk(items, I, budget)
<1> HIDE DEF w
<1>10. w = [n \in 0..N |-> IF n = 0 THEN start ELSE step(w[n - 1], n)]
  BY <1>9 DEF w
<1>11. w[0] = start /\ \A n \in 1..N : w[n] = step(w[n - 1], n)
  <2>1. \A n \in 1..N : n \in 0..N /\ n # 0
    BY <1>1
  <2>2. 0 \in 0..N
    BY <1>1
  <2> QED
    BY <1>10, <2>1, <2>2
<1> QED
  BY <1>11 DEF w, start, step, at, N

\* The tokens of an item, as the pairs CostOf counts, and of some items.
TokensAt(items, i) == {i} \X (1..items[i].cost)
TokensIn(items, S) == UNION {TokensAt(items, i) : i \in S}

\* A pair belongs to the item it names.
LEMMA TokensOfItems ==
  ASSUME NEW items, NEW S
  PROVE  /\ CostOf(items, S) = Cardinality(TokensIn(items, S))
         /\ \A t : t \in TokensIn(items, S) <=> \E i \in S : t \in TokensAt(items, i)
         /\ \A i : \A t \in TokensAt(items, i) : t[1] = i
<1>1. CostOf(items, S) = Cardinality(TokensIn(items, S))
  BY DEF CostOf, TokensIn, TokensAt
<1>2. \A t : t \in TokensIn(items, S) <=> \E i \in S : t \in TokensAt(items, i)
  BY Zenon DEF TokensIn
<1>3. \A i : \A t \in TokensAt(items, i) : t[1] = i
  BY DEF TokensAt
<1> QED
  BY <1>1, <1>2, <1>3

\* There are as many of them as the item costs.
LEMMA TokensCounted ==
  ASSUME NEW items \in Items, NEW i \in 1..Len(items)
  PROVE  IsFiniteSet(TokensAt(items, i)) /\ Cardinality(TokensAt(items, i)) = items[i].cost
<1> DEFINE c == items[i].cost
<1>1. c \in Nat
  BY ItemType
<1> HIDE DEF c
<1>2. IsFiniteSet(1..c) /\ Cardinality(1..c) = c
  <2>1. IsFiniteSet(1..c) /\ Cardinality(1..c) = IF 1 > c THEN 0 ELSE c - 1 + 1
    BY <1>1, FS_Interval
  <2>2. (IF 1 > c THEN 0 ELSE c - 1 + 1) = c
    BY <1>1
  <2> QED
    BY <2>1, <2>2
<1>3. IsFiniteSet({i}) /\ Cardinality({i}) = 1
  BY FS_Singleton
<1>4. IsFiniteSet({i} \X (1..c)) /\ Cardinality({i} \X (1..c)) = Cardinality({i}) * Cardinality(1..c)
  BY <1>2, <1>3, FS_Product
<1>5. Cardinality({i} \X (1..c)) = c
  BY <1>1, <1>2, <1>3, <1>4
<1> QED
  BY <1>4, <1>5 DEF TokensAt, c

\* The tokens of some items are finitely many.
LEMMA TokensFinite ==
  ASSUME NEW items \in Items, NEW S \in SUBSET (1..Len(items))
  PROVE  IsFiniteSet(S) /\ IsFiniteSet(TokensIn(items, S)) /\ CostOf(items, S) \in Nat
<1> DEFINE T == {TokensAt(items, i) : i \in S}
           f == [i \in S |-> TokensAt(items, i)]
<1>1. IsFiniteSet(S)
  BY RankedAll
<1>2. f \in [S -> T] /\ \A t \in T : \E i \in S : f[i] = t
  OBVIOUS
<1>3. \A t \in T : IsFiniteSet(t)
  BY TokensCounted
<1>4. TokensIn(items, S) = UNION T
  BY DEF TokensIn
<1> HIDE DEF T, f
<1>5. f \in Surjection(S, T)
  BY <1>2, Zenon DEF Surjection
<1>6. IsFiniteSet(T)
  BY <1>1, <1>5, FS_Surjection
<1>7. IsFiniteSet(UNION T)
  BY <1>3, <1>6, FS_UNION
<1>8. Cardinality(UNION T) \in Nat
  BY <1>7, FS_CardinalityType
<1>9. CostOf(items, S) = Cardinality(UNION T)
  BY <1>4, TokensOfItems
<1> QED
  BY <1>1, <1>4, <1>7, <1>8, <1>9

\* Fewer items cost no more.
LEMMA CostGrows ==
  ASSUME NEW items \in Items, NEW T \in SUBSET (1..Len(items)), NEW S \in SUBSET T
  PROVE  CostOf(items, S) <= CostOf(items, T)
<1>1. TokensIn(items, S) \subseteq TokensIn(items, T)
  BY TokensOfItems
<1>2. IsFiniteSet(TokensIn(items, T))
  BY TokensFinite
<1>3. Cardinality(TokensIn(items, S)) <= Cardinality(TokensIn(items, T))
  BY <1>1, <1>2, FS_Subset
<1> QED
  BY <1>3, TokensOfItems

\* No items cost nothing.
LEMMA CostOfNone ==
  ASSUME NEW items  PROVE CostOf(items, {}) = 0
<1>1. TokensIn(items, {}) = {}
  BY TokensOfItems
<1> QED
  BY <1>1, TokensOfItems, FS_EmptySet

\* One more item costs what it costs.
LEMMA CostAdds ==
  ASSUME NEW items \in Items, NEW S \in SUBSET (1..Len(items)), NEW i \in (1..Len(items)) \ S
  PROVE  CostOf(items, S \cup {i}) = CostOf(items, S) + items[i].cost
<1> DEFINE A == TokensIn(items, S)
           B == TokensAt(items, i)
<1>1. TokensIn(items, S \cup {i}) = A \cup B
  BY TokensOfItems
<1>2. A \cap B = {}
  BY TokensOfItems
<1>3. IsFiniteSet(A) /\ IsFiniteSet(B) /\ Cardinality(B) = items[i].cost
  BY TokensFinite, TokensCounted
<1>4. CostOf(items, S) = Cardinality(A) /\ CostOf(items, S \cup {i}) = Cardinality(A \cup B)
  BY <1>1, TokensOfItems
<1> HIDE DEF A, B
<1>5. Cardinality(A \cup B) = Cardinality(A) + Cardinality(B) - Cardinality(A \cap B)
  BY <1>3, FS_Union
<1>6. Cardinality(A \cap B) = 0 /\ Cardinality(A) \in Nat /\ Cardinality(B) \in Nat
  BY <1>2, <1>3, FS_EmptySet, FS_CardinalityType
<1>7. Cardinality(A \cup B) = Cardinality(A) + Cardinality(B)
  BY <1>5, <1>6
<1> QED
  BY <1>3, <1>4, <1>7

\* What holds after n items: those kept are of the first n, cost what was used and fit; every one of
\* the first n is kept or counted, and did not fit behind what was kept at its turn.
WalkedTo(items, I, budget, n) ==
  LET walk == Walk(items, I, budget)
      at(m) == Ranked(items, I, m)
      x == walk[n]
  IN /\ x \in Steps(I)
     /\ \A i \in x.kept : \E m \in 1..n : i = at(m)
     /\ x.tokens_used = CostOf(items, x.kept) /\ x.tokens_used <= budget
     /\ Cardinality(x.kept) + x.dropped = n
     /\ \A m \in 1..n : at(m) \in x.kept \/ walk[m - 1].tokens_used + items[at(m)].cost > budget
     /\ \A m \in 0..n : walk[m].kept \subseteq x.kept

\* One more item.
LEMMA WalkGoesOn ==
  ASSUME NEW items \in Items, NEW I \in SUBSET (1..Len(items)), NEW budget \in Nat,
         NEW n \in 1..Cardinality(I), WalkedTo(items, I, budget, n - 1)
  PROVE  WalkedTo(items, I, budget, n)
<1> DEFINE N == Cardinality(I)
           walk == Walk(items, I, budget)
           at(m) == Ranked(items, I, m)
           x == walk[n - 1]
           y == walk[n]
           i == at(n)
           c == items[i].cost
           fits == x.tokens_used + c <= budget
<1>1. N \in Nat /\ n \in Nat /\ n - 1 \in Nat /\ n # 0
  BY RankedAll
<1>2. i \in I /\ \A m \in 1..(n - 1) : at(m) # i
  <2>1. i \in I
    BY RankedAll
  <2>2. ASSUME NEW m \in 1..(n - 1)  PROVE at(m) # i
    <3>1. m \in 1..N /\ m < n
      BY <1>1
    <3>2. Ahead(items, at(m), i)
      BY <3>1, RankedAll
    <3> QED
      BY <2>1, <3>2, AheadOrders
  <2> QED
    BY <2>1, <2>2
<1>3. c \in Nat
  BY <1>2, ItemType
<1>4. /\ x \in Steps(I)
      /\ \A k \in x.kept : \E m \in 1..(n - 1) : k = at(m)
      /\ x.tokens_used = CostOf(items, x.kept) /\ x.tokens_used <= budget
      /\ Cardinality(x.kept) + x.dropped = n - 1
      /\ \A m \in 1..(n - 1) : at(m) \in x.kept \/ walk[m - 1].tokens_used + items[at(m)].cost > budget
      /\ \A m \in 0..(n - 1) : walk[m].kept \subseteq x.kept
  BY DEF WalkedTo
<1>5. y = [kept |-> x.kept \cup (IF fits THEN {i} ELSE {}),
           dropped |-> x.dropped + (IF fits THEN 0 ELSE 1),
           tokens_used |-> x.tokens_used + (IF fits THEN c ELSE 0)]
  <2>1. y = Packed(x, i, c, budget)
    BY WalkSteps
  <2> QED
    BY <2>1 DEF Packed
<1>6. x.kept \subseteq I /\ x.dropped \in Nat /\ x.tokens_used \in Nat
  BY <1>4 DEF Steps
<1>7. i \notin x.kept
  BY <1>2, <1>4
<1>8. IsFiniteSet(x.kept) /\ Cardinality(x.kept) \in Nat
  <2>1. x.kept \subseteq 1..Len(items)
    BY <1>6
  <2> QED
    BY <2>1, RankedAll
<1> HIDE DEF walk, at, i, c, N, x, y
<1>9. y \in Steps(I) /\ x.kept \subseteq y.kept
  BY <1>2, <1>3, <1>5, <1>6 DEF Steps
<1>10. \A k \in y.kept : \E m \in 1..n : k = at(m)
  <2>1. \A k \in x.kept : \E m \in 1..n : k = at(m)
    BY <1>1, <1>4
  <2>2. n \in 1..n /\ i = at(n)
    BY <1>1 DEF i
  <2>3. \A k \in y.kept : k \in x.kept \/ k = i
    BY <1>5
  <2> QED
    BY <2>1, <2>2, <2>3
<1>11. y.tokens_used = CostOf(items, y.kept) /\ y.tokens_used <= budget /\ Cardinality(y.kept) + y.dropped = n
  <2>1. CASE fits
    <3>1. y.kept = x.kept \cup {i} /\ y.tokens_used = x.tokens_used + c /\ y.dropped = x.dropped
      BY <1>5, <1>6, <2>1
    <3>2. CostOf(items, x.kept \cup {i}) = CostOf(items, x.kept) + c
      BY <1>2, <1>6, <1>7, CostAdds DEF c
    <3>3. Cardinality(x.kept \cup {i}) = Cardinality(x.kept) + 1
      BY <1>7, <1>8, FS_AddElement
    <3>4. y.tokens_used = CostOf(items, y.kept)
      BY <1>4, <3>1, <3>2
    <3>5. y.tokens_used <= budget
      BY <2>1, <3>1
    <3>6. Cardinality(y.kept) + y.dropped = n
      <4>1. Cardinality(y.kept) = Cardinality(x.kept) + 1 /\ y.dropped = x.dropped
        BY <3>1, <3>3
      <4>2. Cardinality(x.kept) + x.dropped = n - 1
        BY <1>4
      <4> QED
        BY <1>1, <1>6, <1>8, <4>1, <4>2
    <3> QED
      BY <3>4, <3>5, <3>6
  <2>2. CASE ~fits
    <3>1. y.kept = x.kept /\ y.tokens_used = x.tokens_used /\ y.dropped = x.dropped + 1
      BY <1>5, <1>6, <2>2
    <3> QED
      BY <1>1, <1>4, <1>6, <1>8, <3>1
  <2> QED
    BY <2>1, <2>2
<1>12. ASSUME NEW m \in 1..n
       PROVE  at(m) \in y.kept \/ walk[m - 1].tokens_used + items[at(m)].cost > budget
  <2>1. CASE m = n
    <3>1. fits => i \in y.kept
      BY <1>5
    <3>2. ~fits => x.tokens_used + c > budget
      BY <1>3, <1>6
    <3> QED
      BY <2>1, <3>1, <3>2 DEF i, c, x
  <2>2. CASE m # n
    <3>1. m \in 1..(n - 1)
      BY <1>1, <2>2
    <3> QED
      BY <1>4, <1>9, <3>1
  <2> QED
    BY <2>1, <2>2
<1>13. \A m \in 0..n : walk[m].kept \subseteq y.kept
  <2> SUFFICES ASSUME NEW m \in 0..n  PROVE walk[m].kept \subseteq y.kept
    OBVIOUS
  <2>1. m = n \/ m \in 0..(n - 1)
    BY <1>1
  <2> QED
    BY <1>4, <1>9, <2>1 DEF y
<1> QED
  BY <1>9, <1>10, <1>11, <1>12, <1>13 DEF WalkedTo, walk, at, y

\* The walk keeps to that up to its end.
LEMMA WalkEnds ==
  ASSUME NEW items \in Items, NEW I \in SUBSET (1..Len(items)), NEW budget \in Nat
  PROVE  \A n \in 0..Cardinality(I) : WalkedTo(items, I, budget, n)
<1> DEFINE N == Cardinality(I)
           stuck == {n \in 0..N : ~WalkedTo(items, I, budget, n)}
<1>1. N \in Nat
  BY RankedAll
<1>2. WalkedTo(items, I, budget, 0)
  <2> DEFINE walk == Walk(items, I, budget)
             x == walk[0]
  <2>1. x = [kept |-> {}, dropped |-> 0, tokens_used |-> 0]
    BY WalkSteps
  <2>2. x \in Steps(I)
    BY <2>1 DEF Steps
  <2>3. x.kept = {} /\ x.dropped = 0 /\ x.tokens_used = 0
    BY <2>1
  <2>4. CostOf(items, {}) = 0 /\ Cardinality({}) = 0
    BY CostOfNone, FS_EmptySet
  <2>5. \A m \in 0..0 : walk[m].kept \subseteq x.kept
    OBVIOUS
  <2>6. \A m \in 1..0 : FALSE
    OBVIOUS
  <2> HIDE DEF x
  <2> QED
    BY <2>2, <2>3, <2>4, <2>5, <2>6 DEF WalkedTo, x
<1>3. stuck = {}
  <2> SUFFICES ASSUME stuck # {}  PROVE FALSE
    OBVIOUS
  <2>0. stuck \subseteq Nat
    BY <1>1
  <2>1. PICK n \in stuck : \A k \in stuck : n <= k
    BY <2>0, LeastElement
  <2>2. n \in 1..N /\ n - 1 \in 0..N /\ n - 1 < n
    BY <1>1, <1>2, <2>1
  <2>3. WalkedTo(items, I, budget, n - 1)
    BY <1>1, <2>1, <2>2
  <2> QED
    BY <2>1, <2>2, <2>3, WalkGoesOn
<1> QED
  BY <1>1, <1>3


\* What is kept of the positions I fits the budget, the rest is counted, and what is left out would
\* not have fitted with what scores as much.
LEMMA WalkFits ==
  ASSUME NEW items \in Items, NEW I \in SUBSET (1..Len(items)), NEW budget \in Nat
  PROVE  LET x == Walk(items, I, budget)[Cardinality(I)]
         IN /\ x.kept \subseteq I /\ CostOf(items, x.kept) <= budget
            /\ x.dropped = Cardinality(I) - Cardinality(x.kept)
            /\ \A i \in I \ x.kept :
                 CostOf(items, {j \in x.kept : items[j].score >= items[i].score}) + items[i].cost > budget
<1> DEFINE N == Cardinality(I)
           walk == Walk(items, I, budget)
           at(m) == Ranked(items, I, m)
           x == walk[N]
<1>1. N \in Nat
  BY RankedAll
<1>2. ASSUME NEW n \in 0..N
      PROVE  /\ walk[n] \in Steps(I) /\ \A i \in walk[n].kept : \E m \in 1..n : i = at(m)
             /\ walk[n].tokens_used = CostOf(items, walk[n].kept)
  <2>1. WalkedTo(items, I, budget, n)
    BY WalkEnds
  <2> QED
    BY <2>1 DEF WalkedTo
<1>3. /\ x \in Steps(I) /\ x.tokens_used = CostOf(items, x.kept) /\ x.tokens_used <= budget
      /\ Cardinality(x.kept) + x.dropped = N
      /\ \A m \in 1..N : at(m) \in x.kept \/ walk[m - 1].tokens_used + items[at(m)].cost > budget
      /\ \A m \in 0..N : walk[m].kept \subseteq x.kept
  <2>1. WalkedTo(items, I, budget, N)
    BY <1>1, WalkEnds
  <2> QED
    BY <2>1 DEF WalkedTo
<1> HIDE DEF walk, N, x, at
<1>4. x.kept \subseteq I /\ x.dropped \in Nat
  BY <1>3 DEF Steps
<1>5. x.dropped = N - Cardinality(x.kept)
  <2>1. x.kept \in SUBSET (1..Len(items))
    BY <1>4
  <2>2. Cardinality(x.kept) \in Nat
    BY <2>1, RankedAll
  <2> QED
    BY <1>1, <1>3, <1>4, <2>2
<1>6. ASSUME NEW i \in I, i \notin x.kept
      PROVE  CostOf(items, {j \in x.kept : items[j].score >= items[i].score}) + items[i].cost > budget
  <2> DEFINE better == {j \in x.kept : items[j].score >= items[i].score}
  <2>1. PICK m \in 1..N : at(m) = i
    BY RankedAll DEF N, at
  <2>2. m - 1 \in 0..N /\ m \in Nat
    BY <1>1
  <2> DEFINE early == walk[m - 1].kept
  <2>3. walk[m - 1].tokens_used = CostOf(items, early) /\ CostOf(items, early) + items[i].cost > budget
    BY <1>2, <1>3, <1>6, <2>1, <2>2
  <2>4. early \subseteq x.kept
    BY <1>3, <2>2
  <2>5. ASSUME NEW j \in early  PROVE items[j].score >= items[i].score
    <3>1. PICK k \in 1..(m - 1) : j = at(k)
      BY <1>2, <2>2
    <3>2. k \in 1..N /\ k < m
      BY <1>1, <2>2
    <3>3. Ahead(items, j, i)
      BY <2>1, <3>1, <3>2, RankedAll DEF N, at
    <3>4. i \in 1..Len(items) /\ j \in 1..Len(items)
      BY <1>4, <2>4
    <3> QED
      BY <3>3, <3>4, AheadOrders
  <2>6. early \subseteq better
    BY <2>4, <2>5
  <2>7. better \in SUBSET (1..Len(items))
    BY <1>4
  <2> HIDE DEF early, better
  <2>8. CostOf(items, early) <= CostOf(items, better)
    BY <2>6, <2>7, CostGrows
  <2>9. CostOf(items, early) \in Nat /\ CostOf(items, better) \in Nat
    BY <2>6, <2>7, TokensFinite
  <2>10. items[i].cost \in Nat
    BY ItemType
  <2>11. CostOf(items, better) + items[i].cost > budget
    BY <2>3, <2>8, <2>9, <2>10
  <2> QED
    BY <2>11 DEF better
<1>7. CostOf(items, x.kept) <= budget
  BY <1>3
<1> QED
  BY <1>4, <1>5, <1>6, <1>7 DEF x, N, walk

-----------------------------------------------------------------------------
(* The answer. *)

\* The stages before the budget is divided.
Early == {"asked", "route", "cascade", "assemble"}

\* The inductive invariant: what a route was decided from, what the question was measured against,
\* and what is already there at which stage.
Routed == decision # None /\ fallback = None =>
            (\A p \in Paradigms : case.scores[p] \in 0..10) /\ decision = decide(case.scores)
Measured == stage \notin {"off", "asked", "QueryExceedsBudget"} => case.tokens <= Slice(case.total, "query")
Divides == slices # None => Allocated(case.total, slices)
Staged == /\ stage \in Early => slices = None /\ dropped = None
          /\ stage = "record" => slices # None
          /\ stage = "off" => slices = None /\ dropped = None
AnsweringInv ==
  /\ stage # "off" => case \in Cases /\ found \subseteq 1..Len(case.items)
  /\ Routed /\ Measured /\ Divides /\ Staged
  /\ ContextFits /\ DroppedDontFit /\ RecordedBeforeAnswer

\* What Assemble makes of the items found.
LEMMA AssembledFits ==
  ASSUME NEW items \in Items, NEW S \in SUBSET (1..Len(items)),
         NEW slice \in [Paradigms \cup {"query", "reserve"} -> Nat], NEW p \in Paradigms
  PROVE  LET x == assemble_context(items, S, slice)[p]
             mine == Mine(items, S, p)
         IN /\ x.kept \subseteq mine /\ CostOf(items, x.kept) <= slice[p]
            /\ x.dropped = Cardinality(mine) - Cardinality(x.kept)
            /\ \A i \in mine \ x.kept :
                 CostOf(items, {j \in x.kept : items[j].score >= items[i].score}) + items[i].cost > slice[p]
<1> DEFINE mine == Mine(items, S, p)
<1>1. mine \in SUBSET (1..Len(items)) /\ slice[p] \in Nat
  BY DEF Mine
<1>2. assemble_context(items, S, slice)[p] = Walk(items, mine, slice[p])[Cardinality(mine)]
  BY DEF assemble_context
<1> DEFINE b == slice[p]
           x == Walk(items, mine, b)[Cardinality(mine)]
<1> HIDE DEF mine, b
<1>3. /\ x.kept \subseteq mine /\ CostOf(items, x.kept) <= b
      /\ x.dropped = Cardinality(mine) - Cardinality(x.kept)
      /\ \A i \in mine \ x.kept :
           CostOf(items, {j \in x.kept : items[j].score >= items[i].score}) + items[i].cost > b
  <2>1. b \in Nat
    BY <1>1 DEF b
  <2> QED
    BY <1>1, <2>1, WalkFits
<1>4. x = assemble_context(items, S, slice)[p]
  BY <1>2 DEF b
<1> HIDE DEF x
<1> QED
  BY <1>3, <1>4 DEF mine, b

\* The step that matters: the budget is divided and the context put together.
LEMMA AssembleFits ==
  ASSUME AnsweringInv, Assemble
  PROVE  /\ Allocated(case.total, slices') /\ slices' # None /\ ContextFits' /\ DroppedDontFit'
<1> DEFINE items == case.items
           contributing == {items[i].paradigm : i \in found}
           slice == allocate(case.total, contributing)
           assembled == assemble_context(items, found, slice)
<1>1. /\ slices' = slice /\ kept' = UNION {assembled[p].kept : p \in Paradigms}
      /\ dropped' = [p \in Paradigms |-> assembled[p].dropped]
      /\ stage = "assemble" /\ case' = case /\ found' = found
  BY DEF Assemble
<1>2. /\ case.total \in Nat /\ case.tokens \in Nat /\ items \in Items /\ found \in SUBSET (1..Len(items))
      /\ case.tokens <= Slice(case.total, "query")
  <2>1. case \in Cases /\ found \subseteq 1..Len(case.items) /\ Measured
    BY <1>1 DEF AnsweringInv
  <2> QED
    BY <1>1, <2>1, CasesAssumption DEF Measured, Items, Item
<1>3. contributing \in SUBSET Paradigms
  BY <1>2, ItemType
<1> HIDE DEF items, contributing
<1>4. Allocated(case.total, slice)
  BY <1>2, <1>3, BudgetDivides
<1> HIDE DEF slice
<1>5. /\ slice \in [Paradigms \cup {"query", "reserve"} -> Nat]
      /\ slice["cag"] + slice["mag"] + slice["rag"] + slice["query"] + slice["reserve"] = case.total
      /\ slice["query"] = Slice(case.total, "query")
  BY <1>4 DEF Allocated
<1>6. slice # None
  <2>1. slice \in [Paradigms \cup {"query", "reserve"} -> Int]
    BY <1>5
  <2> QED
    BY <2>1, CasesAssumption
<1> DEFINE of(p) == assembled[p]
<1>7. \A p \in Paradigms :
        /\ of(p).kept \subseteq Mine(items, found, p) /\ CostOf(items, of(p).kept) <= slice[p]
        /\ of(p).dropped = Cardinality(Mine(items, found, p)) - Cardinality(of(p).kept)
        /\ \A i \in Mine(items, found, p) \ of(p).kept :
             CostOf(items, {j \in of(p).kept : items[j].score >= items[i].score}) + items[i].cost > slice[p]
  BY <1>2, <1>5, AssembledFits
<1>8. kept' = UNION {of(p).kept : p \in Paradigms} /\ dropped' = [p \in Paradigms |-> of(p).dropped]
  BY <1>1
<1> HIDE DEF of
<1>9. \A i : i \in kept' <=> \E p \in Paradigms : i \in of(p).kept
  BY <1>8, Zenon
<1>10. kept' \subseteq found /\ \A p \in Paradigms : Mine(items, kept', p) = of(p).kept
  <2>1. \A p \in Paradigms : \A i \in of(p).kept : i \in found /\ items[i].paradigm = p
    BY <1>7 DEF Mine
  <2>2. \A p \in Paradigms : \A i : i \in Mine(items, kept', p) <=> i \in kept' /\ items[i].paradigm = p
    BY DEF Mine
  <2>3. kept' \subseteq found
    BY <1>9, <2>1
  <2>4. ASSUME NEW p \in Paradigms  PROVE Mine(items, kept', p) = of(p).kept
    <3>1. \A i : i \in of(p).kept <=> i \in kept' /\ items[i].paradigm = p
      BY <1>9, <2>1
    <3>2. \A i : i \in Mine(items, kept', p) <=> i \in of(p).kept
      BY <2>2, <3>1
    <3> QED
      BY <3>2
  <2> QED
    BY <2>3, <2>4
<1>11. ContextFits'
  <2>1. /\ slice["cag"] = slice.cag /\ slice["mag"] = slice.mag /\ slice["rag"] = slice.rag
        /\ slice["query"] = slice.query /\ slice["reserve"] = slice.reserve
    OBVIOUS
  <2>2. slice.cag + slice.mag + slice.rag + slice.query + slice.reserve = case.total
    BY <1>5, <2>1
  <2>3. \A s \in DOMAIN slice : slice[s] >= 0
    BY <1>5
  <2>4. case.tokens <= slice.query
    BY <1>2, <1>5, <2>1
  <2>5. \A p \in Paradigms : CostOf(items, Mine(items, kept', p)) <= slice[p]
    BY <1>7, <1>10
  <2> QED
    BY <1>1, <2>2, <2>3, <2>4, <2>5 DEF ContextFits, items
<1>12. DroppedDontFit'
  <2>1. ASSUME NEW p \in Paradigms
        PROVE  dropped'[p] = Cardinality(Mine(items, found, p)) - Cardinality(Mine(items, kept', p))
    BY <1>7, <1>8, <1>10
  <2>2. ASSUME NEW i \in found, i \notin kept'
        PROVE  CostOf(items, {j \in Mine(items, kept', items[i].paradigm) : items[j].score >= items[i].score})
                 + items[i].cost > slice[items[i].paradigm]
    <3> DEFINE p == items[i].paradigm
    <3>1. p \in Paradigms
      BY <1>2, ItemType
    <3>2. i \in Mine(items, found, p) /\ i \notin of(p).kept
      BY <1>9, <2>2, <3>1 DEF Mine
    <3>3. Mine(items, kept', p) = of(p).kept
      BY <1>10, <3>1
    <3> HIDE DEF p
    <3>4. CostOf(items, {j \in of(p).kept : items[j].score >= items[i].score}) + items[i].cost > slice[p]
      BY <1>7, <3>1, <3>2
    <3> QED
      BY <3>3, <3>4 DEF p
  <2> QED
    BY <1>1, <1>10, <2>1, <2>2 DEF DroppedDontFit, items
<1> QED
  BY <1>1, <1>4, <1>6, <1>11, <1>12

\* A paradigm the route leaves out is further from the threshold than the margin.
LEMMA RouteIsRobust == Routed => RouteRobust
<1> SUFFICES ASSUME Routed, decision # None, fallback = None, NEW p \in Paradigms \ decision.paradigms,
                    NEW score \in 0..10, score > case.scores[p] - Margin, score < case.scores[p] + Margin
             PROVE  score < SelectThreshold
  BY DEF RouteRobust
<1>1. case.scores[p] \in 0..10 /\ decision = decide(case.scores)
  BY DEF Routed
<1>2. SelectThreshold \in Nat /\ Margin \in Nat
  BY AnsweringAssumption
<1> DEFINE s == case.scores[p]
<1>3. ~(s >= SelectThreshold) /\ ~(Distance(s) < Margin)
  <2> DEFINE selected == {q \in Paradigms : case.scores[q] >= SelectThreshold}
             uncertain == {q \in Paradigms : Distance(case.scores[q]) < Margin}
  <2>1. \/ decision.paradigms = Paradigms
        \/ decision.paradigms = selected \cup uncertain
    BY <1>1 DEF decide, fallback_decision
  <2> QED
    BY <2>1
<1> HIDE DEF s
<1>4. Distance(s) = SelectThreshold - s /\ s \in Nat
  BY <1>1, <1>2, <1>3 DEF Distance, s
<1> QED
  BY <1>2, <1>3, <1>4 DEF s

\* Only the answering steps touch a request.
LEMMA AnsweringOnly == [Next]_vars => [AnsweringNext]_answeringVars
  BY DEF Next, vars, Answer, Embed, Called, CallIntake, CallClassifier, CallRetriever, CallChunker,
         CallMemory, Decode, CallEvictor, CallEngine

\* Every step of a request, and of the search it started, keeps the invariant.
LEMMA AnsweringStep == AnsweringInv /\ [AnsweringNext]_answeringVars => AnsweringInv'
<1> SUFFICES ASSUME AnsweringInv, [AnsweringNext]_answeringVars  PROVE AnsweringInv'
  OBVIOUS
<1>0. /\ stage # "off" => case \in Cases /\ found \subseteq 1..Len(case.items)
      /\ Routed /\ Measured /\ Divides /\ Staged
      /\ ContextFits /\ DroppedDontFit /\ RecordedBeforeAnswer
  BY DEF AnsweringInv
<1>n. None \notin {"classifier_timeout", "classifier_error"}
  BY CasesAssumption
<1>1. CASE Ask
  <2>1. /\ stage = "asked"
        /\ stage' = IF case.tokens > Slice(case.total, "query") THEN "QueryExceedsBudget" ELSE "route"
        /\ UNCHANGED <<case, decision, fallback, found, slices, kept, dropped, recorded>>
    BY <1>1 DEF Ask
  <2>2. case.tokens \in Nat /\ Slice(case.total, "query") \in Nat
    BY <1>0, <2>1, CasesAssumption, SlicesFit
  <2>3. Measured'
    BY <2>1, <2>2 DEF Measured
  <2>4. Staged' /\ Routed' /\ Divides' /\ ContextFits' /\ DroppedDontFit' /\ RecordedBeforeAnswer'
    BY <1>0, <2>1 DEF Staged, Early, Routed, Divides, ContextFits, DroppedDontFit, RecordedBeforeAnswer
  <2> QED
    BY <1>0, <2>1, <2>3, <2>4 DEF AnsweringInv
<1>2. CASE Route
  <2>1. stage = "route" /\ stage' = "cascade" /\ UNCHANGED <<case, found, slices, kept, dropped, recorded>>
    BY <1>2 DEF Route
  <2>2. Routed'
    <3>1. CASE UNCHANGED <<decision, fallback>>
      BY <1>0, <2>1, <3>1 DEF Routed
    <3>2. CASE _parse_scores(case.scores) # None /\ decision' = decide(case.scores)
      BY <2>1, <3>2 DEF Routed, _parse_scores
    <3>3. CASE fallback' \in {"classifier_timeout", "classifier_error"}
      BY <1>n, <3>3 DEF Routed
    <3> QED
      BY <1>2, <3>1, <3>2, <3>3 DEF Route
  <2>3. Staged' /\ Measured' /\ Divides' /\ ContextFits' /\ DroppedDontFit' /\ RecordedBeforeAnswer'
    BY <1>0, <2>1 DEF Staged, Early, Measured, Divides, ContextFits, DroppedDontFit, RecordedBeforeAnswer
  <2> QED
    BY <1>0, <2>1, <2>2, <2>3 DEF AnsweringInv
<1>3. CASE CascadeEnds
  <2>1. /\ stage = "cascade" /\ stage' = "assemble" /\ found' \subseteq 1..Len(case.items)
        /\ UNCHANGED <<case, decision, fallback, slices, kept, dropped, recorded>>
    BY <1>3 DEF CascadeEnds
  <2>2. Staged' /\ slices' = None /\ dropped' = None
    BY <1>0, <2>1 DEF Staged, Early
  <2>3. Routed' /\ Measured' /\ Divides' /\ ContextFits' /\ DroppedDontFit' /\ RecordedBeforeAnswer'
    BY <1>0, <2>1, <2>2 DEF Routed, Measured, Divides, ContextFits, DroppedDontFit, RecordedBeforeAnswer
  <2> QED
    BY <1>0, <2>1, <2>2, <2>3 DEF AnsweringInv
<1>4. CASE Assemble
  <2>1. /\ stage = "assemble" /\ stage' = "record"
        /\ UNCHANGED <<case, decision, fallback, found, recorded>>
    BY <1>4 DEF Assemble
  <2>2. Allocated(case.total, slices') /\ slices' # None /\ ContextFits' /\ DroppedDontFit'
    BY <1>4, AssembleFits
  <2>3. Routed' /\ Measured' /\ Divides' /\ Staged' /\ RecordedBeforeAnswer'
    BY <1>0, <2>1, <2>2 DEF Routed, Measured, Divides, Staged, Early, RecordedBeforeAnswer
  <2> QED
    BY <1>0, <2>1, <2>2, <2>3 DEF AnsweringInv
<1>5. CASE Record
  <2>1. /\ stage = "record" /\ stage' \in {"generate", "SessionNotFound", "RecordFailed"}
        /\ stage' = "generate" => recorded' = slices
        /\ UNCHANGED <<case, decision, fallback, found, slices, kept, dropped>>
    BY <1>5 DEF Record
  <2>2. slices # None
    BY <1>0, <2>1 DEF Staged
  <2>3. Routed' /\ Measured' /\ Divides' /\ Staged' /\ ContextFits' /\ DroppedDontFit' /\ RecordedBeforeAnswer'
    BY <1>0, <2>1, <2>2
       DEF Routed, Measured, Divides, Staged, Early, ContextFits, DroppedDontFit, RecordedBeforeAnswer
  <2> QED
    BY <1>0, <2>1, <2>3 DEF AnsweringInv
<1>6. CASE Generate
  <2>1. /\ stage = "generate" /\ stage' \in {"answered", "GenerateFailed"}
        /\ UNCHANGED <<case, decision, fallback, found, slices, kept, dropped, recorded>>
    BY <1>6 DEF Generate
  <2>2. Routed' /\ Measured' /\ Divides' /\ Staged' /\ ContextFits' /\ DroppedDontFit' /\ RecordedBeforeAnswer'
    BY <1>0, <2>1 DEF Routed, Measured, Divides, Staged, Early, ContextFits, DroppedDontFit, RecordedBeforeAnswer
  <2> QED
    BY <1>0, <2>1, <2>2 DEF AnsweringInv
<1>7. CASE UNCHANGED <<case, requestVars>>
  BY <1>0, <1>7 DEF AnsweringInv, requestVars, Routed, Measured, Divides, Staged, ContextFits, DroppedDontFit,
                    RecordedBeforeAnswer
<1>8. CASE SearchOpen \/ SearchStep \/ CancelSearch \/ UNCHANGED answeringVars
  <2>1. UNCHANGED <<case, requestVars>>
    BY <1>8 DEF SearchOpen, SearchStep, CancelSearch, answeringVars
  <2> QED
    BY <1>7, <2>1
<1> QED
  BY <1>1, <1>2, <1>3, <1>4, <1>5, <1>6, <1>8 DEF AnsweringNext

\* A question is routed where its context may be, its context fits the budget and leaves out only
\* what does not fit, and the budget is on record before the model is asked: for every division of
\* the window, every threshold and margin, and whatever the tiers bring.
THEOREM AnswersStayFit == Spec => []AnswersFit
<1>1. Init => AnsweringInv
  <2> SUFFICES ASSUME Init  PROVE AnsweringInv
    OBVIOUS
  <2>1. /\ stage = IF job.kind = "answer" THEN "asked" ELSE "off"
        /\ decision = None /\ found = {} /\ slices = None /\ dropped = None
        /\ case \in IF job.kind = "answer" THEN Cases ELSE {None}
    BY DEF Init, AnsweringInit
  <2>2. stage \in {"asked", "off"} /\ (stage # "off" => case \in Cases)
    BY <2>1
  <2> QED
    BY <2>1, <2>2 DEF AnsweringInv, Routed, Measured, Divides, Staged, Early, ContextFits, DroppedDontFit,
                      RecordedBeforeAnswer
<1>2. AnsweringInv /\ [Next]_vars => AnsweringInv'
  BY AnsweringOnly, AnsweringStep
<1>3. AnsweringInv => AnswersFit
  BY RouteIsRobust DEF AnsweringInv, AnswersFit
<1> QED
  BY <1>1, <1>2, <1>3, PTL DEF Spec

-----------------------------------------------------------------------------
(* Speculative decoding. *)

\* Max is the greatest element of a set that has a bound.
LEMMA MaxIs ==
  ASSUME NEW S \in SUBSET Nat, S # {}, NEW b \in Nat, \A x \in S : x <= b
  PROVE  Max(S) \in S /\ \A x \in S : Max(S) >= x
<1> DEFINE D == {b - x : x \in S}
<1>0. \A x \in S : x \in Nat /\ b - x \in Nat /\ b - x \in D
  OBVIOUS
<1>1. D \subseteq Nat /\ D # {}
  BY <1>0
<1>2. PICK m \in D : \A k \in D : m <= k
  BY <1>1, LeastElement
<1>3. PICK top \in S : m = b - top
  BY <1>2
<1> HIDE DEF D
<1>4. \A x \in S : top >= x
  BY <1>0, <1>2, <1>3
<1> QED
  BY <1>4 DEF Max

\* A part of a sequence.
LEMMA Part ==
  ASSUME NEW T, NEW s \in Seq(T), NEW a \in Nat, NEW b \in Nat, 1 <= a, a <= b + 1, b <= Len(s)
  PROVE  /\ SubSeq(s, a, b) \in Seq(T) /\ Len(SubSeq(s, a, b)) = b + 1 - a
         /\ \A i \in 1..(b + 1 - a) : SubSeq(s, a, b)[i] = s[a + i - 1]
  OBVIOUS

\* Two sequences one after the other.
LEMMA Joined ==
  ASSUME NEW T, NEW s \in Seq(T), NEW t \in Seq(T)
  PROVE  /\ s \o t \in Seq(T) /\ Len(s \o t) = Len(s) + Len(t)
         /\ \A i \in 1..Len(s) : (s \o t)[i] = s[i]
         /\ \A i \in 1..Len(t) : (s \o t)[Len(s) + i] = t[i]
  OBVIOUS

\* An n-gram's continuation is a part of where it was found.
LEMMA ContinuationType ==
  ASSUME NEW T, NEW tail, NEW haystack \in Seq(T), NEW n \in Nat, NEW start \in Int
  PROVE  find_ngram_continuation(tail, haystack, n, 1..2, start) \in Seq(T)
<1> DEFINE ceiling == Least(start, Len(haystack))
           places(size) == {s \in 0..(ceiling - size) :
                             SubSeq(haystack, s + 1, s + size) = SubSeq(tail, Len(tail) - size + 1, Len(tail))}
           usable == {size \in 1..2 : size <= Len(tail) /\ places(size) # {}}
           size == Max(usable)
           after == Max(places(size)) + size
           end == Least(after + n, Len(haystack))
<1>0. <<>> \in Seq(T)
  OBVIOUS
<1>1. Len(haystack) \in Nat /\ ceiling \in Int /\ ceiling <= Len(haystack)
  BY DEF Least
<1>2. find_ngram_continuation(tail, haystack, n, 1..2, start)
        = IF tail = <<>> \/ haystack = <<>> \/ usable = {} THEN <<>> ELSE SubSeq(haystack, after + 1, end)
  BY DEF find_ngram_continuation
<1>3. CASE usable # {}
  <2>1. usable \in SUBSET Nat /\ \A x \in usable : x <= 2
    OBVIOUS
  <2> HIDE DEF usable
  <2>2. size \in usable
    BY <1>3, <2>1, MaxIs
  <2>3. size \in 1..2 /\ places(size) # {}
    BY <2>2 DEF usable
  <2> HIDE DEF size
  <2>4. places(size) \in SUBSET Nat /\ \A x \in places(size) : x + size <= ceiling /\ x <= Len(haystack)
    BY <1>1, <2>3
  <2> HIDE DEF places
  <2>5. Max(places(size)) \in places(size)
    BY <1>1, <2>3, <2>4, MaxIs
  <2> HIDE DEF ceiling
  <2>6. after \in Nat /\ after <= Len(haystack)
    BY <1>1, <2>3, <2>4, <2>5
  <2> HIDE DEF after
  <2>7. end \in Nat /\ end <= Len(haystack) /\ after <= end
    BY <1>1, <2>6 DEF Least
  <2> HIDE DEF end
  <2>8. SubSeq(haystack, after + 1, end) \in Seq(T)
    BY <2>6, <2>7, Part
  <2> QED
    BY <1>0, <1>2, <2>8
<1> HIDE DEF usable, after, end
<1> QED
  BY <1>0, <1>2, <1>3

\* Whoever proposes, the candidates are tokens.
LEMMA CandidatesType ==
  ASSUME job \in Jobs, job.kind = "decode", output.generated \in Seq(job.tokens),
         NEW candidates \in
          CASE job.generator = "prompt_lookup" ->
                 {PromptLookupPropose(job.prompt, output.generated, job.n, 1..2)}
            [] job.generator = "lookahead" -> {LookaheadPropose(job.prompt, output.generated, job.n, 1..2)}
            [] job.generator = "medusa" -> MedusaPropose(job.tokens, job.n)
  PROVE  candidates \in Seq(job.tokens)
<1>1. /\ job.n \in Nat /\ job.generator \in {"prompt_lookup", "lookahead", "medusa"}
      /\ job.prompt \in Seq(job.tokens)
  BY JobsAssumption
<1>2. Len(job.prompt) - 1 \in Int /\ Len(output.generated) - 1 \in Int
  BY <1>1
<1>3. PromptLookupPropose(job.prompt, output.generated, job.n, 1..2) \in Seq(job.tokens)
  BY <1>1, <1>2, ContinuationType DEF PromptLookupPropose
<1>4. LookaheadPropose(job.prompt, output.generated, job.n, 1..2) \in Seq(job.tokens)
  BY <1>1, <1>2, ContinuationType DEF LookaheadPropose
<1>5. MedusaPropose(job.tokens, job.n) \subseteq Seq(job.tokens)
  BY <1>1 DEF MedusaPropose
<1> QED
  BY <1>1, <1>3, <1>4, <1>5

\* `said` after `from` tokens is what the model says.
SaysGreedily(next, said, from) ==
    \A i \in (from + 1)..Len(said) : said[i] = Greedy(next, SubSeq(said, 1, i - 1))

\* What a round adds to `base` is what the model says after it: the candidates that agreed, all of
\* them before the bonus token.
LEMMA ExtensionGreedy ==
  ASSUME NEW T, NEW next, NEW base \in Seq(T), NEW x \in Seq(T), NEW from \in Nat, from <= Len(base),
         SaysGreedily(next, base, from),
         \A k \in 1..Len(x) : x[k] = Greedy(next, base \o SubSeq(x, 1, k - 1))
  PROVE  SaysGreedily(next, base \o x, from)
<1> DEFINE said == base \o x
<1>1. /\ said \in Seq(T) /\ Len(said) = Len(base) + Len(x) /\ Len(base) \in Nat /\ Len(x) \in Nat
      /\ \A i \in 1..Len(base) : said[i] = base[i]
      /\ \A i \in 1..Len(x) : said[Len(base) + i] = x[i]
  BY Joined
<1> HIDE DEF said
<1> SUFFICES ASSUME NEW i \in (from + 1)..Len(said)
             PROVE  said[i] = Greedy(next, SubSeq(said, 1, i - 1))
  BY DEF SaysGreedily, said
<1>2. i \in Nat /\ 1 <= i /\ i <= Len(said)
  BY <1>1
<1>3. /\ SubSeq(said, 1, i - 1) \in Seq(T) /\ Len(SubSeq(said, 1, i - 1)) = i - 1
      /\ \A j \in 1..(i - 1) : SubSeq(said, 1, i - 1)[j] = said[j]
  <2>1. i - 1 \in Nat /\ i - 1 <= Len(said)
    BY <1>1, <1>2
  <2> QED
    BY <1>1, <2>1
<1>4. CASE i <= Len(base)
  <2>1. /\ SubSeq(base, 1, i - 1) \in Seq(T) /\ Len(SubSeq(base, 1, i - 1)) = i - 1
        /\ \A j \in 1..(i - 1) : SubSeq(base, 1, i - 1)[j] = base[j]
    <3>1. i - 1 \in Nat /\ i - 1 <= Len(base)
      BY <1>1, <1>2, <1>4
    <3> QED
      BY <1>1, <3>1
  <2>2. SubSeq(base, 1, i - 1) = SubSeq(said, 1, i - 1)
    <3>1. \A j \in 1..(i - 1) : SubSeq(base, 1, i - 1)[j] = SubSeq(said, 1, i - 1)[j]
      BY <1>1, <1>2, <1>3, <1>4, <2>1
    <3> QED
      BY <1>3, <2>1, <3>1, SeqEqual
  <2>3. i \in (from + 1)..Len(base) /\ said[i] = base[i]
    BY <1>1, <1>2, <1>4
  <2> QED
    BY <2>2, <2>3 DEF SaysGreedily
<1>5. CASE i > Len(base)
  <2> DEFINE k == i - Len(base)
             y == SubSeq(x, 1, k - 1)
  <2>1. k \in 1..Len(x) /\ said[i] = x[k]
    <3>1. k \in 1..Len(x) /\ i = Len(base) + k
      BY <1>1, <1>2, <1>5
    <3> HIDE DEF k
    <3> QED
      BY <1>1, <3>1
  <2>2. y \in Seq(T) /\ Len(y) = k - 1 /\ \A j \in 1..(k - 1) : y[j] = x[j]
    <3>1. k - 1 \in Nat /\ k - 1 <= Len(x)
      BY <1>1, <2>1
    <3> HIDE DEF k
    <3> QED
      BY <1>1, <3>1
  <2> HIDE DEF y
  <2>3. /\ base \o y \in Seq(T) /\ Len(base \o y) = i - 1
        /\ \A j \in 1..Len(base) : (base \o y)[j] = base[j]
        /\ \A j \in 1..(k - 1) : (base \o y)[Len(base) + j] = y[j]
    <3>1. k - 1 = i - 1 - Len(base) /\ k - 1 \in Nat
      BY <1>1, <2>1
    <3>2. /\ base \o y \in Seq(T) /\ Len(base \o y) = Len(base) + Len(y)
          /\ \A j \in 1..Len(base) : (base \o y)[j] = base[j]
          /\ \A j \in 1..Len(y) : (base \o y)[Len(base) + j] = y[j]
      BY <2>2, Joined
    <3>3. Len(base) + Len(y) = i - 1
      BY <1>1, <1>2, <2>2, <3>1
    <3> HIDE DEF k
    <3> QED
      BY <2>2, <3>2, <3>3
  <2>4. \A j \in 1..(i - 1) : (base \o y)[j] = SubSeq(said, 1, i - 1)[j]
    <3> SUFFICES ASSUME NEW j \in 1..(i - 1)
                 PROVE  (base \o y)[j] = said[j]
      BY <1>3
    <3>1. CASE j <= Len(base)
      BY <1>1, <2>3, <3>1
    <3>2. CASE j > Len(base)
      <4> DEFINE h == j - Len(base)
      <4>1. h \in 1..(k - 1) /\ h \in 1..Len(x) /\ j = Len(base) + h
        BY <1>1, <1>2, <2>1, <3>2
      <4> HIDE DEF h, k
      <4> QED
        BY <1>1, <2>2, <2>3, <4>1
    <3>3. j <= Len(base) \/ j > Len(base)
      BY <1>1, <1>2
    <3> QED
      BY <3>1, <3>2, <3>3, Zenon
  <2>5. base \o y = SubSeq(said, 1, i - 1)
    BY <1>3, <2>3, <2>4, SeqEqual
  <2> HIDE DEF k
  <2> QED
    BY <2>1, <2>5 DEF y
<1> QED
  BY <1>1, <1>2, <1>4, <1>5

\* It does not matter what is joined, or appended, first.
JoinsInTurn(s, t, u) == (s \o t) \o u = s \o (t \o u)
AppendsInTurn(s, t, c) == Append(s \o t, c) = s \o Append(t, c)

\* For sequences over one set both are so.
LEMMA InTurn ==
  ASSUME NEW T, NEW s \in Seq(T), NEW t \in Seq(T)
  PROVE  /\ \A u \in Seq(T) : JoinsInTurn(s, t, u)
         /\ \A c \in T : AppendsInTurn(s, t, c)
<1>1. ASSUME NEW u \in Seq(T)
      PROVE  JoinsInTurn(s, t, u)
  BY ConcatAssociative DEF JoinsInTurn
<1>2. ASSUME NEW c \in T
      PROVE  AppendsInTurn(s, t, c)
  <2>1. <<c>> \in Seq(T) /\ s \o t \in Seq(T)
    OBVIOUS
  <2>2. Append(s \o t, c) = (s \o t) \o <<c>> /\ Append(t, c) = t \o <<c>>
    BY <2>1
  <2> QED
    BY <2>1, <2>2, ConcatAssociative DEF AppendsInTurn
<1> QED
  BY <1>1, <1>2

\* What a round keeps of the candidates and appends to what was said.
Kept(next, prompt, said, candidates, limit) ==
    FirstN(verify_candidates(next, prompt \o said, candidates).accepted, limit - Len(said))
Longer(next, prompt, said, candidates, limit) ==
    LET longer == said \o Kept(next, prompt, said, candidates, limit)
    IN IF Len(longer) < limit THEN Append(longer, verify_candidates(next, prompt \o said, candidates).bonus)
       ELSE longer

\* A round says what the model says, at least one token, and one more than it keeps unless that is
\* over the limit.
LEMMA RoundSays ==
  ASSUME NEW T, NEW next \in [T \X T -> T], NEW prompt \in Seq(T), Len(prompt) >= 2, NEW limit \in Nat,
         NEW said \in Seq(T), Len(said) < limit, NEW candidates \in Seq(T),
         SaysGreedily(next, prompt \o said, Len(prompt))
  PROVE  LET n == Len(Kept(next, prompt, said, candidates, limit))
             longer == Longer(next, prompt, said, candidates, limit)
         IN /\ n \in Nat /\ n <= Len(candidates)
            /\ longer \in Seq(T) /\ Len(longer) <= limit /\ Len(said) < Len(longer)
            /\ Len(said) + n <= Len(longer) /\ Len(longer) <= Len(said) + n + 1
            /\ SaysGreedily(next, prompt \o longer, Len(prompt))
<1> DEFINE G == Len(said)
           base == prompt \o said
           agreed == Agreed(next, base, candidates)
           m == Max(agreed)
           accepted == SubSeq(candidates, 1, m)
           bonus == Greedy(next, base \o accepted)
           within == FirstN(accepted, limit - G)
           longer == said \o within
           generated == IF Len(longer) < limit THEN Append(longer, bonus) ELSE longer
           x == IF Len(longer) < limit THEN Append(within, bonus) ELSE within
<1>1. /\ Kept(next, prompt, said, candidates, limit) = within
      /\ Longer(next, prompt, said, candidates, limit) = generated
  BY DEF Kept, Longer, verify_candidates
<1>2. said \in Seq(T) /\ G \in Nat /\ Len(candidates) \in Nat /\ Len(prompt) \in Nat
  OBVIOUS
<1>3. /\ base \in Seq(T) /\ Len(base) = Len(prompt) + G
  BY <1>2, Joined
<1>4. m \in agreed
  <2>1. 0 \in agreed /\ agreed \in SUBSET Nat /\ \A k \in agreed : k <= Len(candidates)
    BY <1>2 DEF Agreed
  <2> HIDE DEF agreed
  <2> QED
    BY <1>2, <2>1, MaxIs
<1>5. /\ m \in 0..Len(candidates)
      /\ \A i \in 1..m : candidates[i] = Greedy(next, base \o SubSeq(candidates, 1, i - 1))
  BY <1>4 DEF Agreed
<1> HIDE DEF base, agreed, m
<1>6. /\ accepted \in Seq(T) /\ Len(accepted) = m
      /\ \A i \in 1..m : accepted[i] = candidates[i]
  BY <1>5
<1> HIDE DEF accepted
<1>7. ASSUME NEW s \in Seq(T), Len(s) >= 2
      PROVE  Greedy(next, s) \in T
  <2>1. s[Len(s) - 1] \in T /\ s[Len(s)] \in T
    BY <1>7
  <2> QED
    BY <2>1 DEF Greedy
<1>8. bonus \in T
  <2>1. base \o accepted \in Seq(T) /\ Len(base \o accepted) = Len(base) + m
    BY <1>3, <1>6, Joined
  <2>2. Len(base \o accepted) >= 2
    BY <1>2, <1>3, <1>5, <2>1
  <2> QED
    BY <1>7, <2>1, <2>2
<1> HIDE DEF bonus
<1> DEFINE e == IF limit - G < m THEN limit - G ELSE m
<1>9. e \in 0..m /\ e <= limit - G
  BY <1>2, <1>5
<1>10. /\ within \in Seq(T) /\ Len(within) = e
       /\ \A i \in 1..e : within[i] = candidates[i]
  <2>1. within = SubSeq(accepted, 1, e)
    BY <1>6 DEF FirstN
  <2>2. e \in Nat /\ e <= Len(accepted)
    BY <1>5, <1>6, <1>9
  <2> HIDE DEF e, within
  <2>3. SubSeq(accepted, 1, e) \in Seq(T) /\ Len(SubSeq(accepted, 1, e)) = e
    BY <1>6, <2>2
  <2>4. \A i \in 1..e : SubSeq(accepted, 1, e)[i] = accepted[i] /\ i \in 1..m
    BY <1>5, <1>6, <1>9, <2>2
  <2> QED
    BY <1>6, <2>1, <2>3, <2>4
<1> HIDE DEF within, G
<1>11. /\ longer \in Seq(T) /\ Len(longer) = G + e
  <2>1. longer \in Seq(T) /\ Len(longer) = Len(said) + Len(within)
    <3>1. within \in Seq(T)
      BY <1>10
    <3> QED
      BY <3>1, Joined, Zenon
  <2> QED
    BY <1>10, <2>1 DEF G
<1>12. Len(longer) < limit => e = m
  BY <1>2, <1>5, <1>11
<1> HIDE DEF e
<1>13. Len(longer) < limit => within = accepted
  <2> SUFFICES ASSUME Len(longer) < limit
               PROVE  within = accepted
    OBVIOUS
  <2>1. Len(within) = Len(accepted) /\ \A i \in 1..Len(within) : within[i] = accepted[i]
    BY <1>6, <1>10, <1>12
  <2> QED
    BY <1>6, <1>10, <2>1, SeqEqual
<1>14. /\ x \in Seq(T) /\ Len(x) = IF Len(longer) < limit THEN e + 1 ELSE e
       /\ \A k \in 1..e : x[k] = candidates[k]
       /\ Len(longer) < limit => x[e + 1] = bonus
  <2>0. e \in Nat
    BY <1>5, <1>9
  <2>1. CASE Len(longer) < limit
    <3>1. x = Append(within, bonus)
      BY <2>1
    <3> QED
      BY <1>8, <1>10, <2>0, <2>1, <3>1, AppendProperties
  <2>2. CASE ~(Len(longer) < limit)
    <3>1. x = within
      BY <2>2
    <3> QED
      BY <1>10, <2>2, <3>1
  <2> QED
    BY <2>1, <2>2
<1>15. generated = said \o x
  <2>1. CASE Len(longer) < limit
    <3>0. within \in Seq(T)
      BY <1>10
    <3>1. generated = Append(said \o within, bonus) /\ x = Append(within, bonus)
      BY <2>1
    <3>2. Append(said \o within, bonus) = said \o Append(within, bonus)
      <4>1. AppendsInTurn(said, within, bonus)
        BY <1>8, <3>0, InTurn, Zenon
      <4> QED
        BY <4>1, Zenon DEF AppendsInTurn
    <3> HIDE DEF x, generated
    <3> QED
      BY <3>1, <3>2, Zenon
  <2>2. CASE ~(Len(longer) < limit)
    BY <2>2
  <2> QED
    BY <2>1, <2>2
<1>16. generated \in Seq(T) /\ Len(generated) = G + Len(x) /\ prompt \o generated = base \o x
  <2> HIDE DEF x, generated
  <2>0. x \in Seq(T)
    BY <1>14
  <2>1. generated \in Seq(T) /\ Len(generated) = Len(said) + Len(x)
    BY <1>15, <2>0, Joined, Zenon
  <2>2. (prompt \o said) \o x = prompt \o (said \o x)
    <3>1. JoinsInTurn(prompt, said, x)
      BY <2>0, InTurn, Zenon
    <3> QED
      BY <3>1, Zenon DEF JoinsInTurn
  <2> QED
    BY <1>15, <2>1, <2>2 DEF base, G
<1> HIDE DEF x, generated
<1>17. \A k \in 1..Len(x) : x[k] = Greedy(next, base \o SubSeq(x, 1, k - 1))
  <2> SUFFICES ASSUME NEW k \in 1..Len(x)
               PROVE  x[k] = Greedy(next, base \o SubSeq(x, 1, k - 1))
    OBVIOUS
  <2>0. e \in Nat /\ k \in Nat /\ k - 1 \in Nat /\ k - 1 <= e /\ k - 1 <= Len(x) /\ Len(x) \in Nat
    BY <1>5, <1>9, <1>14
  <2>1. SubSeq(x, 1, k - 1) = SubSeq(candidates, 1, k - 1)
    <3>1. /\ SubSeq(x, 1, k - 1) \in Seq(T) /\ Len(SubSeq(x, 1, k - 1)) = k - 1
          /\ \A i \in 1..(k - 1) : SubSeq(x, 1, k - 1)[i] = x[i]
      BY <1>14, <2>0
    <3>2. k - 1 <= Len(candidates)
      BY <1>2, <1>5, <1>9, <2>0
    <3>3. /\ SubSeq(candidates, 1, k - 1) \in Seq(T) /\ Len(SubSeq(candidates, 1, k - 1)) = k - 1
          /\ \A i \in 1..(k - 1) : SubSeq(candidates, 1, k - 1)[i] = candidates[i]
      BY <2>0, <3>2
    <3>4. \A i \in 1..(k - 1) : x[i] = candidates[i]
      BY <1>14, <2>0
    <3> QED
      BY <3>1, <3>3, <3>4, SeqEqual
  <2>2. CASE k <= e
    <3>1. k \in 1..e /\ k \in 1..m
      BY <1>5, <1>9, <2>0, <2>2
    <3>2. x[k] = candidates[k] /\ candidates[k] = Greedy(next, base \o SubSeq(candidates, 1, k - 1))
      BY <1>5, <1>14, <3>1, Zenon
    <3> QED
      BY <2>1, <3>2, Zenon
  <2>3. CASE k > e
    <3>1. k = e + 1 /\ Len(longer) < limit
      BY <1>14, <2>0, <2>3
    <3>2. e = m /\ k - 1 = m
      BY <1>12, <2>0, <3>1
    <3>3. x[k] = Greedy(next, base \o accepted)
      BY <1>14, <3>1 DEF bonus
    <3> QED
      BY <2>1, <3>2, <3>3 DEF accepted
  <2> QED
    BY <2>0, <2>2, <2>3
<1>18. SaysGreedily(next, prompt \o generated, Len(prompt))
  <2>1. Len(prompt) <= Len(base) /\ SaysGreedily(next, base, Len(prompt))
    BY <1>2, <1>3 DEF base
  <2> QED
    BY <1>2, <1>3, <1>14, <1>16, <1>17, <2>1, ExtensionGreedy
<1>19. /\ e \in Nat /\ e <= Len(candidates)
       /\ Len(generated) <= limit /\ G < Len(generated)
       /\ G + e <= Len(generated) /\ Len(generated) <= G + e + 1
  <2>1. e \in Nat /\ e <= Len(candidates) /\ e <= limit - G /\ G < limit
    BY <1>2, <1>5, <1>9 DEF G
  <2> HIDE DEF longer
  <2>2. /\ Len(longer) = G + e
        /\ Len(generated) = G + (IF Len(longer) < limit THEN e + 1 ELSE e)
    BY <1>11, <1>14, <1>16, Zenon
  <2> QED
    BY <1>2, <2>1, <2>2
<1> QED
  BY <1>1, <1>10, <1>16, <1>18, <1>19, Zenon DEF G

\* The counts of a round: one more pass, k of the c candidates kept, and g tokens grown to h.
LEMMA RoundCounts ==
  ASSUME NEW g \in Nat, NEW h \in Nat, NEW k \in Nat, NEW c \in Nat,
         NEW passes \in Nat, NEW accepted \in Nat, NEW proposed \in Nat,
         k <= c, g < h, g + k <= h, h <= g + k + 1,
         passes <= g, accepted <= proposed, accepted <= g, g <= accepted + passes
  PROVE  /\ passes + 1 \in Nat /\ accepted + k \in Nat /\ proposed + c \in Nat
         /\ passes + 1 <= h /\ accepted + k <= proposed + c
         /\ accepted + k <= h /\ h <= accepted + k + (passes + 1)
  OBVIOUS

\* A round of decoding, and what it counts.
LEMMA RoundGreedy ==
  ASSUME NEW T, NEW next \in [T \X T -> T], NEW prompt \in Seq(T), Len(prompt) >= 2, NEW limit \in Nat,
         NEW run \in [generated : Seq(T), passes : Nat, accepted : Nat, proposed : Nat],
         Len(run.generated) < limit, NEW candidates \in Seq(T),
         SaysGreedily(next, prompt \o run.generated, Len(prompt)),
         run.passes <= Len(run.generated), run.accepted <= run.proposed,
         run.accepted <= Len(run.generated), Len(run.generated) <= run.accepted + run.passes
  PROVE  LET r == DecodeRound(run, next, prompt, candidates, limit)
         IN /\ r \in [generated : Seq(T), passes : Nat, accepted : Nat, proposed : Nat]
            /\ Len(r.generated) <= limit
            /\ SaysGreedily(next, prompt \o r.generated, Len(prompt))
            /\ r.passes <= Len(r.generated) /\ r.accepted <= r.proposed
            /\ r.accepted <= Len(r.generated) /\ Len(r.generated) <= r.accepted + r.passes
<1> DEFINE r == DecodeRound(run, next, prompt, candidates, limit)
           n == Len(Kept(next, prompt, run.generated, candidates, limit))
           longer == Longer(next, prompt, run.generated, candidates, limit)
<1>1. r = [generated |-> longer, passes |-> run.passes + 1,
           accepted |-> run.accepted + n, proposed |-> run.proposed + Len(candidates)]
  BY DEF DecodeRound, Kept, Longer
<1>2. /\ run.generated \in Seq(T) /\ Len(run.generated) \in Nat /\ Len(candidates) \in Nat
      /\ run.passes \in Nat /\ run.accepted \in Nat /\ run.proposed \in Nat
  OBVIOUS
<1>3. /\ n \in Nat /\ n <= Len(candidates)
      /\ longer \in Seq(T) /\ Len(longer) <= limit /\ Len(run.generated) < Len(longer)
      /\ Len(run.generated) + n <= Len(longer) /\ Len(longer) <= Len(run.generated) + n + 1
      /\ SaysGreedily(next, prompt \o longer, Len(prompt))
  BY <1>2, RoundSays
<1> HIDE DEF r, n, longer
<1>4. /\ r.generated = longer /\ r.passes = run.passes + 1 /\ r.accepted = run.accepted + n
      /\ r.proposed = run.proposed + Len(candidates)
  BY <1>1
<1>5. /\ run.passes + 1 \in Nat /\ run.accepted + n \in Nat /\ run.proposed + Len(candidates) \in Nat
      /\ run.passes + 1 <= Len(longer) /\ run.accepted + n <= run.proposed + Len(candidates)
      /\ run.accepted + n <= Len(longer) /\ Len(longer) <= run.accepted + n + (run.passes + 1)
  <2>1. Len(longer) \in Nat
    BY <1>3
  <2> QED
    BY <1>2, <1>3, <2>1, RoundCounts, Zenon
<1>6. r \in [generated : Seq(T), passes : Nat, accepted : Nat, proposed : Nat]
  BY <1>1, <1>3, <1>5
<1> QED
  BY <1>3, <1>4, <1>5, <1>6, Zenon DEF r

\* Only a round changes what was decoded.
DecodeInv ==
    /\ job \in Jobs
    /\ job.kind = "decode" =>
         /\ output \in [generated : Seq(job.tokens), passes : Nat, accepted : Nat, proposed : Nat]
         /\ DecodesGreedily

\* Decoding with candidates, whoever proposes them, says what the model would have said without, in
\* no more passes: for every model, prompt, limit and length of the proposals.
THEOREM DecodingStaysGreedy == Spec => []DecodesGreedily
<1>1. Init => DecodeInv
  <2> SUFFICES ASSUME Init, job.kind = "decode"
               PROVE  /\ output \in [generated : Seq(job.tokens), passes : Nat, accepted : Nat, proposed : Nat]
                      /\ DecodesGreedily
    BY DEF Init, DecodeInv
  <2>1. output = NewRun /\ job.limit \in Nat /\ job.prompt \in Seq(job.tokens)
    BY JobsAssumption DEF Init
  <2>2. job.prompt \o <<>> = job.prompt
    BY <2>1
  <2> QED
    BY <2>1, <2>2 DEF NewRun, DecodesGreedily
<1>2. DecodeInv /\ [Next]_vars => DecodeInv'
  <2> SUFFICES ASSUME DecodeInv, [Next]_vars  PROVE DecodeInv'
    OBVIOUS
  <2>1. job' = job
    BY DEF Next, vars, Answer, Embed, Called, CallIntake, CallClassifier, CallRetriever, CallChunker,
           CallMemory, Decode, CallEvictor, CallEngine
  <2>2. \/ output' = output
        \/ job.kind # "decode"
        \/ Decode
    BY DEF Next, vars, Answer, Embed, Called, CallIntake, CallClassifier, CallRetriever, CallChunker,
           CallMemory, CallEvictor, CallEngine
  <2>3. CASE output' = output \/ job.kind # "decode"
    BY <2>1, <2>3 DEF DecodeInv, DecodesGreedily
  <2>4. CASE Decode /\ job.kind = "decode"
    <3> DEFINE Runs == [generated : Seq(job.tokens), passes : Nat, accepted : Nat, proposed : Nat]
    <3>1. /\ job \in Jobs /\ output \in Runs /\ output.generated \in Seq(job.tokens) /\ DecodesGreedily
      BY <2>4 DEF DecodeInv
    <3>2. PICK candidates \in
            CASE job.generator = "prompt_lookup" ->
                   {PromptLookupPropose(job.prompt, output.generated, job.n, 1..2)}
              [] job.generator = "lookahead" -> {LookaheadPropose(job.prompt, output.generated, job.n, 1..2)}
              [] job.generator = "medusa" -> MedusaPropose(job.tokens, job.n) :
            output' = DecodeRound(output, job.next, job.prompt, candidates, job.limit)
      BY <2>4 DEF Decode
    <3>3. candidates \in Seq(job.tokens)
      BY <2>4, <3>1, CandidatesType
    <3>4. /\ job.limit \in Nat /\ job.prompt \in Seq(job.tokens) /\ Len(job.prompt) >= 2
          /\ job.next \in [job.tokens \X job.tokens -> job.tokens] /\ Len(output.generated) < job.limit
      BY <2>4, <3>1, JobsAssumption DEF Decode
    <3>5. /\ SaysGreedily(job.next, job.prompt \o output.generated, Len(job.prompt))
          /\ output.passes <= Len(output.generated) /\ output.accepted <= output.proposed
          /\ output.accepted <= Len(output.generated)
          /\ Len(output.generated) <= output.accepted + output.passes
      BY <2>4, <3>1 DEF DecodesGreedily, SaysGreedily
    <3>6. /\ output' \in Runs
          /\ Len(output'.generated) <= job.limit
          /\ SaysGreedily(job.next, job.prompt \o output'.generated, Len(job.prompt))
          /\ output'.passes <= Len(output'.generated) /\ output'.accepted <= output'.proposed
          /\ output'.accepted <= Len(output'.generated)
          /\ Len(output'.generated) <= output'.accepted + output'.passes
      BY <3>1, <3>2, <3>3, <3>4, <3>5, RoundGreedy
    <3> QED
      BY <2>1, <3>1, <3>6 DEF DecodeInv, DecodesGreedily, SaysGreedily
  <2> QED
    BY <2>2, <2>3, <2>4
<1>3. DecodeInv => DecodesGreedily
  BY DEF DecodeInv, DecodesGreedily
<1> QED
  BY <1>1, <1>2, <1>3, PTL DEF Spec
=============================================================================
