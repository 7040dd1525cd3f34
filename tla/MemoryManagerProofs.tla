------------------------ MODULE MemoryManagerProofs -------------------------
(***************************************************************************)
(* The heap of module MemoryManager stays whole: as long as the kernel     *)
(* runs and no stale link was followed, its headers tile the memory region *)
(* and the list of free blocks is what malloc and free rely on.            *)
(* Lemmas about the operations of FreeList come first; the last part is    *)
(* about the bisection of module FreeBlockSearch, whose results the heap   *)
(* takes for granted.                                                      *)
(***************************************************************************)
EXTENDS MemoryManager, FreeBlockSearch, FiniteSetTheorems, WellFoundedInduction, TLAPS

-----------------------------------------------------------------------------
(* Facts about the vector's operations.                                    *)

\* A function on an initial segment of the positions is a sequence.
LEMMA FunctionIsSeq ==
  ASSUME NEW n \in Nat, NEW S, NEW f \in [1 .. n -> S]
  PROVE  f \in Seq(S) /\ Len(f) = n
OBVIOUS

\* fc_vector.hpp insert, at the position the bisection returns for the new
\* element, keeps a vector of sizes sorted.
LEMMA InsertSorted ==
  ASSUME NEW s \in Seq(Nat), IsSorted(s), NEW t \in Nat, NEW i, IsFirstGte(s, t, i)
  PROVE  insert(s, i, t) \in Seq(Nat) /\ IsSorted(insert(s, i, t))
<1>1. /\ Len(s) \in Nat /\ i \in 0 .. Len(s)
      /\ \A k \in 1 .. Len(s) : s[k] \in Nat
      /\ \A j, k \in 1 .. Len(s) : j <= k => s[j] <= s[k]
      /\ \A k \in 1 .. Len(s) : k <= i => s[k] < t
      /\ \A k \in 1 .. Len(s) : k > i => s[k] >= t
  BY DEF IsFirstGte, IsSorted
<1>2. insert(s, i, t) \in [1 .. Len(s) + 1 -> Nat]
  BY <1>1 DEF insert
<1>3. PICK r \in [1 .. Len(s) + 1 -> Nat] : r = insert(s, i, t)
  BY <1>2
<1>4. r \in Seq(Nat) /\ Len(r) = Len(s) + 1
  BY <1>1, FunctionIsSeq
<1>5. \A k \in 1 .. Len(s) + 1 : r[k] = IF k <= i THEN s[k]
                                        ELSE IF k = i + 1 THEN t
                                        ELSE s[k - 1]
  BY <1>3 DEF insert
<1>6. \A k \in 1 .. Len(s) + 1 : r[k] \in Nat
  BY <1>3
<1>7. ASSUME NEW j \in 1 .. Len(s) + 1, NEW k \in 1 .. Len(s) + 1, j <= k
      PROVE  r[j] <= r[k]
  <2>1. CASE k <= i
    <3>1. r[k] = s[k] /\ k \in 1 .. Len(s) /\ r[j] = s[j] /\ j \in 1 .. Len(s)
      BY <2>1, <1>1, <1>5, <1>7
    <3> QED BY <3>1, <1>1, <1>7
  <2>2. CASE j = k
    <3>1. r[k] \in Nat /\ r[j] = r[k]
      BY <2>2, <1>6
    <3> QED BY <3>1
  <2>3. CASE k = i + 1 /\ j < k
    <3>1. r[k] = t /\ r[j] = s[j] /\ j \in 1 .. Len(s) /\ j <= i
      BY <2>3, <1>1, <1>5
    <3> QED BY <3>1, <1>1
  <2>4. CASE k > i + 1 /\ j <= i
    <3>1. r[k] = s[k - 1] /\ k - 1 \in 1 .. Len(s) /\ r[j] = s[j] /\ j \in 1 .. Len(s)
      BY <2>4, <1>1, <1>5
    <3> QED BY <3>1, <2>4, <1>1
  <2>5. CASE k > i + 1 /\ j = i + 1
    <3>1. r[k] = s[k - 1] /\ k - 1 \in 1 .. Len(s) /\ k - 1 > i /\ r[j] = t
      BY <2>5, <1>1, <1>5
    <3> QED BY <3>1, <1>1
  <2>6. CASE k > i + 1 /\ j > i + 1
    <3>1. /\ r[k] = s[k - 1] /\ k - 1 \in 1 .. Len(s)
          /\ r[j] = s[j - 1] /\ j - 1 \in 1 .. Len(s)
      BY <2>6, <1>1, <1>5
    <3>2. j - 1 <= k - 1
      BY <1>1, <1>7
    <3> QED BY <3>1, <3>2, <1>1
  <2>7. i \in Int /\ j \in Int /\ k \in Int
    BY <1>1
  <2>8. \/ k <= i
        \/ j = k
        \/ k = i + 1 /\ j < k
        \/ k > i + 1 /\ j <= i
        \/ k > i + 1 /\ j = i + 1
        \/ k > i + 1 /\ j > i + 1
    BY <2>7, <1>7
  <2> QED BY <2>1, <2>2, <2>3, <2>4, <2>5, <2>6, <2>8
<1> QED BY <1>3, <1>4, <1>7 DEF IsSorted

\* fc_vector.hpp remove keeps a vector of sizes sorted.
LEMMA RemoveSorted ==
  ASSUME NEW s \in Seq(Nat), IsSorted(s), NEW i \in 0 .. Len(s) - 1
  PROVE  remove(s, i) \in Seq(Nat) /\ IsSorted(remove(s, i))
<1>1. /\ Len(s) \in Nat /\ Len(s) - 1 \in Nat
      /\ \A k \in 1 .. Len(s) : s[k] \in Nat
      /\ \A j, k \in 1 .. Len(s) : j <= k => s[j] <= s[k]
  BY DEF IsSorted
<1>2. remove(s, i) \in [1 .. Len(s) - 1 -> Nat]
  BY <1>1 DEF remove
<1>3. PICK r \in [1 .. Len(s) - 1 -> Nat] : r = remove(s, i)
  BY <1>2
<1>4. r \in Seq(Nat) /\ Len(r) = Len(s) - 1
  BY <1>1, FunctionIsSeq
<1>5. \A k \in 1 .. Len(s) - 1 : r[k] = IF k <= i THEN s[k] ELSE s[k + 1]
  BY <1>3 DEF remove
<1>6. ASSUME NEW j \in 1 .. Len(s) - 1, NEW k \in 1 .. Len(s) - 1, j <= k
      PROVE  r[j] <= r[k]
  <2>1. CASE k <= i
    <3>1. r[k] = s[k] /\ k \in 1 .. Len(s) /\ r[j] = s[j] /\ j \in 1 .. Len(s)
      BY <2>1, <1>1, <1>5, <1>6
    <3> QED BY <3>1, <1>1, <1>6
  <2>2. CASE k > i /\ j <= i
    <3>1. r[k] = s[k + 1] /\ k + 1 \in 1 .. Len(s) /\ r[j] = s[j] /\ j \in 1 .. Len(s)
      BY <2>2, <1>1, <1>5
    <3> QED BY <3>1, <1>1, <1>6
  <2>3. CASE j > i
    <3>1. /\ r[k] = s[k + 1] /\ k + 1 \in 1 .. Len(s)
          /\ r[j] = s[j + 1] /\ j + 1 \in 1 .. Len(s)
      BY <2>3, <1>1, <1>5, <1>6
    <3> QED BY <3>1, <1>1, <1>6
  <2> QED BY <2>1, <2>2, <2>3, <1>1, <1>6
<1> QED BY <1>3, <1>4, <1>6 DEF IsSorted

\* A list has one such position only, so the search is a function of the list.
LEMMA FirstGteUnique ==
  ASSUME NEW s \in Seq(Nat), NEW t \in Nat, NEW i, NEW j,
         IsFirstGte(s, t, i), IsFirstGte(s, t, j)
  PROVE  i = j
<1>1. /\ Len(s) \in Nat /\ i \in 0 .. Len(s) /\ j \in 0 .. Len(s)
      /\ \A k \in 1 .. Len(s) : s[k] \in Nat
  BY DEF IsFirstGte
<1>2. ASSUME i < j PROVE FALSE
  <2>1. j \in 1 .. Len(s) /\ s[j] < t /\ s[j] >= t
    BY <1>1, <1>2 DEF IsFirstGte
  <2> QED BY <2>1, <1>1
<1>3. ASSUME j < i PROVE FALSE
  <2>1. i \in 1 .. Len(s) /\ s[i] < t /\ s[i] >= t
    BY <1>1, <1>3 DEF IsFirstGte
  <2> QED BY <2>1, <1>1
<1> QED BY <1>1, <1>2, <1>3

-----------------------------------------------------------------------------
(* The same operations on a vector of anything.                            *)

LEMMA InsertSeq ==
  ASSUME NEW S, NEW s \in Seq(S), NEW v \in S, NEW i \in 0 .. Len(s)
  PROVE  /\ insert(s, i, v) \in Seq(S) /\ Len(insert(s, i, v)) = Len(s) + 1
         /\ \A k \in 1 .. Len(s) + 1 :
              insert(s, i, v)[k] = IF k <= i THEN s[k] ELSE IF k = i + 1 THEN v ELSE s[k - 1]
<1>1. Len(s) \in Nat /\ \A k \in 1 .. Len(s) : s[k] \in S
  OBVIOUS
<1>2. insert(s, i, v) \in [1 .. Len(s) + 1 -> S]
  BY <1>1 DEF insert
<1>3. insert(s, i, v) \in Seq(S) /\ Len(insert(s, i, v)) = Len(s) + 1
  <2>1. Len(s) + 1 \in Nat
    BY <1>1
  <2> QED BY <1>2, <2>1, FunctionIsSeq
<1> QED BY <1>3 DEF insert

LEMMA RemoveSeq ==
  ASSUME NEW S, NEW s \in Seq(S), NEW i \in 0 .. Len(s) - 1
  PROVE  /\ remove(s, i) \in Seq(S) /\ Len(remove(s, i)) = Len(s) - 1
         /\ \A k \in 1 .. Len(s) - 1 :
              remove(s, i)[k] = IF k <= i THEN s[k] ELSE s[k + 1]
<1>1. Len(s) \in Nat /\ Len(s) - 1 \in Nat /\ \A k \in 1 .. Len(s) : s[k] \in S
  OBVIOUS
<1>2. remove(s, i) \in [1 .. Len(s) - 1 -> S]
  BY <1>1 DEF remove
<1>3. remove(s, i) \in Seq(S) /\ Len(remove(s, i)) = Len(s) - 1
  BY <1>1, <1>2, FunctionIsSeq
<1> QED BY <1>3 DEF remove

-----------------------------------------------------------------------------
LEMMA Smallest ==
  ASSUME NEW S \in SUBSET Nat, S # {}
  PROVE  \E m \in S : \A k \in S : m <= k
<1>1. PICK m \in S : \A k \in S : <<k, m>> \notin OpToRel(<, Nat)
  BY NatLessThanWellFounded, WFMin, Zenon
<1>2. \A k \in S : ~(k < m)
  BY <1>1 DEF OpToRel
<1>3. \A k \in S : k \in Nat
  OBVIOUS
<1>4. \A k \in S : m <= k
  BY <1>2, <1>3
<1> QED BY <1>4

\* A sorted list has such a position.
LEMMA FirstGteExists ==
  ASSUME NEW s \in Seq(Nat), IsSorted(s), NEW t \in Nat
  PROVE  \E i \in 0 .. Len(s) : IsFirstGte(s, t, i)
<1>1. /\ Len(s) \in Nat
      /\ \A k \in 1 .. Len(s) : s[k] \in Nat
      /\ \A j, k \in 1 .. Len(s) : j <= k => s[j] <= s[k]
  BY DEF IsSorted
<1> DEFINE S == {i \in 0 .. Len(s) : i = Len(s) \/ s[i + 1] >= t}
<1>2. S \in SUBSET Nat /\ S # {}
  <2>1. Len(s) \in S
    BY <1>1
  <2> QED BY <2>1
<1>3. PICK m \in S : \A k \in S : m <= k
  BY <1>2, Smallest
<1>4. \A k \in 1 .. Len(s) : k <= m => s[k] < t
  <2> SUFFICES ASSUME NEW k \in 1 .. Len(s), k <= m PROVE s[k] < t
    OBVIOUS
  <2>1. ASSUME k - 1 \in S PROVE FALSE
    <3>1. m <= k - 1
      BY <1>3, <2>1, Zenon
    <3>2. m \in Nat /\ k \in Nat
      BY <1>1
    <3> QED BY <3>1, <3>2
  <2> QED BY <2>1, <1>1
<1>5. \A k \in 1 .. Len(s) : k > m => s[k] >= t
  <2> SUFFICES ASSUME NEW k \in 1 .. Len(s), k > m PROVE s[k] >= t
    OBVIOUS
  <2>1. s[m + 1] >= t /\ m + 1 \in 1 .. Len(s) /\ m + 1 <= k
    BY <1>1
  <2> QED BY <2>1, <1>1
<1> QED BY <1>4, <1>5 DEF IsFirstGte

-----------------------------------------------------------------------------
(* The inductive invariant.                                                *)

\* No request is so near to the largest size_t that its padding wraps around.
RequestsFit == \A t \in Requests : t + ALIGN <= WORD

\* The links of a heap whose headers tile the region up to endAddress.
Chain(nx) ==
  /\ endAddress \in Nat
  /\ DOMAIN nx \subseteq Nat /\ nx \in [DOMAIN nx -> Nat]
  /\ HEAP_BASE \in DOMAIN nx
  /\ \A b \in DOMAIN nx : HEAP_BASE <= b
  /\ \A b \in DOMAIN nx :
       nx[b] = nullptr => b + HEADER < endAddress /\ \A c \in DOMAIN nx : c <= b
  /\ \A b \in DOMAIN nx :
       nx[b] # nullptr => /\ nx[b] \in DOMAIN nx /\ b + HEADER < nx[b]
                          /\ \A c \in DOMAIN nx : c <= b \/ nx[b] <= c
  /\ \A c \in DOMAIN nx : c # HEAP_BASE => \E b \in DOMAIN nx : nx[b] = c

\* A list of some of these blocks, each once and in the order of their sizes.
ListOK(nx, fr) ==
  /\ fr \in Seq(DOMAIN nx)
  /\ \A j, k \in 1 .. Len(fr) : fr[j] = fr[k] => j = k
  /\ IsSorted(SizesOf(nx, fr))

-----------------------------------------------------------------------------
(* Links.                                                                  *)

LEMMA Layout ==
  /\ HEAP_BASE \in Nat \ {0} /\ HEADER \in Nat \ {0} /\ ALIGN \in Nat \ {0}
  /\ CAPACITY \in Nat \ {0} /\ WORD \in Nat /\ nullptr = 0
  /\ \A e \in RegionEnds : e \in Nat /\ HEAP_BASE + HEADER < e
  /\ \A t \in Requests : t \in Nat
BY LayoutAssumption DEF nullptr

LEMMA SizeFacts ==
  ASSUME NEW nx, Chain(nx), NEW b \in DOMAIN nx
  PROVE  /\ get_block_size(nx, b) \in Nat \ {0} /\ b \in Nat /\ b # 0 /\ HEAP_BASE <= b
         /\ nx[b] # nullptr => nx[b] = b + HEADER + get_block_size(nx, b)
         /\ nx[b] = nullptr => endAddress = b + HEADER + get_block_size(nx, b)
<1>1. b \in Nat /\ nx[b] \in Nat /\ endAddress \in Nat /\ HEAP_BASE <= b
  BY DEF Chain
<1>2. b # 0
  BY <1>1, Layout
<1>3. CASE nx[b] = nullptr
  <2>1. b + HEADER < endAddress
    BY <1>3 DEF Chain
  <2>2. get_block_size(nx, b) = endAddress - b - HEADER
    BY <1>3 DEF get_block_size
  <2> QED BY <1>1, <1>2, <1>3, <2>1, <2>2, Layout
<1>4. CASE nx[b] # nullptr
  <2>1. b + HEADER < nx[b]
    BY <1>4 DEF Chain
  <2>2. get_block_size(nx, b) = nx[b] - b - HEADER
    BY <1>4 DEF get_block_size
  <2> QED BY <1>1, <1>2, <1>4, <2>1, <2>2, Layout
<1> QED BY <1>3, <1>4

\* A block swallows the one behind it.
IsAbsorbed(nx, a, b, n1) ==
  /\ Chain(n1) /\ DOMAIN n1 = DOMAIN nx \ {b} /\ b \in DOMAIN nx /\ a < b
  /\ \A c \in DOMAIN nx \ {a, b} : n1[c] = nx[c]
  /\ \A c \in DOMAIN nx \ {a, b} : get_block_size(n1, c) = get_block_size(nx, c)
  /\ get_block_size(n1, a) >= get_block_size(nx, a)

LEMMA AbsorbChain ==
  ASSUME NEW nx, Chain(nx), NEW a \in DOMAIN nx, NEW b, b = nx[a], b # nullptr,
         NEW n1, n1 = absorb_next(nx, a, b)
  PROVE  IsAbsorbed(nx, a, b, n1)
<1>1. /\ endAddress \in Nat /\ DOMAIN nx \subseteq Nat
      /\ \A c \in DOMAIN nx : c \in Nat /\ nx[c] \in Nat /\ HEAP_BASE <= c
  BY DEF Chain
<1>2. /\ b \in DOMAIN nx /\ a + HEADER < b /\ a \in Nat /\ b \in Nat /\ HEAP_BASE <= a
      /\ \A c \in DOMAIN nx : c <= a \/ b <= c
  BY <1>1 DEF Chain
<1>3. a < b
  BY <1>2, Layout
<1>4. DOMAIN n1 = DOMAIN nx \ {b}
  BY DEF absorb_next
<1>5. n1[a] = nx[b] /\ \A c \in DOMAIN nx \ {a, b} : n1[c] = nx[c]
  BY <1>2, <1>3 DEF absorb_next
<1>6. n1 \in [DOMAIN n1 -> Nat]
  <2>1. \A c \in DOMAIN n1 : n1[c] \in Nat
    BY <1>1, <1>2, <1>4, <1>5
  <2>2. n1 = [c \in DOMAIN n1 |-> n1[c]]
    BY DEF absorb_next
  <2> QED BY <2>1, <2>2
<1>7. nx[b] = nullptr => b + HEADER < endAddress /\ \A c \in DOMAIN nx : c <= b
  BY <1>2 DEF Chain
<1>8. nx[b] # nullptr => /\ nx[b] \in DOMAIN nx /\ b + HEADER < nx[b]
                         /\ \A c \in DOMAIN nx : c <= b \/ nx[b] <= c
  BY <1>2 DEF Chain
<1>9. ASSUME NEW c \in DOMAIN n1, n1[c] = nullptr
      PROVE  c + HEADER < endAddress /\ \A e \in DOMAIN n1 : e <= c
  <2>1. CASE c = a
    <3>1. nx[b] = nullptr
      BY <1>5, <1>9, <2>1
    <3>2. a + HEADER < endAddress
      BY <1>1, <1>2, <1>3, <1>7, <3>1, Layout
    <3>3. ASSUME NEW e \in DOMAIN n1 PROVE e <= a
      BY <1>1, <1>2, <1>4, <1>7, <3>1, <3>3
    <3> QED BY <2>1, <3>2, <3>3
  <2>2. CASE c # a
    <3>1. nx[c] = nullptr /\ c \in DOMAIN nx
      BY <1>4, <1>5, <1>9, <2>2
    <3>2. c + HEADER < endAddress /\ \A e \in DOMAIN nx : e <= c
      BY <3>1 DEF Chain
    <3> QED BY <1>4, <3>2
  <2> QED BY <2>1, <2>2
<1>10. ASSUME NEW c \in DOMAIN n1, n1[c] # nullptr
       PROVE  /\ n1[c] \in DOMAIN n1 /\ c + HEADER < n1[c]
              /\ \A e \in DOMAIN n1 : e <= c \/ n1[c] <= e
  <2>1. CASE c = a
    <3>1. /\ nx[b] \in DOMAIN nx /\ b + HEADER < nx[b] /\ n1[c] = nx[b]
          /\ \A e \in DOMAIN nx : e <= b \/ nx[b] <= e
      BY <1>5, <1>8, <1>10, <2>1
    <3>2. nx[b] # b /\ a + HEADER < nx[b]
      BY <1>1, <1>2, <1>3, <3>1, Layout
    <3>3. ASSUME NEW e \in DOMAIN n1 PROVE e <= a \/ nx[b] <= e
      BY <1>1, <1>2, <1>4, <3>1, <3>3
    <3> QED BY <1>4, <2>1, <3>1, <3>2, <3>3
  <2>2. CASE c # a
    <3>1. nx[c] # nullptr /\ c \in DOMAIN nx /\ c # b /\ n1[c] = nx[c]
      BY <1>4, <1>5, <1>10, <2>2
    <3>2. /\ nx[c] \in DOMAIN nx /\ c + HEADER < nx[c]
          /\ \A e \in DOMAIN nx : e <= c \/ nx[c] <= e
      BY <3>1 DEF Chain
    <3>3. nx[c] # b
      <4> SUFFICES ASSUME nx[c] = b PROVE FALSE
        OBVIOUS
      <4>1. a <= c \/ b <= a
        BY <3>2
      <4>2. c <= a \/ b <= c
        BY <1>2, <3>1
      <4>3. c < b
        BY <1>1, <1>2, <3>1, <3>2, Layout
      <4> QED BY <1>1, <1>2, <1>3, <2>2, <3>1, <4>1, <4>2, <4>3
    <3> QED BY <1>4, <3>1, <3>2, <3>3
  <2> QED BY <2>1, <2>2
<1>11. ASSUME NEW c \in DOMAIN n1, c # HEAP_BASE
       PROVE  \E e \in DOMAIN n1 : n1[e] = c
  <2>1. PICK e \in DOMAIN nx : nx[e] = c
    BY <1>4, <1>11 DEF Chain
  <2>2. CASE e = b
    BY <1>2, <1>3, <1>4, <1>5, <2>1, <2>2
  <2>3. CASE e # b /\ e # a
    BY <1>4, <1>5, <2>1, <2>3
  <2>4. e # a
    BY <1>4, <1>11, <2>1
  <2> QED BY <2>2, <2>3, <2>4
<1>12. HEAP_BASE \in DOMAIN n1
  <2>1. HEAP_BASE \in DOMAIN nx
    BY DEF Chain
  <2> QED BY <1>2, <1>3, <1>4, <2>1, Layout
<1>13. Chain(n1)
  <2>1. DOMAIN n1 \subseteq Nat /\ \A c \in DOMAIN n1 : HEAP_BASE <= c
    BY <1>1, <1>4
  <2> QED BY <1>1, <1>6, <1>9, <1>10, <1>11, <1>12, <2>1 DEF Chain
<1>14. \A c \in DOMAIN nx \ {a, b} : get_block_size(n1, c) = get_block_size(nx, c)
  BY <1>5 DEF get_block_size
<1>15. get_block_size(n1, a) >= get_block_size(nx, a)
  <2>1. /\ a \in DOMAIN n1 /\ n1[a] = nx[b]
        /\ get_block_size(nx, a) = b - a - HEADER
    BY <1>2, <1>3, <1>4, <1>5 DEF get_block_size
  <2>2. get_block_size(n1, a) = (IF nx[b] = nullptr THEN endAddress ELSE nx[b]) - a - HEADER
    BY <2>1 DEF get_block_size
  <2>3. (IF nx[b] = nullptr THEN endAddress ELSE nx[b]) \in Nat
    BY <1>1, <1>2
  <2>4. b <= (IF nx[b] = nullptr THEN endAddress ELSE nx[b])
    BY <1>1, <1>2, <1>7, <1>8, Layout
  <2> QED BY <1>2, <2>1, <2>2, <2>3, <2>4, Layout
<1> QED BY <1>2, <1>3, <1>4, <1>5, <1>13, <1>14, <1>15 DEF IsAbsorbed

\* The rest of a block becomes a block of its own, at s.
SplitNext(nx, b, s) ==
  [c \in DOMAIN nx \cup {s} |-> IF c = b THEN s ELSE IF c = s THEN nx[b] ELSE nx[c]]

IsSplit(nx, b, size, s, n1) ==
  /\ Chain(n1) /\ DOMAIN n1 = DOMAIN nx \cup {s}
  /\ s \notin DOMAIN nx /\ s # nullptr /\ s # b
  /\ n1[b] = s /\ n1[s] = nx[b] /\ \A c \in DOMAIN nx \ {b} : n1[c] = nx[c]
  /\ get_block_size(n1, b) = size
  /\ \A c \in DOMAIN nx \ {b} : get_block_size(n1, c) = get_block_size(nx, c)

LEMMA SplitChain ==
  ASSUME NEW nx, Chain(nx), NEW b \in DOMAIN nx, NEW size \in Nat \ {0},
         get_block_size(nx, b) - size > HEADER, NEW s, s = b + HEADER + size,
         NEW n1, n1 = SplitNext(nx, b, s)
  PROVE  IsSplit(nx, b, size, s, n1)
<1> DEFINE stop == IF nx[b] = nullptr THEN endAddress ELSE nx[b]
<1>1. /\ endAddress \in Nat /\ b \in Nat /\ HEAP_BASE <= b
      /\ \A c \in DOMAIN nx : c \in Nat /\ nx[c] \in Nat /\ HEAP_BASE <= c
  BY DEF Chain
<1>2. nx[b] = nullptr => \A c \in DOMAIN nx : c <= b
  BY DEF Chain
<1>3. nx[b] # nullptr => nx[b] \in DOMAIN nx /\ \A c \in DOMAIN nx : c <= b \/ nx[b] <= c
  BY DEF Chain
<1>4. stop \in Nat /\ get_block_size(nx, b) = stop - b - HEADER
  BY <1>1 DEF get_block_size
<1> HIDE DEF stop
<1>5. s \in Nat /\ b + HEADER < s /\ s + HEADER < stop /\ b < s /\ s # b /\ s # nullptr
  BY <1>1, <1>4, Layout
<1>6. s \notin DOMAIN nx
  <2>1. CASE nx[b] = nullptr
    BY <1>1, <1>2, <1>5, <2>1
  <2>2. CASE nx[b] # nullptr
    <3>1. stop = nx[b] /\ s < nx[b]
      BY <1>1, <1>4, <1>5, <2>2, Layout DEF stop
    <3> QED BY <1>1, <1>3, <1>5, <2>2, <3>1
  <2> QED BY <2>1, <2>2
<1>7. DOMAIN n1 = DOMAIN nx \cup {s}
  BY DEF SplitNext
<1>8. n1[b] = s /\ n1[s] = nx[b] /\ \A c \in DOMAIN nx \ {b} : n1[c] = nx[c]
  BY <1>5, <1>6 DEF SplitNext
<1>9. n1 = [c \in DOMAIN n1 |-> n1[c]]
  BY DEF SplitNext
<1>10. n1 \in [DOMAIN n1 -> Nat]
  <2>1. \A c \in DOMAIN n1 : n1[c] \in Nat
    BY <1>1, <1>5, <1>7, <1>8
  <2> QED BY <2>1, <1>9
<1>11. ASSUME NEW c \in DOMAIN n1, n1[c] = nullptr
       PROVE  c + HEADER < endAddress /\ \A e \in DOMAIN n1 : e <= c
  <2>1. CASE c = s
    <3>1. nx[b] = nullptr /\ stop = endAddress
      BY <1>8, <1>11, <2>1 DEF stop
    <3>2. \A e \in DOMAIN n1 : e <= s
      BY <1>1, <1>2, <1>5, <1>7, <3>1
    <3> QED BY <1>5, <2>1, <3>1, <3>2
  <2>2. CASE c = b
    BY <1>5, <1>8, <1>11, <2>2
  <2>3. CASE c # b /\ c # s
    <3>1. c \in DOMAIN nx /\ nx[c] = nullptr
      BY <1>7, <1>8, <1>11, <2>3
    <3>2. c + HEADER < endAddress /\ \A e \in DOMAIN nx : e <= c
      BY <3>1 DEF Chain
    <3>3. b < c
      BY <1>1, <2>3, <3>1, <3>2
    <3>4. nx[b] # nullptr /\ nx[b] <= c /\ stop = nx[b]
      BY <1>1, <1>2, <1>3, <3>1, <3>3 DEF stop
    <3>5. s <= c
      BY <1>1, <1>4, <1>5, <3>1, <3>4, Layout
    <3> QED BY <1>7, <3>2, <3>5
  <2> QED BY <2>1, <2>2, <2>3
<1>12. ASSUME NEW c \in DOMAIN n1, n1[c] # nullptr
       PROVE  /\ n1[c] \in DOMAIN n1 /\ c + HEADER < n1[c]
              /\ \A e \in DOMAIN n1 : e <= c \/ n1[c] <= e
  <2>1. CASE c = b
    <3>1. \A e \in DOMAIN nx : e <= b \/ stop <= e
      BY <1>1, <1>2, <1>3 DEF stop
    <3>2. ASSUME NEW e \in DOMAIN n1 PROVE e <= b \/ s <= e
      <4>1. CASE e = s
        BY <4>1, <1>5
      <4>2. CASE e \in DOMAIN nx
        BY <4>2, <3>1, <1>1, <1>4, <1>5, Layout
      <4> QED BY <4>1, <4>2, <1>7
    <3> QED BY <1>5, <1>7, <1>8, <2>1, <3>2
  <2>2. CASE c = s
    <3>1. nx[b] # nullptr /\ n1[c] = nx[b] /\ stop = nx[b]
      BY <1>8, <1>12, <2>2 DEF stop
    <3>2. nx[b] \in DOMAIN nx /\ \A e \in DOMAIN nx : e <= b \/ nx[b] <= e
      BY <1>3, <3>1
    <3>3. ASSUME NEW e \in DOMAIN n1 PROVE e <= s \/ nx[b] <= e
      BY <1>1, <1>5, <1>7, <3>2, <3>3
    <3> QED BY <1>5, <1>7, <2>2, <3>1, <3>2, <3>3
  <2>3. CASE c # b /\ c # s
    <3>1. c \in DOMAIN nx /\ nx[c] # nullptr /\ n1[c] = nx[c]
      BY <1>7, <1>8, <1>12, <2>3
    <3>2. /\ nx[c] \in DOMAIN nx /\ c + HEADER < nx[c]
          /\ \A e \in DOMAIN nx : e <= c \/ nx[c] <= e
      BY <3>1 DEF Chain
    <3>3. s <= c \/ nx[c] <= s
      <4>1. CASE b < c
        <5>1. nx[b] # nullptr /\ nx[b] <= c /\ stop = nx[b]
          BY <1>1, <1>2, <1>3, <3>1, <4>1 DEF stop
        <5>2. s <= c
          BY <1>1, <1>4, <1>5, <3>1, <5>1, Layout
        <5> QED BY <5>2
      <4>2. CASE c < b
        <5>1. nx[c] <= b
          BY <1>1, <3>1, <3>2, <4>2
        <5> QED BY <1>1, <1>5, <3>1, <5>1
      <4> QED BY <1>1, <2>3, <3>1, <4>1, <4>2
    <3> QED BY <1>7, <3>1, <3>2, <3>3
  <2> QED BY <2>1, <2>2, <2>3
<1>13. ASSUME NEW c \in DOMAIN n1, c # HEAP_BASE
       PROVE  \E e \in DOMAIN n1 : n1[e] = c
  <2>1. CASE c = s
    BY <1>7, <1>8, <2>1
  <2>2. CASE c # s
    <3>1. PICK e \in DOMAIN nx : nx[e] = c
      BY <1>7, <1>13, <2>2 DEF Chain
    <3>2. CASE e = b
      BY <1>7, <1>8, <3>1, <3>2
    <3>3. CASE e # b
      BY <1>7, <1>8, <3>1, <3>3
    <3> QED BY <3>2, <3>3
  <2> QED BY <2>1, <2>2
<1>14. Chain(n1)
  <2>1. DOMAIN n1 \subseteq Nat /\ \A c \in DOMAIN n1 : HEAP_BASE <= c
    BY <1>1, <1>5, <1>7, Layout
  <2>2. HEAP_BASE \in DOMAIN n1
    BY <1>7 DEF Chain
  <2> QED BY <1>1, <1>10, <1>11, <1>12, <1>13, <2>1, <2>2 DEF Chain
<1>15. get_block_size(n1, b) = size
  <2>1. get_block_size(n1, b) = s - b - HEADER
    BY <1>5, <1>8 DEF get_block_size
  <2> QED BY <1>1, <2>1, Layout
<1>16. \A c \in DOMAIN nx \ {b} : get_block_size(n1, c) = get_block_size(nx, c)
  BY <1>8 DEF get_block_size
<1> QED BY <1>5, <1>6, <1>7, <1>8, <1>14, <1>15, <1>16 DEF IsSplit

-----------------------------------------------------------------------------
(* Lists.                                                                  *)

LEMMA SizesFacts ==
  ASSUME NEW nx, Chain(nx), NEW fr \in Seq(DOMAIN nx)
  PROVE  /\ SizesOf(nx, fr) \in Seq(Nat) /\ Len(SizesOf(nx, fr)) = Len(fr)
         /\ \A k \in 1 .. Len(fr) : /\ fr[k] \in DOMAIN nx
                                    /\ SizesOf(nx, fr)[k] = get_block_size(nx, fr[k])
<1>1. Len(fr) \in Nat /\ \A k \in 1 .. Len(fr) : fr[k] \in DOMAIN nx
  OBVIOUS
<1>2. SizesOf(nx, fr) \in [1 .. Len(fr) -> Nat]
  <2>1. \A k \in 1 .. Len(fr) : get_block_size(nx, fr[k]) \in Nat
    BY <1>1, SizeFacts
  <2> QED BY <2>1 DEF SizesOf
<1>3. SizesOf(nx, fr) \in Seq(Nat) /\ Len(SizesOf(nx, fr)) = Len(fr)
  BY <1>1, <1>2, FunctionIsSeq
<1> QED BY <1>1, <1>3 DEF SizesOf

\* The search finds the first block that is large enough.
LEMMA FindFirst ==
  ASSUME NEW nx, Chain(nx), NEW fr, ListOK(nx, fr), NEW t \in Nat
  PROVE  /\ find_first_gte_free_block(nx, fr, t) \in 0 .. Len(fr)
         /\ IsFirstGte(SizesOf(nx, fr), t, find_first_gte_free_block(nx, fr, t))
<1>1. fr \in Seq(DOMAIN nx) /\ IsSorted(SizesOf(nx, fr))
  BY DEF ListOK
<1>2. SizesOf(nx, fr) \in Seq(Nat) /\ Len(SizesOf(nx, fr)) = Len(fr)
  BY <1>1, SizesFacts
<1>3. \E i \in 0 .. Len(fr) : IsFirstGte(SizesOf(nx, fr), t, i)
  <2>1. \E i \in 0 .. Len(SizesOf(nx, fr)) : IsFirstGte(SizesOf(nx, fr), t, i)
    BY <1>1, <1>2, FirstGteExists
  <2> QED BY <1>2, <2>1
<1> QED BY <1>3 DEF find_first_gte_free_block

\* A list stays one as long as its blocks are there and keep their sizes.
LEMMA ListStays ==
  ASSUME NEW nx, Chain(nx), NEW fr, ListOK(nx, fr), NEW n1, Chain(n1),
         \A b \in ListedIn(fr) : b \in DOMAIN n1 /\ get_block_size(n1, b) = get_block_size(nx, b)
  PROVE  ListOK(n1, fr)
<1>1. fr \in Seq(DOMAIN nx) /\ Len(fr) \in Nat
  BY DEF ListOK
<1>2. \A k \in 1 .. Len(fr) : fr[k] \in DOMAIN n1
                              /\ get_block_size(n1, fr[k]) = get_block_size(nx, fr[k])
  BY DEF ListedIn
<1>3. fr \in Seq(DOMAIN n1)
  <2>1. fr \in [1 .. Len(fr) -> DOMAIN n1]
    BY <1>1, <1>2
  <2> QED BY <1>1, <2>1, FunctionIsSeq
<1>4. SizesOf(n1, fr) = SizesOf(nx, fr)
  BY <1>2 DEF SizesOf
<1> QED BY <1>3, <1>4 DEF ListOK

LEMMA RemoveList ==
  ASSUME NEW nx, Chain(nx), NEW fr, ListOK(nx, fr), NEW i \in 0 .. Len(fr) - 1
  PROVE  /\ ListOK(nx, remove(fr, i)) /\ Len(remove(fr, i)) = Len(fr) - 1
         /\ ListedIn(remove(fr, i)) = ListedIn(fr) \ {fr[i + 1]}
<1> DEFINE r == remove(fr, i)
<1>1. /\ fr \in Seq(DOMAIN nx) /\ Len(fr) \in Nat
      /\ \A j, k \in 1 .. Len(fr) : fr[j] = fr[k] => j = k
      /\ IsSorted(SizesOf(nx, fr))
  BY DEF ListOK
<1>2. /\ r \in Seq(DOMAIN nx) /\ Len(r) = Len(fr) - 1
      /\ \A k \in 1 .. Len(fr) - 1 : r[k] = IF k <= i THEN fr[k] ELSE fr[k + 1]
  BY <1>1, RemoveSeq
<1>3. /\ SizesOf(nx, fr) \in Seq(Nat) /\ Len(SizesOf(nx, fr)) = Len(fr)
      /\ \A k \in 1 .. Len(fr) : SizesOf(nx, fr)[k] = get_block_size(nx, fr[k])
  BY <1>1, SizesFacts
<1>4. SizesOf(nx, r) = remove(SizesOf(nx, fr), i)
  <2>1. SizesOf(nx, r) = [k \in 1 .. Len(fr) - 1 |-> get_block_size(nx, r[k])]
    BY <1>2 DEF SizesOf
  <2>2. remove(SizesOf(nx, fr), i)
          = [k \in 1 .. Len(fr) - 1 |-> IF k <= i THEN SizesOf(nx, fr)[k] ELSE SizesOf(nx, fr)[k + 1]]
    BY <1>3 DEF remove
  <2>3. ASSUME NEW k \in 1 .. Len(fr) - 1
        PROVE  get_block_size(nx, r[k])
                 = IF k <= i THEN SizesOf(nx, fr)[k] ELSE SizesOf(nx, fr)[k + 1]
    <3>1. CASE k <= i
      <4>1. k \in 1 .. Len(fr) /\ r[k] = fr[k]
        BY <1>1, <1>2, <2>3, <3>1
      <4> HIDE DEF r
      <4> QED BY <1>3, <3>1, <4>1
    <3>2. CASE ~(k <= i)
      <4>1. k + 1 \in 1 .. Len(fr) /\ r[k] = fr[k + 1]
        BY <1>1, <1>2, <2>3, <3>2
      <4> HIDE DEF r
      <4> QED BY <1>3, <3>2, <4>1
    <3> QED BY <3>1, <3>2
  <2> QED BY <2>1, <2>2, <2>3
<1>5. IsSorted(SizesOf(nx, r))
  <2>1. i \in 0 .. Len(SizesOf(nx, fr)) - 1
    BY <1>3
  <2> QED BY <1>1, <1>3, <1>4, <2>1, RemoveSorted
<1> HIDE DEF r
<1>6. ASSUME NEW j \in 1 .. Len(r), NEW k \in 1 .. Len(r), r[j] = r[k] PROVE j = k
  BY <1>1, <1>2, <1>6
<1>7. ListedIn(r) = ListedIn(fr) \ {fr[i + 1]}
  <2>1. ASSUME NEW k \in 1 .. Len(r) PROVE r[k] \in ListedIn(fr) /\ r[k] # fr[i + 1]
    <3>1. PICK j \in 1 .. Len(fr) : r[k] = fr[j] /\ j # i + 1
      BY <1>1, <1>2, <2>1
    <3> QED BY <1>1, <3>1 DEF ListedIn
  <2>2. ASSUME NEW j \in 1 .. Len(fr), fr[j] # fr[i + 1] PROVE \E k \in 1 .. Len(r) : r[k] = fr[j]
    <3>1. CASE j <= i
      BY <1>1, <1>2, <3>1
    <3>2. CASE j > i + 1
      <4>1. j - 1 \in 1 .. Len(r) /\ r[j - 1] = fr[j]
        BY <1>1, <1>2, <3>2
      <4> QED BY <4>1
    <3>3. j # i + 1
      BY <2>2
    <3> QED BY <1>1, <3>1, <3>2, <3>3
  <2> QED BY <2>1, <2>2 DEF ListedIn
<1> QED BY <1>2, <1>5, <1>6, <1>7 DEF ListOK, r

LEMMA InsertList ==
  ASSUME NEW nx, Chain(nx), NEW fr, ListOK(nx, fr), NEW b \in DOMAIN nx, b \notin ListedIn(fr),
         NEW i \in 0 .. Len(fr), IsFirstGte(SizesOf(nx, fr), get_block_size(nx, b), i)
  PROVE  /\ ListOK(nx, insert(fr, i, b)) /\ Len(insert(fr, i, b)) = Len(fr) + 1
         /\ ListedIn(insert(fr, i, b)) = ListedIn(fr) \cup {b}
<1> DEFINE r == insert(fr, i, b)
<1>1. /\ fr \in Seq(DOMAIN nx) /\ Len(fr) \in Nat
      /\ \A j, k \in 1 .. Len(fr) : fr[j] = fr[k] => j = k
      /\ IsSorted(SizesOf(nx, fr))
  BY DEF ListOK
<1>2. /\ r \in Seq(DOMAIN nx) /\ Len(r) = Len(fr) + 1
      /\ \A k \in 1 .. Len(fr) + 1 :
           r[k] = IF k <= i THEN fr[k] ELSE IF k = i + 1 THEN b ELSE fr[k - 1]
  BY <1>1, InsertSeq
<1>3. /\ SizesOf(nx, fr) \in Seq(Nat) /\ Len(SizesOf(nx, fr)) = Len(fr)
      /\ \A k \in 1 .. Len(fr) : SizesOf(nx, fr)[k] = get_block_size(nx, fr[k])
  BY <1>1, SizesFacts
<1>4. SizesOf(nx, r) = insert(SizesOf(nx, fr), i, get_block_size(nx, b))
  <2>1. SizesOf(nx, r) = [k \in 1 .. Len(fr) + 1 |-> get_block_size(nx, r[k])]
    BY <1>2 DEF SizesOf
  <2>2. insert(SizesOf(nx, fr), i, get_block_size(nx, b))
          = [k \in 1 .. Len(fr) + 1 |-> IF k <= i THEN SizesOf(nx, fr)[k]
                                        ELSE IF k = i + 1 THEN get_block_size(nx, b)
                                        ELSE SizesOf(nx, fr)[k - 1]]
    BY <1>3 DEF insert
  <2>3. ASSUME NEW k \in 1 .. Len(fr) + 1
        PROVE  get_block_size(nx, r[k]) = IF k <= i THEN SizesOf(nx, fr)[k]
                                          ELSE IF k = i + 1 THEN get_block_size(nx, b)
                                          ELSE SizesOf(nx, fr)[k - 1]
    <3>1. CASE k <= i
      <4>1. k \in 1 .. Len(fr) /\ r[k] = fr[k]
        BY <1>1, <1>2, <3>1
      <4> HIDE DEF r
      <4> QED BY <1>3, <3>1, <4>1
    <3>2. CASE k = i + 1
      <4>1. r[k] = b /\ ~(k <= i)
        BY <1>1, <1>2, <3>2
      <4> HIDE DEF r
      <4> QED BY <3>2, <4>1
    <3>3. CASE k > i + 1
      <4>1. k - 1 \in 1 .. Len(fr) /\ r[k] = fr[k - 1]
        BY <1>1, <1>2, <3>3
      <4>2. ~(k <= i) /\ k # i + 1
        BY <1>1, <3>3
      <4> HIDE DEF r
      <4> QED BY <1>3, <4>1, <4>2
    <3> QED BY <1>1, <3>1, <3>2, <3>3
  <2> QED BY <2>1, <2>2, <2>3
<1>5. IsSorted(SizesOf(nx, r))
  <2>1. get_block_size(nx, b) \in Nat
    BY SizeFacts
  <2> QED BY <1>1, <1>3, <1>4, <2>1, InsertSorted
<1> HIDE DEF r
<1>6. ASSUME NEW j \in 1 .. Len(r), NEW k \in 1 .. Len(r), r[j] = r[k] PROVE j = k
  <2>1. \A l \in 1 .. Len(fr) : fr[l] # b
    BY DEF ListedIn
  <2>2. ASSUME NEW l \in 1 .. Len(r), l # i + 1
        PROVE  LET m == IF l <= i THEN l ELSE l - 1
               IN m \in 1 .. Len(fr) /\ r[l] = fr[m]
    BY <1>1, <1>2, <2>2
  <2>3. r[i + 1] = b
    BY <1>1, <1>2
  <2>4. CASE j = i + 1 \/ k = i + 1
    BY <1>6, <2>1, <2>2, <2>3, <2>4
  <2>5. CASE j # i + 1 /\ k # i + 1
    <3>1. (IF j <= i THEN j ELSE j - 1) = (IF k <= i THEN k ELSE k - 1)
      BY <1>1, <1>6, <2>2, <2>5
    <3>2. j \in Nat /\ k \in Nat /\ i \in Nat
      BY <1>2
    <3> QED BY <2>5, <3>1, <3>2
  <2> QED BY <2>4, <2>5
<1>7. ListedIn(r) = ListedIn(fr) \cup {b}
  <2>1. ASSUME NEW k \in 1 .. Len(r) PROVE r[k] \in ListedIn(fr) \cup {b}
    <3>1. r[k] = b \/ \E j \in 1 .. Len(fr) : r[k] = fr[j]
      BY <1>1, <1>2, <2>1
    <3> QED BY <3>1 DEF ListedIn
  <2>2. ASSUME NEW j \in 1 .. Len(fr) PROVE \E k \in 1 .. Len(r) : r[k] = fr[j]
    <3>1. CASE j <= i
      BY <1>1, <1>2, <3>1
    <3>2. CASE j > i
      <4>1. j + 1 \in 1 .. Len(r) /\ r[j + 1] = fr[j]
        BY <1>1, <1>2, <3>2
      <4> QED BY <4>1
    <3> QED BY <1>1, <3>1, <3>2
  <2>3. i + 1 \in 1 .. Len(r) /\ r[i + 1] = b
    BY <1>1, <1>2
  <2> QED BY <2>1, <2>2, <2>3 DEF ListedIn
<1> QED BY <1>2, <1>5, <1>6, <1>7 DEF ListOK, r

LEMMA AddList ==
  ASSUME NEW nx, Chain(nx), NEW fr, ListOK(nx, fr), Len(fr) <= CAPACITY,
         NEW b \in DOMAIN nx, b \notin ListedIn(fr)
  PROVE  LET r == add_free_block(nx, fr, b)
         IN /\ ListOK(nx, r) /\ Len(r) <= CAPACITY
            /\ ListedIn(fr) \subseteq ListedIn(r) /\ ListedIn(r) \subseteq ListedIn(fr) \cup {b}
            /\ Len(fr) < CAPACITY => b \in ListedIn(r)
<1> DEFINE i == find_first_gte_free_block(nx, fr, get_block_size(nx, b))
<1>1. get_block_size(nx, b) \in Nat /\ Len(fr) \in Nat
  BY SizeFacts DEF ListOK
<1>2. i \in 0 .. Len(fr) /\ IsFirstGte(SizesOf(nx, fr), get_block_size(nx, b), i)
  BY <1>1, FindFirst
<1> HIDE DEF i
<1>3. /\ ListOK(nx, insert(fr, i, b)) /\ Len(insert(fr, i, b)) = Len(fr) + 1
      /\ ListedIn(insert(fr, i, b)) = ListedIn(fr) \cup {b}
  BY <1>2, InsertList
<1>4. CASE Len(fr) < CAPACITY
  <2>1. add_free_block(nx, fr, b) = insert(fr, i, b)
    BY <1>4 DEF add_free_block, i
  <2>2. Len(fr) + 1 <= CAPACITY
    BY <1>1, <1>4, Layout
  <2> QED BY <1>3, <2>1, <2>2
<1>5. CASE ~(Len(fr) < CAPACITY)
  BY <1>5 DEF add_free_block
<1> QED BY <1>4, <1>5

\* The scan for a listed block finds it.
LEMMA FoundListed ==
  ASSUME NEW nx, Chain(nx), NEW fr, ListOK(nx, fr), NEW b \in ListedIn(fr)
  PROVE  Found(nx, fr, b) # {}
<1> DEFINE f == find_first_gte_free_block(nx, fr, get_block_size(nx, b))
           z == SizesOf(nx, fr)
<1>1. /\ Len(z) = Len(fr) /\ Len(fr) \in Nat /\ z \in Seq(Nat)
      /\ \A k \in 1 .. Len(fr) : z[k] = get_block_size(nx, fr[k]) /\ z[k] \in Nat
      /\ \A j, k \in 1 .. Len(fr) : j <= k => z[j] <= z[k]
  <2>1. fr \in Seq(DOMAIN nx) /\ IsSorted(z)
    BY DEF ListOK
  <2>2. /\ z \in Seq(Nat) /\ Len(z) = Len(fr)
        /\ \A k \in 1 .. Len(fr) : z[k] = get_block_size(nx, fr[k])
    BY <2>1, SizesFacts
  <2> HIDE DEF z
  <2> QED BY <2>1, <2>2 DEF IsSorted
<1>2. PICK k \in 1 .. Len(fr) : fr[k] = b
  BY DEF ListedIn
<1>3. get_block_size(nx, b) = z[k] /\ get_block_size(nx, b) \in Nat
  BY <1>1, <1>2
<1>4. /\ f \in 0 .. Len(fr)
      /\ \A j \in 1 .. Len(fr) : j <= f => z[j] < get_block_size(nx, b)
      /\ \A j \in 1 .. Len(fr) : j > f => z[j] >= get_block_size(nx, b)
  <2>1. f \in 0 .. Len(fr) /\ IsFirstGte(z, get_block_size(nx, b), f)
    BY <1>3, FindFirst
  <2> HIDE DEF f, z
  <2> QED BY <1>1, <2>1 DEF IsFirstGte
<1> HIDE DEF f, z
<1>5. k - 1 \in f .. Len(fr) - 1
  BY <1>1, <1>3, <1>4
<1>6. \A j \in 1 .. k : j > f => get_block_size(nx, fr[j]) = get_block_size(nx, b)
  <2> SUFFICES ASSUME NEW j \in 1 .. k, j > f
               PROVE  get_block_size(nx, fr[j]) = get_block_size(nx, b)
    OBVIOUS
  <2>1. j \in 1 .. Len(fr) /\ j <= k
    BY <1>1
  <2>2. z[j] <= z[k] /\ z[j] >= z[k] /\ z[j] = get_block_size(nx, fr[j]) /\ z[j] \in Nat
    BY <1>1, <1>3, <1>4, <2>1
  <2> QED BY <1>1, <1>3, <2>2
<1>7. k - 1 + 1 = k
  BY <1>1
<1>8. k - 1 \in Found(nx, fr, b)
  BY <1>2, <1>5, <1>6, <1>7 DEF Found, f
<1> QED BY <1>8

LEMMA RemoveFree ==
  ASSUME NEW nx, Chain(nx), NEW fr, ListOK(nx, fr), NEW b \in DOMAIN nx, Found(nx, fr, b) # {}
  PROVE  LET r == remove_free_block(nx, fr, b)
         IN /\ b \in ListedIn(fr) /\ ListOK(nx, r) /\ Len(r) = Len(fr) - 1
            /\ ListedIn(r) = ListedIn(fr) \ {b}
<1>1. Len(fr) \in Nat /\ get_block_size(nx, b) \in Nat
  BY SizeFacts DEF ListOK
<1>2. find_first_gte_free_block(nx, fr, get_block_size(nx, b)) \in 0 .. Len(fr)
  BY <1>1, FindFirst
<1>3. PICK i : i \in Found(nx, fr, b) /\ remove_free_block(nx, fr, b) = remove(fr, i)
  BY DEF remove_free_block
<1>4. i \in 0 .. Len(fr) - 1 /\ fr[i + 1] = b
  BY <1>1, <1>2, <1>3 DEF Found
<1>5. b \in ListedIn(fr)
  <2>1. i + 1 \in 1 .. Len(fr)
    BY <1>1, <1>4
  <2> QED BY <1>4, <2>1 DEF ListedIn
<1> QED BY <1>3, <1>4, <1>5, RemoveList

-----------------------------------------------------------------------------
(* The invariant.                                                          *)

\* The heap with these fields of its headers, this list and these allocations.
HeapOf(nx, pv, us, fr, al, ov) ==
  /\ Chain(nx) /\ ListOK(nx, fr) /\ Len(fr) <= CAPACITY
  /\ DOMAIN pv = DOMAIN nx /\ pv[HEAP_BASE] = nullptr
  /\ us \in [DOMAIN nx -> BOOLEAN]
  /\ \A b \in ListedIn(fr) : ~us[b]
  /\ ~ov => \A b \in DOMAIN nx : ~us[b] => b \in ListedIn(fr)
  /\ DOMAIN al = {b \in DOMAIN nx : us[b]}
  /\ \A b \in DOMAIN al : al[b] \in Nat /\ get_block_size(nx, b) >= al[b]

HeapInv == HeapOf(next, prev, used, freeBlocks, allocated, overflowed)

IInv == /\ phase = "boot" => DOMAIN allocated = {} /\ ~overflowed
        /\ Running => HeapInv

\* What is shown of the new values in the old state holds in the new one.
LEMMA Carry ==
  ASSUME endAddress' = endAddress,
         HeapOf(next', prev', used', freeBlocks', allocated', overflowed')
  PROVE  HeapInv'
<1>1. \A b : get_block_size(next, b)' = get_block_size(next', b)
  BY DEF get_block_size
<1>2. Chain(next)'
  BY DEF HeapOf, Chain
<1>3. ListOK(next, freeBlocks)'
  <2>1. SizesOf(next, freeBlocks)' = SizesOf(next', freeBlocks')
    BY DEF SizesOf, get_block_size
  <2> QED BY <2>1 DEF HeapOf, ListOK
<1> QED BY <1>2, <1>3 DEF HeapInv, HeapOf, get_block_size

LEMMA Padding ==
  ASSUME RequestsFit, NEW t \in Requests, t # 0
  PROVE  paddedSize(t) \in Nat \ {0} /\ paddedSize(t) >= t
<1> DEFINE r == t % ALIGN
<1>1. t \in Nat /\ t + ALIGN <= WORD /\ ALIGN \in Nat \ {0} /\ WORD \in Nat
  BY Layout DEF RequestsFit
<1>2. r \in 0 .. ALIGN - 1
  BY <1>1
<1> HIDE DEF r
<1>3. CASE r = 0
  BY <1>1, <1>3 DEF paddedSize, get_smallest_gte_multiple, r
<1>4. CASE r # 0
  <2>1. PICK a \in Nat : a = t + (ALIGN - r)
    BY <1>1, <1>2
  <2>2. a < WORD /\ a >= t
    BY <1>1, <1>2, <1>4, <2>1
  <2>3. a % WORD = a
    BY <1>1, <2>2
  <2>4. paddedSize(t) = a % WORD
    BY <1>4, <2>1 DEF paddedSize, get_smallest_gte_multiple, r
  <2> QED BY <1>1, <2>2, <2>3, <2>4
<1> QED BY <1>3, <1>4

-----------------------------------------------------------------------------
(* The steps.                                                              *)

LEMMA HeapInit == Init => IInv
BY DEF Init, IInv, Running

LEMMA HeapInitialized ==
  ASSUME IInv, initialize
  PROVE  HeapInv'
<1> DEFINE nx == [b \in {HEAP_BASE} |-> nullptr]
           us == [b \in {HEAP_BASE} |-> FALSE]
           fr == <<HEAP_BASE>>
<1>1. /\ next' = nx /\ prev' = nx /\ used' = us /\ freeBlocks' = fr
      /\ endAddress' \in RegionEnds /\ allocated' = allocated /\ overflowed' = overflowed
      /\ DOMAIN allocated = {}
  BY DEF initialize, IInv
<1>2. DOMAIN nx = {HEAP_BASE} /\ nx[HEAP_BASE] = 0 /\ nx \in [{HEAP_BASE} -> Nat]
  BY Layout
<1>3. Chain(next)'
  <2>1. endAddress' \in Nat /\ HEAP_BASE + HEADER < endAddress'
    BY <1>1, Layout
  <2> HIDE DEF nx
  <2> QED BY <1>1, <1>2, <2>1, Layout DEF Chain
<1>4. fr \in Seq({HEAP_BASE}) /\ Len(fr) = 1 /\ \A k \in 1 .. Len(fr) : fr[k] = HEAP_BASE
  OBVIOUS
<1> HIDE DEF nx, us, fr
<1>5. ListOK(next, freeBlocks)'
  <2>1. IsSorted(SizesOf(next, freeBlocks))'
    <3>1. SizesOf(next, freeBlocks)' = [k \in 1 .. 1 |-> get_block_size(next, HEAP_BASE)']
      BY <1>1, <1>4 DEF SizesOf, get_block_size
    <3>2. get_block_size(next, HEAP_BASE)' \in Nat
      <4>1. endAddress' \in Nat /\ HEAP_BASE + HEADER < endAddress'
        BY <1>1, Layout
      <4>2. get_block_size(next, HEAP_BASE)' = endAddress' - HEAP_BASE - HEADER
        BY <1>1, <1>2, Layout DEF get_block_size
      <4>3. PICK e \in Nat : e = endAddress'
        BY <4>1
      <4>4. HEAP_BASE + HEADER < e
        BY <4>1, <4>3
      <4>5. e - HEAP_BASE - HEADER \in Nat
        BY <4>4, Layout
      <4> QED BY <4>2, <4>3, <4>5
    <3>3. PICK z \in Nat : z = get_block_size(next, HEAP_BASE)'
      BY <3>2
    <3>4. [k \in 1 .. 1 |-> z] \in Seq(Nat) /\ Len([k \in 1 .. 1 |-> z]) = 1
      OBVIOUS
    <3>5. IsSorted([k \in 1 .. 1 |-> z])
      BY <3>4 DEF IsSorted
    <3>6. SizesOf(next, freeBlocks)' = [k \in 1 .. 1 |-> z]
      BY <3>1, <3>3
    <3> QED BY <3>5, <3>6 DEF IsSorted
  <2> QED BY <1>1, <1>2, <1>4, <2>1 DEF ListOK
<1>6. ListedIn(fr) = {HEAP_BASE}
  BY <1>4 DEF ListedIn
<1>7. us \in [DOMAIN nx -> BOOLEAN] /\ ~us[HEAP_BASE]
  BY <1>2 DEF us
<1>8. Len(fr) <= CAPACITY
  BY <1>4, Layout
<1> QED BY <1>1, <1>2, <1>3, <1>5, <1>6, <1>7, <1>8, Layout DEF HeapInv, HeapOf

\* The block malloc takes: a free one with room for what was asked.
LEMMA MallocBlock ==
  ASSUME HeapInv, RequestsFit, NEW t \in Requests, t # 0,
         freeBlockIndex(t) < Len(freeBlocks)
  PROVE  LET b == freeBlocks[freeBlockIndex(t) + 1]
         IN /\ freeBlockIndex(t) \in 0 .. Len(freeBlocks) - 1
            /\ b \in blocks /\ b \in Listed /\ ~used[b]
            /\ paddedSize(t) \in Nat \ {0} /\ paddedSize(t) >= t /\ t \in Nat
            /\ get_block_size(next, b) >= paddedSize(t)
<1> DEFINE i == freeBlockIndex(t)
           b == freeBlocks[i + 1]
           z == SizesOf(next, freeBlocks)
<1>1. /\ Chain(next) /\ ListOK(next, freeBlocks) /\ freeBlocks \in Seq(DOMAIN next)
      /\ \A c \in ListedIn(freeBlocks) : ~used[c]
  BY DEF HeapInv, HeapOf, ListOK
<1>2. paddedSize(t) \in Nat \ {0} /\ paddedSize(t) >= t /\ t \in Nat
  BY Padding, Layout
<1>3. i \in 0 .. Len(freeBlocks) /\ IsFirstGte(z, paddedSize(t), i)
  BY <1>1, <1>2, FindFirst DEF freeBlockIndex
<1>4. /\ Len(z) = Len(freeBlocks) /\ Len(freeBlocks) \in Nat
      /\ \A k \in 1 .. Len(freeBlocks) : freeBlocks[k] \in DOMAIN next
                                         /\ z[k] = get_block_size(next, freeBlocks[k])
  BY <1>1, SizesFacts
<1> HIDE DEF i, z
<1>5. i \in 0 .. Len(freeBlocks) - 1 /\ i + 1 \in 1 .. Len(freeBlocks) /\ i + 1 > i
  BY <1>3, <1>4 DEF i
<1>6. z[i + 1] >= paddedSize(t)
  BY <1>3, <1>4, <1>5 DEF IsFirstGte
<1>7. b \in DOMAIN next /\ b \in ListedIn(freeBlocks) /\ get_block_size(next, b) = z[i + 1]
  BY <1>4, <1>5 DEF ListedIn
<1> QED BY <1>1, <1>2, <1>5, <1>6, <1>7 DEF i, blocks, Listed

LEMMA MallocWhole ==
  ASSUME HeapInv, RequestsFit, NEW t \in Requests, t # 0,
         freeBlockIndex(t) < Len(freeBlocks), NEW b, b = freeBlocks[freeBlockIndex(t) + 1],
         malloc_whole(t, b),
         allocated' = [c \in DOMAIN allocated \cup {b} |-> IF c = b THEN t ELSE allocated[c]],
         overflowed' = overflowed
  PROVE  HeapOf(next', prev', used', freeBlocks', allocated', overflowed')
<1> DEFINE r == remove(freeBlocks, freeBlockIndex(t))
<1>1. /\ freeBlockIndex(t) \in 0 .. Len(freeBlocks) - 1 /\ t \in Nat
      /\ b \in DOMAIN next /\ b \in ListedIn(freeBlocks) /\ ~used[b]
      /\ get_block_size(next, b) \in Nat /\ get_block_size(next, b) >= t
  <2>1. /\ freeBlockIndex(t) \in 0 .. Len(freeBlocks) - 1
        /\ b \in DOMAIN next /\ b \in ListedIn(freeBlocks) /\ ~used[b]
        /\ paddedSize(t) \in Nat \ {0} /\ paddedSize(t) >= t /\ t \in Nat
        /\ get_block_size(next, b) >= paddedSize(t)
    BY MallocBlock DEF blocks, Listed
  <2>2. get_block_size(next, b) \in Nat
    BY <2>1, SizeFacts DEF HeapInv, HeapOf
  <2> QED BY <2>1, <2>2
<1>2. /\ Chain(next) /\ ListOK(next, freeBlocks) /\ Len(freeBlocks) <= CAPACITY
      /\ DOMAIN prev = DOMAIN next /\ prev[HEAP_BASE] = nullptr
      /\ used \in [DOMAIN next -> BOOLEAN]
      /\ \A c \in ListedIn(freeBlocks) : ~used[c]
      /\ ~overflowed => \A c \in DOMAIN next : ~used[c] => c \in ListedIn(freeBlocks)
      /\ DOMAIN allocated = {c \in DOMAIN next : used[c]}
      /\ \A c \in DOMAIN allocated :
           allocated[c] \in Nat /\ get_block_size(next, c) >= allocated[c]
  BY DEF HeapInv, HeapOf
<1>3. /\ ListOK(next, r) /\ Len(r) = Len(freeBlocks) - 1
      /\ ListedIn(r) = ListedIn(freeBlocks) \ {b}
  BY <1>1, <1>2, RemoveList
<1>4. /\ used' = [used EXCEPT ![b] = TRUE] /\ freeBlocks' = r
      /\ next' = next /\ prev' = prev
  BY DEF malloc_whole
<1> HIDE DEF r
<1>5. used' \in [DOMAIN next -> BOOLEAN] /\ used'[b] = TRUE
      /\ \A c \in DOMAIN next \ {b} : used'[c] = used[c]
  BY <1>1, <1>2, <1>4
<1>6. Len(r) <= CAPACITY
  <2>1. Len(freeBlocks) \in Nat
    BY <1>2 DEF ListOK
  <2> QED BY <1>2, <1>3, <2>1, Layout
<1>7. \A c \in ListedIn(r) : c \in DOMAIN next
  <2>1. \A k \in 1 .. Len(r) : r[k] \in DOMAIN next
    BY <1>3 DEF ListOK
  <2> QED BY <2>1 DEF ListedIn
<1>8. \A c \in ListedIn(r) : ~used'[c]
  BY <1>2, <1>3, <1>5, <1>7
<1>9. ~overflowed' => \A c \in DOMAIN next : ~used'[c] => c \in ListedIn(r)
  BY <1>2, <1>3, <1>5
<1>10. DOMAIN allocated' = {c \in DOMAIN next : used'[c]}
  BY <1>1, <1>2, <1>5
<1>11. \A c \in DOMAIN allocated' :
         allocated'[c] \in Nat /\ get_block_size(next, c) >= allocated'[c]
  BY <1>1, <1>2
<1> QED BY <1>2, <1>3, <1>4, <1>5, <1>6, <1>8, <1>9, <1>10, <1>11 DEF HeapOf

LEMMA MallocSplits ==
  ASSUME HeapInv, RequestsFit, NEW t \in Requests, t # 0,
         freeBlockIndex(t) < Len(freeBlocks), NEW b, b = freeBlocks[freeBlockIndex(t) + 1],
         SplitsBlock(b, t), malloc_split(t, b)
  PROVE  IsSplit(next, b, paddedSize(t), split_address(b, t), next')
<1>1. PICK size \in Nat \ {0} : size = paddedSize(t)
  BY Padding
<1>2. Chain(next) /\ b \in DOMAIN next
  BY MallocBlock DEF HeapInv, HeapOf, blocks
<1>3. PICK s : s = split_address(b, t)
  OBVIOUS
<1>4. s = b + HEADER + size /\ get_block_size(next, b) - size > HEADER
  BY <1>1, <1>3 DEF split_address, SplitsBlock
<1>5. next' = SplitNext(next, b, s)
  BY <1>3 DEF malloc_split, blocks, SplitNext
<1>6. PICK n : n = SplitNext(next, b, s)
  OBVIOUS
<1>7. IsSplit(next, b, size, s, n)
  BY <1>2, <1>4, <1>6, SplitChain
<1> QED BY <1>1, <1>3, <1>5, <1>6, <1>7

LEMMA MallocSplit ==
  ASSUME HeapInv, RequestsFit, NEW t \in Requests, t # 0,
         freeBlockIndex(t) < Len(freeBlocks), NEW b, b = freeBlocks[freeBlockIndex(t) + 1],
         SplitsBlock(b, t), malloc_split(t, b),
         allocated' = [c \in DOMAIN allocated \cup {b} |-> IF c = b THEN t ELSE allocated[c]],
         overflowed' = overflowed
  PROVE  HeapOf(next', prev', used', freeBlocks', allocated', overflowed')
<1> DEFINE r == remove(freeBlocks, freeBlockIndex(t))
           s == split_address(b, t)
           n1 == SplitNext(next, b, s)
           q == add_free_block(n1, r, s)
<1>1. /\ freeBlockIndex(t) \in 0 .. Len(freeBlocks) - 1 /\ t \in Nat
      /\ b \in DOMAIN next /\ b \in ListedIn(freeBlocks) /\ ~used[b]
      /\ paddedSize(t) \in Nat \ {0} /\ paddedSize(t) >= t
  BY MallocBlock DEF blocks, Listed
<1>2. /\ Chain(next) /\ ListOK(next, freeBlocks) /\ Len(freeBlocks) <= CAPACITY
      /\ DOMAIN prev = DOMAIN next /\ prev[HEAP_BASE] = nullptr
      /\ used \in [DOMAIN next -> BOOLEAN]
      /\ \A c \in ListedIn(freeBlocks) : ~used[c]
      /\ ~overflowed => \A c \in DOMAIN next : ~used[c] => c \in ListedIn(freeBlocks)
      /\ DOMAIN allocated = {c \in DOMAIN next : used[c]}
      /\ \A c \in DOMAIN allocated :
           allocated[c] \in Nat /\ get_block_size(next, c) >= allocated[c]
  BY DEF HeapInv, HeapOf
<1>3. /\ ListOK(next, r) /\ Len(r) = Len(freeBlocks) - 1
      /\ ListedIn(r) = ListedIn(freeBlocks) \ {b}
  BY <1>1, <1>2, RemoveList
<1>4. s = b + HEADER + paddedSize(t) /\ get_block_size(next, b) - paddedSize(t) > HEADER
  BY DEF split_address, SplitsBlock
<1>5. /\ next' = n1 /\ freeBlocks' = q
      /\ prev' = [c \in DOMAIN next \cup {s} |-> IF c = s THEN b ELSE prev[c]]
      /\ used' = [c \in DOMAIN next \cup {s} |->
                    IF c = b THEN TRUE ELSE IF c = s THEN FALSE ELSE used[c]]
  BY DEF malloc_split, blocks, SplitNext
<1> HIDE DEF r, s
<1>6. /\ Chain(n1) /\ DOMAIN n1 = DOMAIN next \cup {s}
      /\ s \notin DOMAIN next /\ s # b
      /\ get_block_size(n1, b) = paddedSize(t)
      /\ \A c \in DOMAIN next \ {b} : get_block_size(n1, c) = get_block_size(next, c)
  <2>1. IsSplit(next, b, paddedSize(t), s, n1)
    <3>1. IsSplit(next, b, paddedSize(t), s, next')
      BY MallocSplits DEF s
    <3> HIDE DEF n1
    <3> QED BY <1>5, <3>1
  <2> HIDE DEF n1
  <2> QED BY <2>1 DEF IsSplit
<1> HIDE DEF n1, q
<1>7. /\ \A c \in ListedIn(r) : c \in DOMAIN next /\ c # b
      /\ \A c \in ListedIn(freeBlocks) : c \in DOMAIN next
  <2>1. \A k \in 1 .. Len(freeBlocks) : freeBlocks[k] \in DOMAIN next
    BY <1>2 DEF ListOK
  <2> QED BY <1>3, <2>1 DEF ListedIn
<1>8. ListOK(n1, r)
  <2>1. \A c \in ListedIn(r) : c \in DOMAIN n1 /\ get_block_size(n1, c) = get_block_size(next, c)
    BY <1>6, <1>7
  <2> QED BY <1>2, <1>3, <1>6, <2>1, ListStays
<1>9. Len(r) < CAPACITY /\ Len(r) <= CAPACITY
  <2>1. Len(freeBlocks) \in Nat
    BY <1>2 DEF ListOK
  <2> QED BY <1>2, <1>3, <2>1, Layout
<1>10. /\ ListOK(n1, q) /\ Len(q) <= CAPACITY
       /\ ListedIn(q) = ListedIn(r) \cup {s}
  <2>1. s \in DOMAIN n1 /\ s \notin ListedIn(r)
    BY <1>6, <1>7
  <2> QED BY <1>6, <1>8, <1>9, <2>1, AddList DEF q
<1>11. DOMAIN prev' = DOMAIN n1 /\ prev'[HEAP_BASE] = nullptr
  <2>1. HEAP_BASE \in DOMAIN next
    BY <1>2 DEF Chain
  <2> QED BY <1>2, <1>5, <1>6, <2>1
<1>12. /\ used' \in [DOMAIN n1 -> BOOLEAN] /\ used'[b] = TRUE /\ used'[s] = FALSE
       /\ \A c \in DOMAIN next \ {b} : used'[c] = used[c]
  BY <1>1, <1>2, <1>5, <1>6
<1>13. \A c \in ListedIn(q) : ~used'[c]
  BY <1>2, <1>3, <1>7, <1>10, <1>12
<1>14. ~overflowed' => \A c \in DOMAIN n1 : ~used'[c] => c \in ListedIn(q)
  BY <1>2, <1>3, <1>6, <1>10, <1>12
<1>15. DOMAIN allocated' = {c \in DOMAIN n1 : used'[c]}
  BY <1>1, <1>2, <1>6, <1>12
<1>16. \A c \in DOMAIN allocated' :
         allocated'[c] \in Nat /\ get_block_size(n1, c) >= allocated'[c]
  BY <1>1, <1>2, <1>6
<1> QED BY <1>5, <1>6, <1>10, <1>11, <1>12, <1>13, <1>14, <1>15, <1>16 DEF HeapOf

\* The heap behind the first half of free, in which the next block was
\* swallowed if it was unused; node is still in use.
HalfFreed(node, nx, pv, fr) ==
  /\ Chain(nx) /\ DOMAIN nx \subseteq DOMAIN next
  /\ \A c \in DOMAIN next : used[c] \/ c < node => c \in DOMAIN nx
  /\ \A c \in DOMAIN nx \ {node} : nx[c] = next[c]
  /\ \A c \in DOMAIN nx : get_block_size(nx, c) >= get_block_size(next, c)
  /\ ListOK(nx, fr) /\ Len(fr) <= Len(freeBlocks)
  /\ ListedIn(fr) = ListedIn(freeBlocks) \cap DOMAIN nx
  /\ DOMAIN pv = DOMAIN nx /\ pv[HEAP_BASE] = nullptr

LEMMA InListed ==
  ASSUME NEW nx, NEW fr, ListOK(nx, fr)
  PROVE  ListedIn(fr) \subseteq DOMAIN nx /\ Len(fr) \in Nat
<1>1. \A k \in 1 .. Len(fr) : fr[k] \in DOMAIN nx
  BY DEF ListOK
<1> QED BY <1>1 DEF ListedIn, ListOK

LEMMA AfterNext ==
  ASSUME HeapInv, NEW node \in DOMAIN next, used[node], NextRemovable(node)
  PROVE  HalfFreed(node, next_AfterNext(node), prev_AfterNext(node), free_AfterNext(node))
<1>1. /\ Chain(next) /\ ListOK(next, freeBlocks) /\ Len(freeBlocks) \in Nat
      /\ ListedIn(freeBlocks) \subseteq DOMAIN next
      /\ DOMAIN prev = DOMAIN next /\ prev[HEAP_BASE] = nullptr
      /\ \A c \in ListedIn(freeBlocks) : ~used[c]
  BY InListed DEF HeapInv, HeapOf
<1>2. CASE ~MergesNext(node)
  <2>1. /\ next_AfterNext(node) = next /\ prev_AfterNext(node) = prev
        /\ free_AfterNext(node) = freeBlocks
    BY <1>2 DEF next_AfterNext, prev_AfterNext, free_AfterNext
  <2>2. \A c \in DOMAIN next : get_block_size(next, c) \in Nat
    BY <1>1, SizeFacts
  <2> QED BY <1>1, <2>1, <2>2 DEF HalfFreed
<1>3. CASE MergesNext(node)
  <2> DEFINE b == next[node]
             n1 == absorb_next(next, node, b)
             p1 == absorb_prev(next, prev, node, b)
             r == remove_free_block(next, freeBlocks, b)
  <2>1. /\ next_AfterNext(node) = n1 /\ prev_AfterNext(node) = p1 /\ free_AfterNext(node) = r
        /\ b # nullptr /\ ~used[b] /\ Found(next, freeBlocks, b) # {}
    BY <1>3 DEF next_AfterNext, prev_AfterNext, free_AfterNext, MergesNext, NextRemovable
  <2>2. /\ Chain(n1) /\ DOMAIN n1 = DOMAIN next \ {b} /\ b \in DOMAIN next /\ node < b
        /\ \A c \in DOMAIN next \ {node, b} : n1[c] = next[c]
        /\ \A c \in DOMAIN next \ {node, b} : get_block_size(n1, c) = get_block_size(next, c)
        /\ get_block_size(n1, node) >= get_block_size(next, node)
    <3>1. IsAbsorbed(next, node, b, n1)
      BY <1>1, <2>1, AbsorbChain
    <3> QED BY <3>1 DEF IsAbsorbed
  <2>3. /\ ListOK(next, r) /\ Len(r) = Len(freeBlocks) - 1
        /\ ListedIn(r) = ListedIn(freeBlocks) \ {b}
    BY <1>1, <2>1, <2>2, RemoveFree
  <2>4. DOMAIN p1 = DOMAIN next \ {b} /\ \A c \in DOMAIN p1 : c # next[b] => p1[c] = prev[c]
    BY <1>1 DEF absorb_prev
  <2> HIDE DEF b, n1, p1, r
  <2>5. ListOK(n1, r)
    <3>1. \A c \in ListedIn(r) : c \in DOMAIN n1 /\ get_block_size(n1, c) = get_block_size(next, c)
      BY <1>1, <2>2, <2>3
    <3> QED BY <1>1, <2>2, <2>3, <3>1, ListStays
  <2>6. HEAP_BASE \in DOMAIN n1 /\ HEAP_BASE # next[b]
    <3>1. HEAP_BASE \in DOMAIN n1
      BY <2>2 DEF Chain
    <3>2. b \in Nat /\ HEAP_BASE <= b /\ b # nullptr
      BY <1>1, <2>2 DEF Chain, nullptr
    <3>3. CASE next[b] = nullptr
      BY <3>1, <3>3, Layout
    <3>4. CASE next[b] # nullptr
      <4>1. b + HEADER < next[b] /\ next[b] \in Nat
        BY <1>1, <2>2, <3>4 DEF Chain
      <4> QED BY <3>1, <3>2, <4>1, Layout
    <3> QED BY <3>1, <3>3, <3>4
  <2>7. \A c \in DOMAIN n1 : get_block_size(n1, c) >= get_block_size(next, c)
    <3>1. \A c \in DOMAIN next : get_block_size(next, c) \in Nat
      BY <1>1, SizeFacts
    <3> QED BY <2>2, <3>1
  <2>8. ListedIn(r) = ListedIn(freeBlocks) \cap DOMAIN n1
    BY <1>1, <2>2, <2>3
  <2>9. \A c \in DOMAIN next : used[c] \/ c < node => c \in DOMAIN n1
    <3>1. \A c \in DOMAIN next : c \in Nat
      BY <1>1 DEF Chain
    <3> QED BY <2>1, <2>2, <3>1
  <2>10. Len(r) <= Len(freeBlocks)
    BY <1>1, <2>3
  <2>11. \A c \in DOMAIN n1 \ {node} : n1[c] = next[c]
    BY <2>2
  <2>12. DOMAIN p1 = DOMAIN n1 /\ p1[HEAP_BASE] = nullptr
    BY <1>1, <2>2, <2>4, <2>6
  <2> QED BY <2>1, <2>2, <2>5, <2>7, <2>8, <2>9, <2>10, <2>11, <2>12 DEF HalfFreed
<1> QED BY <1>2, <1>3

\* Blocks are lost from the list only when it is full, and then overflowed says so.
LEMMA FreeAlone ==
  ASSUME HeapInv, NEW node \in DOMAIN next, used[node], kfree_alone(node),
         allocated' = [c \in DOMAIN allocated \ {node} |-> allocated[c]],
         overflowed' = \/ overflowed
                       \/ /\ Len(freeBlocks) = CAPACITY
                          /\ \E b \in DOMAIN next' : ~used'[b] /\ b \notin ListedIn(freeBlocks')
  PROVE  HeapOf(next', prev', used', freeBlocks', allocated', overflowed')
<1> DEFINE nx == next_AfterNext(node)
           pv == prev_AfterNext(node)
           fr == free_AfterNext(node)
           q == add_free_block(nx, fr, node)
<1>1. /\ Len(freeBlocks) <= CAPACITY /\ Len(freeBlocks) \in Nat
      /\ used \in [DOMAIN next -> BOOLEAN]
      /\ \A c \in ListedIn(freeBlocks) : ~used[c]
      /\ ~overflowed => \A c \in DOMAIN next : ~used[c] => c \in ListedIn(freeBlocks)
      /\ DOMAIN allocated = {c \in DOMAIN next : used[c]}
      /\ \A c \in DOMAIN allocated :
           allocated[c] \in Nat /\ get_block_size(next, c) >= allocated[c]
  BY InListed DEF HeapInv, HeapOf
<1>2. HalfFreed(node, nx, pv, fr)
  BY AfterNext DEF kfree_alone
<1>3. /\ next' = nx /\ prev' = pv /\ freeBlocks' = q
      /\ used' = [c \in DOMAIN nx |-> IF c = node THEN FALSE ELSE used[c]]
  BY DEF kfree_alone
<1> HIDE DEF nx, pv, fr, q
<1>4. /\ Chain(nx) /\ DOMAIN nx \subseteq DOMAIN next /\ node \in DOMAIN nx
      /\ \A c \in DOMAIN next : used[c] => c \in DOMAIN nx
      /\ \A c \in DOMAIN nx : get_block_size(nx, c) >= get_block_size(next, c)
      /\ ListOK(nx, fr) /\ Len(fr) <= Len(freeBlocks) /\ Len(fr) \in Nat
      /\ ListedIn(fr) = ListedIn(freeBlocks) \cap DOMAIN nx
      /\ DOMAIN pv = DOMAIN nx /\ pv[HEAP_BASE] = nullptr
  BY <1>2, InListed DEF HalfFreed
<1>5. node \notin ListedIn(fr) /\ Len(fr) <= CAPACITY
  BY <1>1, <1>4, Layout
<1>6. /\ ListOK(nx, q) /\ Len(q) <= CAPACITY
      /\ ListedIn(fr) \subseteq ListedIn(q) /\ ListedIn(q) \subseteq ListedIn(fr) \cup {node}
      /\ Len(fr) < CAPACITY => node \in ListedIn(q)
  BY <1>4, <1>5, AddList DEF q
<1>7. used' \in [DOMAIN nx -> BOOLEAN] /\ ~used'[node]
      /\ \A c \in DOMAIN nx \ {node} : used'[c] = used[c]
  BY <1>1, <1>3, <1>4
<1>8. \A c \in ListedIn(q) : ~used'[c]
  BY <1>1, <1>4, <1>6, <1>7
<1>9. ~overflowed' => \A c \in DOMAIN nx : ~used'[c] => c \in ListedIn(q)
  <2>1. CASE Len(freeBlocks) = CAPACITY
    BY <1>3, <2>1
  <2>2. CASE Len(freeBlocks) < CAPACITY
    <3>1. node \in ListedIn(q)
      BY <1>1, <1>4, <1>6, <2>2, Layout
    <3> QED BY <1>1, <1>4, <1>6, <1>7, <3>1
  <2> QED BY <1>1, <2>1, <2>2, Layout
<1>10. DOMAIN allocated' = {c \in DOMAIN nx : used'[c]}
  BY <1>1, <1>4, <1>7
<1>11. \A c \in DOMAIN allocated' :
         allocated'[c] \in Nat /\ get_block_size(nx, c) >= allocated'[c]
  <2> SUFFICES ASSUME NEW c \in DOMAIN allocated'
               PROVE  allocated'[c] \in Nat /\ get_block_size(nx, c) >= allocated'[c]
    OBVIOUS
  <2>1. c \in DOMAIN next /\ c \in DOMAIN nx /\ allocated'[c] = allocated[c] /\ c \in DOMAIN allocated
    BY <1>1, <1>4
  <2>2. get_block_size(nx, c) \in Nat /\ get_block_size(next, c) \in Nat
    BY <1>4, <2>1, SizeFacts DEF HeapInv, HeapOf
  <2> QED BY <1>1, <1>4, <2>1, <2>2
<1> QED BY <1>3, <1>4, <1>6, <1>7, <1>8, <1>9, <1>10, <1>11 DEF HeapOf

LEMMA BlockBefore ==
  ASSUME NEW node, NEW nx, NEW pv, NEW fr, HalfFreed(node, nx, pv, fr), Chain(next),
         node \in DOMAIN next, NEW p \in DOMAIN next, next[p] = node
  PROVE  node # nullptr /\ p # node /\ p \in DOMAIN nx /\ nx[p] = node
<1>1. node # nullptr
  BY SizeFacts DEF nullptr
<1>2. p + HEADER < node /\ p \in Nat /\ node \in Nat
  BY <1>1 DEF Chain
<1>3. p < node
  BY <1>2, Layout
<1> QED BY <1>1, <1>2, <1>3 DEF HalfFreed

LEMMA FreeIntoPrev ==
  ASSUME HeapInv, NEW node \in DOMAIN next, used[node], kfree_into_prev(node),
         phase = "running", phase' = "running",
         allocated' = [c \in DOMAIN allocated \ {node} |-> allocated[c]],
         overflowed' = \/ overflowed
                       \/ /\ Len(freeBlocks) = CAPACITY
                          /\ \E b \in DOMAIN next' : ~used'[b] /\ b \notin ListedIn(freeBlocks')
  PROVE  HeapOf(next', prev', used', freeBlocks', allocated', overflowed')
<1> DEFINE p == prev[node]
           nx == next_AfterNext(node)
           pv == prev_AfterNext(node)
           fr == free_AfterNext(node)
           n2 == absorb_next(nx, p, node)
           p2 == absorb_prev(nx, pv, p, node)
           r == remove_free_block(nx, fr, p)
           q == add_free_block(n2, r, p)
<1>1. /\ Len(freeBlocks) <= CAPACITY /\ Len(freeBlocks) \in Nat /\ Chain(next)
      /\ used \in [DOMAIN next -> BOOLEAN]
      /\ \A c \in ListedIn(freeBlocks) : ~used[c]
      /\ ~overflowed => \A c \in DOMAIN next : ~used[c] => c \in ListedIn(freeBlocks)
      /\ DOMAIN allocated = {c \in DOMAIN next : used[c]}
      /\ \A c \in DOMAIN allocated :
           allocated[c] \in Nat /\ get_block_size(next, c) >= allocated[c]
  BY InListed DEF HeapInv, HeapOf
<1>2. HalfFreed(node, nx, pv, fr)
  BY AfterNext DEF kfree_into_prev
<1>3. /\ next' = n2 /\ prev' = p2 /\ freeBlocks' = q
      /\ used' = [c \in DOMAIN n2 |-> used[c]]
      /\ p # nullptr /\ p \in DOMAIN next /\ ~used[p] /\ Found(nx, fr, p) # {}
  BY DEF kfree_into_prev, blocks
<1>4. next[p] = node
  BY DEF kfree_into_prev
<1> HIDE DEF nx, pv, fr
<1>5. /\ Chain(nx) /\ DOMAIN nx \subseteq DOMAIN next /\ node \in DOMAIN nx
      /\ \A c \in DOMAIN next : used[c] => c \in DOMAIN nx
      /\ \A c \in DOMAIN nx \ {node} : nx[c] = next[c]
      /\ \A c \in DOMAIN nx : get_block_size(nx, c) >= get_block_size(next, c)
      /\ ListOK(nx, fr) /\ Len(fr) <= Len(freeBlocks) /\ Len(fr) \in Nat
      /\ ListedIn(fr) = ListedIn(freeBlocks) \cap DOMAIN nx
      /\ DOMAIN pv = DOMAIN nx /\ pv[HEAP_BASE] = nullptr
  BY <1>2, InListed DEF HalfFreed
<1> HIDE DEF p, n2, p2, r, q
<1>6. node # nullptr /\ p # node /\ p \in DOMAIN nx /\ nx[p] = node
  BY <1>1, <1>2, <1>3, <1>4, BlockBefore
<1>9. /\ Chain(n2) /\ DOMAIN n2 = DOMAIN nx \ {node}
      /\ \A c \in DOMAIN nx \ {p, node} : get_block_size(n2, c) = get_block_size(nx, c)
  <2>1. IsAbsorbed(nx, p, node, n2)
    BY <1>5, <1>6, AbsorbChain DEF n2
  <2> QED BY <2>1 DEF IsAbsorbed
<1>10. /\ p \in ListedIn(fr) /\ ListOK(nx, r) /\ Len(r) = Len(fr) - 1
       /\ ListedIn(r) = ListedIn(fr) \ {p}
  BY <1>3, <1>5, <1>6, RemoveFree DEF r
<1>11. node \notin ListedIn(fr)
  BY <1>1, <1>5
<1>12. ListOK(n2, r)
  <2>1. \A c \in ListedIn(r) : c \in DOMAIN n2 /\ get_block_size(n2, c) = get_block_size(nx, c)
    BY <1>5, <1>9, <1>10, <1>11
  <2> QED BY <1>5, <1>9, <1>10, <2>1, ListStays
<1>13. Len(r) < CAPACITY /\ Len(r) <= CAPACITY
  BY <1>1, <1>5, <1>10, Layout
<1>14. /\ ListOK(n2, q) /\ Len(q) <= CAPACITY /\ ListedIn(q) = ListedIn(r) \cup {p}
  <2>1. p \in DOMAIN n2 /\ p \notin ListedIn(r)
    BY <1>6, <1>9, <1>10
  <2> QED BY <1>9, <1>12, <1>13, <2>1, AddList DEF q
<1>15. DOMAIN p2 = DOMAIN n2 /\ p2[HEAP_BASE] = nullptr
  <2>1. DOMAIN p2 = DOMAIN nx \ {node} /\ \A c \in DOMAIN p2 : c # nx[node] => p2[c] = pv[c]
    BY <1>5 DEF p2, absorb_prev
  <2>2. HEAP_BASE \in DOMAIN n2
    BY <1>9 DEF Chain
  <2>3. HEAP_BASE # nx[node]
    <3>1. CASE nx[node] = nullptr
      BY <3>1, Layout
    <3>2. CASE nx[node] # nullptr
      <4>1. node + HEADER < nx[node] /\ nx[node] \in Nat /\ node \in Nat /\ HEAP_BASE <= node
        BY <1>5, <3>2 DEF Chain
      <4> QED BY <4>1, Layout
    <3> QED BY <3>1, <3>2
  <2> QED BY <1>5, <1>9, <2>1, <2>2, <2>3
<1>16. used' \in [DOMAIN n2 -> BOOLEAN] /\ \A c \in DOMAIN n2 : used'[c] = used[c]
  BY <1>1, <1>3, <1>5, <1>9
<1>17. \A c \in ListedIn(q) : ~used'[c]
  <2>1. \A c \in ListedIn(q) : c \in DOMAIN n2 /\ ~used[c]
    BY <1>1, <1>3, <1>5, <1>6, <1>9, <1>10, <1>11, <1>14
  <2> QED BY <1>16, <2>1
<1>18. ~overflowed' => \A c \in DOMAIN n2 : ~used'[c] => c \in ListedIn(q)
  <2>1. ~overflowed' => ~overflowed
    OBVIOUS
  <2> QED BY <1>1, <1>5, <1>9, <1>10, <1>14, <1>16, <2>1
<1>19. DOMAIN allocated' = {c \in DOMAIN n2 : used'[c]}
  BY <1>1, <1>5, <1>9, <1>16
<1>20. \A c \in DOMAIN allocated' :
         allocated'[c] \in Nat /\ get_block_size(n2, c) >= allocated'[c]
  <2> SUFFICES ASSUME NEW c \in DOMAIN allocated'
               PROVE  allocated'[c] \in Nat /\ get_block_size(n2, c) >= allocated'[c]
    OBVIOUS
  <2>1. /\ c \in DOMAIN next /\ c \in DOMAIN nx /\ c \in DOMAIN allocated /\ c # p /\ c # node
        /\ allocated'[c] = allocated[c]
    BY <1>1, <1>3, <1>5
  <2>2. get_block_size(nx, c) \in Nat /\ get_block_size(next, c) \in Nat
    BY <1>1, <1>5, <2>1, SizeFacts
  <2> QED BY <1>1, <1>5, <1>9, <2>1, <2>2
<1> QED BY <1>3, <1>9, <1>14, <1>15, <1>16, <1>17, <1>18, <1>19, <1>20 DEF HeapOf

LEMMA HeapStep == RequestsFit /\ IInv /\ [Next]_vars => IInv'
<1> SUFFICES ASSUME RequestsFit, IInv, [Next]_vars PROVE IInv'
  OBVIOUS
<1>1. CASE initialize
  <2>1. phase' = "running"
    BY <1>1 DEF initialize
  <2> QED BY <1>1, <2>1, HeapInitialized DEF IInv
<1>2. ASSUME NEW t \in Requests, kmalloc(t) PROVE IInv'
  <2> DEFINE b == freeBlocks[freeBlockIndex(t) + 1]
  <2>1. /\ phase = "running" /\ phase' = "running" /\ HeapInv
        /\ t # 0 /\ freeBlockIndex(t) < Len(freeBlocks)
        /\ endAddress' = endAddress /\ overflowed' = overflowed
        /\ allocated' = [c \in DOMAIN allocated \cup {b} |-> IF c = b THEN t ELSE allocated[c]]
        /\ SplitsBlock(b, t) => malloc_split(t, b)
        /\ ~SplitsBlock(b, t) => malloc_whole(t, b)
    BY <1>2 DEF kmalloc, IInv, Running
  <2> HIDE DEF b
  <2>2. HeapOf(next', prev', used', freeBlocks', allocated', overflowed')
    <3>1. CASE SplitsBlock(b, t)
      BY <2>1, <3>1, MallocSplit DEF b
    <3>2. CASE ~SplitsBlock(b, t)
      BY <2>1, <3>2, MallocWhole DEF b
    <3> QED BY <3>1, <3>2
  <2>3. HeapInv'
    BY <2>1, <2>2, Carry
  <2> QED BY <2>1, <2>3 DEF IInv
<1>3. ASSUME NEW node \in blocks, kfree(node) PROVE IInv'
  <2>1. /\ phase = "running" /\ HeapInv /\ used[node] /\ endAddress' = endAddress
        /\ phase' \in {"running", "overlapping"}
    BY <1>3 DEF kfree, IInv, Running, kfree_alone, kfree_into_prev
  <2>2. CASE phase' # "running"
    BY <2>1, <2>2 DEF IInv, Running
  <2>3. CASE phase' = "running"
    <3>1. HeapOf(next', prev', used', freeBlocks', allocated', overflowed')
      <4>1. CASE kfree_alone(node)
        BY <1>3, <2>1, <4>1, FreeAlone DEF kfree, blocks
      <4>2. CASE kfree_into_prev(node)
        BY <1>3, <2>1, <2>3, <4>2, FreeIntoPrev DEF kfree, blocks
      <4> QED BY <1>3, <4>1, <4>2 DEF kfree
    <3>2. HeapInv'
      BY <2>1, <3>1, Carry
    <3> QED BY <2>3, <3>2 DEF IInv
  <2> QED BY <2>2, <2>3
<1>4. CASE \/ initialize_fails
           \/ \E t \in Requests : kmalloc_fails(t)
           \/ \E node \in blocks : kfree_fails(node)
  <2>1. phase' = "stopped"
    BY <1>4 DEF initialize_fails, kmalloc_fails, kfree_fails
  <2> QED BY <2>1 DEF IInv, Running
<1>5. CASE UNCHANGED vars
  <2>1. /\ phase' = phase /\ endAddress' = endAddress /\ allocated' = allocated
        /\ overflowed' = overflowed /\ next' = next /\ prev' = prev /\ used' = used
        /\ freeBlocks' = freeBlocks
    BY <1>5 DEF vars
  <2>2. CASE Running
    <3>1. HeapOf(next', prev', used', freeBlocks', allocated', overflowed')
      BY <2>1, <2>2 DEF IInv, HeapInv
    <3>2. HeapInv'
      BY <2>1, <3>1, Carry
    <3> QED BY <2>1, <2>2, <3>2 DEF IInv, Running
  <2>3. CASE ~Running
    BY <2>1, <2>3 DEF IInv, Running
  <2> QED BY <2>2, <2>3
<1> QED BY <1>1, <1>2, <1>3, <1>4, <1>5 DEF Next

LEMMA HeapInvariance == ASSUME RequestsFit PROVE Spec => []IInv
BY HeapInit, HeapStep, PTL DEF Spec

\* The headers tile the memory region whatever is allocated and freed, and
\* whatever the sizes of the heap, of the headers and of the list.
THEOREM HeapStaysTiled == ASSUME RequestsFit PROVE Spec => []HeapTiled
<1>1. IInv => HeapTiled
  BY DEF IInv, HeapInv, HeapOf, Chain, HeapTiled, blocks
<1> QED BY <1>1, HeapInvariance, PTL

LEMMA ListCardinality ==
  ASSUME NEW nx, NEW fr, ListOK(nx, fr)
  PROVE  Cardinality(ListedIn(fr)) = Len(fr)
<1>1. /\ fr \in [1 .. Len(fr) -> DOMAIN nx] /\ Len(fr) \in Nat
      /\ \A j, k \in 1 .. Len(fr) : fr[j] = fr[k] => j = k
  BY DEF ListOK
<1>2. fr \in [1 .. Len(fr) -> ListedIn(fr)]
  BY <1>1 DEF ListedIn
<1>3. fr \in Bijection(1 .. Len(fr), ListedIn(fr))
  BY <1>1, <1>2 DEF Bijection, Injection, Surjection, IsInjective, ListedIn
<1>4. ExistsBijection(1 .. Len(fr), ListedIn(fr))
  BY <1>3 DEF ExistsBijection
<1> QED BY <1>1, <1>4, FS_CountingElements

\* The list holds unused blocks, each once, and all of them until it overflowed.
THEOREM FreeListStaysExact == ASSUME RequestsFit PROVE Spec => []FreeListExact
<1>1. IInv => FreeListExact
  <2> SUFFICES ASSUME IInv, Running PROVE FreeListExact
    BY DEF FreeListExact
  <2>1. /\ ListOK(next, freeBlocks)
        /\ \A b \in ListedIn(freeBlocks) : ~used[b]
        /\ ~overflowed => \A b \in DOMAIN next : ~used[b] => b \in ListedIn(freeBlocks)
    BY DEF IInv, HeapInv, HeapOf
  <2>2. ListedIn(freeBlocks) \subseteq DOMAIN next
    BY <2>1, InListed
  <2>3. Cardinality(ListedIn(freeBlocks)) = Len(freeBlocks)
    BY <2>1, ListCardinality
  <2> QED BY <2>1, <2>2, <2>3 DEF FreeListExact, Listed, blocks
<1> QED BY <1>1, HeapInvariance, PTL

\* The list stays in the order of the sizes, which every bisection relies on.
THEOREM FreeListStaysSorted == ASSUME RequestsFit PROVE Spec => []FreeListSorted
<1>1. IInv => FreeListSorted
  BY DEF IInv, HeapInv, HeapOf, ListOK, FreeListSorted
<1> QED BY <1>1, HeapInvariance, PTL

\* Every block in use has room for what was asked of kmalloc.
THEOREM AllocationsAlwaysFit == ASSUME RequestsFit PROVE Spec => []AllocationsFit
<1>1. IInv => AllocationsFit
  BY DEF IInv, HeapInv, HeapOf, AllocationsFit, blocks
<1> QED BY <1>1, HeapInvariance, PTL

-----------------------------------------------------------------------------
(* Links back.                                                             *)

\* As long as no link is stale, prev leads to the block before.
LEMMA Predecessor ==
  ASSUME HeapInv, LinksConsistent, NEW node \in DOMAIN next, prev[node] # nullptr
  PROVE  /\ prev[node] \in DOMAIN next /\ next[prev[node]] = node
         /\ prev[node] < node /\ prev[node] # node
<1>1. node # HEAP_BASE /\ Chain(next)
  BY DEF HeapInv, HeapOf
<1>2. PICK a \in DOMAIN next : next[a] = node
  BY <1>1 DEF Chain
<1>3. node # nullptr
  BY <1>1, SizeFacts DEF nullptr
<1>4. prev[node] = a
  BY <1>2, <1>3 DEF LinksConsistent, blocks
<1>5. a \in Nat /\ next[a] \in Nat /\ a + HEADER < next[a]
  BY <1>1, <1>2, <1>3 DEF Chain
<1>6. a < node
  BY <1>2, <1>5, Layout
<1> QED BY <1>2, <1>4, <1>5, <1>6

\* With no stale link and nothing lost from the list, kfree of what kmalloc
\* returned does not stop the kernel.
THEOREM FreeAlwaysSucceeds == ASSUME RequestsFit PROVE Spec => []FreeSucceeds
<1>1. IInv => FreeSucceeds
  <2> SUFFICES ASSUME IInv, LinksConsistent, ~overflowed, NEW node \in DOMAIN allocated,
                      FreeFails(node)
               PROVE  FALSE
    BY DEF FreeSucceeds
  <2>1. /\ HeapInv /\ Chain(next) /\ ListOK(next, freeBlocks)
        /\ node \in DOMAIN next /\ used[node]
        /\ \A c \in DOMAIN next : ~used[c] => c \in ListedIn(freeBlocks)
    BY DEF LinksConsistent, IInv, HeapInv, HeapOf
  <2>2. NextRemovable(node)
    <3>1. CASE MergesNext(node)
      <4>1. next[node] # nullptr /\ ~used[next[node]]
        BY <3>1 DEF MergesNext
      <4>2. next[node] \in DOMAIN next
        BY <2>1, <4>1 DEF Chain
      <4> QED BY <2>1, <4>1, <4>2, FoundListed DEF NextRemovable
    <3> QED BY <3>1 DEF NextRemovable
  <2> DEFINE nx == next_AfterNext(node)
             fr == free_AfterNext(node)
             p == prev[node]
  <2>3. p # nullptr /\ FALSE \in PrevUsed(node) /\ (p \in blocks => Found(nx, fr, p) = {})
    BY <2>1, <2>2 DEF FreeFails
  <2>4. p \in DOMAIN next /\ p < node
    BY <2>1, <2>3, Predecessor
  <2>5. ~used[p]
    BY <2>3, <2>4 DEF PrevUsed, blocks
  <2>6. HalfFreed(node, nx, prev_AfterNext(node), fr)
    BY <2>1, <2>2, AfterNext
  <2> HIDE DEF nx, fr, p
  <2>7. Chain(nx) /\ ListOK(nx, fr) /\ p \in ListedIn(fr)
    BY <2>1, <2>4, <2>5, <2>6 DEF HalfFreed
  <2>8. Found(nx, fr, p) # {}
    BY <2>7, FoundListed
  <2> QED BY <2>3, <2>4, <2>8 DEF blocks
<1> QED BY <1>1, HeapInvariance, PTL

LEMMA RunsWithoutOverlap == IInv /\ Running => NoOverlap
<1> SUFFICES ASSUME HeapInv, NEW b \in DOMAIN allocated, NEW f \in ListedIn(freeBlocks)
             PROVE  \/ b + HEADER + allocated[b] <= f
                    \/ f + HEADER + get_block_size(next, f) <= b
  BY DEF IInv, NoOverlap, Listed
<1>1. /\ Chain(next) /\ b \in DOMAIN next /\ used[b] /\ ~used[f]
      /\ allocated[b] \in Nat /\ get_block_size(next, b) >= allocated[b]
      /\ ListOK(next, freeBlocks)
  BY DEF HeapInv, HeapOf
<1>2. f \in DOMAIN next /\ f # b
  BY <1>1, InListed
<1>3. /\ b \in Nat /\ get_block_size(next, b) \in Nat
      /\ next[b] # nullptr => next[b] = b + HEADER + get_block_size(next, b)
      /\ f \in Nat /\ get_block_size(next, f) \in Nat
      /\ next[f] # nullptr => next[f] = f + HEADER + get_block_size(next, f)
  BY <1>1, <1>2, SizeFacts
<1>4. CASE b < f
  <2>1. next[b] # nullptr /\ next[b] <= f
    BY <1>1, <1>2, <1>3, <1>4 DEF Chain
  <2> QED BY <1>1, <1>3, <2>1, Layout
<1>5. CASE f < b
  <2>1. next[f] # nullptr /\ next[f] <= b
    BY <1>1, <1>2, <1>3, <1>5 DEF Chain
  <2> QED BY <1>1, <1>3, <2>1, Layout
<1> QED BY <1>2, <1>3, <1>4, <1>5

\* What a step from a heap without stale links does to the phase.
LEMMA PhaseStep ==
  ASSUME IInv, LinksConsistent, [Next]_vars
  PROVE  \/ Running' /\ \/ \E t \in Requests : kmalloc(t)
                        \/ \E node \in blocks : kfree(node)
                        \/ UNCHANGED vars
         \/ UNCHANGED <<next, prev, used, freeBlocks, endAddress, allocated>>
<1>1. phase = "running" /\ HeapInv
  BY DEF LinksConsistent, Running, IInv
<1>2. ASSUME NEW node \in blocks, kfree(node) PROVE Running'
  <2>1. CASE kfree_alone(node)
    BY <1>1, <2>1 DEF kfree_alone, Running
  <2>2. CASE kfree_into_prev(node)
    <3>1. prev[node] # nullptr
      BY <2>2 DEF kfree_into_prev
    <3>2. next[prev[node]] = node
      BY <1>1, <3>1, Predecessor DEF blocks
    <3> QED BY <1>1, <2>2, <3>2 DEF kfree_into_prev, Running
  <2> QED BY <1>2, <2>1, <2>2 DEF kfree
<1>3. ASSUME NEW t \in Requests, kmalloc(t) PROVE Running'
  BY <1>3 DEF kmalloc, Running
<1>4. CASE \/ \E t \in Requests : kmalloc_fails(t)
           \/ \E node \in blocks : kfree_fails(node)
  BY <1>4 DEF kmalloc_fails, kfree_fails
<1>5. CASE initialize \/ initialize_fails
  BY <1>1, <1>5 DEF initialize, initialize_fails
<1>6. CASE UNCHANGED vars
  BY <1>6 DEF vars
<1> QED BY <1>2, <1>3, <1>4, <1>5, <1>6 DEF Next

\* As long as no link is stale, no free returns memory a caller still holds.
THEOREM OverlapNeedsStale == ASSUME RequestsFit PROVE Spec => OverlapNeedsStaleLink
<1>1. IInv /\ LinksConsistent /\ NoOverlap /\ [Next]_vars => Running' \/ NoOverlap'
  <2> SUFFICES ASSUME IInv, LinksConsistent, NoOverlap, [Next]_vars PROVE Running' \/ NoOverlap'
    OBVIOUS
  <2>1. CASE Running'
    BY <2>1
  <2>2. CASE UNCHANGED <<next, prev, used, freeBlocks, endAddress, allocated>>
    BY <2>2 DEF NoOverlap, Listed, ListedIn, get_block_size
  <2> QED BY <2>1, <2>2, PhaseStep
<1>2. IInv /\ Running => NoOverlap
  BY RunsWithoutOverlap
<1>3. [Next]_vars /\ IInv /\ IInv' => [LinksConsistent /\ NoOverlap => NoOverlap']_vars
  <2>1. IInv' /\ Running' => NoOverlap'
    BY <1>2, PTL
  <2> QED BY <1>1, <2>1
<1> QED BY <1>3, HeapInvariance, PTL DEF Spec, OverlapNeedsStaleLink

-----------------------------------------------------------------------------
(* What keeps the links back and the unused blocks apart.                  *)

\* LinksConsistent and Coalesced of links and flags that are being changed.
Linked(nx, pv) == \A b \in DOMAIN nx : nx[b] # nullptr => pv[nx[b]] = b
Apart(nx, us) == \A b \in DOMAIN nx : nx[b] # nullptr => us[b] \/ us[nx[b]]

LEMMA AbsorbLinked ==
  ASSUME NEW nx, Chain(nx), NEW pv, DOMAIN pv = DOMAIN nx, Linked(nx, pv),
         NEW a \in DOMAIN nx, NEW b, b = nx[a], b # nullptr,
         NEW n1, n1 = absorb_next(nx, a, b), NEW p1, p1 = absorb_prev(nx, pv, a, b)
  PROVE  Linked(n1, p1) /\ n1[a] = nx[b]
<1>1. /\ b \in DOMAIN nx /\ b # a /\ DOMAIN n1 = DOMAIN nx \ {b}
      /\ \A c \in DOMAIN nx \ {a, b} : n1[c] = nx[c]
  <2>1. IsAbsorbed(nx, a, b, n1)
    BY AbsorbChain
  <2>2. b # a
    <3>1. b \in DOMAIN nx /\ a < b /\ a \in Nat
      BY <2>1 DEF IsAbsorbed, Chain
    <3> QED BY <3>1
  <2> QED BY <2>1, <2>2 DEF IsAbsorbed
<1>2. n1[a] = nx[b]
  BY <1>1 DEF absorb_next
<1>3. \A c \in DOMAIN nx \ {b} : p1[c] = IF c = nx[b] THEN a ELSE pv[c]
  BY DEF absorb_prev
<1>4. ASSUME NEW c \in DOMAIN n1, n1[c] # nullptr PROVE p1[n1[c]] = c
  <2>1. n1[c] \in DOMAIN nx \ {b}
    <3>1. n1[c] \in DOMAIN n1
      <4>1. Chain(n1)
        BY AbsorbChain DEF IsAbsorbed
      <4> QED BY <1>4, <4>1 DEF Chain
    <3> QED BY <1>1, <3>1
  <2>2. CASE c = a
    BY <1>2, <1>3, <2>1, <2>2
  <2>3. CASE c # a
    <3>1. c \in DOMAIN nx \ {a, b} /\ n1[c] = nx[c]
      BY <1>1, <2>3
    <3>2. pv[nx[c]] = c
      BY <1>4, <3>1 DEF Linked
    <3>3. nx[c] # nx[b]
      <4> SUFFICES ASSUME nx[c] = nx[b] PROVE FALSE
        OBVIOUS
      <4>1. pv[nx[b]] = b
        BY <1>1, <1>4, <3>1 DEF Linked
      <4> QED BY <3>1, <3>2, <4>1
    <3> QED BY <1>3, <2>1, <3>1, <3>2, <3>3
  <2> QED BY <2>2, <2>3
<1> QED BY <1>2, <1>4 DEF Linked

\* After the first half of free no unused block is behind node, if the unused
\* blocks were apart before.
LEMMA HalfLinked ==
  ASSUME HeapInv, Linked(next, prev), NEW node \in DOMAIN next, NextRemovable(node)
  PROVE  LET nx == next_AfterNext(node)
         IN /\ Linked(nx, prev_AfterNext(node))
            /\ Apart(next, used) /\ nx[node] # nullptr => used[nx[node]]
<1>1. Chain(next) /\ DOMAIN prev = DOMAIN next
  BY DEF HeapInv, HeapOf
<1>2. CASE ~MergesNext(node)
  <2>1. next_AfterNext(node) = next /\ prev_AfterNext(node) = prev
    BY <1>2 DEF next_AfterNext, prev_AfterNext
  <2> QED BY <1>2, <2>1 DEF MergesNext
<1>3. CASE MergesNext(node)
  <2>1. PICK b : b = next[node]
    OBVIOUS
  <2>2. PICK n1, p1 : n1 = absorb_next(next, node, b) /\ p1 = absorb_prev(next, prev, node, b)
    OBVIOUS
  <2>3. /\ next_AfterNext(node) = n1 /\ prev_AfterNext(node) = p1
        /\ b # nullptr /\ ~used[b]
    BY <1>3, <2>1, <2>2 DEF next_AfterNext, prev_AfterNext, MergesNext
  <2>4. Linked(n1, p1) /\ n1[node] = next[b]
    BY <1>1, <2>1, <2>2, <2>3, AbsorbLinked
  <2>5. b \in DOMAIN next
    BY <1>1, <2>1, <2>3 DEF Chain
  <2> QED BY <2>3, <2>4, <2>5 DEF Apart
<1> QED BY <1>2, <1>3

LEMMA FreeKeepsLinks ==
  ASSUME HeapInv, LinksConsistent, NEW node \in DOMAIN next, used[node],
         kfree_alone(node) \/ kfree_into_prev(node)
  PROVE  Linked(next', prev') /\ (Apart(next, used) => Apart(next', used'))
<1> DEFINE nx == next_AfterNext(node)
           pv == prev_AfterNext(node)
           p == prev[node]
<1>1. Chain(next) /\ Linked(next, prev)
  BY DEF HeapInv, HeapOf, LinksConsistent, Linked, blocks
<1>2. /\ HalfFreed(node, nx, pv, free_AfterNext(node))
      /\ Linked(nx, pv)
      /\ Apart(next, used) /\ nx[node] # nullptr => used[nx[node]]
  BY <1>1, AfterNext, HalfLinked DEF kfree_alone, kfree_into_prev
<1>3. /\ Chain(nx) /\ DOMAIN pv = DOMAIN nx /\ node \in DOMAIN nx /\ DOMAIN nx \subseteq DOMAIN next
      /\ \A c \in DOMAIN nx \ {node} : nx[c] = next[c]
  BY <1>2 DEF HalfFreed
<1>4. CASE kfree_alone(node)
  <2>1. /\ next' = nx /\ prev' = pv
        /\ used' = [c \in DOMAIN nx |-> IF c = node THEN FALSE ELSE used[c]]
        /\ p # nullptr => TRUE \in PrevUsed(node)
    BY <1>4 DEF kfree_alone
  <2> HIDE DEF nx, pv, p
  <2>2. ASSUME Apart(next, used), NEW c \in DOMAIN nx, nx[c] # nullptr
        PROVE  used'[c] \/ used'[nx[c]]
    <3>1. nx[c] \in DOMAIN nx /\ nx[c] # c
      BY <1>3, <2>2, Layout DEF Chain
    <3>2. CASE c = node
      BY <1>2, <2>1, <2>2, <3>1, <3>2
    <3>3. CASE nx[c] = node
      <4>1. c # node /\ next[c] = node /\ node # nullptr
        BY <1>3, <2>2, <3>1, <3>3
      <4>2. p = c
        BY <1>1, <1>3, <4>1 DEF Linked, p
      <4>3. c # nullptr
        BY <1>3, SizeFacts DEF nullptr
      <4>4. used[c]
        <5>1. PrevUsed(node) = {used[c]}
          BY <1>3, <4>2 DEF PrevUsed, blocks, p
        <5> QED BY <2>1, <4>2, <4>3, <5>1
      <4> QED BY <2>1, <4>1, <4>4
    <3>4. CASE c # node /\ nx[c] # node
      <4>1. next[c] = nx[c] /\ (used[c] \/ used[nx[c]])
        BY <1>3, <2>2, <3>4 DEF Apart
      <4> QED BY <2>1, <3>1, <3>4, <4>1
    <3> QED BY <3>2, <3>3, <3>4
  <2> QED BY <1>2, <2>1, <2>2 DEF Apart
<1>5. CASE kfree_into_prev(node)
  <2> DEFINE n2 == absorb_next(nx, p, node)
             p2 == absorb_prev(nx, pv, p, node)
  <2>1. /\ next' = n2 /\ prev' = p2 /\ used' = [c \in DOMAIN n2 |-> used[c]]
        /\ p # nullptr /\ p \in DOMAIN next /\ ~used[p]
    BY <1>5 DEF kfree_into_prev, blocks
  <2>2. next[p] = node
    BY <2>1, Predecessor
  <2> HIDE DEF nx, pv, p
  <2>3. node # nullptr /\ p # node /\ p \in DOMAIN nx /\ nx[p] = node
    BY <1>1, <1>2, <2>1, <2>2, BlockBefore
  <2>4. Linked(n2, p2) /\ n2[p] = nx[node]
    BY <1>2, <1>3, <2>3, AbsorbLinked
  <2>5. /\ DOMAIN n2 = DOMAIN nx \ {node} /\ Chain(n2)
        /\ \A c \in DOMAIN nx \ {p, node} : n2[c] = nx[c]
    BY <1>3, <2>3, AbsorbChain DEF IsAbsorbed
  <2> HIDE DEF n2, p2
  <2>6. ASSUME Apart(next, used), NEW c \in DOMAIN n2, n2[c] # nullptr
        PROVE  used'[c] \/ used'[n2[c]]
    <3>1. n2[c] \in DOMAIN n2
      BY <2>5, <2>6 DEF Chain
    <3>2. CASE c = p
      BY <1>2, <2>1, <2>4, <2>6, <3>1, <3>2
    <3>3. CASE c # p
      <4>1. n2[c] = next[c] /\ c \in DOMAIN next
        BY <1>3, <2>5, <3>3
      <4>2. used[c] \/ used[n2[c]]
        BY <2>6, <4>1 DEF Apart
      <4> QED BY <2>1, <3>1, <4>2
    <3> QED BY <3>2, <3>3
  <2> QED BY <2>1, <2>4, <2>6 DEF Apart
<1> QED BY <1>4, <1>5

\* The rest of a block goes between two used blocks; the block behind it, if
\* there is one, is the only one whose link goes stale.
LEMMA SplitKeepsLinks ==
  ASSUME HeapInv, LinksConsistent, RequestsFit, NEW t \in Requests, t # 0,
         freeBlockIndex(t) < Len(freeBlocks), NEW b, b = freeBlocks[freeBlockIndex(t) + 1],
         SplitsBlock(b, t), malloc_split(t, b)
  PROVE  /\ Linked(next', prev') \/ \E c \in DOMAIN next' \ DOMAIN next : next'[c] # nullptr
         /\ Apart(next, used) => Apart(next', used')
<1>1. PICK s : s = split_address(b, t)
  OBVIOUS
<1>2. /\ DOMAIN next' = DOMAIN next \cup {s} /\ s \notin DOMAIN next /\ s # b
      /\ next'[b] = s /\ next'[s] = next[b] /\ \A c \in DOMAIN next \ {b} : next'[c] = next[c]
      /\ Chain(next) /\ b \in DOMAIN next /\ ~used[b]
  <2>1. IsSplit(next, b, paddedSize(t), s, next')
    BY <1>1, MallocSplits
  <2>2. Chain(next) /\ b \in DOMAIN next /\ ~used[b]
    BY MallocBlock DEF HeapInv, HeapOf, blocks
  <2> QED BY <2>1, <2>2 DEF IsSplit
<1>3. \A c \in DOMAIN next \cup {s} :
        /\ prev'[c] = IF c = s THEN b ELSE prev[c]
        /\ used'[c] = IF c = b THEN TRUE ELSE IF c = s THEN FALSE ELSE used[c]
  BY <1>1 DEF malloc_split, blocks
<1>4. \A c \in DOMAIN next : next[c] # nullptr => next[c] \in DOMAIN next
  BY <1>2 DEF Chain
<1>5. ASSUME next[b] = nullptr PROVE Linked(next', prev')
  <2>1. Linked(next, prev)
    BY DEF LinksConsistent, Linked, blocks
  <2>2. ASSUME NEW c \in DOMAIN next', next'[c] # nullptr PROVE prev'[next'[c]] = c
    <3>1. CASE c = b
      BY <1>2, <1>3, <3>1
    <3>2. CASE c = s
      BY <1>2, <1>5, <2>2, <3>2
    <3>3. CASE c \in DOMAIN next \ {b}
      <4>1. next'[c] = next[c] /\ next[c] \in DOMAIN next /\ next[c] # s
        BY <1>2, <1>4, <2>2, <3>3
      <4>2. prev[next[c]] = c
        BY <2>1, <2>2, <3>3, <4>1 DEF Linked
      <4> QED BY <1>3, <4>1, <4>2
    <3> QED BY <1>2, <3>1, <3>2, <3>3
  <2> QED BY <2>2 DEF Linked
<1>6. ASSUME Apart(next, used), NEW c \in DOMAIN next', next'[c] # nullptr
      PROVE  used'[c] \/ used'[next'[c]]
  <2>1. CASE c = b
    BY <1>2, <1>3, <2>1
  <2>2. CASE c = s
    <3>1. used[next[b]] /\ next[b] \in DOMAIN next
      BY <1>2, <1>4, <1>6, <2>2 DEF Apart
    <3> QED BY <1>2, <1>3, <2>2, <3>1
  <2>3. CASE c \in DOMAIN next \ {b}
    <3>1. /\ next'[c] = next[c] /\ next[c] \in DOMAIN next /\ c # s /\ next[c] # s
          /\ used[c] \/ used[next[c]]
      BY <1>2, <1>4, <1>6, <2>3 DEF Apart
    <3> QED BY <1>2, <1>3, <2>3, <3>1
  <2> QED BY <1>2, <2>1, <2>2, <2>3
<1>7. ASSUME next[b] # nullptr
      PROVE  \E c \in DOMAIN next' \ DOMAIN next : next'[c] # nullptr
  BY <1>2, <1>7
<1> QED BY <1>5, <1>6, <1>7 DEF Apart

\* What a step that starts without stale links does to the links and the flags.
LEMMA LinksStep ==
  ASSUME RequestsFit, IInv, LinksConsistent, [Next]_vars, Running'
  PROVE  /\ Linked(next', prev') \/ \E c \in DOMAIN next' \ DOMAIN next : next'[c] # nullptr
         /\ Apart(next, used) => Apart(next', used')
<1>1. HeapInv /\ Linked(next, prev)
  BY DEF LinksConsistent, IInv, Linked, blocks
<1>2. ASSUME next' = next, prev' = prev, used' = used
      PROVE  Linked(next', prev') /\ (Apart(next, used) => Apart(next', used'))
  BY <1>1, <1>2
<1>3. ASSUME NEW t \in Requests, kmalloc(t)
      PROVE  /\ Linked(next', prev') \/ \E c \in DOMAIN next' \ DOMAIN next : next'[c] # nullptr
             /\ Apart(next, used) => Apart(next', used')
  <2>1. PICK b : b = freeBlocks[freeBlockIndex(t) + 1]
    OBVIOUS
  <2>2. /\ t # 0 /\ freeBlockIndex(t) < Len(freeBlocks)
        /\ SplitsBlock(b, t) => malloc_split(t, b)
        /\ ~SplitsBlock(b, t) => malloc_whole(t, b)
    BY <1>3, <2>1 DEF kmalloc
  <2>3. CASE SplitsBlock(b, t)
    BY <1>1, <2>1, <2>2, <2>3, SplitKeepsLinks
  <2>4. CASE ~SplitsBlock(b, t)
    <3>1. /\ next' = next /\ prev' = prev /\ used' = [used EXCEPT ![b] = TRUE]
          /\ used \in [DOMAIN next -> BOOLEAN] /\ Chain(next)
      BY <1>1, <2>2, <2>4 DEF malloc_whole, HeapInv, HeapOf
    <3>2. \A c \in DOMAIN next : used[c] => used'[c]
      BY <3>1
    <3>3. \A c \in DOMAIN next : next[c] # nullptr => next[c] \in DOMAIN next
      BY <3>1 DEF Chain
    <3> QED BY <1>1, <3>1, <3>2, <3>3 DEF Apart
  <2> QED BY <2>3, <2>4
<1>4. ASSUME NEW node \in blocks, kfree(node)
      PROVE  Linked(next', prev') /\ (Apart(next, used) => Apart(next', used'))
  <2>1. used[node] /\ (kfree_alone(node) \/ kfree_into_prev(node))
    BY <1>4 DEF kfree
  <2> QED BY <1>1, <1>4, <2>1, FreeKeepsLinks DEF blocks
<1>5. \/ \E t \in Requests : kmalloc(t)
      \/ \E node \in blocks : kfree(node)
      \/ next' = next /\ prev' = prev /\ used' = used
  BY PhaseStep DEF vars
<1> QED BY <1>2, <1>3, <1>4, <1>5

\* Links go stale in one way only: malloc splits a block that is not the last.
THEOREM StaleNeedsSplit == ASSUME RequestsFit PROVE Spec => StaleOnlyBySplit
<1>1. IInv /\ [Next]_vars =>
        (LinksConsistent /\ Running' /\ ~LinksConsistent' =>
           \E c \in DOMAIN next' \ DOMAIN next : next'[c] # nullptr)
  <2> SUFFICES ASSUME IInv, [Next]_vars, LinksConsistent, Running', ~LinksConsistent'
               PROVE  \E c \in DOMAIN next' \ DOMAIN next : next'[c] # nullptr
    OBVIOUS
  <2>1. ~Linked(next', prev')
    BY DEF LinksConsistent, Linked, blocks
  <2> QED BY <2>1, LinksStep
<1> QED BY <1>1, HeapInvariance, PTL DEF Spec, StaleOnlyBySplit

\* Two unused blocks never lie side by side as long as no link was stale.
THEOREM UnusedStayApart == ASSUME RequestsFit PROVE Spec => StaysCoalesced
<1>1. IInv /\ [Next]_vars => (LinksConsistent /\ Coalesced => Coalesced')
  <2> SUFFICES ASSUME IInv, [Next]_vars, LinksConsistent, Coalesced PROVE Coalesced'
    OBVIOUS
  <2>1. CASE Running'
    <3>1. Apart(next, used)
      BY DEF Coalesced, Apart, blocks
    <3>2. Apart(next', used')
      BY <2>1, <3>1, LinksStep
    <3> QED BY <3>2 DEF Coalesced, Apart, blocks
  <2>2. CASE UNCHANGED <<next, prev, used, freeBlocks, endAddress, allocated>>
    BY <2>2 DEF Coalesced, blocks
  <2> QED BY <2>1, <2>2, PhaseStep
<1> QED BY <1>1, HeapInvariance, PTL DEF Spec, StaysCoalesced

-----------------------------------------------------------------------------
(* The bisection of find_first_gte_free_block returns the first block that *)
(* is large enough, in every sorted list, without reading outside it.      *)
(* While it loops, the block at start is too small, the one at end, if     *)
(* there is one, is large enough, and midpoint is their middle.            *)
Bracket ==
  pc = "loop" => /\ start < end
                 /\ midpoint = (start + end) \div 2
                 /\ list[start + 1] < t_size
                 /\ end < Len(list) => list[end + 1] >= t_size

SearchInv == SearchTypeOK /\ Bracket /\ ReturnsFirstGte

LEMMA ListFacts ==
  ASSUME NEW s \in Lists
  PROVE  /\ s \in Seq(Nat) /\ Len(s) \in Nat
         /\ \A k \in 1 .. Len(s) : s[k] \in Nat
         /\ \A j, k \in 1 .. Len(s) : j <= k => s[j] <= s[k]
BY ListsAssumption DEF IsSorted

\* Half of an interval lies inside it, strictly below its end.
LEMMA Middle ==
  ASSUME NEW a \in Nat, NEW b \in Nat, a < b
  PROVE  /\ (a + b) \div 2 \in Nat
         /\ a <= (a + b) \div 2 /\ (a + b) \div 2 < b
         /\ a = (a + b) \div 2 => b = a + 1
OBVIOUS

LEMMA SearchStarts == SearchInit => SearchInv
BY ListFacts DEF SearchInit, SearchInv, SearchTypeOK, Bracket, ReturnsFirstGte

LEMMA SearchStep == SearchInv /\ [SearchNext]_searchVars => SearchInv'
<1> SUFFICES ASSUME SearchInv, [SearchNext]_searchVars PROVE SearchInv'
  OBVIOUS
<1>1. /\ list \in Lists /\ t_size \in Sizes /\ t_size \in Nat /\ Len(list) \in Nat
      /\ start \in 0 .. Len(list) /\ end \in 0 .. Len(list)
      /\ midpoint \in 0 .. Len(list)
      /\ \A k \in 1 .. Len(list) : list[k] \in Nat
      /\ \A j, k \in 1 .. Len(list) : j <= k => list[j] <= list[k]
  BY ListFacts, SizesAssumption DEF SearchInv, SearchTypeOK
<1>2. CASE return_zero
  <2>1. \A k \in 1 .. Len(list) : list[k] >= t_size
    BY <1>1, <1>2 DEF return_zero, FirstSuffices, At
  <2> QED BY <2>1, <1>1, <1>2
          DEF SearchInv, SearchTypeOK, Bracket, ReturnsFirstGte, IsFirstGte, return_zero
<1>3. CASE enter_loop
  <2>1. Len(list) > 0 /\ list[1] < t_size
    BY <1>1, <1>3 DEF enter_loop, FirstSuffices, At
  <2>2. midpoint' \in 0 .. Len(list)
    BY <2>1, <1>1, <1>3, Middle DEF enter_loop
  <2> QED BY <2>1, <2>2, <1>1, <1>3
          DEF SearchInv, SearchTypeOK, Bracket, ReturnsFirstGte, enter_loop
<1>4. CASE step
  <2>1. /\ start < end /\ midpoint = (start + end) \div 2
        /\ list[start + 1] < t_size
        /\ end < Len(list) => list[end + 1] >= t_size
    BY <1>4 DEF step, SearchInv, Bracket
  <2>2. start < midpoint /\ midpoint < end
    BY <2>1, <1>1, <1>4, Middle DEF step
  <2>3. start' \in Nat /\ end' \in Nat /\ start' < end' /\ end' <= Len(list)
    BY <2>2, <1>1, <1>4 DEF step
  <2>4. midpoint' \in 0 .. Len(list)
    <3>1. midpoint' = (start' + end') \div 2
      BY <1>4 DEF step
    <3>2. PICK a \in Nat, b \in Nat : a = start' /\ b = end'
      BY <2>3
    <3>3. (a + b) \div 2 \in Nat /\ (a + b) \div 2 < b
      BY <3>2, <2>3, Middle
    <3>4. midpoint' = (a + b) \div 2 /\ b <= Len(list)
      BY <3>1, <3>2, <2>3
    <3> QED BY <3>3, <3>4, <1>1
  <2>5. list[start' + 1] < t_size /\ (end' < Len(list) => list[end' + 1] >= t_size)
    BY <2>1, <2>2, <1>1, <1>4 DEF step, At
  <2> QED BY <2>3, <2>4, <2>5, <1>1, <1>4
          DEF SearchInv, SearchTypeOK, Bracket, ReturnsFirstGte, step
<1>5. CASE leave_loop
  <2>1. /\ start < end /\ midpoint = (start + end) \div 2
        /\ list[start + 1] < t_size
        /\ end < Len(list) => list[end + 1] >= t_size
    BY <1>5 DEF leave_loop, SearchInv, Bracket
  <2>2. end = start + 1
    BY <2>1, <1>1, <1>5, Middle DEF leave_loop
  <2>3. \A k \in 1 .. Len(list) : k <= end => list[k] < t_size
    BY <2>1, <2>2, <1>1
  <2>4. \A k \in 1 .. Len(list) : k > end => list[k] >= t_size
    BY <2>1, <1>1
  <2> QED BY <2>3, <2>4, <1>1, <1>5
          DEF SearchInv, SearchTypeOK, Bracket, ReturnsFirstGte, IsFirstGte, leave_loop
<1>6. CASE returned \/ UNCHANGED searchVars
  BY <1>6 DEF SearchInv, SearchTypeOK, Bracket, ReturnsFirstGte, IsFirstGte, returned, searchVars
<1> QED BY <1>2, <1>3, <1>4, <1>5, <1>6 DEF SearchNext

LEMMA SearchInvariance == SearchSpec => []SearchInv
BY SearchStarts, SearchStep, PTL DEF SearchSpec

\* Type correctness of the search.
THEOREM SearchTypeCorrect == SearchSpec => []SearchTypeOK
<1>1. SearchInv => SearchTypeOK
  BY DEF SearchInv
<1> QED BY <1>1, SearchInvariance, PTL

\* find_first_gte_free_block returns the first block that is large enough, for
\* every sorted list of any length.
THEOREM SearchCorrect == SearchSpec => []ReturnsFirstGte
<1>1. SearchInv => ReturnsFirstGte
  BY DEF SearchInv
<1> QED BY <1>1, SearchInvariance, PTL

\* The search never reads outside the vector, whose operator[] checks nothing.
THEOREM SearchInBounds == SearchSpec => []InBounds
<1>1. SearchInv => InBounds
  <2> SUFFICES ASSUME SearchInv, pc = "loop" PROVE midpoint < Len(list)
    BY DEF InBounds
  <2>1. start \in Nat /\ end \in Nat /\ end <= Len(list) /\ Len(list) \in Nat
    BY ListFacts DEF SearchInv, SearchTypeOK
  <2>2. start < end /\ midpoint = (start + end) \div 2
    BY DEF SearchInv, Bracket
  <2> QED BY <2>1, <2>2, Middle
<1> QED BY <1>1, SearchInvariance, PTL
=============================================================================
