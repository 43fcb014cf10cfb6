----------------------------- MODULE Heap2Proof ------------------------------
(***************************************************************************)
(* The heap of heap_2.c, whatever is allocated and freed in whatever order *)
(* and however large the heap is.                                          *)
(*                                                                         *)
(* The invariant is the conjunction of the four properties: a split keeps  *)
(* the tiling because the rest starts inside the block that is split, and  *)
(* it starts at no header because no block begins inside another.  That    *)
(* the list is sorted makes the first fit that the code takes a best fit.  *)
(*                                                                         *)
(* The start-up fits because one free block has room for all that MAIN and *)
(* the GUI task still ask for: an allocation takes from that block or from *)
(* another one, and what it leaves is large enough to be split off.        *)
(***************************************************************************)
EXTENDS Heap2Boot, SequenceTheorems, WellFoundedInduction, TLAPS

Once(s) == \A i, j \in 1..Len(s) : s[i] = s[j] => i = j
Ascending(s, sz) == \A i, j \in 1..Len(s) : i < j => sz[s[i]] <= sz[s[j]]
Among(e, s) == \E i \in 1..Len(s) : s[i] = e

IInv == TypeOK /\ BlocksTile /\ FreeOrUsed /\ RequestFits /\ SortedFree

-----------------------------------------------------------------------------
(* Sequences *)

\* A sequence with an element put in at a place, element by element.
LEMMA InsertFacts ==
  ASSUME NEW S, NEW s \in Seq(S), NEW e \in S, NEW k \in 1..(Len(s) + 1)
  PROVE  /\ InsertAt(s, k, e) \in Seq(S)
         /\ Len(InsertAt(s, k, e)) = Len(s) + 1
         /\ \A i \in 1..(Len(s) + 1) :
              InsertAt(s, k, e)[i] =
                IF i < k THEN s[i] ELSE IF i = k THEN e ELSE s[i - 1]
<1> DEFINE a == SubSeq(s, 1, k - 1)
           b == SubSeq(s, k, Len(s))
           c == a \o <<e>>
<1>1. /\ a \in Seq(S) /\ Len(a) = k - 1
      /\ \A i \in 1..(k - 1) : a[i] = s[i]
  OBVIOUS
<1>2. /\ b \in Seq(S) /\ Len(b) = Len(s) + 1 - k
      /\ \A i \in 1..(Len(s) + 1 - k) : b[i] = s[k + i - 1]
  OBVIOUS
<1>3. /\ c \in Seq(S) /\ Len(c) = k
      /\ \A i \in 1..k : c[i] = IF i < k THEN s[i] ELSE e
  <2> HIDE DEF a, b
  <2>1. QED
    BY <1>1
<1> HIDE DEF a, b, c
<1>4. /\ c \o b \in Seq(S) /\ Len(c \o b) = Len(c) + Len(b)
      /\ \A i \in 1..(Len(c) + Len(b)) :
           (c \o b)[i] = IF i <= Len(c) THEN c[i] ELSE b[i - Len(c)]
  BY <1>2, <1>3, ConcatProperties
<1>5. Len(c) + Len(b) = Len(s) + 1
  BY <1>2, <1>3
<1>6. \A i \in 1..(Len(s) + 1) :
        (c \o b)[i] = IF i < k THEN s[i] ELSE IF i = k THEN e ELSE s[i - 1]
  <2> TAKE i \in 1..(Len(s) + 1)
  <2>1. (c \o b)[i] = IF i <= k THEN c[i] ELSE b[i - k]
    BY <1>3, <1>4, <1>5
  <2>2. CASE i <= k
    BY <1>3, <2>1, <2>2
  <2>3. CASE i > k
    <3>1. i - k \in 1..(Len(s) + 1 - k) /\ k + (i - k) - 1 = i - 1
      BY <2>3
    <3>2. b[i - k] = s[i - 1]
      BY <1>2, <3>1
    <3>3. QED
      BY <2>1, <2>3, <3>2
  <2>4. i <= k \/ i > k
    OBVIOUS
  <2>5. QED
    BY <2>2, <2>3, <2>4
<1>7. InsertAt(s, k, e) = c \o b
  BY DEF InsertAt, a, b, c
<1>8. QED
  BY <1>4, <1>5, <1>6, <1>7

\* A sequence without its k-th element, element by element.
LEMMA RemoveFacts ==
  ASSUME NEW S, NEW s \in Seq(S), NEW k \in 1..Len(s)
  PROVE  /\ RemoveAt(s, k) \in Seq(S)
         /\ Len(RemoveAt(s, k)) = Len(s) - 1
         /\ \A i \in 1..(Len(s) - 1) :
              RemoveAt(s, k)[i] = IF i < k THEN s[i] ELSE s[i + 1]
<1> DEFINE a == SubSeq(s, 1, k - 1)
           b == SubSeq(s, k + 1, Len(s))
<1>1. /\ a \in Seq(S) /\ Len(a) = k - 1
      /\ \A i \in 1..(k - 1) : a[i] = s[i]
  OBVIOUS
<1>2. /\ b \in Seq(S) /\ Len(b) = Len(s) - k
      /\ \A i \in 1..(Len(s) - k) : b[i] = s[k + i]
  OBVIOUS
<1> HIDE DEF a, b
<1>3. /\ a \o b \in Seq(S) /\ Len(a \o b) = Len(a) + Len(b)
      /\ \A i \in 1..(Len(a) + Len(b)) :
           (a \o b)[i] = IF i <= Len(a) THEN a[i] ELSE b[i - Len(a)]
  BY <1>1, <1>2, ConcatProperties
<1>4. Len(a) + Len(b) = Len(s) - 1
  BY <1>1, <1>2
<1>5. \A i \in 1..(Len(s) - 1) : (a \o b)[i] = IF i < k THEN s[i] ELSE s[i + 1]
  <2> TAKE i \in 1..(Len(s) - 1)
  <2>1. (a \o b)[i] = IF i <= k - 1 THEN a[i] ELSE b[i - (k - 1)]
    BY <1>1, <1>3, <1>4
  <2>2. CASE i < k
    BY <1>1, <2>1, <2>2
  <2>3. CASE i >= k
    <3>1. i - (k - 1) \in 1..(Len(s) - k) /\ k + (i - (k - 1)) = i + 1
      BY <2>3
    <3>2. b[i - (k - 1)] = s[i + 1]
      BY <1>2, <3>1
    <3>3. QED
      BY <2>1, <2>3, <3>2
  <2>4. i < k \/ i >= k
    OBVIOUS
  <2>5. QED
    BY <2>2, <2>3, <2>4
<1>6. RemoveAt(s, k) = a \o b
  BY DEF RemoveAt, a, b
<1>7. QED
  BY <1>3, <1>4, <1>5, <1>6

\* Taking a block off the list leaves the others on it, once and in order.
LEMMA UnlinkKeeps ==
  ASSUME NEW S, NEW s \in Seq(S), NEW sz \in [S -> Nat], NEW k \in 1..Len(s),
         Once(s), Ascending(s, sz)
  PROVE  /\ RemoveAt(s, k) \in Seq(S)
         /\ Once(RemoveAt(s, k)) /\ Ascending(RemoveAt(s, k), sz)
         /\ \A e : Among(e, RemoveAt(s, k)) <=> Among(e, s) /\ e # s[k]
<1> DEFINE r == RemoveAt(s, k)
           n == Len(s)
           at(i) == IF i < k THEN i ELSE i + 1
<1>1. n \in Nat /\ k \in 1..n /\ \A i \in 1..n : s[i] \in S
  OBVIOUS
<1>2. /\ r \in Seq(S) /\ Len(r) = n - 1
      /\ \A i \in 1..(n - 1) : r[i] = IF i < k THEN s[i] ELSE s[i + 1]
  BY RemoveFacts
<1> HIDE DEF r, n
<1>3. /\ \A i \in 1..(n - 1) : at(i) \in 1..n /\ at(i) # k /\ r[i] = s[at(i)]
      /\ \A i, j \in 1..(n - 1) : i < j => at(i) < at(j)
      /\ \A i \in 1..n : i # k => \E j \in 1..(n - 1) : at(j) = i
  <2>1. ASSUME NEW i \in 1..(n - 1)
        PROVE  at(i) \in 1..n /\ at(i) # k /\ r[i] = s[at(i)]
    <3>1. r[i] = IF i < k THEN s[i] ELSE s[i + 1]
      BY <1>2
    <3>2. at(i) \in 1..n /\ at(i) # k
      BY <1>1
    <3>3. QED
      BY <3>1, <3>2
  <2>2. ASSUME NEW i \in 1..(n - 1), NEW j \in 1..(n - 1), i < j
        PROVE  at(i) < at(j)
    BY <1>1, <2>2
  <2>3. ASSUME NEW i \in 1..n, i # k PROVE \E j \in 1..(n - 1) : at(j) = i
    <3>1. CASE i < k
      <4>1. i \in 1..(n - 1) /\ at(i) = i
        BY <1>1, <3>1
      <4>2. QED
        BY <4>1
    <3>2. CASE i > k
      <4>1. i - 1 \in 1..(n - 1) /\ ~(i - 1 < k) /\ (i - 1) + 1 = i
        BY <1>1, <3>2
      <4>2. QED
        BY <4>1
    <3>3. QED
      BY <1>1, <2>3, <3>1, <3>2
  <2>4. QED
    BY <2>1, <2>2, <2>3
<1> HIDE DEF at
<1>4. \A i, j \in 1..n : s[i] = s[j] => i = j
  BY DEF Once, n
<1>5. Once(r)
  <2>1. ASSUME NEW i \in 1..(n - 1), NEW j \in 1..(n - 1), i < j
        PROVE  r[i] # r[j]
    <3>1. at(i) < at(j) /\ at(i) \in 1..n /\ at(j) \in 1..n
      BY <1>3, <2>1
    <3>2. at(i) # at(j)
      BY <1>1, <3>1
    <3>3. QED
      BY <1>3, <1>4, <3>1, <3>2
  <2>2. \A i, j \in 1..(n - 1) : i = j \/ i < j \/ j < i
    BY <1>1
  <2>3. QED
    BY <1>2, <2>1, <2>2 DEF Once
<1>6. Ascending(r, sz)
  <2> SUFFICES ASSUME NEW i \in 1..(n - 1), NEW j \in 1..(n - 1), i < j
               PROVE  sz[r[i]] <= sz[r[j]]
    BY <1>2 DEF Ascending
  <2>1. at(i) < at(j) /\ at(i) \in 1..n /\ at(j) \in 1..n
    BY <1>3
  <2>2. sz[s[at(i)]] <= sz[s[at(j)]]
    BY <2>1 DEF Ascending, n
  <2>3. QED
    BY <1>3, <2>2
<1>7. \A e : Among(e, r) <=> Among(e, s) /\ e # s[k]
  <2>1. ASSUME NEW e, Among(e, r) PROVE Among(e, s) /\ e # s[k]
    <3>1. PICK i \in 1..(n - 1) : r[i] = e
      BY <1>2, <2>1 DEF Among
    <3>2. at(i) \in 1..n /\ at(i) # k /\ s[at(i)] = e
      BY <1>3, <3>1
    <3>3. QED
      BY <1>1, <1>4, <3>2 DEF Among, n
  <2>2. ASSUME NEW e, Among(e, s), e # s[k] PROVE Among(e, r)
    <3>1. PICK i \in 1..n : s[i] = e /\ i # k
      BY <2>2 DEF Among, n
    <3>2. PICK j \in 1..(n - 1) : at(j) = i
      BY <1>3, <3>1
    <3>3. QED
      BY <1>2, <1>3, <3>1, <3>2 DEF Among
  <2>3. QED
    BY <2>1, <2>2
<1>8. QED
  BY <1>2, <1>5, <1>6, <1>7 DEF r

\* Insertion adds the block to the list, once and in its order.
LEMMA InsertKeeps ==
  ASSUME NEW S, NEW s \in Seq(S), NEW sz \in [S -> Nat], NEW b \in S,
         NEW k \in 1..(Len(s) + 1),
         Once(s), Ascending(s, sz), ~Among(b, s),
         \A i \in 1..(k - 1) : sz[s[i]] < sz[b],
         k <= Len(s) => sz[s[k]] >= sz[b]
  PROVE  /\ InsertAt(s, k, b) \in Seq(S)
         /\ Once(InsertAt(s, k, b)) /\ Ascending(InsertAt(s, k, b), sz)
         /\ \A e : Among(e, InsertAt(s, k, b)) <=> Among(e, s) \/ e = b
<1> DEFINE r == InsertAt(s, k, b)
           n == Len(s)
           at(i) == IF i < k THEN i ELSE i - 1
           Others == {i \in 1..(n + 1) : i # k}
<1>1. /\ n \in Nat /\ k \in 1..(n + 1)
      /\ \A i \in 1..n : s[i] \in S /\ s[i] # b /\ sz[s[i]] \in Nat
      /\ sz[b] \in Nat
  BY DEF Among
<1>2. /\ r \in Seq(S) /\ Len(r) = n + 1
      /\ \A i \in 1..(n + 1) :
           r[i] = IF i < k THEN s[i] ELSE IF i = k THEN b ELSE s[i - 1]
  <2>1. s \in Seq(S) /\ b \in S /\ k \in 1..(Len(s) + 1)
    OBVIOUS
  <2>2. QED
    BY ONLY InsertFacts, <2>1
<1> HIDE DEF r, n
<1>3. /\ k \in 1..(n + 1) /\ r[k] = b
      /\ \A i \in Others : at(i) \in 1..n /\ r[i] = s[at(i)]
      /\ \A i, j \in Others : i < j => at(i) < at(j)
      /\ \A i \in 1..n : \E j \in Others : at(j) = i
      /\ \A i \in Others : i < k => at(i) \in 1..(k - 1)
      /\ \A i \in Others : k < i => at(i) \in k..n
  <2>1. r[k] = b
    BY <1>1, <1>2
  <2>2. ASSUME NEW i \in Others
        PROVE  /\ at(i) \in 1..n /\ r[i] = s[at(i)]
               /\ i < k => at(i) \in 1..(k - 1)
               /\ k < i => at(i) \in k..n
    <3>1. i \in 1..(n + 1) /\ (i < k \/ k < i)
      BY <1>1
    <3>2. CASE i < k
      BY <1>1, <1>2, <3>1, <3>2
    <3>3. CASE k < i
      <4>1. ~(i < k) /\ i # k /\ at(i) = i - 1 /\ i - 1 \in k..n /\ i - 1 \in 1..n
        BY <1>1, <3>1, <3>3
      <4>2. r[i] = s[i - 1]
        BY <1>2, <3>1, <4>1
      <4>3. QED
        BY <3>3, <4>1, <4>2
    <3>4. QED
      BY <3>1, <3>2, <3>3
  <2>3. ASSUME NEW i \in Others, NEW j \in Others, i < j PROVE at(i) < at(j)
    BY <1>1, <2>3
  <2>4. ASSUME NEW i \in 1..n PROVE \E j \in Others : at(j) = i
    <3>1. CASE i < k
      BY <1>1, <3>1
    <3>2. CASE i >= k
      <4>1. i + 1 \in Others /\ ~(i + 1 < k) /\ (i + 1) - 1 = i
        BY <1>1, <3>2
      <4>2. QED
        BY <4>1
    <3>3. QED
      BY <1>1, <3>1, <3>2
  <2>5. QED
    BY <1>1, <2>1, <2>2, <2>3, <2>4
<1>4. \A i \in 1..(n + 1) : i = k \/ i \in Others
  OBVIOUS
<1>5. \A i \in Others : i \in 1..(n + 1) /\ (i < k \/ k < i)
  BY <1>1
<1> HIDE DEF at, Others
<1>6. \A i, j \in 1..n : s[i] = s[j] => i = j
  BY DEF Once, n
<1>7. \A i \in k..n : sz[b] <= sz[s[i]]
  <2> TAKE i \in k..n
  <2>1. k \in 1..n /\ i \in 1..n /\ (k = i \/ k < i)
    BY <1>1
  <2>2. sz[s[k]] <= sz[s[i]]
    BY <1>1, <2>1 DEF Ascending, n
  <2>3. sz[b] <= sz[s[k]]
    BY <1>1, <2>1 DEF n
  <2>4. sz[b] \in Nat /\ sz[s[k]] \in Nat /\ sz[s[i]] \in Nat
    BY <1>1, <2>1
  <2>5. QED
    BY <2>2, <2>3, <2>4
<1>8. Once(r)
  <2>1. ASSUME NEW i \in Others PROVE r[i] # b
    BY <1>1, <1>3, <2>1
  <2>2. ASSUME NEW i \in Others, NEW j \in Others, r[i] = r[j] PROVE i = j
    <3>1. at(i) = at(j)
      BY <1>3, <1>6, <2>2
    <3>2. ~(i < j) /\ ~(j < i)
      <4>1. at(i) \in 1..n /\ (i < j => at(i) < at(j)) /\ (j < i => at(j) < at(i))
        BY <1>3
      <4>2. QED
        BY <1>1, <3>1, <4>1
    <3>3. QED
      BY <1>1, <1>5, <3>2
  <2>3. QED
    BY <1>2, <1>3, <1>4, <2>1, <2>2 DEF Once
<1>9. Ascending(r, sz)
  <2> SUFFICES ASSUME NEW i \in 1..(n + 1), NEW j \in 1..(n + 1), i < j
               PROVE  sz[r[i]] <= sz[r[j]]
    BY <1>2 DEF Ascending
  <2>1. CASE i \in Others /\ j \in Others
    <3>1. at(i) < at(j) /\ at(i) \in 1..n /\ at(j) \in 1..n
      BY <1>3, <2>1
    <3>2. sz[s[at(i)]] <= sz[s[at(j)]]
      BY <3>1 DEF Ascending, n
    <3>3. QED
      BY <1>3, <2>1, <3>2
  <2>2. CASE i \in Others /\ j = k
    <3>1. at(i) \in 1..(k - 1) /\ at(i) \in 1..n /\ r[i] = s[at(i)] /\ r[j] = b
      BY <1>3, <2>2
    <3>2. sz[s[at(i)]] < sz[b] /\ sz[s[at(i)]] \in Nat /\ sz[b] \in Nat
      BY <1>1, <3>1
    <3>3. sz[s[at(i)]] <= sz[b]
      BY <3>2
    <3>4. QED
      BY <3>1, <3>3
  <2>3. CASE i = k /\ j \in Others
    <3>1. at(j) \in k..n /\ r[j] = s[at(j)] /\ r[i] = b
      BY <1>3, <2>3
    <3>2. QED
      BY <1>7, <3>1
  <2>4. QED
    BY <1>1, <1>4, <2>1, <2>2, <2>3
<1>10. \A e : Among(e, r) <=> Among(e, s) \/ e = b
  <2>1. ASSUME NEW e, Among(e, r) PROVE Among(e, s) \/ e = b
    <3>1. PICK i \in 1..(n + 1) : r[i] = e
      BY <1>2, <2>1 DEF Among
    <3>2. QED
      BY <1>3, <1>4, <3>1 DEF Among, n
  <2>2. ASSUME NEW e, Among(e, s) PROVE Among(e, r)
    <3>1. PICK i \in 1..n : s[i] = e
      BY <2>2 DEF Among, n
    <3>2. PICK j \in Others : at(j) = i
      BY <1>3
    <3>3. QED
      BY <1>2, <1>3, <1>5, <3>1, <3>2 DEF Among
  <2>3. Among(b, r)
    BY <1>2, <1>3 DEF Among
  <2>4. QED
    BY <2>1, <2>2, <2>3
<1>11. QED
  BY <1>2, <1>8, <1>9, <1>10 DEF r

-----------------------------------------------------------------------------
(* Sizes *)

\* What is looked for has room for the header and the request.
LEMMA WantedFacts ==
  ASSUME NEW n \in Nat
  PROVE  /\ Wanted(n) \in Nat
         /\ Wanted(n) >= heapSTRUCT_SIZE + n
         /\ Wanted(n) > 0
<1> DEFINE w == n + heapSTRUCT_SIZE
           a == portBYTE_ALIGNMENT
           m == w % a
<1>1. w \in Nat /\ w > 0 /\ a \in Nat /\ a > 0
  BY HeapAssumption
<1>2. m \in 0..(a - 1)
  <2> HIDE DEF w, a
  <2>1. QED
    BY <1>1
<1>3. Wanted(n) = IF m = 0 THEN w ELSE w + (a - m)
  BY DEF Wanted
<1> HIDE DEF w, a, m
<1>4. Wanted(n) \in Nat /\ Wanted(n) >= w
  BY <1>1, <1>2, <1>3
<1>5. QED
  BY <1>1, <1>4, HeapAssumption DEF w

\* prvHeapInit leaves one free block that is the whole heap.
LEMMA HeapInitially == Init => IInv
<1> SUFFICES ASSUME Init PROVE IInv
  OBVIOUS
<1> USE HeapAssumption DEF Init, Blocks, Used
<1>1. /\ Blocks = {0} /\ size[0] = configADJUSTED_HEAP_SIZE
      /\ Used = {} /\ Len(free) = 1 /\ free[1] = 0
  OBVIOUS
<1>2. TypeOK
  BY <1>1 DEF TypeOK
<1>3. BlocksTile
  BY <1>1 DEF BlocksTile
<1>4. FreeOrUsed
  BY <1>1 DEF FreeOrUsed
<1>5. RequestFits
  BY <1>1 DEF RequestFits
<1>6. SortedFree
  BY <1>1 DEF SortedFree
<1>7. QED
  BY <1>2, <1>3, <1>4, <1>5, <1>6 DEF IInv

\* The invariant in the words of the lemmas on sequences.
LEMMA ListFacts ==
  ASSUME IInv
  PROVE  /\ free \in Seq(Blocks) /\ size \in [Blocks -> Nat]
         /\ Once(free) /\ Ascending(free, size)
         /\ \A b \in Blocks : Among(b, free) <=> b \notin Used
         /\ \A i \in 1..Len(free) : free[i] \in Blocks /\ free[i] \notin Used
<1>1. free \in Seq(Blocks) /\ size \in [Blocks -> Nat]
  BY DEF IInv, TypeOK
<1>2. Once(free)
  BY DEF IInv, FreeOrUsed, Once
<1>3. Ascending(free, size)
  BY DEF IInv, SortedFree, Ascending
<1>4. \A b \in Blocks : Among(b, free) <=> b \notin Used
  BY DEF IInv, FreeOrUsed, Among
<1>5. \A i \in 1..Len(free) : free[i] \in Blocks
  BY <1>1
<1>6. \A i \in 1..Len(free) : Among(free[i], free)
  BY DEF Among
<1>7. QED
  BY <1>1, <1>2, <1>3, <1>4, <1>5, <1>6

\* The block that is found is free and as large as wanted.
LEMMA FoundFacts ==
  ASSUME IInv, NEW n \in Requests, NEW i \in 1..Len(free), Found(n, i)
  PROVE  /\ n \in Nat /\ Wanted(n) \in Nat /\ Wanted(n) > 0
         /\ Wanted(n) >= heapSTRUCT_SIZE + n
         /\ free[i] \in Blocks /\ free[i] \notin Used
         /\ free[i] \in Nat /\ size[free[i]] \in Nat
         /\ size[free[i]] >= Wanted(n)
<1>1. n \in Nat
  BY HeapAssumption
<1>2. Wanted(n) \in Nat /\ Wanted(n) > 0 /\ Wanted(n) >= heapSTRUCT_SIZE + n
  BY <1>1, WantedFacts
<1>3. free[i] \in Blocks /\ free[i] \notin Used
  BY ListFacts
<1>4. free[i] \in Nat /\ size[free[i]] \in Nat
  BY <1>3 DEF IInv, TypeOK
<1>5. QED
  BY <1>1, <1>2, <1>3, <1>4 DEF Found

-----------------------------------------------------------------------------
(* Steps *)

\* pvPortMalloc keeps the invariant when it hands out a block as it is.
LEMMA WholeStep ==
  ASSUME IInv, NEW n \in Requests, TakeWhole(n)
  PROVE  IInv'
<1>1. PICK i \in 1..Len(free) :
        /\ Found(n, i)
        /\ free' = Unlinked(i)
        /\ asked' = [c \in Used \cup {free[i]} |->
                       IF c = free[i] THEN n ELSE asked[c]]
        /\ xFreeBytesRemaining' = xFreeBytesRemaining - size[free[i]]
        /\ size' = size
  BY DEF TakeWhole
<1> DEFINE b == free[i]
<1>2. /\ n \in Nat /\ Wanted(n) \in Nat
      /\ Wanted(n) >= heapSTRUCT_SIZE + n
      /\ b \in Blocks /\ b \notin Used /\ size[b] \in Nat /\ size[b] >= Wanted(n)
  BY <1>1, FoundFacts
<1>3. /\ Used' = Used \cup {b} /\ Blocks' = Blocks
      /\ asked'[b] = n /\ \A c \in Used : asked'[c] = asked[c]
      /\ asked' \in [Used' -> Requests]
  BY <1>1, <1>2 DEF Used, Blocks, IInv, TypeOK
<1>4. /\ free' \in Seq(Blocks) /\ Once(free') /\ Ascending(free', size)
      /\ \A e : Among(e, free') <=> Among(e, free) /\ e # b
  BY <1>1, ListFacts, UnlinkKeeps DEF Unlinked
<1>5. \A c \in Blocks : Among(c, free) <=> c \notin Used
  BY ListFacts
<1> HIDE DEF b
<1>6. TypeOK'
  <2>1. xFreeBytesRemaining' \in Int
    BY <1>1, <1>2 DEF IInv, TypeOK, b
  <2>2. QED
    BY <1>1, <1>2, <1>3, <1>4, <2>1 DEF IInv, TypeOK
<1>7. BlocksTile'
  BY <1>1, <1>3 DEF IInv, BlocksTile
<1>8. FreeOrUsed'
  BY <1>3, <1>4, <1>5 DEF FreeOrUsed, Once, Among
<1>9. RequestFits'
  BY <1>1, <1>2, <1>3, HeapAssumption DEF IInv, RequestFits
<1>10. SortedFree'
  BY <1>1, <1>4 DEF SortedFree, Ascending
<1>11. QED
  BY <1>6, <1>7, <1>8, <1>9, <1>10 DEF IInv

\* A split leaves the headers where they are and adds one between two.
LEMMA SplitFacts ==
  ASSUME IInv, NEW b \in Blocks, NEW w \in Nat, w > 0, w < size[b]
  PROVE  /\ b + w \notin Blocks /\ b + w \in Nat
         /\ SplitSizes(b, w) \in [Blocks \cup {b + w} -> Nat]
         /\ SplitSizes(b, w)[b] = w
         /\ SplitSizes(b, w)[b + w] = size[b] - w
         /\ \A c \in Blocks : c # b => SplitSizes(b, w)[c] = size[c]
<1>1. b \in Nat /\ size \in [Blocks -> Nat] /\ size[b] \in Nat
  BY DEF IInv, TypeOK
<1>2. b + w \notin Blocks
  <2>1. SUFFICES ASSUME b + w \in Blocks PROVE FALSE
    OBVIOUS
  <2>2. b + size[b] <= b + w
    BY <1>1, <2>1 DEF IInv, BlocksTile
  <2>3. QED
    BY <1>1, <2>2
<1>3. b # b + w
  BY <1>1
<1>4. size[b] - w \in Nat
  BY <1>1
<1>5. QED
  BY <1>1, <1>2, <1>3, <1>4 DEF SplitSizes

\* A split tiles what the block tiled.
LEMMA SplitTiles ==
  ASSUME IInv, NEW b \in Blocks, NEW w \in Nat, w > 0, w < size[b],
         size' = SplitSizes(b, w)
  PROVE  BlocksTile'
<1> DEFINE new == b + w
           end(c) == c + size[c]
<1>1. /\ new \notin Blocks /\ new \in Nat /\ b \in Nat
      /\ Blocks' = Blocks \cup {new}
      /\ size'[b] = w /\ size'[new] = size[b] - w
      /\ \A c \in Blocks : c # b => size'[c] = size[c]
  <2>1. b \in Nat
    BY DEF IInv, TypeOK
  <2>2. Blocks' = Blocks \cup {new}
    BY SplitFacts DEF Blocks, SplitSizes
  <2>3. QED
    BY <2>1, <2>2, SplitFacts
<1>2. /\ \A c \in Blocks : c \in Nat /\ size[c] \in Nat
      /\ configADJUSTED_HEAP_SIZE \in Nat
  BY HeapAssumption DEF IInv, TypeOK
<1>3. /\ 0 \in Blocks
      /\ \A a \in Blocks :
           /\ end(a) \in Blocks \cup {configADJUSTED_HEAP_SIZE}
           /\ end(a) <= configADJUSTED_HEAP_SIZE
           /\ \A c \in Blocks : a < c => end(a) <= c
  BY DEF IInv, BlocksTile
<1>4. /\ b + size'[b] = new
      /\ new + size'[new] = end(b)
      /\ \A c \in Blocks : c # b => c + size'[c] = end(c)
  BY <1>1, <1>2
<1>5. b < new /\ new < end(b)
  BY <1>1, <1>2
<1>6. \A c \in Blocks : end(c) \in Nat
  BY <1>2
<1> HIDE DEF new, end
<1>7. ASSUME NEW a \in Blocks'
      PROVE  /\ a + size'[a] \in Blocks' \cup {configADJUSTED_HEAP_SIZE}
             /\ a + size'[a] <= configADJUSTED_HEAP_SIZE
             /\ \A c \in Blocks' : a < c => a + size'[a] <= c
  <2>1. CASE a = b
    <3>1. new <= configADJUSTED_HEAP_SIZE
      BY <1>1, <1>2, <1>3, <1>5, <1>6
    <3>2. ASSUME NEW c \in Blocks, b < c PROVE new <= c
      BY <1>1, <1>2, <1>3, <1>5, <1>6, <3>2
    <3>3. QED
      BY <1>1, <1>4, <2>1, <3>1, <3>2
  <2>2. CASE a = new
    <3>1. ASSUME NEW c \in Blocks, new < c PROVE end(b) <= c
      BY <1>1, <1>2, <1>3, <1>5, <1>6, <3>1
    <3>2. QED
      BY <1>1, <1>3, <1>4, <2>2, <3>1
  <2>3. CASE a \in Blocks /\ a # b
    <3>1. a + size'[a] = end(a)
      BY <1>4, <2>3
    <3>2. a < new => end(a) <= new
      <4>1. CASE a < b
        BY <1>1, <1>2, <1>3, <1>5, <1>6, <2>3, <4>1
      <4>2. CASE b < a
        BY <1>1, <1>2, <1>3, <1>5, <1>6, <2>3, <4>2
      <4>3. QED
        BY <1>2, <2>3, <4>1, <4>2
    <3>3. QED
      BY <1>1, <1>3, <2>3, <3>1, <3>2
  <2>4. QED
    BY <1>1, <2>1, <2>2, <2>3
<1>8. 0 \in Blocks'
  BY <1>1, <1>3
<1>9. QED
  BY <1>7, <1>8 DEF BlocksTile

\* pvPortMalloc keeps the invariant when it splits the block it found and
\* puts the rest back.
LEMMA PartStep ==
  ASSUME IInv, NEW n \in Requests, TakePart(n)
  PROVE  IInv'
<1>1. PICK i \in 1..Len(free) :
        /\ Found(n, i)
        /\ size[free[i]] - Wanted(n) > heapMINIMUM_BLOCK_SIZE
        /\ size' = SplitSizes(free[i], Wanted(n))
        /\ prvInsertBlockIntoFreeList(Unlinked(i), size', free[i] + Wanted(n))
        /\ asked' = [c \in Used \cup {free[i]} |->
                       IF c = free[i] THEN n ELSE asked[c]]
        /\ xFreeBytesRemaining' = xFreeBytesRemaining - Wanted(n)
  BY DEF TakePart
<1> DEFINE b == free[i]
           w == Wanted(n)
           new == b + w
<1>2. /\ n \in Nat /\ w \in Nat /\ w > 0 /\ w >= heapSTRUCT_SIZE + n
      /\ b \in Blocks /\ b \notin Used /\ b \in Nat /\ size[b] \in Nat
  BY <1>1, FoundFacts
<1>3. w < size[b]
  <2>1. heapMINIMUM_BLOCK_SIZE \in Nat
    BY HeapAssumption DEF heapMINIMUM_BLOCK_SIZE
  <2> HIDE DEF b, w
  <2>2. size[b] - w > heapMINIMUM_BLOCK_SIZE
    BY <1>1 DEF b, w
  <2>3. QED
    BY <1>2, <2>1, <2>2
<1>4. size' = SplitSizes(b, w)
  BY <1>1
<1>5. prvInsertBlockIntoFreeList(Unlinked(i), size', new)
  BY <1>1
<1>6. /\ Used' = Used \cup {b}
      /\ asked'[b] = n /\ \A c \in Used : asked'[c] = asked[c]
      /\ asked' \in [Used' -> Requests]
  BY <1>1, <1>2 DEF Used, IInv, TypeOK
<1>7. /\ Unlinked(i) \in Seq(Blocks) /\ Once(Unlinked(i))
      /\ Ascending(Unlinked(i), size)
      /\ \A e : Among(e, Unlinked(i)) <=> Among(e, free) /\ e # b
  BY ListFacts, UnlinkKeeps DEF Unlinked
<1>8. \A c \in Blocks : Among(c, free) <=> c \notin Used
  BY ListFacts
<1> HIDE DEF b, w
<1>9. /\ new \notin Blocks /\ new \in Nat
      /\ size' \in [Blocks \cup {new} -> Nat]
      /\ size'[b] = w
      /\ \A c \in Blocks : c # b => size'[c] = size[c]
  <2>1. /\ b + w \notin Blocks /\ b + w \in Nat
        /\ SplitSizes(b, w) \in [Blocks \cup {b + w} -> Nat]
        /\ SplitSizes(b, w)[b] = w
        /\ \A c \in Blocks : c # b => SplitSizes(b, w)[c] = size[c]
    <3>1. /\ b \in Blocks /\ w \in Nat /\ w > 0 /\ w < size[b]
          /\ b \in Nat /\ size \in [Blocks -> Nat]
      BY <1>2, <1>3, ListFacts
    <3>2. b + w \notin Blocks
      BY ONLY IInv, <3>1, SplitFacts
    <3>3. QED
      BY <3>1, <3>2 DEF SplitSizes
  <2>2. QED
    BY <1>4, <2>1
<1>10. Blocks' = Blocks \cup {new}
  BY <1>4 DEF Blocks, SplitSizes
<1>11. BlocksTile'
  BY <1>2, <1>3, <1>4, SplitTiles
<1> HIDE DEF new
<1> DEFINE rest == Unlinked(i)
<1>12. /\ rest \in Seq(Blocks') /\ \A j \in 1..Len(rest) : rest[j] \in Blocks /\ rest[j] # b
  <2>1. \A j \in 1..Len(rest) : rest[j] \in Blocks
    BY <1>7
  <2>2. \A j \in 1..Len(rest) : Among(rest[j], rest)
    BY DEF Among
  <2>3. rest \in Seq(Blocks')
    BY <1>7, <1>10
  <2>4. QED
    BY <1>7, <2>1, <2>2, <2>3
<1>13. ~Among(new, rest)
  BY <1>9, <1>12 DEF Among
<1>14. Once(rest) /\ Ascending(rest, size')
  <2>1. \A j \in 1..Len(rest) : size'[rest[j]] = size[rest[j]]
    BY <1>9, <1>12
  <2>2. QED
    BY <1>7, <2>1 DEF Ascending
<1>15. /\ free' \in Seq(Blocks') /\ Once(free') /\ Ascending(free', size')
       /\ \A e : Among(e, free') <=> Among(e, rest) \/ e = new
  <2> HIDE DEF rest
  <2>1. PICK k \in 1..(Len(rest) + 1) :
          /\ \A j \in 1..(k - 1) : size'[rest[j]] < size'[new]
          /\ k <= Len(rest) => size'[rest[k]] >= size'[new]
          /\ free' = InsertAt(rest, k, new)
    BY <1>5 DEF prvInsertBlockIntoFreeList, rest
  <2>2. size' \in [Blocks' -> Nat] /\ new \in Blocks'
    BY <1>9, <1>10
  <2>3. QED
    BY <1>12, <1>13, <1>14, <2>1, <2>2, InsertKeeps
<1>16. TypeOK'
  <2>1. Blocks' \subseteq Nat /\ Used' \subseteq Blocks'
    BY <1>2, <1>6, <1>9, <1>10 DEF IInv, TypeOK
  <2>2. xFreeBytesRemaining' \in Int
    BY <1>1, <1>2 DEF IInv, TypeOK, w
  <2>3. QED
    BY <1>6, <1>9, <1>10, <1>15, <2>1, <2>2 DEF TypeOK
<1>17. FreeOrUsed'
  <2>1. \A c \in Blocks' : Among(c, free') <=> c \notin Used'
    <3>1. new \notin Used
      BY <1>9 DEF IInv, TypeOK
    <3>2. QED
      BY <1>2, <1>6, <1>7, <1>8, <1>9, <1>10, <1>15, <3>1
  <2>2. QED
    BY <1>15, <2>1 DEF FreeOrUsed, Once, Among
<1>18. RequestFits'
  <2>1. \A c \in Used : c \in Blocks /\ c # b
    BY <1>2 DEF IInv, TypeOK
  <2>2. \A c \in Used : size'[c] = size[c] /\ asked'[c] = asked[c]
    BY <1>6, <1>9, <2>1
  <2>3. size'[b] >= heapSTRUCT_SIZE + asked'[b]
    BY <1>2, <1>6, <1>9
  <2>4. QED
    BY <1>6, <2>2, <2>3 DEF IInv, RequestFits
<1>19. SortedFree'
  BY <1>15 DEF SortedFree, Ascending
<1>20. QED
  BY <1>11, <1>16, <1>17, <1>18, <1>19 DEF IInv

\* vPortFree keeps the invariant.
LEMMA FreeStep ==
  ASSUME IInv, NEW b \in Used, vPortFree(b)
  PROVE  IInv'
<1>1. /\ prvInsertBlockIntoFreeList(free, size, b)
      /\ asked' = [c \in Used \ {b} |-> asked[c]]
      /\ xFreeBytesRemaining' = xFreeBytesRemaining + size[b]
      /\ size' = size
  BY DEF vPortFree
<1>2. b \in Blocks /\ size[b] \in Nat /\ ~Among(b, free)
  <2>1. b \in Blocks
    BY DEF IInv, TypeOK
  <2>2. QED
    BY <2>1, ListFacts
<1>3. /\ Used' = Used \ {b} /\ Blocks' = Blocks
      /\ \A c \in Used' : asked'[c] = asked[c]
      /\ asked' \in [Used' -> Requests]
  BY <1>1 DEF Used, Blocks, IInv, TypeOK
<1>4. /\ free' \in Seq(Blocks) /\ Once(free') /\ Ascending(free', size)
      /\ \A e : Among(e, free') <=> Among(e, free) \/ e = b
  <2>1. PICK k \in 1..(Len(free) + 1) :
          /\ \A j \in 1..(k - 1) : size[free[j]] < size[b]
          /\ k <= Len(free) => size[free[k]] >= size[b]
          /\ free' = InsertAt(free, k, b)
    BY <1>1 DEF prvInsertBlockIntoFreeList
  <2>2. /\ free \in Seq(Blocks) /\ size \in [Blocks -> Nat]
        /\ Once(free) /\ Ascending(free, size)
    BY ListFacts
  <2>3. QED
    BY <1>2, <2>1, <2>2, InsertKeeps
<1>5. \A c \in Blocks : Among(c, free) <=> c \notin Used
  BY ListFacts
<1>6. TypeOK'
  <2>1. xFreeBytesRemaining' \in Int
    BY <1>1, <1>2 DEF IInv, TypeOK
  <2>2. QED
    BY <1>1, <1>3, <1>4, <2>1 DEF IInv, TypeOK
<1>7. BlocksTile'
  BY <1>1, <1>3 DEF IInv, BlocksTile
<1>8. FreeOrUsed'
  BY <1>2, <1>3, <1>4, <1>5 DEF FreeOrUsed, Once, Among
<1>9. RequestFits'
  BY <1>1, <1>3 DEF IInv, RequestFits
<1>10. SortedFree'
  BY <1>1, <1>4 DEF SortedFree, Ascending
<1>11. QED
  BY <1>6, <1>7, <1>8, <1>9, <1>10 DEF IInv

\* The invariant holds in every reachable state.
LEMMA HeapInvariant == Spec => []IInv
<1>1. Init => IInv
  BY HeapInitially
<1>2. IInv /\ [Next]_vars => IInv'
  <2> SUFFICES ASSUME IInv, [Next]_vars PROVE IInv'
    OBVIOUS
  <2>1. CASE UNCHANGED vars
    BY <2>1 DEF vars, IInv, TypeOK, BlocksTile, FreeOrUsed, RequestFits,
                SortedFree, Blocks, Used
  <2>2. ASSUME NEW n \in Requests, pvPortMalloc(n) PROVE IInv'
    <3>1. CASE TakeWhole(n)
      BY <3>1, WholeStep
    <3>2. CASE TakePart(n)
      BY <3>2, PartStep
    <3>3. QED
      BY <2>1, <2>2, <3>1, <3>2 DEF pvPortMalloc
  <2>3. ASSUME NEW b \in Used, vPortFree(b) PROVE IInv'
    BY <2>3, FreeStep
  <2>4. QED
    BY <2>1, <2>2, <2>3 DEF Next
<1>3. QED
  BY <1>1, <1>2, PTL DEF Spec

-----------------------------------------------------------------------------
(* Theorems *)

\* heap_2.c keeps its data well-formed.
THEOREM HeapTyping == Spec => []TypeOK
<1>1. IInv => TypeOK
  BY DEF IInv
<1>2. QED
  BY <1>1, HeapInvariant, PTL

\* No two blocks of pvPortMalloc ever overlap and no byte of the heap is lost.
THEOREM BlocksAlwaysTile == Spec => []BlocksTile
<1>1. IInv => BlocksTile
  BY DEF IInv
<1>2. QED
  BY <1>1, HeapInvariant, PTL

\* A block of the heap is on the free list once, or with a caller.
THEOREM AlwaysFreeOrUsed == Spec => []FreeOrUsed
<1>1. IInv => FreeOrUsed
  BY DEF IInv
<1>2. QED
  BY <1>1, HeapInvariant, PTL

\* What pvPortMalloc returned is large enough as long as it is in use.
THEOREM RequestAlwaysFits == Spec => []RequestFits
<1>1. IInv => RequestFits
  BY DEF IInv
<1>2. QED
  BY <1>1, HeapInvariant, PTL

\* The free list is always in the order of heap_2.c:93.
THEOREM AlwaysSorted == Spec => []SortedFree
<1>1. IInv => SortedFree
  BY DEF IInv
<1>2. QED
  BY <1>1, HeapInvariant, PTL

\* The block taken is the smallest that is large enough.
THEOREM AlwaysBestFit == Spec => BestFit
<1> DEFINE Fit ==
      \A n \in Requests : TakeWhole(n) \/ TakePart(n) =>
        \A b \in Used' \ Used, i \in 1..Len(free) :
          size[free[i]] >= Wanted(n) => size[b] <= size[free[i]]
<1>1. ASSUME IInv, NEW n \in Requests, TakeWhole(n) \/ TakePart(n),
             NEW b \in Used' \ Used, NEW i \in 1..Len(free),
             size[free[i]] >= Wanted(n)
      PROVE  size[b] <= size[free[i]]
  <2>1. PICK k \in 1..Len(free) :
          /\ Found(n, k)
          /\ asked' = [c \in Used \cup {free[k]} |->
                         IF c = free[k] THEN n ELSE asked[c]]
    BY <1>1 DEF TakeWhole, TakePart
  <2>2. b = free[k]
    BY <1>1, <2>1 DEF Used
  <2>3. /\ Len(free) \in Nat /\ Wanted(n) \in Nat
        /\ \A j \in 1..Len(free) : size[free[j]] \in Nat
    <3>1. Wanted(n) \in Nat
      BY <1>1, <2>1, FoundFacts
    <3>2. Len(free) \in Nat
      BY <1>1, ListFacts
    <3>3. \A j \in 1..Len(free) : free[j] \in Blocks
      BY <1>1, ListFacts
    <3>4. \A c \in Blocks : size[c] \in Nat
      BY <1>1, ListFacts
    <3>5. QED
      BY <3>1, <3>2, <3>3, <3>4
  <2>4. ~(i < k)
    <3>1. \A j \in 1..(k - 1) : size[free[j]] < Wanted(n)
      BY <2>1 DEF Found
    <3>2. SUFFICES ASSUME i < k PROVE FALSE
      OBVIOUS
    <3>3. size[free[i]] < Wanted(n)
      BY <2>3, <3>1, <3>2
    <3>4. QED
      BY <1>1, <2>3, <3>3
  <2>5. i = k \/ k < i
    BY <2>3, <2>4
  <2>6. k < i => size[free[k]] <= size[free[i]]
    BY <1>1 DEF IInv, SortedFree
  <2>7. QED
    BY <2>2, <2>3, <2>5, <2>6
<1>2. IInv /\ [Next]_vars => [Fit]_vars
  BY <1>1
<1>3. QED
  BY <1>2, HeapInvariant, PTL DEF Spec, BestFit
-----------------------------------------------------------------------------
(* The start-up: what a request takes *)

LEMMA DivFacts ==
  ASSUME NEW a \in Nat \ {0}, NEW n \in Int
  PROVE  /\ n \div a \in Int /\ n % a \in 0..(a - 1)
         /\ n = (n \div a) * a + (n % a)
OBVIOUS

LEMMA DivUnique ==
  ASSUME NEW a \in Nat \ {0}, NEW q \in Int, NEW r \in 0..(a - 1)
  PROVE  (q * a + r) \div a = q
OBVIOUS

LEMMA TimesMonotone ==
  ASSUME NEW a \in Nat \ {0}, NEW p \in Int, NEW q \in Int, p <= q
  PROVE  p * a <= q * a
OBVIOUS

LEMMA DivMonotone ==
  ASSUME NEW a \in Nat \ {0}, NEW m \in Int, NEW n \in Int, m <= n
  PROVE  m \div a <= n \div a
<1> DEFINE p == m \div a
           q == n \div a
<1>1. /\ p \in Int /\ q \in Int /\ m % a \in 0..(a - 1) /\ n % a \in 0..(a - 1)
      /\ m = p * a + (m % a) /\ n = q * a + (n % a)
  BY DivFacts
<1> HIDE DEF p, q
<1>2. SUFFICES ASSUME q + 1 <= p PROVE FALSE
  BY <1>1 DEF p, q
<1>3. (q + 1) * a <= p * a
  BY <1>1, <1>2, TimesMonotone
<1>4. (q + 1) * a = q * a + a
  BY <1>1
<1>5. QED
  BY <1>1, <1>3, <1>4

\* The code's arithmetic rounds up to the next multiple.
LEMMA WantedRounds ==
  ASSUME NEW n \in Nat
  PROVE  Wanted(n) = Rounded(n)
<1> DEFINE a == portBYTE_ALIGNMENT
           w == n + heapSTRUCT_SIZE
           q == w \div a
           r == w % a
<1>1. a \in Nat \ {0} /\ w \in Nat
  BY HeapAssumption
<1> HIDE DEF a, w
<1>2. q \in Int /\ r \in 0..(a - 1) /\ w = q * a + r
  BY <1>1, DivFacts
<1>3. Wanted(n) = IF r = 0 THEN w ELSE w + (a - r)
  BY DEF Wanted, w, a
<1>4. Rounded(n) = ((w + a - 1) \div a) * a
  BY DEF Rounded, w, a
<1> HIDE DEF q, r
<1>5. CASE r = 0
  <2>1. a - 1 \in 0..(a - 1) /\ w + a - 1 = q * a + (a - 1)
    BY <1>1, <1>2, <1>5
  <2>2. (w + a - 1) \div a = q
    BY <1>1, <1>2, <2>1, DivUnique
  <2>3. QED
    BY <1>1, <1>2, <1>3, <1>4, <1>5, <2>2
<1>6. CASE r # 0
  <2>1. /\ r - 1 \in 0..(a - 1) /\ q + 1 \in Int
        /\ (q + 1) * a = q * a + a
    BY <1>1, <1>2, <1>6
  <2>2. w + a - 1 = (q + 1) * a + (r - 1)
    BY <1>1, <1>2, <2>1
  <2>3. (w + a - 1) \div a = q + 1
    BY <1>1, <2>1, <2>2, DivUnique
  <2>4. QED
    BY <1>1, <1>2, <1>3, <1>4, <1>6, <2>1, <2>3
<1>7. QED
  BY <1>5, <1>6

LEMMA WantedMonotone ==
  ASSUME NEW m \in Nat, NEW n \in Nat, m <= n
  PROVE  Wanted(m) <= Wanted(n)
<1> DEFINE a == portBYTE_ALIGNMENT
           p == (m + heapSTRUCT_SIZE + a - 1) \div a
           q == (n + heapSTRUCT_SIZE + a - 1) \div a
<1>1. a \in Nat \ {0}
  BY HeapAssumption
<1>2. p \in Int /\ q \in Int
  BY HeapAssumption, DivFacts
<1>3. p <= q
  BY HeapAssumption, DivMonotone
<1>4. p * a <= q * a
  <2> HIDE DEF p, q, a
  <2> QED
    BY <1>1, <1>2, <1>3, TimesMonotone
<1>5. Wanted(m) = p * a /\ Wanted(n) = q * a
  BY WantedRounds DEF Rounded
<1>6. QED
  BY <1>4, <1>5

-----------------------------------------------------------------------------
(* The start-up: room for what is still to come *)

\* Every set of numbers that is not empty has a least one.
LEMMA LeastElement ==
  ASSUME NEW T \in SUBSET Nat, T # {}
  PROVE  \E x \in T : \A y \in T : x <= y
<1>1. PICK x \in T : \A y \in T : ~ (<<y, x>> \in OpToRel(<, Nat))
  BY NatLessThanWellFounded, WFMin
<1>2. ASSUME NEW y \in T PROVE x <= y
  <2>1. ~ (<<y, x>> \in OpToRel(<, Nat))
    BY <1>1
  <2>2. ~(y < x)
    BY <2>1 DEF OpToRel
  <2>3. QED
    BY <2>2
<1>3. QED
  BY <1>2

\* A free block of at least n bytes.
Room(n) == \E b \in Blocks \ Used : size[b] >= n

\* pvPortMalloc fails only if no block is large enough.
LEMMA RoomFound ==
  ASSUME IInv, NEW n \in Requests, n > 0, Wanted(n) < configADJUSTED_HEAP_SIZE,
         Room(Wanted(n))
  PROVE  ~Fails(n)
<1>1. Wanted(n) \in Nat /\ Len(free) \in Nat
  <2>1. n \in Nat
    BY HeapAssumption
  <2>2. QED
    BY <2>1, WantedFacts, ListFacts
<1>2. \A i \in 1..Len(free) : size[free[i]] \in Nat
  BY ListFacts
<1>3. PICK b \in Blocks \ Used : size[b] >= Wanted(n)
  BY DEF Room
<1>4. PICK k \in 1..Len(free) : free[k] = b
  BY <1>3, ListFacts DEF Among
<1> DEFINE T == {i \in 1..Len(free) : size[free[i]] >= Wanted(n)}
<1>5. T # {} /\ T \in SUBSET Nat
  BY <1>1, <1>3, <1>4
<1>6. PICK i \in T : \A j \in T : i <= j
  BY <1>5, LeastElement
<1>7. \A j \in 1..(i - 1) : size[free[j]] < Wanted(n)
  <2> TAKE j \in 1..(i - 1)
  <2>1. j \in 1..Len(free) /\ ~(i <= j)
    BY <1>1, <1>6
  <2>2. j \notin T
    BY <1>6, <2>1
  <2>3. QED
    BY <1>1, <1>2, <2>1, <2>2
<1>8. Found(n, i)
  BY <1>6, <1>7 DEF Found
<1>9. QED
  BY <1>6, <1>8 DEF Fails

\* An allocation leaves the rest of the largest block, if that is not so small
\* that it goes to the caller with the block.
LEMMA RoomLeft ==
  ASSUME IInv, NEW n \in Requests, Allocate(n), NEW r \in Nat,
         r > heapMINIMUM_BLOCK_SIZE, Room(Wanted(n) + r)
  PROVE  Room(r)'
<1>1. PICK big \in Blocks \ Used : size[big] >= Wanted(n) + r
  BY DEF Room
<1>2. heapMINIMUM_BLOCK_SIZE \in Nat /\ size \in [Blocks -> Nat] /\ size[big] \in Nat
  BY HeapAssumption, ListFacts DEF heapMINIMUM_BLOCK_SIZE
<1>3. CASE TakeWhole(n)
  <2>1. PICK i \in 1..Len(free) :
          /\ Found(n, i)
          /\ size[free[i]] - Wanted(n) <= heapMINIMUM_BLOCK_SIZE
          /\ asked' = [c \in Used \cup {free[i]} |->
                         IF c = free[i] THEN n ELSE asked[c]]
          /\ size' = size
    BY <1>3 DEF TakeWhole
  <2>2. Wanted(n) \in Nat /\ size[free[i]] \in Nat
    BY <2>1, FoundFacts
  <2>3. big # free[i]
    BY <1>1, <1>2, <2>1, <2>2
  <2>4. big \in Blocks' \ Used' /\ size'[big] = size[big]
    BY <1>1, <2>1, <2>3 DEF Blocks, Used
  <2>5. size[big] >= r
    BY <1>1, <1>2, <2>2
  <2>6. QED
    BY <2>4, <2>5 DEF Room
<1>4. CASE TakePart(n)
  <2>1. PICK i \in 1..Len(free) :
          /\ Found(n, i)
          /\ size[free[i]] - Wanted(n) > heapMINIMUM_BLOCK_SIZE
          /\ size' = SplitSizes(free[i], Wanted(n))
          /\ asked' = [c \in Used \cup {free[i]} |->
                         IF c = free[i] THEN n ELSE asked[c]]
    BY <1>4 DEF TakePart
  <2> DEFINE b == free[i]
             w == Wanted(n)
  <2>2. /\ w \in Nat /\ w > 0 /\ b \in Blocks /\ b \notin Used
        /\ b \in Nat /\ size[b] \in Nat
    BY <2>1, FoundFacts
  <2>3. size' = SplitSizes(b, w) /\ Used' = Used \cup {b} /\ size[b] - w > heapMINIMUM_BLOCK_SIZE
    BY <2>1 DEF Used
  <2>4. size[big] >= w + r
    BY <1>1
  <2> HIDE DEF b, w
  <2>5. w < size[b]
    BY <1>2, <2>2, <2>3
  <2>6. /\ b + w \notin Blocks
        /\ SplitSizes(b, w)[b + w] = size[b] - w
        /\ \A c \in Blocks : c # b => SplitSizes(b, w)[c] = size[c]
    <3>1. /\ b \in Blocks /\ w \in Nat /\ w > 0 /\ w < size[b]
          /\ b \in Nat /\ size \in [Blocks -> Nat]
      BY <1>2, <2>2, <2>5
    <3>2. b + w \notin Blocks
      BY ONLY IInv, <3>1, SplitFacts
    <3>3. QED
      BY <3>1, <3>2 DEF SplitSizes
  <2>7. Blocks' = Blocks \cup {b + w}
    <3>1. DOMAIN SplitSizes(b, w) = Blocks \cup {b + w}
      BY DEF SplitSizes
    <3>2. QED
      BY <2>3, <3>1 DEF Blocks
  <2>8. CASE big = b
    <3>1. size[b] - w >= r
      BY <1>2, <2>2, <2>4, <2>8
    <3>2. b + w \notin Used /\ b + w # b
      BY <2>2, <2>6 DEF IInv, TypeOK
    <3>3. QED
      BY <2>3, <2>6, <2>7, <3>1, <3>2 DEF Room
  <2>9. CASE big # b
    <3>1. size'[big] = size[big] /\ big \in Blocks' \ Used' /\ size[big] >= r
      BY <1>1, <1>2, <2>2, <2>3, <2>4, <2>6, <2>7, <2>9
    <3>2. QED
      BY <3>1 DEF Room
  <2>10. QED
    BY <2>8, <2>9
<1>5. QED
  BY <1>3, <1>4 DEF Allocate

\* A free only adds to what is free.
LEMMA RoomAfterFree ==
  ASSUME NEW b, vPortFree(b), NEW n, Room(n)
  PROVE  Room(n)'
<1>1. PICK c \in Blocks \ Used : size[c] >= n
  BY DEF Room
<1>2. c \in Blocks' \ Used' /\ size'[c] = size[c]
  BY <1>1 DEF vPortFree, Blocks, Used
<1>3. QED
  BY <1>1, <1>2 DEF Room

-----------------------------------------------------------------------------
(* The start-up: what it asks for *)

\* The thirteen requests of MAIN one by one.
LEMMA MainRequestsAre ==
  /\ Len(MainRequests) = 13 /\ Len(GuiRequests) = 2
  /\ \A k \in {1, 3, 6, 10, 12} : MainRequests[k] = MinimalStack
  /\ \A k \in {2, 4, 7, 9, 11, 13} : MainRequests[k] = TCB_t
  /\ MainRequests[5] = Queue_t /\ MainRequests[8] = guiStack
  /\ \A k \in {1, 2} : GuiRequests[k] = Queue_t
  BY DEF MainRequests, GuiRequests

-----------------------------------------------------------------------------
(* The start-up: the invariant *)

\* What a request from the k-th on, of n bytes, will still take.
Due(done, k, n) == IF done < k THEN Wanted(n) ELSE 0

MainLeft(done) ==
  LET stacks(k) == Due(done, k, MinimalStack)
      blocks(k) == Due(done, k, TCB_t)
  IN  stacks(1) + stacks(3) + stacks(6) + stacks(10) + stacks(12)
        + blocks(2) + blocks(4) + blocks(7) + blocks(9) + blocks(11)
        + blocks(13)
        + Due(done, 5, Queue_t) + Due(done, 8, guiStack)

GuiLeft(done) == Due(done, 1, Queue_t) + Due(done, 2, Queue_t)

\* All that MAIN and the GUI task have not asked for yet.
Left == MainLeft(main) + GuiLeft(gui)

BootTypeOK ==
  /\ guiStack \in GuiStacks
  /\ main \in 0..13 /\ gui \in 0..2 /\ idle \in Nat
  /\ idle > 0 => main = 13

\* A single free block has room for all of it, whatever the idle task does.
RoomForAll ==
  guiStack <= LargestGuiStack =>
    /\ hook = {}
    /\ Left > 0 => Room(Left)

BootInv == IInv /\ BootTypeOK /\ RoomForAll

LEMMA BootSizes ==
  /\ MinimalStack \in Nat /\ TCB_t \in Nat /\ Queue_t \in Nat
  /\ LargestGuiStack \in Nat /\ GuiStacks \subseteq Nat
  /\ Wanted(MinimalStack) \in Nat /\ Wanted(MinimalStack) > heapMINIMUM_BLOCK_SIZE
  /\ Wanted(TCB_t) \in Nat /\ Wanted(TCB_t) > heapMINIMUM_BLOCK_SIZE
  /\ Wanted(Queue_t) \in Nat /\ Wanted(Queue_t) > heapMINIMUM_BLOCK_SIZE
  /\ heapMINIMUM_BLOCK_SIZE \in Nat
  /\ 5 * Wanted(MinimalStack) + 6 * Wanted(TCB_t) + 3 * Wanted(Queue_t)
       + Wanted(LargestGuiStack) <= configADJUSTED_HEAP_SIZE
<1>1. /\ MinimalStack \in Nat /\ TCB_t \in Nat /\ Queue_t \in Nat
      /\ LargestGuiStack \in Nat /\ GuiStacks \subseteq Nat
  BY StackAssumption
<1>2. \A n \in {MinimalStack, TCB_t, Queue_t} :
        Wanted(n) \in Nat /\ Wanted(n) > heapMINIMUM_BLOCK_SIZE
  <2> TAKE n \in {MinimalStack, TCB_t, Queue_t}
  <2>1. n \in Nat /\ n > heapSTRUCT_SIZE
    BY <1>1, BootAssumption
  <2>2. Wanted(n) \in Nat /\ Wanted(n) >= heapSTRUCT_SIZE + n
    BY <2>1, WantedFacts
  <2>3. QED
    BY <2>1, <2>2, HeapAssumption DEF heapMINIMUM_BLOCK_SIZE
<1>3. 5 * Wanted(MinimalStack) + 6 * Wanted(TCB_t) + 3 * Wanted(Queue_t)
        + Wanted(LargestGuiStack) <= configADJUSTED_HEAP_SIZE
  <2>1. /\ Wanted(MinimalStack) = Rounded(MinimalStack)
        /\ Wanted(TCB_t) = Rounded(TCB_t)
        /\ Wanted(Queue_t) = Rounded(Queue_t)
        /\ Wanted(LargestGuiStack) = Rounded(LargestGuiStack)
    BY <1>1, WantedRounds
  <2>2. QED
    BY <2>1, BootAssumption
<1>4. heapMINIMUM_BLOCK_SIZE \in Nat
  BY HeapAssumption DEF heapMINIMUM_BLOCK_SIZE
<1>5. QED
  BY <1>1, <1>2, <1>3, <1>4

LEMMA BootRequests ==
  ASSUME BootTypeOK
  PROVE  /\ main < 13 => MainRequests[main + 1] \in Requests
         /\ gui < 2 => GuiRequests[gui + 1] \in Requests
<1>1. {MinimalStack, TCB_t, Queue_t, guiStack} \subseteq Requests
  BY StackAssumption DEF BootTypeOK
<1>2. main < 13 => main + 1 \in {1, 3, 6, 10, 12} \cup {2, 4, 7, 9, 11, 13} \cup {5, 8}
  BY DEF BootTypeOK
<1>3. gui < 2 => gui + 1 \in {1, 2}
  BY DEF BootTypeOK
<1>4. QED
  BY <1>1, <1>2, <1>3, MainRequestsAre

\* A request of MAIN is the first part of what it has left.
LEMMA MainLeftStep ==
  ASSUME BootTypeOK, main < 13
  PROVE  /\ MainLeft(main) = Wanted(MainRequests[main + 1]) + MainLeft(main + 1)
         /\ MainLeft(main + 1) \in Nat
         /\ MainLeft(main + 1) > 0 => MainLeft(main + 1) > heapMINIMUM_BLOCK_SIZE
         /\ MainRequests[main + 1] > 0
<1>1. /\ guiStack \in Nat /\ guiStack > 0
      /\ Wanted(guiStack) \in Nat
  <2>1. guiStack \in Nat /\ guiStack # 0
    BY BootSizes, BootAssumption DEF BootTypeOK
  <2>2. QED
    BY <2>1, WantedFacts
<1>2. main \in 0..12
  BY DEF BootTypeOK
<1> DEFINE m == Wanted(MinimalStack)
           t == Wanted(TCB_t)
           q == Wanted(Queue_t)
           g == Wanted(guiStack)
           e == heapMINIMUM_BLOCK_SIZE
<1>3. m \in Nat /\ t \in Nat /\ q \in Nat /\ g \in Nat /\ m > e /\ t > e /\ e \in Nat
  BY <1>1, BootSizes
<1> DEFINE D(done, k, n) == IF done < k THEN n ELSE 0
           L(done) == D(done, 1, m) + D(done, 3, m) + D(done, 6, m)
                        + D(done, 10, m) + D(done, 12, m)
                        + D(done, 2, t) + D(done, 4, t) + D(done, 7, t)
                        + D(done, 9, t) + D(done, 11, t) + D(done, 13, t)
                        + D(done, 5, q) + D(done, 8, g)
<1>4. \A done : MainLeft(done) = L(done)
  BY DEF MainLeft, Due
<1>5. /\ \A k \in {1, 3, 6, 10, 12} : Wanted(MainRequests[k]) = m
      /\ \A k \in {2, 4, 7, 9, 11, 13} : Wanted(MainRequests[k]) = t
      /\ Wanted(MainRequests[5]) = q /\ Wanted(MainRequests[8]) = g
  BY MainRequestsAre
<1> HIDE DEF m, t, q, g, e
<1>6. \A d \in 0..12 :
        /\ L(d + 1) \in Nat
        /\ L(d + 1) > 0 => L(d + 1) > e
        /\ d + 1 \in {1, 3, 6, 10, 12} => L(d) = m + L(d + 1)
        /\ d + 1 \in {2, 4, 7, 9, 11, 13} => L(d) = t + L(d + 1)
        /\ d + 1 = 5 => L(d) = q + L(d + 1)
        /\ d + 1 = 8 => L(d) = g + L(d + 1)
  BY <1>3
<1>7. main + 1 \in {1, 3, 6, 10, 12} \cup {2, 4, 7, 9, 11, 13} \cup {5, 8}
  BY <1>2
<1> HIDE DEF L
<1>8. L(main) = Wanted(MainRequests[main + 1]) + L(main + 1)
  BY <1>2, <1>5, <1>6, <1>7
<1>9. MainRequests[main + 1] > 0
  <2>1. MinimalStack > 0 /\ TCB_t > 0 /\ Queue_t > 0
    BY HeapAssumption, BootAssumption, BootSizes
  <2>2. QED
    BY <1>1, <1>7, <2>1, MainRequestsAre
<1>10. QED
  BY <1>2, <1>4, <1>6, <1>8, <1>9 DEF e

LEMMA GuiLeftStep ==
  ASSUME BootTypeOK, gui < 2
  PROVE  /\ GuiLeft(gui) = Wanted(GuiRequests[gui + 1]) + GuiLeft(gui + 1)
         /\ GuiLeft(gui + 1) \in Nat
         /\ GuiLeft(gui + 1) > 0 => GuiLeft(gui + 1) > heapMINIMUM_BLOCK_SIZE
         /\ GuiRequests[gui + 1] > 0
<1>1. /\ Wanted(Queue_t) \in Nat /\ Wanted(Queue_t) > heapMINIMUM_BLOCK_SIZE
      /\ heapMINIMUM_BLOCK_SIZE \in Nat /\ Queue_t > 0
  BY BootSizes, BootAssumption, HeapAssumption
<1>2. gui \in {0, 1}
  BY DEF BootTypeOK
<1>3. GuiRequests[gui + 1] = Queue_t
  BY <1>2, MainRequestsAre
<1>4. QED
  BY <1>1, <1>2, <1>3 DEF GuiLeft, Due

LEMMA LeftTyping ==
  ASSUME BootTypeOK
  PROVE  MainLeft(main) \in Nat /\ GuiLeft(gui) \in Nat
<1>1. MainLeft(main) \in Nat
  <2>1. CASE main < 13
    <3>1. Wanted(MainRequests[main + 1]) \in Nat
      <4>1. MainRequests[main + 1] \in Nat
        BY <2>1, BootRequests, HeapAssumption
      <4>2. QED
        BY <4>1, WantedFacts
    <3>2. QED
      BY <2>1, <3>1, MainLeftStep
  <2>2. CASE main = 13
    BY <2>2 DEF MainLeft, Due
  <2>3. QED
    BY <2>1, <2>2 DEF BootTypeOK
<1>2. GuiLeft(gui) \in Nat
  BY BootSizes DEF GuiLeft, Due
<1>3. QED
  BY <1>1, <1>2

\* What MAIN has left is nothing, or more than a block that is not split.
LEMMA MainLeftLarge ==
  ASSUME BootTypeOK
  PROVE  MainLeft(main) > 0 => MainLeft(main) > heapMINIMUM_BLOCK_SIZE
<1>1. CASE main < 13
  <2>1. TCB_t \in Nat /\ Wanted(TCB_t) > heapMINIMUM_BLOCK_SIZE
        /\ heapMINIMUM_BLOCK_SIZE \in Nat /\ Wanted(TCB_t) \in Nat
    BY BootSizes
  <2>2. \A k \in {1, 2, 3, 4, 5, 6, 7, 9, 10, 11, 12, 13, 8} :
          Due(main, k, MinimalStack) \in Nat /\ Due(main, k, TCB_t) \in Nat
            /\ Due(main, k, Queue_t) \in Nat /\ Due(main, k, guiStack) \in Nat
    <3>1. guiStack \in Nat
      BY BootSizes DEF BootTypeOK
    <3>2. Wanted(guiStack) \in Nat
      BY <3>1, WantedFacts
    <3>3. QED
      BY <3>2, BootSizes DEF Due
  <2>3. Due(main, 13, TCB_t) = Wanted(TCB_t)
    BY <1>1 DEF Due
  <2>4. QED
    BY <2>1, <2>2, <2>3 DEF MainLeft
<1>2. CASE main = 13
  BY <1>2 DEF MainLeft, Due
<1>3. QED
  BY <1>1, <1>2 DEF BootTypeOK

\* No request is as large as the heap, if the GUI task's stack is within.
LEMMA RequestsAreSmall ==
  ASSUME BootTypeOK, guiStack <= LargestGuiStack
  PROVE  \A n \in {MinimalStack, TCB_t, Queue_t, guiStack} :
           Wanted(n) \in Nat /\ Wanted(n) < configADJUSTED_HEAP_SIZE
<1>1. guiStack \in Nat /\ LargestGuiStack \in Nat
  BY BootSizes DEF BootTypeOK
<1>2. Wanted(guiStack) \in Nat /\ Wanted(LargestGuiStack) \in Nat
  BY <1>1, WantedFacts
<1>3. Wanted(guiStack) <= Wanted(LargestGuiStack)
  BY <1>1, WantedMonotone
<1>4. QED
  BY <1>2, <1>3, BootSizes, HeapAssumption

-----------------------------------------------------------------------------
(* The start-up: steps *)

\* A request that is the first part of what is left finds a block, and the
\* rest of what is left still has one.
LEMMA RequestFinds ==
  ASSUME IInv, NEW n \in Requests, n > 0,
         Wanted(n) \in Nat, Wanted(n) < configADJUSTED_HEAP_SIZE,
         NEW r \in Nat, Room(Wanted(n) + r)
  PROVE  ~Fails(n)
<1>1. PICK b \in Blocks \ Used : size[b] >= Wanted(n) + r
  BY DEF Room
<1>2. size[b] \in Nat
  BY ListFacts
<1>3. Room(Wanted(n))
  BY <1>1, <1>2 DEF Room
<1>4. QED
  BY <1>3, RoomFound

LEMMA BootInitially == BootInit => BootInv
<1> SUFFICES ASSUME BootInit PROVE BootInv
  OBVIOUS
<1>1. IInv
  BY HeapInitially DEF BootInit
<1>2. BootTypeOK
  BY DEF BootInit, BootTypeOK
<1>3. RoomForAll
  <2>1. SUFFICES ASSUME guiStack <= LargestGuiStack PROVE Room(Left)
    BY DEF RoomForAll, BootInit
  <2> DEFINE m == Wanted(MinimalStack)
             t == Wanted(TCB_t)
             q == Wanted(Queue_t)
             g == Wanted(guiStack)
  <2>2. guiStack \in Nat /\ LargestGuiStack \in Nat
    BY <1>2, BootSizes DEF BootTypeOK
  <2>3. /\ m \in Nat /\ t \in Nat /\ q \in Nat /\ g \in Nat
        /\ Wanted(LargestGuiStack) \in Nat
    BY <2>2, BootSizes, WantedFacts
  <2>4. g <= Wanted(LargestGuiStack)
    BY <2>1, <2>2, WantedMonotone
  <2>5. 5 * m + 6 * t + 3 * q + Wanted(LargestGuiStack)
          <= configADJUSTED_HEAP_SIZE
    BY BootSizes
  <2>6. main = 0 /\ gui = 0
    BY DEF BootInit
  <2> HIDE DEF m, t, q, g
  <2>7. Left = 5 * m + 6 * t + 3 * q + g
    BY <2>3, <2>6 DEF Left, MainLeft, GuiLeft, Due, m, t, q, g
  <2>8. Left <= configADJUSTED_HEAP_SIZE /\ Left \in Nat
    BY <2>3, <2>4, <2>5, <2>7, HeapAssumption
  <2>9. 0 \in Blocks \ Used /\ size[0] = configADJUSTED_HEAP_SIZE
    BY DEF BootInit, Init, Blocks, Used
  <2>10. QED
    BY <2>8, <2>9, HeapAssumption DEF Room
<1>4. QED
  BY <1>1, <1>2, <1>3 DEF BootInv

LEMMA HeapStutters ==
  ASSUME IInv, vars' = vars
  PROVE  IInv'
  BY DEF vars, IInv, TypeOK, BlocksTile, FreeOrUsed, RequestFits, SortedFree,
         Blocks, Used

LEMMA AllocateStep ==
  ASSUME IInv, NEW n \in Requests, Allocate(n)
  PROVE  IInv'
  BY WholeStep, PartStep DEF Allocate

LEMMA MainAllocatesStep ==
  ASSUME BootInv, MainAllocates
  PROVE  BootInv'
<1>1. IInv /\ BootTypeOK /\ RoomForAll
  BY DEF BootInv
<1>2. /\ main < 13 /\ Allocate(MainRequests[main + 1]) /\ main' = main + 1
      /\ guiStack' = guiStack /\ gui' = gui /\ idle' = idle /\ hook' = hook
  BY MainRequestsAre DEF MainAllocates
<1>3. PICK n \in Requests : n = MainRequests[main + 1]
  BY <1>1, <1>2, BootRequests
<1>4. PICK r \in Nat : r = MainLeft(main + 1) + GuiLeft(gui)
  BY <1>1, <1>2, MainLeftStep, LeftTyping
<1>5. Allocate(n)
  BY <1>2, <1>3
<1>6. IInv'
  BY <1>1, <1>5, AllocateStep
<1>7. BootTypeOK'
  BY <1>1, <1>2 DEF BootTypeOK
<1>8. RoomForAll'
  <2>1. Left' = r
    BY <1>2, <1>4 DEF Left, MainLeft, GuiLeft, Due
  <2>2. /\ Left = Wanted(n) + r /\ Wanted(n) \in Nat
        /\ r > 0 => r > heapMINIMUM_BLOCK_SIZE
    <3>1. /\ MainLeft(main) = Wanted(n) + MainLeft(main + 1)
          /\ MainLeft(main + 1) \in Nat
          /\ MainLeft(main + 1) > 0 => MainLeft(main + 1) > heapMINIMUM_BLOCK_SIZE
      BY <1>1, <1>2, <1>3, MainLeftStep
    <3>2. GuiLeft(gui) \in Nat /\ (GuiLeft(gui) > 0 => GuiLeft(gui) > heapMINIMUM_BLOCK_SIZE)
      BY <1>1, BootSizes DEF BootTypeOK, GuiLeft, Due
    <3>3. Wanted(n) \in Nat /\ heapMINIMUM_BLOCK_SIZE \in Nat
      BY HeapAssumption, WantedFacts, BootSizes
    <3>4. QED
      BY <1>4, <3>1, <3>2, <3>3 DEF Left
  <2>3. ASSUME guiStack <= LargestGuiStack, r > 0 PROVE Room(r)'
    <3>1. Wanted(n) + r > 0
      BY <2>2, <2>3
    <3>2. Room(Wanted(n) + r)
      BY <1>1, <2>2, <2>3, <3>1 DEF RoomForAll
    <3>3. r > heapMINIMUM_BLOCK_SIZE
      BY <2>2, <2>3
    <3>4. QED
      BY ONLY <1>1, <1>5, <3>2, <3>3, RoomLeft
  <2>4. guiStack <= LargestGuiStack => hook' = {}
    BY <1>1, <1>2 DEF RoomForAll
  <2>5. QED
    BY <1>2, <2>1, <2>3, <2>4 DEF RoomForAll, Room
<1>9. QED
  BY <1>6, <1>7, <1>8 DEF BootInv

LEMMA GuiAllocatesStep ==
  ASSUME BootInv, GuiAllocates
  PROVE  BootInv'
<1>1. IInv /\ BootTypeOK /\ RoomForAll
  BY DEF BootInv
<1>2. /\ gui < 2 /\ Allocate(GuiRequests[gui + 1]) /\ gui' = gui + 1
      /\ guiStack' = guiStack /\ main' = main /\ idle' = idle /\ hook' = hook
  BY MainRequestsAre DEF GuiAllocates
<1>3. PICK n \in Requests : n = GuiRequests[gui + 1]
  BY <1>1, <1>2, BootRequests
<1>4. PICK r \in Nat : r = MainLeft(main) + GuiLeft(gui + 1)
  BY <1>1, <1>2, GuiLeftStep, LeftTyping
<1>5. Allocate(n)
  BY <1>2, <1>3
<1>6. IInv'
  BY <1>1, <1>5, AllocateStep
<1>7. BootTypeOK'
  BY <1>1, <1>2 DEF BootTypeOK
<1>8. RoomForAll'
  <2>1. Left' = r
    BY <1>2, <1>4 DEF Left, MainLeft, GuiLeft, Due
  <2>2. /\ Left = Wanted(n) + r /\ Wanted(n) \in Nat
        /\ r > 0 => r > heapMINIMUM_BLOCK_SIZE
    <3>1. /\ GuiLeft(gui) = Wanted(n) + GuiLeft(gui + 1)
          /\ GuiLeft(gui + 1) \in Nat
          /\ GuiLeft(gui + 1) > 0 => GuiLeft(gui + 1) > heapMINIMUM_BLOCK_SIZE
      BY <1>1, <1>2, <1>3, GuiLeftStep
    <3>2. /\ MainLeft(main) \in Nat
          /\ MainLeft(main) > 0 => MainLeft(main) > heapMINIMUM_BLOCK_SIZE
      BY <1>1, MainLeftLarge, LeftTyping
    <3>3. Wanted(n) \in Nat /\ heapMINIMUM_BLOCK_SIZE \in Nat
      BY HeapAssumption, WantedFacts, BootSizes
    <3>4. QED
      BY <1>4, <3>1, <3>2, <3>3 DEF Left
  <2>3. ASSUME guiStack <= LargestGuiStack, r > 0 PROVE Room(r)'
    <3>1. Wanted(n) + r > 0
      BY <2>2, <2>3
    <3>2. Room(Wanted(n) + r)
      BY <1>1, <2>2, <2>3, <3>1 DEF RoomForAll
    <3>3. r > heapMINIMUM_BLOCK_SIZE
      BY <2>2, <2>3
    <3>4. QED
      BY ONLY <1>1, <1>5, <3>2, <3>3, RoomLeft
  <2>4. guiStack <= LargestGuiStack => hook' = {}
    BY <1>1, <1>2 DEF RoomForAll
  <2>5. QED
    BY <1>2, <2>1, <2>3, <2>4 DEF RoomForAll, Room
<1>9. QED
  BY <1>6, <1>7, <1>8 DEF BootInv

\* With a GUI stack that is within, the hook is out of reach.
LEMMA NoFailure ==
  ASSUME BootInv, guiStack <= LargestGuiStack
  PROVE  ~MainFails /\ ~GuiFails
<1>1. IInv /\ BootTypeOK /\ RoomForAll
  BY DEF BootInv
<1>2. MainLeft(main) \in Nat /\ GuiLeft(gui) \in Nat
  BY <1>1, LeftTyping
<1>3. ~MainFails
  <2>1. SUFFICES ASSUME main < 13, Fails(MainRequests[main + 1]) PROVE FALSE
    BY MainRequestsAre DEF MainFails
  <2>2. PICK n \in Requests : n = MainRequests[main + 1]
    BY <1>1, <2>1, BootRequests
  <2>3. /\ MainLeft(main) = Wanted(n) + MainLeft(main + 1)
        /\ MainLeft(main + 1) \in Nat /\ n > 0
    BY <1>1, <2>1, <2>2, MainLeftStep
  <2>4. PICK r \in Nat : r = MainLeft(main + 1) + GuiLeft(gui)
    BY <1>2, <2>3
  <2>5. Wanted(n) \in Nat /\ Wanted(n) < configADJUSTED_HEAP_SIZE
    <3>1. n \in {MinimalStack, TCB_t, Queue_t, guiStack}
      <4>1. main + 1 \in {1, 3, 6, 10, 12} \cup {2, 4, 7, 9, 11, 13} \cup {5, 8}
        BY <1>1, <2>1 DEF BootTypeOK
      <4>2. QED
        BY <2>2, <4>1, MainRequestsAre
    <3>2. QED
      BY <1>1, <3>1, RequestsAreSmall
  <2>6. Wanted(n) > 0
    BY <2>2, HeapAssumption, WantedFacts
  <2>7. Left = Wanted(n) + r /\ Left > 0
    BY <1>2, <2>3, <2>4, <2>5, <2>6 DEF Left
  <2>8. Room(Wanted(n) + r)
    BY <1>1, <2>7 DEF RoomForAll
  <2>9. ~Fails(n)
    BY <1>1, <2>3, <2>5, <2>8, RequestFinds
  <2>10. QED
    BY <2>1, <2>2, <2>9
<1>4. ~GuiFails
  <2>1. SUFFICES ASSUME gui < 2, Fails(GuiRequests[gui + 1]) PROVE FALSE
    BY MainRequestsAre DEF GuiFails
  <2>2. PICK n \in Requests : n = GuiRequests[gui + 1]
    BY <1>1, <2>1, BootRequests
  <2>3. /\ GuiLeft(gui) = Wanted(n) + GuiLeft(gui + 1)
        /\ GuiLeft(gui + 1) \in Nat /\ n > 0
    BY <1>1, <2>1, <2>2, GuiLeftStep
  <2>4. PICK r \in Nat : r = MainLeft(main) + GuiLeft(gui + 1)
    BY <1>2, <2>3
  <2>5. Wanted(n) \in Nat /\ Wanted(n) < configADJUSTED_HEAP_SIZE
    <3>1. n = Queue_t
      <4>1. gui + 1 \in {1, 2}
        BY <1>1, <2>1 DEF BootTypeOK
      <4>2. QED
        BY <2>2, <4>1, MainRequestsAre
    <3>2. QED
      BY <1>1, <3>1, RequestsAreSmall
  <2>6. Wanted(n) > 0
    BY <2>2, HeapAssumption, WantedFacts
  <2>7. Left = Wanted(n) + r /\ Left > 0
    BY <1>2, <2>3, <2>4, <2>5, <2>6 DEF Left
  <2>8. Room(Wanted(n) + r)
    BY <1>1, <2>7 DEF RoomForAll
  <2>9. ~Fails(n)
    BY <1>1, <2>3, <2>5, <2>8, RequestFinds
  <2>10. QED
    BY <2>1, <2>2, <2>9
<1>5. QED
  BY <1>3, <1>4

LEMMA BootStep == BootInv /\ [BootNext]_bootVars => BootInv'
<1> SUFFICES ASSUME BootInv, [BootNext]_bootVars PROVE BootInv'
  OBVIOUS
<1>1. IInv /\ BootTypeOK /\ RoomForAll
  BY DEF BootInv
<1>2. ASSUME vars' = vars, guiStack' = guiStack, main' = main, gui' = gui,
             idle' = idle, hook' = hook \/ ~(guiStack <= LargestGuiStack)
      PROVE  BootInv'
  <2>1. IInv'
    BY <1>1, <1>2, HeapStutters
  <2>2. BootTypeOK'
    BY <1>1, <1>2 DEF BootTypeOK
  <2>3. Left' = Left /\ Blocks' = Blocks /\ Used' = Used /\ size' = size
    BY <1>2 DEF Left, MainLeft, GuiLeft, Due, Blocks, Used, vars
  <2>4. RoomForAll'
    BY <1>1, <1>2, <2>3 DEF RoomForAll, Room
  <2>5. QED
    BY <2>1, <2>2, <2>4 DEF BootInv
<1>3. CASE UNCHANGED bootVars
  BY <1>2, <1>3 DEF bootVars, vars
<1>4. CASE MainAllocates
  BY <1>4, MainAllocatesStep
<1>5. CASE GuiAllocates
  BY <1>5, GuiAllocatesStep
<1>6. CASE MainFails
  <2>1. ~(guiStack <= LargestGuiStack)
    BY <1>6, NoFailure
  <2>2. QED
    BY <1>2, <1>6, <2>1 DEF MainFails
<1>7. CASE GuiFails
  <2>1. ~(guiStack <= LargestGuiStack)
    BY <1>7, NoFailure
  <2>2. QED
    BY <1>2, <1>7, <2>1 DEF GuiFails
<1>8. ASSUME NEW b, vPortFree(b), guiStack' = guiStack, main' = main,
             gui' = gui, hook' = hook, BootTypeOK'
      PROVE  BootInv'
  <2>1. b \in Used
    BY <1>8 DEF vPortFree
  <2>2. IInv'
    BY <1>1, <1>8, <2>1, FreeStep
  <2>3. Left' = Left
    BY <1>8 DEF Left, MainLeft, GuiLeft, Due
  <2>4. PICK r : r = Left
    OBVIOUS
  <2>5. Room(r) => Room(r)'
    BY <1>8, RoomAfterFree
  <2>6. RoomForAll'
    BY <1>1, <1>8, <2>3, <2>4, <2>5 DEF RoomForAll, Room
  <2>7. QED
    BY <1>8, <2>2, <2>6 DEF BootInv
<1>9. CASE IdleFrees
  <2>1. /\ vPortFree(mainBlocks[idle + 1]) /\ main = 13
        /\ guiStack' = guiStack /\ main' = main /\ gui' = gui
        /\ hook' = hook /\ idle' = idle + 1
    BY <1>9, MainRequestsAre DEF IdleFrees
  <2>2. BootTypeOK'
    BY <1>1, <2>1 DEF BootTypeOK
  <2>3. PICK b : b = mainBlocks[idle + 1]
    OBVIOUS
  <2>4. vPortFree(b)
    BY <2>1, <2>3
  <2>5. QED
    BY <1>8, <2>1, <2>2, <2>4
<1>10. ASSUME NEW n \in Later, LaterAllocates(n) PROVE BootInv'
  <2>1. /\ pvPortMalloc(n) /\ gui = 2 /\ idle = 2
        /\ guiStack' = guiStack /\ main' = main /\ gui' = gui
        /\ hook' = hook /\ idle' = idle
    BY <1>10, MainRequestsAre DEF LaterAllocates, Started
  <2>2. BootTypeOK' /\ main = 13
    BY <1>1, <2>1 DEF BootTypeOK
  <2>3. Left' = 0
    BY <2>1, <2>2 DEF Left, MainLeft, GuiLeft, Due
  <2>4. RoomForAll'
    BY <1>1, <2>1, <2>3 DEF RoomForAll
  <2>5. IInv'
    <3>1. n \in Requests
      BY StackAssumption
    <3>2. CASE Allocate(n)
      BY <1>1, <3>1, <3>2, AllocateStep
    <3>3. CASE UNCHANGED vars
      BY <1>1, <3>3, HeapStutters
    <3>4. QED
      BY <2>1, <3>2, <3>3 DEF pvPortMalloc, Allocate
  <2>6. QED
    BY <2>2, <2>4, <2>5 DEF BootInv
<1>11. ASSUME NEW b \in later, LaterFrees(b) PROVE BootInv'
  <2>1. /\ vPortFree(b) /\ guiStack' = guiStack /\ main' = main
        /\ gui' = gui /\ hook' = hook /\ idle' = idle
    BY <1>11 DEF LaterFrees
  <2>2. BootTypeOK'
    BY <1>1, <2>1 DEF BootTypeOK
  <2>3. QED
    BY <1>8, <2>1, <2>2
<1>12. QED
  BY <1>3, <1>4, <1>5, <1>6, <1>7, <1>9, <1>10, <1>11 DEF BootNext

\* The start-up and what comes after use the heap by its two functions only:
\* whatever holds of Spec holds of the heap of the program.
THEOREM BootUsesTheHeap == BootSpec => Spec
<1>1. BootInit => Init
  BY DEF BootInit
<1>2. BootInv /\ [BootNext]_bootVars => [Next]_vars
  <2> SUFFICES ASSUME BootInv, [BootNext]_bootVars PROVE [Next]_vars
    OBVIOUS
  <2>1. CASE UNCHANGED bootVars
    BY <2>1 DEF bootVars, vars
  <2>2. ASSUME NEW n \in Requests, Allocate(n) PROVE Next
    BY <2>2 DEF Next, pvPortMalloc, Allocate
  <2>3. ASSUME NEW b, vPortFree(b) PROVE Next
    BY <2>3 DEF Next, vPortFree
  <2>4. CASE MainAllocates
    <3>1. PICK n \in Requests : n = MainRequests[main + 1]
      BY <2>4, MainRequestsAre, BootRequests DEF BootInv, MainAllocates
    <3>2. QED
      BY <2>2, <2>4, <3>1 DEF MainAllocates
  <2>5. CASE GuiAllocates
    <3>1. PICK n \in Requests : n = GuiRequests[gui + 1]
      BY <2>5, MainRequestsAre, BootRequests DEF BootInv, GuiAllocates
    <3>2. QED
      BY <2>2, <2>5, <3>1 DEF GuiAllocates
  <2>6. CASE MainFails \/ GuiFails
    BY <2>6 DEF MainFails, GuiFails
  <2>7. CASE IdleFrees
    BY <2>3, <2>7 DEF IdleFrees
  <2>8. ASSUME NEW n \in Later, LaterAllocates(n) PROVE Next
    BY <2>8, StackAssumption DEF LaterAllocates, Next
  <2>9. ASSUME NEW b \in later, LaterFrees(b) PROVE Next
    BY <2>3, <2>9 DEF LaterFrees
  <2>10. QED
    BY <2>1, <2>4, <2>5, <2>6, <2>7, <2>8, <2>9 DEF BootNext
<1>3. QED
  BY <1>1, <1>2, BootInitially, BootStep, PTL DEF BootSpec, Spec

\* With a GUI stack of up to LargestGuiStack, no allocation of the start-up
\* fails in any order of MAIN, the GUI task and the idle task, on any heap
\* that has room for all of them with nothing freed.
THEOREM BootAlwaysFits == BootSpec => []BootFits
<1>1. BootInv => BootFits
  BY DEF BootInv, RoomForAll, BootFits
<1>2. QED
  BY <1>1, BootInitially, BootStep, PTL DEF BootSpec
=============================================================================
