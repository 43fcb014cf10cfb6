-------------------------------- MODULE Heap2 --------------------------------
(***************************************************************************)
(* The kernel's heap, portable/heap_2.c: a list of free blocks in order of *)
(* size, best fit, splitting, and no merging of what is freed.  Blocks are *)
(* known by the offset of their header in the heap.  Both functions run    *)
(* with the scheduler suspended, so a call is one step.                    *)
(*                                                                         *)
(* The initial state is the one that the first pvPortMalloc makes with     *)
(* prvHeapInit before it does anything else.                               *)
(***************************************************************************)
EXTENDS Integers, Sequences, SequencesExt

CONSTANTS
  configADJUSTED_HEAP_SIZE,
  heapSTRUCT_SIZE,          \* the header of a block: 8 bytes
  portBYTE_ALIGNMENT,       \* 8 bytes
  Requests                  \* sizes asked for; far from where size_t wraps

ASSUME HeapAssumption ==
  /\ configADJUSTED_HEAP_SIZE \in Nat \ {0}
  /\ heapSTRUCT_SIZE \in Nat \ {0}
  /\ portBYTE_ALIGNMENT \in Nat \ {0}
  /\ Requests \subseteq Nat

VARIABLES
  free,                     \* the blocks from xStart to xEnd
  size,                     \* xBlockSize in the header of every block
  asked,                    \* the blocks in use, each with the size asked for
  xFreeBytesRemaining

vars == <<free, size, asked, xFreeBytesRemaining>>

Blocks == DOMAIN size
Used == DOMAIN asked

heapMINIMUM_BLOCK_SIZE == heapSTRUCT_SIZE * 2

\* prvHeapInit
Init ==
  /\ free = <<0>>
  /\ size = [b \in {0} |-> configADJUSTED_HEAP_SIZE]
  /\ asked = [b \in {} |-> 0]
  /\ xFreeBytesRemaining = configADJUSTED_HEAP_SIZE

-----------------------------------------------------------------------------
\* Mutant of Wanted: no room for the header.
WantedBare(n) ==
  IF n % portBYTE_ALIGNMENT = 0 THEN n
  ELSE n + (portBYTE_ALIGNMENT - (n % portBYTE_ALIGNMENT))

\* Mutant of Wanted: what is aligned is aligned once more.
WantedPadded(n) ==
  n + heapSTRUCT_SIZE
    + (portBYTE_ALIGNMENT - ((n + heapSTRUCT_SIZE) % portBYTE_ALIGNMENT))

\* xWantedSize after lines 136-146, for n > 0.
Wanted(n) ==
  LET w == n + heapSTRUCT_SIZE
  IN  IF w % portBYTE_ALIGNMENT = 0 THEN w
      ELSE w + (portBYTE_ALIGNMENT - (w % portBYTE_ALIGNMENT))

\* Mutant of prvInsertBlockIntoFreeList: always at the front.
InsertFirst(list, sz, b) == free' = <<b>> \o list

\* prvInsertBlockIntoFreeList: the block b is put before the first one of list
\* that is not smaller than it, the sizes being those of sz.
prvInsertBlockIntoFreeList(list, sz, b) ==
  \E k \in 1..(Len(list) + 1) :
    /\ \A i \in 1..(k - 1) : sz[list[i]] < sz[b]
    /\ k <= Len(list) => sz[list[k]] >= sz[b]
    /\ free' = InsertAt(list, k, b)

\* The walk of lines 152-158 stops at the i-th block.
Found(n, i) ==
  /\ n > 0 /\ Wanted(n) < configADJUSTED_HEAP_SIZE
  /\ size[free[i]] >= Wanted(n)
  /\ \A j \in 1..(i - 1) : size[free[j]] < Wanted(n)

\* Mutant of Unlinked: the block stays on the list.
UnlinkedNot(i) == free

Unlinked(i) == RemoveAt(free, i)

\* Mutant of SplitSizes: the rest is given the size of the whole.
SplitSizesWhole(b, w) ==
  [c \in Blocks \cup {b + w} |->
     IF c = b THEN w ELSE IF c = b + w THEN size[b] ELSE size[c]]

SplitSizes(b, w) ==
  [c \in Blocks \cup {b + w} |->
     IF c = b THEN w ELSE IF c = b + w THEN size[b] - w ELSE size[c]]

\* The block is not much larger than what is wanted, and is used as it is.
TakeWhole(n) ==
  \E i \in 1..Len(free) : LET b == free[i] IN
    /\ Found(n, i)
    /\ size[b] - Wanted(n) <= heapMINIMUM_BLOCK_SIZE
    /\ free' = Unlinked(i)
    /\ asked' = [c \in Used \cup {b} |-> IF c = b THEN n ELSE asked[c]]
    /\ xFreeBytesRemaining' = xFreeBytesRemaining - size[b]
    /\ UNCHANGED size

\* The rest of the block becomes a free block of its own.
TakePart(n) ==
  \E i \in 1..Len(free) : LET b == free[i] IN
    /\ Found(n, i)
    /\ size[b] - Wanted(n) > heapMINIMUM_BLOCK_SIZE
    /\ size' = SplitSizes(b, Wanted(n))
    /\ prvInsertBlockIntoFreeList(Unlinked(i), size', b + Wanted(n))
    /\ asked' = [c \in Used \cup {b} |-> IF c = b THEN n ELSE asked[c]]
    /\ xFreeBytesRemaining' = xFreeBytesRemaining - Wanted(n)

\* pvReturn is NULL, and the task is in vApplicationMallocFailedHook.
Fails(n) == \A i \in 1..Len(free) : ~Found(n, i)

pvPortMalloc(n) == TakeWhole(n) \/ TakePart(n) \/ (Fails(n) /\ UNCHANGED vars)

vPortFree(b) ==
  /\ b \in Used
  /\ prvInsertBlockIntoFreeList(free, size, b)
  /\ asked' = [c \in Used \ {b} |-> asked[c]]
  /\ xFreeBytesRemaining' = xFreeBytesRemaining + size[b]
  /\ UNCHANGED size

Next ==
  \/ \E n \in Requests : pvPortMalloc(n)
  \/ \E b \in Used : vPortFree(b)

Spec == Init /\ [][Next]_vars

-----------------------------------------------------------------------------
(* Properties *)

TypeOK ==
  /\ size \in [Blocks -> Nat]
  /\ Blocks \subseteq Nat
  /\ free \in Seq(Blocks)
  /\ asked \in [Used -> Requests] /\ Used \subseteq Blocks
  /\ xFreeBytesRemaining \in Int

\* The blocks lie one behind the other from the start of the heap to its end:
\* none overlaps another or the end, and no byte is lost between two.
BlocksTile ==
  /\ 0 \in Blocks
  /\ \A a \in Blocks :
       /\ a + size[a] \in Blocks \cup {configADJUSTED_HEAP_SIZE}
       /\ a + size[a] <= configADJUSTED_HEAP_SIZE
       /\ \A b \in Blocks : a < b => a + size[a] <= b

\* A block is in use or on the list, once.
FreeOrUsed ==
  /\ \A i, j \in 1..Len(free) : free[i] = free[j] => i = j
  /\ \A b \in Blocks : b \in Used <=> \A i \in 1..Len(free) : free[i] # b

\* Whatever was split and freed before, what a caller was given is large
\* enough for its header and what it asked for.
RequestFits == \A b \in Used : size[b] >= heapSTRUCT_SIZE + asked[b]

\* heap_2.c:93, "ordered by size of the block": small blocks come first.
SortedFree ==
  \A i, j \in 1..Len(free) : i < j => size[free[i]] <= size[free[j]]

\* An allocation takes none of the free blocks but a smallest of those that
\* are large enough.
BestFit ==
  [][\A n \in Requests : TakeWhole(n) \/ TakePart(n) =>
       \A b \in Used' \ Used, i \in 1..Len(free) :
         size[free[i]] >= Wanted(n) => size[b] <= size[free[i]]]_vars
=============================================================================
