-------------------------------- MODULE Heap --------------------------------
(***************************************************************************)
(* The application's heap: malloc(), realloc() and free() of               *)
(* src/src/alloc.c over pvPortMalloc() and vPortFree() of FreeRTOS's       *)
(* heap_2.c, which keep free blocks in a list ordered by size and never    *)
(* join them.                                                              *)
(*                                                                         *)
(* Memory is counted in units of portBYTE_ALIGNMENT, 8 bytes, which all    *)
(* blocks are multiples of and which is the size of a block's header.  A   *)
(* unit is what its second word says, where a header has its xBlockSize:   *)
(* a size in units, or in a block's data whatever the application wrote.   *)
(* The scheduler is suspended in each allocator call, and a block belongs  *)
(* to one task, so calls are single steps.                                 *)
(***************************************************************************)
EXTENDS Integers, Sequences, SequencesExt, FiniteSets, FiniteSetsExt

CONSTANTS
  HeapUnits,    \* configADJUSTED_HEAP_SIZE
  Requests,     \* sizes asked for
  Words         \* what the application may write into a unit

ASSUME HeapAssumption == HeapUnits \in Nat \ {0}
\* With its header added, what is asked for still fits a size_t of 32 bits.
LargestRequest == 536870910

ASSUME RequestsAssumption == Requests \subseteq 0 .. LargestRequest
ASSUME WordsAssumption == Words \subseteq Nat

VARIABLES
  mem,         \* the units of ucHeap
  free,        \* the list from xStart to xEnd, without these two
  used,        \* blocks the application holds
  remaining    \* xFreeBytesRemaining
vars == <<mem, free, used, remaining>>

Addresses == 0 .. HeapUnits - 1

\* heapSTRUCT_SIZE of heap_2.c: 8 bytes rounded up to the alignment.
HeaderUnits == 1

\* heapSTRUCT_SIZE of alloc.c adds the alignment to 8 bytes that have it already.
ReallocHeaderUnits == 2

MinimumBlock == 2 * HeaderUnits

NULL == -1

\* The units of the block at address a, and those of its data.
Block(a) == a .. a + mem[a] - 1
Data(a) == Block(a) \ {a}

TypeOK ==
  /\ mem \in [Addresses -> Nat]
  /\ free \in Seq(Addresses)
  /\ used \subseteq Addresses
  /\ remaining \in 0..HeapUnits

\* prvHeapInit(), which the first pvPortMalloc() calls.
Init ==
  /\ mem = [i \in Addresses |-> IF i = 0 THEN HeapUnits ELSE 0]
  /\ free = <<0>>
  /\ used = {}
  /\ remaining = HeapUnits

-----------------------------------------------------------------------------
(* heap_2.c *)

\* Where the iteration over the list stops: at the first of some places or the end.
PositionOf(list, stops) == Min(stops \cup {Len(list) + 1})

\* An iteration that stops at the first block that is not larger.
InsertedDescending(list, m, a) ==
  InsertAt(list, PositionOf(list, {i \in DOMAIN list : m[list[i]] <= m[a]}), a)

\* prvInsertBlockIntoFreeList(): in front of the first block that is not smaller.
Inserted(list, m, a) ==
  InsertAt(list, PositionOf(list, {i \in DOMAIN list : m[list[i]] >= m[a]}), a)

\* A request without its header.
WantedBare(n) == n

\* The units a request takes: with a header.
Wanted(n) == IF n > 0 THEN n + HeaderUnits ELSE 0

Fitting(n) == {i \in DOMAIN free : mem[free[i]] >= Wanted(n)}

\* The block pvPortMalloc() returns, the smallest that is large enough.
Found(n) ==
  IF Wanted(n) > 0 /\ Wanted(n) < HeapUnits /\ Fitting(n) # {}
  THEN free[Min(Fitting(n))] ELSE NULL

\* The size block b has once it is taken: split only if enough is left.
TakenSize(b, n) ==
  IF mem[b] - Wanted(n) > MinimumBlock THEN Wanted(n) ELSE mem[b]

\* The request is subtracted, not the size of the block that was taken.
RemainingLessRequest(b, n) == remaining - Wanted(n)

RemainingAfter(b, n) == remaining - TakenSize(b, n)

\* The block in front keeps its old size.
SplitKeepsSize(b, size) == [mem EXCEPT ![b + size] = mem[b] - size]

Split(b, size) == [mem EXCEPT ![b] = size, ![b + size] = mem[b] - size]

\* The heap with block b taken for a request of n.
Allocated(b, n) ==
  LET size == TakenSize(b, n)
      others == RemoveAt(free, Min(Fitting(n)))
  IN IF size < mem[b]
     THEN [mem |-> Split(b, size),
           free |-> Inserted(others, Split(b, size), b + size),
           remaining |-> RemainingAfter(b, n)]
     ELSE [mem |-> mem, free |-> others, remaining |-> RemainingAfter(b, n)]

-----------------------------------------------------------------------------
(* alloc.c *)

Malloc(n) ==
  IF Found(n) = NULL
  THEN UNCHANGED vars
  ELSE LET heap == Allocated(Found(n), n)
       IN /\ mem' = heap.mem
          /\ free' = heap.free
          /\ used' = used \cup {Found(n)}
          /\ remaining' = heap.remaining

Free(a) ==
  /\ a \in used
  /\ free' = Inserted(free, mem, a)
  /\ used' = used \ {a}
  /\ remaining' = remaining + mem[a]
  /\ UNCHANGED mem

\* The application writes its block.
Write(a, word) ==
  /\ a \in used
  /\ mem' = [i \in Addresses |-> IF i \in Data(a) THEN word ELSE mem[i]]
  /\ UNCHANGED <<free, used, remaining>>

\* A copy of the size found, not of the smaller of the two.
CopiedAll(size, n) == size

\* What realloc() takes for the size to copy.
Copied(size, n) == IF n < size THEN n ELSE size

\* Units in front of the first block are what aligning the heap left over, and
\* never written; behind the last one there may be anything.
Reads(m, i) == IF i \in Addresses THEN {m[i]} ELSE IF i < 0 THEN {0} ELSE Words

\* The size is read two units in front of the data, not one.  When nothing can
\* be allocated the old block stays as it is.
Realloc(a, n) ==
  /\ a \in used
  /\ IF Found(n) = NULL
     THEN UNCHANGED vars
     ELSE LET b == Found(n)
              heap == Allocated(b, n)
          IN \E size \in Reads(heap.mem, a + HeaderUnits - ReallocHeaderUnits) :
             \E beyond \in Reads(heap.mem, a + Copied(size, n)) :
               LET copied == b + 1 .. b + Copied(size, n)
                   source(i) == IF i \in Addresses THEN heap.mem[i] ELSE beyond
               IN /\ mem' = [i \in Addresses |->
                               IF i \in copied THEN source(a + i - b) ELSE heap.mem[i]]
                  /\ free' = Inserted(heap.free, mem', a)
                  /\ used' = (used \cup {b}) \ {a}
                  /\ remaining' = heap.remaining + mem[a]

Next ==
  \/ \E n \in Requests : Malloc(n)
  \/ \E a \in used : Free(a) \/ \E word \in Words : Write(a, word)
  \/ \E a \in used, n \in Requests : Realloc(a, n)

Spec == Init /\ [][Next]_vars

-----------------------------------------------------------------------------
(* Properties *)

Blocks == ToSet(free) \cup used

\* The blocks in the list and the blocks in use divide the heap between them:
\* they do not overlap, nothing is lost, and no block is in the list twice or
\* both free and in use.
BlocksTile ==
  /\ UNION {Block(a) : a \in Blocks} = Addresses
  /\ \A a, b \in Blocks : a # b => Block(a) \cap Block(b) = {}
  /\ Len(free) = Cardinality(ToSet(free))
  /\ ToSet(free) \cap used = {}

\* The list is ordered by size, which makes the first block that is large enough
\* the best, and xFreeBytesRemaining is the size of what is in it.
ListOrdered ==
  /\ \A i, j \in DOMAIN free : i < j => mem[free[i]] <= mem[free[j]]
  /\ remaining = Cardinality(UNION {Block(a) : a \in ToSet(free)})

\* No call changes a block that stays in use, but for the application's own
\* writes: not realloc() either, whatever it read as the size.
OthersKeepData ==
  [][\A a \in used \cap used' :
       (\A word \in Words : ~Write(a, word)) => \A i \in Block(a) : mem'[i] = mem[i]]_vars

\* The application sees an allocator: each block it is given is as large as it asked
\* for and shares no unit with another one it holds, and stays so, with what was
\* written to it, until it is returned.
Contract == INSTANCE Allocator WITH
  held <- [p \in {a + HeaderUnits : a \in used} |-> mem[p - HeaderUnits] - HeaderUnits],
  word <- mem

Implements == Contract!Spec

\* heap_2.c: "The memory being freed will have an BlockLink_t structure
\* immediately before it."  With the size that is there, realloc() keeps what the
\* block holds, up to the smaller of the two sizes.
ReallocKeepsData ==
  [][\A a \in used, n \in Requests : Realloc(a, n) =>
       \A b \in used' \ used :
         \A i \in 1..n : a + i \in Data(a) => mem'[b + i] = mem[a + i]]_vars
=============================================================================
