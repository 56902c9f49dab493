----------------------------- MODULE Allocator ------------------------------
(***************************************************************************)
(* What malloc(), realloc() and free() of src/src/alloc.c offer the        *)
(* application: blocks of its own, as large as it asked for, that nothing  *)
(* but the application writes.  Heap implements this module (Implements    *)
(* there).                                                                 *)
(*                                                                         *)
(* Headers, the list of free blocks and where the next block is taken from *)
(* are not seen here, nor what a new block holds: that realloc() should    *)
(* copy the old block is ReallocKeepsData in Heap.                         *)
(***************************************************************************)
EXTENDS Naturals

CONSTANTS
  HeapUnits,   \* units of memory
  Requests     \* sizes asked for, in units

Addresses == 0 .. HeapUnits - 1

VARIABLES
  held,   \* from the addresses the application has been given to the units there
  word    \* what is in each unit of the memory
vars == <<held, word>>

Units(p) == p .. p + held[p] - 1

\* Nothing is held.
Init == held = <<>> /\ word \in [Addresses -> Nat]

\* Blocks P are still held and hold what they did.
Kept(P) ==
  \A p \in P :
    /\ p \in DOMAIN held' /\ held'[p] = held[p]
    /\ \A i \in Units(p) : word'[i] = word[i]

\* A block for a request of n comes to blocks P, and overlaps none that is held.
Given(n, P) ==
  \E p \in Addresses \ DOMAIN held :
    LET units == p .. p + held'[p] - 1
    IN /\ DOMAIN held' = P \cup {p}
       /\ n <= held'[p]
       /\ units \subseteq Addresses
       /\ \A q \in DOMAIN held : units \cap Units(q) = {}

Malloc(n) == Given(n, DOMAIN held) /\ Kept(DOMAIN held)

Free(p) ==
  /\ DOMAIN held' = DOMAIN held \ {p}
  /\ Kept(DOMAIN held')

Write(p) ==
  /\ DOMAIN held' = DOMAIN held
  /\ held'[p] = held[p]
  /\ Kept(DOMAIN held \ {p})

\* The new block is taken before the old one is given back.
Realloc(p, n) ==
  /\ Given(n, DOMAIN held \ {p})
  /\ Kept(DOMAIN held \ {p})

\* A call that finds no block changes nothing.
Next ==
  \/ \E n \in Requests : Malloc(n)
  \/ \E p \in DOMAIN held : Free(p) \/ Write(p)
  \/ \E p \in DOMAIN held, n \in Requests : Realloc(p, n)

Spec == Init /\ [][Next]_vars
=============================================================================
