----------------------------- MODULE MemoryBlock -----------------------------
(***************************************************************************)
(* Half-open address ranges [start, end) and the operation that cuts a      *)
(* window out of one (shared/memory_block.hpp).  The allocation tracker     *)
(* uses both to make room in its list for a new heap block.                 *)
(* Addresses are natural numbers: blocks come from the heap, so start + size *)
(* does not wrap around 2^64.                                               *)
(***************************************************************************)
EXTENDS Naturals, Sequences

\* A block with bounds s and e; e = s is the empty block of a malloc(0).
Block(s, e) == [start |-> s, end |-> e]

\* (slip) the first address is not in the block.
ContainsBehind(b, n) == b.start < n /\ n < b.end

Contains(b, n) == b.start <= n /\ n < b.end

\* (slip) only the start of the other block counts.
IntersectStart(b, other) == Contains(b, other.start)

\* The code's test.  Contains(b, other.end) also accepts a neighbour that only
\* ends where b starts: other.end is one past its last address.
Intersect(b, other) ==
  \/ Contains(b, other.start)
  \/ Contains(b, other.end)
  \/ other.start <= b.start /\ other.end >= b.end

\* "filters out size = 0"
NonEmpty(s, e) == IF s = e THEN <<>> ELSE <<Block(s, e)>>

\* (slip) the piece takes the first address of the window.
LeftCutInclusive(full, window) ==
  IF full.start <= window.start /\ window.start <= full.end
  THEN NonEmpty(full.start, window.start + 1) ELSE <<>>

LeftCut(full, window) ==
  IF full.start <= window.start /\ window.start <= full.end
  THEN NonEmpty(full.start, window.start) ELSE <<>>

RightCut(full, window) ==
  IF full.start <= window.end /\ window.end <= full.end
  THEN NonEmpty(window.end, full.end) ELSE <<>>

\* BlockCut::from_intersection: what is left of full, in the code's order.
Cuts(full, window) == LeftCut(full, window) \o RightCut(full, window)
=============================================================================
