------------------------------ MODULE HeapShadow ------------------------------
(***************************************************************************)
(* What the allocation tracker promises to the use-after-free check: which  *)
(* blocks are allocated, and every address that was freed and not reused.   *)
(***************************************************************************)
EXTENDS Naturals

CONSTANTS
  Ranges,          \* the blocks the heap may return
  Addresses(_)     \* the addresses of a block

VARIABLES
  live,     \* the allocated blocks
  freed     \* the addresses that belong to no allocated block any more

shadowVars == <<live, freed>>

ShadowInit == live = {} /\ freed = {}

\* malloc: addresses it reuses are no longer freed ones.
ShadowMalloc(b) ==
  /\ \A l \in live : Addresses(l) \cap Addresses(b) = {}
  /\ live' = live \cup {b}
  /\ freed' = freed \ Addresses(b)

\* free: exactly the block's addresses become freed ones.
ShadowFree(b) ==
  /\ b \in live
  /\ live' = live \ {b}
  /\ freed' = freed \cup Addresses(b)

ShadowNext == \E b \in Ranges : ShadowMalloc(b) \/ ShadowFree(b)

ShadowSpec == ShadowInit /\ [][ShadowNext]_shadowVars
=============================================================================
