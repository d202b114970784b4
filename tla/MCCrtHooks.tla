------------------------------ MODULE MCCrtHooks ------------------------------
(***************************************************************************)
(* Instances of CrtHooks.                                                   *)
(***************************************************************************)
EXTENDS CrtHooks, TLC

CONSTANTS t1, t2

\* Blocks that include, precede and follow each other: a heap that
\* splits large free blocks and merges small ones.
SplitBlocks ==
  {Block(1, 6), Block(2, 4), Block(4, 6), Block(7, 8), Block(9, 10)}

OneBlock == {Block(1, 3)}

\* A large block and two small ones in the same place.
ShrinkBlocks == {Block(1, 4), Block(1, 2), Block(3, 4)}

\* MaxEntries: as long as the target keeps to malloc and free on one thread at a
\* time the list grows up to all entries SplitBlocks has room for, with realloc it
\* is shorter, and shorter still after overlapping hooks or a refused request.
Narrowing ==
  [h \in SUBSET Events |-> CASE h = {} -> 6 [] h = {"realloc"} -> 4 [] h = {"overlap"} -> 2
                               [] OTHER -> 1]

UpToThree == [h \in SUBSET Events |-> 3]

Symmetry == Permutations(Threads)
=============================================================================
