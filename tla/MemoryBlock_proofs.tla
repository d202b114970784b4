-------------------------- MODULE MemoryBlock_proofs --------------------------
(***************************************************************************)
(* What cutting a window out of a block leaves, for blocks of any size.     *)
(***************************************************************************)
EXTENDS MemoryBlock, SequenceTheorems, TLAPS

AnyBlock == {b \in [start : Nat, end : Nat] : b.start < b.end}

\* Lemma: what it is to join at most two pieces.
LEMMA JoinPieces ==
  ASSUME NEW x, NEW y
  PROVE  /\ <<x>> \o <<y>> = <<x, y>>
         /\ <<x>> \o <<>> = <<x>>
         /\ <<>> \o <<y>> = <<y>>
         /\ <<>> \o <<>> = <<>>
<1> DEFINE S == {x, y}
<1>1. <<x>> \in Seq(S) /\ <<y>> \in Seq(S) /\ <<>> \in Seq(S)
  OBVIOUS
<1>2. <<x>> \o <<y>> = <<x, y>>
  <2>1. <<x>> \o <<y>> \in Seq(S) /\ Len(<<x>> \o <<y>>) = 2
    BY <1>1, ConcatProperties
  <2>2. (<<x>> \o <<y>>)[1] = x /\ (<<x>> \o <<y>>)[2] = y
    BY <1>1, ConcatProperties
  <2>3. <<x, y>> \in Seq(S) /\ Len(<<x, y>>) = 2
    OBVIOUS
  <2>4. ASSUME NEW i \in 1 .. Len(<<x>> \o <<y>>)
        PROVE  (<<x>> \o <<y>>)[i] = <<x, y>>[i]
    <3>1. i = 1 \/ i = 2
      BY <2>1
    <3> QED BY <2>2, <3>1
  <2> HIDE DEF S
  <2> QED BY <2>1, <2>3, <2>4, SeqEqual, Zenon
<1> QED BY <1>1, <1>2, ConcatEmptySeq

\* Lemma: the elements of a cut are those of its left and its right part.
LEMMA CutElements ==
  ASSUME NEW f \in AnyBlock, NEW w \in AnyBlock, NEW c
  PROVE  (\E i \in DOMAIN Cuts(f, w) : Cuts(f, w)[i] = c) <=>
           \/ /\ f.start < w.start /\ w.start <= f.end
              /\ c = Block(f.start, w.start)
           \/ /\ f.start <= w.end /\ w.end < f.end
              /\ c = Block(w.end, f.end)
<1>1. LeftCut(f, w) = IF f.start < w.start /\ w.start <= f.end
                      THEN <<Block(f.start, w.start)>> ELSE <<>>
  BY DEF LeftCut, NonEmpty, AnyBlock
<1>2. RightCut(f, w) = IF f.start <= w.end /\ w.end < f.end
                       THEN <<Block(w.end, f.end)>> ELSE <<>>
  BY DEF RightCut, NonEmpty, AnyBlock
<1>3. CASE f.start < w.start /\ w.start <= f.end
  <2>1. CASE f.start <= w.end /\ w.end < f.end
    <3>1. Cuts(f, w) = <<Block(f.start, w.start), Block(w.end, f.end)>>
      BY <1>1, <1>2, <1>3, <2>1, JoinPieces DEF Cuts
    <3> QED BY <1>3, <2>1, <3>1
  <2>2. CASE ~(f.start <= w.end /\ w.end < f.end)
    <3>1. Cuts(f, w) = <<Block(f.start, w.start)>>
      BY <1>1, <1>2, <1>3, <2>2, JoinPieces DEF Cuts
    <3> QED BY <1>3, <2>2, <3>1
  <2> QED BY <2>1, <2>2
<1>4. CASE ~(f.start < w.start /\ w.start <= f.end)
  <2>1. CASE f.start <= w.end /\ w.end < f.end
    <3>1. Cuts(f, w) = <<Block(w.end, f.end)>>
      BY <1>1, <1>2, <1>4, <2>1, JoinPieces DEF Cuts
    <3> QED BY <1>4, <2>1, <3>1
  <2>2. CASE ~(f.start <= w.end /\ w.end < f.end)
    <3>1. Cuts(f, w) = <<>>
      BY <1>1, <1>2, <1>4, <2>2, JoinPieces DEF Cuts
    <3> QED BY <1>4, <2>2, <3>1
  <2> QED BY <2>1, <2>2
<1> QED BY <1>3, <1>4

\* Theorem: a piece to the left of the new block is clear of it, and a piece to
\* its right always collides with it again, whatever the blocks: the loop of
\* track_new puts it back and finds it for ever.
THEOREM OnlyLeftPiecesSettle ==
  ASSUME NEW f \in AnyBlock, NEW w \in AnyBlock,
         NEW i \in DOMAIN Cuts(f, w)
  PROVE  Intersect(Cuts(f, w)[i], w) <=> Cuts(f, w)[i].start = w.end
<1> DEFINE c == Cuts(f, w)[i]
<1>1. \/ f.start < w.start /\ w.start <= f.end /\ c = Block(f.start, w.start)
      \/ f.start <= w.end /\ w.end < f.end /\ c = Block(w.end, f.end)
  BY CutElements
<1> HIDE DEF c
<1>2. Intersect(c, w) <=> c.start = w.end
  BY <1>1 DEF Intersect, Contains, Block, AnyBlock
<1> QED BY <1>2 DEF c

\* Theorem: the collision test finds every overlap, and takes for one only a
\* block that ends where the other starts.
THEOREM IntersectIsOverlap ==
  ASSUME NEW f \in AnyBlock, NEW w \in AnyBlock
  PROVE  Intersect(f, w) <=>
           \/ \E n \in Nat : Contains(f, n) /\ Contains(w, n)
           \/ w.end = f.start
<1>1. ASSUME Intersect(f, w), w.end # f.start
      PROVE  \E n \in Nat : Contains(f, n) /\ Contains(w, n)
  <2>1. CASE f.start <= w.start
    <3>1. Contains(f, w.start) /\ Contains(w, w.start)
      BY <1>1, <2>1 DEF Intersect, Contains, AnyBlock
    <3> QED BY <3>1 DEF AnyBlock
  <2>2. CASE w.start < f.start
    <3>1. Contains(f, f.start) /\ Contains(w, f.start)
      BY <1>1, <2>2 DEF Intersect, Contains, AnyBlock
    <3> QED BY <3>1 DEF AnyBlock
  <2> QED BY <2>1, <2>2 DEF AnyBlock
<1>2. ASSUME NEW n \in Nat, Contains(f, n), Contains(w, n) PROVE Intersect(f, w)
  BY <1>2 DEF Intersect, Contains, AnyBlock
<1>3. ASSUME w.end = f.start PROVE Intersect(f, w)
  BY <1>3 DEF Intersect, Contains, AnyBlock
<1> QED BY <1>1, <1>2, <1>3

\* Theorem: the pieces hold exactly the addresses of the old block that the new
\* one does not take.
THEOREM PiecesAreTheRest ==
  ASSUME NEW f \in AnyBlock, NEW w \in AnyBlock, Intersect(f, w), NEW n \in Nat
  PROVE  (\E i \in DOMAIN Cuts(f, w) : Contains(Cuts(f, w)[i], n)) <=>
           Contains(f, n) /\ ~Contains(w, n)
<1>1. (\E i \in DOMAIN Cuts(f, w) : Contains(Cuts(f, w)[i], n)) <=>
        \/ f.start < w.start /\ w.start <= f.end /\ Contains(Block(f.start, w.start), n)
        \/ f.start <= w.end /\ w.end < f.end /\ Contains(Block(w.end, f.end), n)
  BY CutElements
<1> QED BY <1>1 DEF Intersect, Contains, Block, AnyBlock
=============================================================================
