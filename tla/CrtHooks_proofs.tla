---------------------------- MODULE CrtHooks_proofs ----------------------------
(***************************************************************************)
(* Invariants of the malloc, free and realloc hooks, for any heap, any      *)
(* number of threads and call sites.                                        *)
(***************************************************************************)
EXTENDS CrtHooks, MemoryBlock_proofs, WellFoundedInduction, FiniteSetTheorems,
        FunctionTheorems

Range01 == [start : Nat, end : Nat]

\* Lemma: cutting a block in two gives blocks.
LEMMA CutsType ==
  ASSUME NEW f \in Range01, NEW w \in Range01
  PROVE  Cuts(f, w) \in Seq(Range01)
<1>1. ASSUME NEW s \in Nat, NEW e \in Nat PROVE NonEmpty(s, e) \in Seq(Range01)
  <2>1. Block(s, e) \in Range01
    BY DEF Block, Range01
  <2>2. <<Block(s, e)>> \in Seq(Range01) /\ <<>> \in Seq(Range01)
    BY <2>1
  <2> QED BY <2>2 DEF NonEmpty
<1>2. LeftCut(f, w) \in Seq(Range01)
  BY <1>1 DEF LeftCut, Range01
<1>3. RightCut(f, w) \in Seq(Range01)
  BY <1>1 DEF RightCut, Range01
<1> QED BY <1>2, <1>3, ConcatProperties DEF Cuts

\* Lemma: the pieces of an entry are entries.
LEMMA PiecesType ==
  ASSUME NEW list \in Seq(Tracked), NEW i \in 1 .. Len(list), NEW new \in Tracked
  PROVE  /\ Pieces(list, i, new) \in Seq(Tracked)
         /\ Len(Pieces(list, i, new)) = Len(Cuts(list[i].memory, new.memory))
<1> DEFINE cuts == Cuts(list[i].memory, new.memory)
<1>1. list[i] \in Tracked
  OBVIOUS
<1>2. cuts \in Seq(Range01)
  BY <1>1, CutsType DEF Tracked, Range01
<1>3. \A k \in DOMAIN cuts : [list[i] EXCEPT !.memory = cuts[k]] \in Tracked
  <2> SUFFICES ASSUME NEW k \in DOMAIN cuts
               PROVE  [list[i] EXCEPT !.memory = cuts[k]] \in Tracked
    OBVIOUS
  <2>1. cuts[k] \in Range01
    BY <1>2
  <2> HIDE DEF cuts
  <2> QED BY <1>1, <2>1 DEF Tracked, Range01
<1>4. DOMAIN cuts = 1 .. Len(cuts) /\ Len(cuts) \in Nat
  BY <1>2
<1> HIDE DEF cuts
<1>5. [k \in DOMAIN cuts |-> [list[i] EXCEPT !.memory = cuts[k]]] \in Seq(Tracked)
  BY <1>3, <1>4
<1>6. Len([k \in DOMAIN cuts |-> [list[i] EXCEPT !.memory = cuts[k]]]) = Len(cuts)
  BY <1>4
<1> QED BY <1>5, <1>6 DEF Pieces, cuts

\* Lemma: where the entries of the list are after one round of the loop.
LEMMA CutEntries ==
  ASSUME NEW list \in Seq(Tracked), NEW i \in 1 .. Len(list), NEW new \in Tracked
  PROVE  LET all == list \o Pieces(list, i, new) IN
         /\ Cut(list, i, new) \in Seq(Tracked)
         /\ Len(Cut(list, i, new)) = Len(all) - 1
         /\ \A k \in 1 .. Len(all) - 1 :
              Cut(list, i, new)[k] = all[IF k < i THEN k ELSE k + 1]
<1> DEFINE all == list \o Pieces(list, i, new)
           front == SubSeq(all, 1, i - 1)
           back == SubSeq(all, i + 1, Len(all))
<1>1. /\ all \in Seq(Tracked) /\ Len(all) \in Nat /\ i \in 1 .. Len(all)
      /\ \A k \in 1 .. Len(all) : all[k] \in Tracked
  BY PiecesType, ConcatProperties, LenProperties
<1> HIDE DEF all
<1>2. /\ front \in Seq(Tracked) /\ Len(front) = i - 1
      /\ \A k \in 1 .. i - 1 : front[k] = all[k]
  BY <1>1, SubSeqProperties
<1>3. /\ back \in Seq(Tracked) /\ Len(back) = Len(all) - i
      /\ \A k \in 1 .. Len(all) - i : back[k] = all[i + k]
  <2>1. \A k \in i + 1 .. Len(all) : all[k] \in Tracked
    BY <1>1
  <2>2. /\ back \in Seq(Tracked)
        /\ Len(back) = IF i + 1 <= Len(all) THEN Len(all) - (i + 1) + 1 ELSE 0
        /\ \A k \in 1 .. Len(all) - (i + 1) + 1 : back[k] = all[(i + 1) + k - 1]
    BY <1>1, <2>1, SubSeqProperties
  <2> QED BY <1>1, <2>2
<1> HIDE DEF front, back
<1>4. /\ front \o back \in Seq(Tracked)
      /\ Len(front \o back) = Len(all) - 1
      /\ \A k \in 1 .. Len(all) - 1 :
           (front \o back)[k] = IF k <= i - 1 THEN front[k] ELSE back[k - (i - 1)]
  <2>1. Len(front) + Len(back) = Len(all) - 1
    BY <1>1, <1>2, <1>3
  <2>2. /\ front \o back \in Seq(Tracked)
        /\ Len(front \o back) = Len(front) + Len(back)
        /\ \A k \in 1 .. Len(front) + Len(back) :
             (front \o back)[k] = IF k <= Len(front) THEN front[k]
                                  ELSE back[k - Len(front)]
    BY <1>2, <1>3, ConcatProperties
  <2>3. Len(front) = i - 1
    BY <1>2
  <2> QED BY <2>1, <2>2, <2>3
<1>5. Cut(list, i, new) = front \o back
  BY DEF Cut, Seqs!RemoveAt, all, front, back
<1>6. ASSUME NEW k \in 1 .. Len(all) - 1
      PROVE  (front \o back)[k] = all[IF k < i THEN k ELSE k + 1]
  <2>1. CASE k < i
    BY <1>1, <1>2, <1>4, <2>1
  <2>2. CASE ~(k < i)
    <3>1. k - (i - 1) \in 1 .. Len(all) - i
      BY <1>1, <2>2
    <3>2. back[k - (i - 1)] = all[i + (k - (i - 1))]
      BY <1>3, <3>1
    <3>3. i + (k - (i - 1)) = k + 1
      BY <1>1
    <3> QED BY <1>1, <1>4, <2>2, <3>2, <3>3
  <2> QED BY <2>1, <2>2
<1> QED BY <1>4, <1>5, <1>6 DEF all

\* Lemma: mark_free and mark_reallocated keep the shape of the list, and
\* mark_free the ranges in it.
LEMMA MarkFreeEntries ==
  ASSUME NEW list \in Seq(Tracked), NEW ptr
  PROVE  /\ MarkFree(list, ptr) \in Seq(Tracked)
         /\ Len(MarkFree(list, ptr)) = Len(list)
         /\ \A i \in 1 .. Len(list) : MarkFree(list, ptr)[i].memory = list[i].memory
<1> DEFINE p == Find(list, ptr)
           marked == [list EXCEPT ![p].status = "FREED"]
<1>1. /\ marked \in Seq(Tracked) /\ Len(marked) = Len(list)
      /\ \A i \in 1 .. Len(list) : marked[i].memory = list[i].memory
  <2> HIDE DEF p
  <2>1. \A i \in 1 .. Len(list) :
          /\ marked[i] = IF i = p THEN [list[i] EXCEPT !.status = "FREED"] ELSE list[i]
          /\ list[i] \in Tracked
    OBVIOUS
  <2>2. ASSUME NEW i \in 1 .. Len(list)
        PROVE  /\ [list[i] EXCEPT !.status = "FREED"] \in Tracked
               /\ [list[i] EXCEPT !.status = "FREED"].memory = list[i].memory
    BY <2>1 DEF Tracked, Statuses
  <2>3. DOMAIN marked = 1 .. Len(list) /\ Len(list) \in Nat
    OBVIOUS
  <2> HIDE DEF marked
  <2>4. marked \in [1 .. Len(list) -> Tracked]
    <3>1. marked = [i \in 1 .. Len(list) |-> marked[i]]
      BY <2>3 DEF marked
    <3> QED BY <2>1, <2>2, <3>1
  <2>5. marked \in Seq(Tracked) /\ Len(marked) = Len(list)
    BY <2>3, <2>4
  <2>6. \A i \in 1 .. Len(list) : marked[i].memory = list[i].memory
    BY <2>1, <2>2
  <2> QED BY <2>5, <2>6
<1> QED BY <1>1 DEF MarkFree

LEMMA MarkReallocatedType ==
  ASSUME NEW list \in Seq(Tracked), NEW ptr, NEW to \in Range01
  PROVE  /\ MarkReallocated(list, ptr, to) \in Seq(Tracked)
         /\ Len(MarkReallocated(list, ptr, to)) = Len(list)
<1> DEFINE p == Find(list, ptr)
           entry(e) == [e EXCEPT !.status = "REALLOCATED", !.memory = to]
           moved == [list EXCEPT ![p] = entry(@)]
<1>1. moved \in Seq(Tracked) /\ Len(moved) = Len(list)
  <2> HIDE DEF p
  <2>1. \A e \in Tracked : entry(e) \in Tracked
    BY DEF Tracked, Statuses, Range01
  <2> HIDE DEF entry
  <2>2. \A i \in 1 .. Len(list) : moved[i] \in Tracked
    BY <2>1
  <2>3. DOMAIN moved = 1 .. Len(list) /\ Len(list) \in Nat
    OBVIOUS
  <2>4. moved = [i \in 1 .. Len(list) |-> moved[i]]
    OBVIOUS
  <2> HIDE DEF moved
  <2>5. moved \in [1 .. Len(list) -> Tracked]
    BY <2>2, <2>4
  <2> QED BY <2>3, <2>5
<1> QED BY <1>1 DEF MarkReallocated

-----------------------------------------------------------------------------
(***************************************************************************)
(* Types.                                                                   *)
(***************************************************************************)
\* Lemma: what a thread in a hook has in hand.
LEMMA HookTypes ==
  ASSUME TypeOK, NEW t \in Threads
  PROVE  /\ hook[t].kind = "track" =>
              hook[t] \in Tracking /\ hook[t].new \in Tracked /\ hook[t].it \in Nat \ {0}
         /\ hook[t].kind = "moved" => hook[t].to \in Range01
<1> USE DEF TypeOK, Idle, Tracking, Marking, Moving, Range01
<1>1. CASE hook[t] \in {Idle} \cup Marking
  BY <1>1
<1>2. CASE hook[t] \in Tracking
  BY <1>2
<1>3. CASE hook[t] \in Moving
  BY <1>3
<1> QED BY <1>1, <1>2, <1>3

\* Lemma: a hook starts with work of one of the three kinds.
LEMMA EnterType ==
  ASSUME TypeOK, NEW t \in Threads, NEW events \in SUBSET Events,
         NEW work \in Tracking \cup Marking \cup Moving, Enter(t, work, events),
         heap' \subseteq HeapBlock
  PROVE  TypeOK'
<1>1. hook' \in [Threads -> {Idle} \cup Tracking \cup Marking \cup Moving]
  BY DEF TypeOK, Enter
<1>2. history' \subseteq Events
  BY DEF TypeOK, Enter, Events
<1> QED BY <1>1, <1>2 DEF TypeOK, Enter

\* Lemma: the blocks of the heap are ranges.
LEMMA HeapRanges ==
  /\ Blocks \subseteq Range01
  /\ \A h \in HeapBlock : h.memory \in Range01 /\ h.memory.start \in Nat
BY BlocksAssumption DEF BlocksAssumption, HeapBlock, Range01

LEMMA TrackType ==
  ASSUME NEW memory \in Range01, NEW site \in CallSites
  PROVE  Track(memory, site) \in Tracking
BY DEF Track, Tracking, Tracked, Allocation, Statuses, Range01

LEMMA InitType == Init => TypeOK
BY DEF Init, TypeOK

\* A call of an allocation function by thread t, up to the hook it enters.
Call(t) ==
  \/ FreeNull(t)
  \/ \E b \in Blocks : AgentMalloc(t, b)
  \/ \E b \in Blocks, site \in CallSites : Malloc(t, b, site) \/ ReallocNull(t, b, site)
  \/ \E size \in FailSizes, site \in CallSites : MallocFails(t, size, site)
  \/ \E h \in heap : Free(t, h)
  \/ \E h \in heap, b \in Blocks : Realloc(t, h, b)
  \/ \E h \in heap, size \in FailSizes : ReallocFails(t, h, size)

\* Lemma: a step is a call or a step of the hook a call has entered.
LEMMA Steps == Next => \E t \in Threads : Update(t) \/ Call(t)
BY DEF Next, Call

\* Lemma: every call leaves the variables in their types.
LEMMA CallType ==
  ASSUME TypeOK, NEW t \in Threads, Call(t)
  PROVE  TypeOK'
<1> USE DEF TypeOK
<1>0. /\ NULL \in Nat
      /\ \A size \in FailSizes : Block(NULL, NULL + size) \in Range01
  BY BlocksAssumption DEF BlocksAssumption, NULL, Block, Range01
<1>1. CASE FreeNull(t)
  <2>1. [kind |-> "mark", ptr |-> NULL, tracked |-> FALSE] \in Marking
    BY <1>0 DEF Marking
  <2> QED BY <1>1, <2>1, EnterType DEF FreeNull
<1>2. ASSUME NEW b \in Blocks, AgentMalloc(t, b) PROVE TypeOK'
  <2>1. [memory |-> b, site |-> Agent, tracked |-> FALSE] \in HeapBlock
    BY DEF HeapBlock
  <2> QED BY <1>2, <2>1 DEF AgentMalloc
<1>3. ASSUME NEW b \in Blocks, NEW site \in CallSites, Malloc(t, b, site)
      PROVE  TypeOK'
  <2>1. [memory |-> b, site |-> site, tracked |-> TRUE] \in HeapBlock
    BY DEF HeapBlock
  <2>2. Track(b, site) \in Tracking
    BY HeapRanges, TrackType
  <2> QED BY <1>3, <2>1, <2>2, EnterType DEF Malloc
<1>4. ASSUME NEW b \in Blocks, NEW site \in CallSites, ReallocNull(t, b, site)
      PROVE  TypeOK'
  <2>1. [memory |-> b, site |-> site, tracked |-> FALSE] \in HeapBlock
    BY DEF HeapBlock
  <2>2. [kind |-> "moved", ptr |-> NULL, to |-> b] \in Moving
    BY <1>0, HeapRanges DEF Moving, Range01
  <2> QED BY <1>4, <2>1, <2>2, EnterType DEF ReallocNull, Events
<1>5. ASSUME NEW size \in FailSizes, NEW site \in CallSites,
             MallocFails(t, size, site)
      PROVE  TypeOK'
  <2>1. Track(Block(NULL, NULL + size), site) \in Tracking
    BY <1>0, TrackType
  <2> QED BY <1>5, <2>1, EnterType DEF MallocFails, Events
<1>6. ASSUME NEW h \in heap, Free(t, h) PROVE TypeOK'
  <2>1. h.memory.start \in Nat /\ h.tracked \in BOOLEAN
    BY HeapRanges DEF HeapBlock
  <2>2. [kind |-> "mark", ptr |-> h.memory.start, tracked |-> h.tracked] \in Marking
    BY <2>1 DEF Marking
  <2> QED BY <1>6, <2>2, EnterType DEF Free
<1>7. ASSUME NEW h \in heap, NEW b \in Blocks, Realloc(t, h, b) PROVE TypeOK'
  <2>1. [h EXCEPT !.memory = b] \in HeapBlock
    BY DEF HeapBlock
  <2>2. [kind |-> "moved", ptr |-> h.memory.start, to |-> b] \in Moving
    BY HeapRanges DEF Moving, Range01
  <2> QED BY <1>7, <2>1, <2>2, EnterType DEF Realloc, Events
<1>8. ASSUME NEW h \in heap, NEW size \in FailSizes, ReallocFails(t, h, size)
      PROVE  TypeOK'
  <2>1. [kind |-> "moved", ptr |-> h.memory.start,
         to |-> Block(NULL, NULL + size)] \in Moving
    BY <1>0, HeapRanges DEF Moving, Range01
  <2> QED BY <1>8, <2>1, EnterType DEF ReallocFails, Events
<1> QED BY <1>1, <1>2, <1>3, <1>4, <1>5, <1>6, <1>7, <1>8 DEF Call

\* Lemma: a vector that has to grow by one entry gets room for it.
LEMMA GrownIsEnough ==
  ASSUME NEW cap \in Nat, NEW size \in Nat, size <= cap + 1
  PROVE  Grown(cap, size) \in Nat /\ size <= Grown(cap, size)
<1>1. cap \div 2 \in Nat
  OBVIOUS
<1> QED BY <1>1 DEF Grown

\* Lemma: what a thread that looks at an entry in the loop has.
LEMMA RoundTypes ==
  ASSUME TypeOK, NEW t \in Threads, In(t, "track"), AtEntry(t)
  PROVE  /\ allocations \in Seq(Tracked) /\ hook[t].new \in Tracked
         /\ hook[t].it \in 1 .. Len(allocations)
<1>1. hook[t].it \in Nat \ {0} /\ hook[t].new \in Tracked
  BY HookTypes DEF In
<1> QED BY <1>1 DEF TypeOK, AtEntry

\* Lemma: every step of a hook leaves the variables in their types.
LEMMA UpdateType ==
  ASSUME TypeOK, NEW t \in Threads, Update(t)
  PROVE  TypeOK'
<1> USE DEF TypeOK
<1>1. ASSUME Finish(t)
      PROVE  hook' \in [Threads -> {Idle} \cup Tracking \cup Marking \cup Moving]
  BY <1>1 DEF Finish
<1>2. CASE Mark(t)
  BY <1>1, <1>2, MarkFreeEntries DEF Mark
<1>3. CASE Move(t)
  <2>1. hook[t].to \in Range01
    BY <1>3, HookTypes DEF Move, In
  <2> QED BY <1>1, <1>3, <2>1, MarkReallocatedType DEF Move
<1>4. ASSUME NEW i \in Nat \ {0}, In(t, "track"), hook' = [hook EXCEPT ![t].it = i]
      PROVE  hook' \in [Threads -> {Idle} \cup Tracking \cup Marking \cup Moving]
  <2>1. hook[t] \in Tracking
    BY <1>4, HookTypes DEF In
  <2>2. [hook[t] EXCEPT !.it = i] \in Tracking
    BY <2>1 DEF Tracking
  <2> QED BY <1>4, <2>2
<1>5. CASE TrackSkip(t)
  <2>1. hook[t].it + 1 \in Nat \ {0} /\ hook' = [hook EXCEPT ![t].it = hook[t].it + 1]
    BY <1>5, RoundTypes DEF TrackSkip
  <2> QED BY <1>4, <1>5, <2>1 DEF TrackSkip
<1>6. CASE TrackCut(t)
  <2> DEFINE i == hook[t].it
             new == hook[t].new
             left == Pieces(allocations, i, new)
  <2>1. /\ allocations \in Seq(Tracked) /\ new \in Tracked
        /\ i \in 1 .. Len(allocations)
    BY <1>6, RoundTypes DEF TrackCut
  <2>2. left \in Seq(Tracked)
    BY <2>1, PiecesType
  <2>3. /\ allocations' \in Seq(Tracked)
        /\ Len(allocations') = Len(allocations) + Len(left) - 1
    <3>1. allocations' = Cut(allocations, i, new)
      BY <1>6 DEF TrackCut
    <3>2. Len(allocations \o left) = Len(allocations) + Len(left)
      BY <2>1, <2>2, ConcatProperties
    <3> HIDE DEF i, new, left
    <3>3. /\ Cut(allocations, i, new) \in Seq(Tracked)
          /\ Len(Cut(allocations, i, new)) = Len(allocations \o left) - 1
      BY <2>1, CutEntries DEF left
    <3> QED BY <3>1, <3>2, <3>3
  <2>4. Len(allocations') <= capacity
    <3>1. left = <<>> \/ Len(allocations) + Len(left) <= capacity
      BY <1>6 DEF TrackCut, Left
    <3>2. left = <<>> => Len(left) = 0
      OBVIOUS
    <3> HIDE DEF left
    <3> QED BY <2>1, <2>2, <2>3, <3>1, <3>2, LenProperties
  <2>5. hook' \in [Threads -> {Idle} \cup Tracking \cup Marking \cup Moving]
    <3>1. 1 \in Nat \ {0} /\ In(t, "track") /\ hook' = [hook EXCEPT ![t].it = 1]
      BY <1>6 DEF TrackCut
    <3> QED BY <1>4, <3>1
  <2> QED BY <1>6, <2>3, <2>4, <2>5 DEF TrackCut
<1>7. CASE TrackAppend(t)
  <2>1. hook[t].new \in Tracked
    BY <1>7, HookTypes DEF TrackAppend, In
  <2>2. allocations' \in Seq(Tracked) /\ Len(allocations') = Len(allocations) + 1
    BY <1>7, <2>1 DEF TrackAppend
  <2>3. capacity' \in Nat /\ Len(allocations') <= capacity'
    BY <1>7, <2>2, GrownIsEnough DEF TrackAppend
  <2>4. ASSUME NEW u \in Threads, hook[u].kind = "track"
        PROVE  [hook[u] EXCEPT !.dangling = TRUE] \in Tracking
    BY <2>4, HookTypes DEF Tracking
  <2>5. hook' \in [Threads -> {Idle} \cup Tracking \cup Marking \cup Moving]
    BY <1>7, <2>4 DEF TrackAppend
  <2> QED BY <1>7, <2>2, <2>3, <2>5 DEF TrackAppend
<1>8. CASE TrackAsserts(t) \/ TrackGrowsUnderIterator(t) \/ TrackLosesIterator(t)
  BY <1>8 DEF TrackAsserts, TrackGrowsUnderIterator, TrackLosesIterator, End
<1> QED BY <1>2, <1>3, <1>5, <1>6, <1>7, <1>8 DEF Update

\* Theorem: the variables keep their types; in particular no round of the loop
\* and no push_back leaves the vector with more entries than its capacity.
THEOREM TypeCorrect == Spec => []TypeOK
<1>1. TypeOK /\ UNCHANGED vars => TypeOK'
  BY DEF TypeOK, vars
<1>2. TypeOK /\ [Next]_vars => TypeOK'
  BY <1>1, CallType, UpdateType, Steps
<1> QED BY InitType, <1>2, PTL DEF Spec

-----------------------------------------------------------------------------
(***************************************************************************)
(* The invariant behind LiveBlocksTracked, EntriesDisjoint, FreeRecorded    *)
(* and AssertHolds.  It holds while history = {}.                           *)
(***************************************************************************)
Apart(x, y) == x.end <= y.start \/ y.end <= x.start

Unfreed == {i \in DOMAIN allocations : allocations[i].status # "FREED"}

\* At most one thread is in a hook, and not in that of realloc.
OneHook ==
  /\ \A t, u \in Threads : hook[t].kind # "none" /\ hook[u].kind # "none" => t = u
  /\ \A t \in Threads : hook[t].kind # "moved"

HeapSpread == \A g, h \in heap : g # h => Clear(g.memory, {h})

EntriesApart ==
  /\ \A i \in DOMAIN allocations : allocations[i].memory \in AnyBlock
  /\ \A i, j \in DOMAIN allocations :
       i # j => Apart(allocations[i].memory, allocations[j].memory)

\* Every block the list should know has its entry ...
LiveHaveEntries ==
  \A h \in Known : \E i \in DOMAIN allocations :
    allocations[i] = Allocation(h.memory, h.site, "ALLOCATED")

\* ... and an entry that is not freed is a live block, or one whose free is
\* about to be recorded.
UnfreedAreLive ==
  \A i \in Unfreed :
    \/ \E h \in heap : h.memory = allocations[i].memory
    \/ /\ allocations[i].memory \in Blocks
       /\ \E t \in Threads : /\ hook[t].kind = "mark"
                             /\ hook[t].ptr = allocations[i].memory.start

\* A new block is on the heap, collides with freed entries only, and with none
\* of those the loop has passed.
NewMakesRoom ==
  \A t \in Threads : hook[t].kind = "track" =>
    /\ hook[t].new.memory \in AnyBlock /\ hook[t].new.status = "ALLOCATED"
    /\ \E h \in heap : h.memory = hook[t].new.memory /\ h.site = hook[t].new.site
    /\ \A i \in Unfreed : ~Intersect(allocations[i].memory, hook[t].new.memory)
    /\ \A i \in DOMAIN allocations :
         i < hook[t].it => ~Intersect(allocations[i].memory, hook[t].new.memory)

\* What is being freed is in no other tracked block, and has its entry if it was
\* tracked.
FreeFindsItsEntry ==
  \A t \in Threads : hook[t].kind = "mark" =>
    /\ \A h \in Known : ~Contains(h.memory, hook[t].ptr)
    /\ hook[t].tracked => \E i \in Unfreed : Contains(allocations[i].memory, hook[t].ptr)

Order ==
  /\ OneHook /\ HeapSpread /\ EntriesApart /\ LiveHaveEntries
  /\ UnfreedAreLive /\ NewMakesRoom /\ FreeFindsItsEntry
  /\ ended # "assert"

Orderly == history = {} => Order

\* Lemma: the blocks the heap returns are not empty and do not start at NULL,
\* and two of them with a header between do not count as colliding.
LEMMA HeapBlocks ==
  /\ \A b \in Blocks : b \in AnyBlock /\ ~Contains(b, NULL)
  /\ \A h \in HeapBlock : h.memory \in Blocks
<1>1. ASSUME NEW b \in Blocks PROVE b \in AnyBlock /\ ~Contains(b, NULL)
  <2>1. b \in [start : Nat \ {0}, end : Nat] /\ b.start < b.end
    BY BlocksAssumption DEF BlocksAssumption
  <2>2. b.start \in Nat \ {0} /\ b.end \in Nat
    BY <2>1
  <2>3. ~(b.start <= 0)
    BY <2>2
  <2> QED BY <2>1, <2>3, HeapRanges DEF Range01, AnyBlock, Contains, NULL
<1> QED BY <1>1 DEF HeapBlock

LEMMA ClearBlocks ==
  ASSUME NEW b \in AnyBlock, NEW h, h.memory \in AnyBlock, Header > 0, Clear(b, {h})
  PROVE  /\ ~Intersect(b, h.memory) /\ ~Intersect(h.memory, b)
         /\ \A n \in Nat : ~(Contains(b, n) /\ Contains(h.memory, n))
         /\ b # h.memory
         /\ \A g : g.memory = b => Clear(h.memory, {g})
BY BlocksAssumption DEF BlocksAssumption, Clear, Intersect, Contains, AnyBlock

LEMMA NoCollision ==
  ASSUME NEW x \in AnyBlock, NEW y \in AnyBlock, ~Intersect(x, y)
  PROVE  Apart(x, y)
BY DEF Apart, Intersect, Contains, AnyBlock

\* Lemma: a thread is in no hook exactly when it is idle.
LEMMA IdleKind ==
  ASSUME TypeOK, NEW t \in Threads
  PROVE  hook[t].kind = "none" <=> hook[t] = Idle
BY DEF TypeOK, Idle, Tracking, Marking, Moving

\* Lemma: a hook that leaves history empty starts when no other is under way.
LEMMA EnterAlone ==
  ASSUME TypeOK, NEW t \in Threads, NEW work, NEW events,
         Enter(t, work, events), In(t, "none"), history' = {}
  PROVE  /\ history = {} /\ events = {}
         /\ \A u \in Threads : hook[u] = Idle
         /\ \A u \in Threads : hook'[u] = IF u = t THEN work ELSE Idle
<1>1. history = {} /\ events = {}
  BY DEF Enter
<1>2. \A u \in Threads \ {t} : hook[u] = Idle
  BY DEF Enter
<1>3. hook[t] = Idle
  BY IdleKind DEF In
<1>4. \A u \in Threads : hook'[u] = IF u = t THEN work ELSE hook[u]
  BY DEF Enter, TypeOK
<1> QED BY <1>1, <1>2, <1>3, <1>4

\* Lemma: in a list whose entries are apart, find() returns the one entry that
\* contains the address.
LEMMA FindApart ==
  ASSUME TypeOK, EntriesApart, NEW ptr \in Nat
  PROVE  LET f == Find(allocations, ptr) IN
         /\ f \in 1 .. Len(allocations) + 1
         /\ f <= Len(allocations) => Contains(allocations[f].memory, ptr)
         /\ \A i \in 1 .. Len(allocations) :
              Contains(allocations[i].memory, ptr) => f = i
<1> DEFINE n == Len(allocations)
           Has(i) == Contains(allocations[i].memory, ptr)
           First(i) == (i <= n => Has(i)) /\ \A j \in 1 .. i - 1 : ~Has(j)
<1>1. n \in Nat /\ DOMAIN allocations = 1 .. n
  BY DEF TypeOK
<1>2. ASSUME NEW i \in 1 .. n, NEW j \in 1 .. n, Has(i), Has(j) PROVE i = j
  <2>1. allocations[i].memory \in AnyBlock /\ allocations[j].memory \in AnyBlock
    BY <1>1 DEF EntriesApart
  <2>2. ~Apart(allocations[i].memory, allocations[j].memory)
    BY <1>2, <2>1 DEF Has, Apart, AnyBlock, Contains
  <2> QED BY <1>1, <2>2 DEF EntriesApart
<1> HIDE DEF n, Has
<1>3. \E i \in 1 .. n + 1 : First(i)
  <2>1. CASE \E i \in 1 .. n : Has(i)
    <3>1. PICK i \in 1 .. n : Has(i)
      BY <2>1
    <3>2. First(i)
      BY <1>1, <1>2, <3>1
    <3> QED BY <1>1, <3>1, <3>2
  <2>2. CASE \A i \in 1 .. n : ~Has(i)
    <3>1. First(n + 1) /\ n + 1 \in 1 .. n + 1
      BY <1>1, <2>2
    <3> QED BY <3>1
  <2> QED BY <2>1, <2>2
<1>4. Find(allocations, ptr) = CHOOSE i \in 1 .. n + 1 : First(i)
  BY DEF Find, n, Has
<1> DEFINE f == Find(allocations, ptr)
<1>5. f \in 1 .. n + 1 /\ First(f)
  BY <1>3, <1>4
<1> HIDE DEF f
<1>6. \A i \in 1 .. n : Has(i) => f = i
  BY <1>1, <1>2, <1>5
<1> QED BY <1>5, <1>6 DEF n, Has, f

\* Lemma: in such a list mark_free changes the entry that contains the address,
\* if it is not freed yet, and nothing else.
LEMMA MarkFreeOne ==
  ASSUME TypeOK, EntriesApart, NEW ptr \in Nat, NEW i \in 1 .. Len(allocations)
  PROVE  MarkFree(allocations, ptr)[i] =
           IF Contains(allocations[i].memory, ptr) /\ allocations[i].status # "FREED"
           THEN [allocations[i] EXCEPT !.status = "FREED"] ELSE allocations[i]
<1> DEFINE f == Find(allocations, ptr)
<1>1. /\ f \in 1 .. Len(allocations) + 1
      /\ f <= Len(allocations) => Contains(allocations[f].memory, ptr)
      /\ Contains(allocations[i].memory, ptr) => f = i
  BY FindApart
<1>2. allocations \in Seq(Tracked) /\ DOMAIN allocations = 1 .. Len(allocations)
  BY DEF TypeOK
<1>3. MarkFree(allocations, ptr) =
        IF f <= Len(allocations) /\ allocations[f].status # "FREED"
        THEN [allocations EXCEPT ![f].status = "FREED"] ELSE allocations
  BY DEF MarkFree, FreeStatus, Found
<1> HIDE DEF f
<1> QED BY <1>1, <1>2, <1>3

-----------------------------------------------------------------------------
(***************************************************************************)
(* Every step that leaves history empty keeps the order.                    *)
(***************************************************************************)
\* Lemma: what the list should know after a step in which no thread comes out of
\* malloc, if the heap has no new tracked block that is returned.
LEMMA KnownShrinks ==
  ASSUME \A h \in heap' : h \notin heap => ~h.tracked \/ ~Returned(h)',
         \A h \in heap : Returned(h)' => Returned(h)
  PROVE  Known' \subseteq Known
BY DEF Known

LEMMA MallocOrder ==
  ASSUME TypeOK, Order, Header > 0, history' = {},
         NEW t \in Threads, NEW b \in Blocks, NEW site \in CallSites, Malloc(t, b, site)
  PROVE  Order'
<1> DEFINE new == [memory |-> b, site |-> site, tracked |-> TRUE]
<1>1. /\ \A u \in Threads : hook[u] = Idle
      /\ \A u \in Threads : hook'[u] = IF u = t THEN Track(b, site) ELSE Idle
  BY EnterAlone DEF Malloc, Begins
<1>2. /\ heap' = heap \cup {new} /\ Clear(b, heap)
      /\ UNCHANGED <<allocations, capacity, ended>>
  BY DEF Malloc, Enter
<1>3. /\ Track(b, site).kind = "track" /\ Track(b, site).it = 1
      /\ Track(b, site).new = Allocation(b, site, "ALLOCATED")
      /\ Idle.kind = "none"
  BY DEF Track, Idle
<1>4. b \in AnyBlock /\ \A h \in heap : h.memory \in AnyBlock /\ Clear(b, {h})
  BY <1>2, HeapBlocks DEF TypeOK, Clear
<1>5. OneHook'
  BY <1>1, <1>3 DEF OneHook
<1>6. HeapSpread'
  <2>1. \A h \in heap : Clear(new.memory, {h}) /\ Clear(h.memory, {new})
    BY <1>4, ClearBlocks
  <2> QED BY <1>2, <2>1 DEF Order, HeapSpread
<1>7. EntriesApart'
  BY <1>2 DEF Order, EntriesApart
<1>8. Known' \subseteq Known
  <2>1. ~Returned(new)'
    BY <1>1, <1>3 DEF Returned, Allocation
  <2>2. \A h \in heap : Returned(h)
    BY <1>1, <1>3 DEF Returned
  <2> QED BY <1>2, <2>1, <2>2, KnownShrinks
<1>9. LiveHaveEntries'
  BY <1>2, <1>8 DEF Order, LiveHaveEntries
<1>10. ASSUME NEW i \in Unfreed PROVE \E h \in heap : h.memory = allocations[i].memory
  BY <1>1, <1>3 DEF Order, UnfreedAreLive
<1>11. UnfreedAreLive'
  BY <1>2, <1>10 DEF UnfreedAreLive, Unfreed
<1>12. NewMakesRoom'
  <2>1. \A i \in Unfreed : ~Intersect(allocations[i].memory, b)
    BY <1>4, <1>10, ClearBlocks
  <2>2. \A i \in DOMAIN allocations : ~(i < 1)
    BY DEF TypeOK
  <2>3. /\ Track(b, site).new.memory = b /\ Track(b, site).new.site = site
        /\ Track(b, site).new.status = "ALLOCATED"
    BY <1>3 DEF Allocation
  <2>4. \E h \in heap' : h.memory = b /\ h.site = site
    <3>1. new \in heap' /\ new.memory = b /\ new.site = site
      BY <1>2
    <3> QED BY <3>1
  <2> QED BY <1>1, <1>2, <1>3, <1>4, <2>1, <2>2, <2>3, <2>4 DEF NewMakesRoom, Unfreed
<1>13. FreeFindsItsEntry'
  BY <1>1, <1>3 DEF FreeFindsItsEntry
<1> QED BY <1>2, <1>5, <1>6, <1>7, <1>9, <1>11, <1>12, <1>13 DEF Order

LEMMA FreeOrder ==
  ASSUME TypeOK, Order, Header > 0, history' = {},
         NEW t \in Threads, NEW gone,
         NEW ptr \in Nat, NEW tracked \in BOOLEAN,
         In(t, "none"), heap' = heap \ gone,
         Enter(t, [kind |-> "mark", ptr |-> ptr, tracked |-> tracked], {}),
         \A h \in gone : h.memory.start = ptr,
         \A h \in Known \ gone : ~Contains(h.memory, ptr),
         tracked => \E i \in Unfreed : Contains(allocations[i].memory, ptr)
  PROVE  Order'
<1> DEFINE work == [kind |-> "mark", ptr |-> ptr, tracked |-> tracked]
<1>1. /\ \A u \in Threads : hook[u] = Idle
      /\ \A u \in Threads : hook'[u] = IF u = t THEN work ELSE Idle
  BY EnterAlone
<1>2. UNCHANGED <<allocations, capacity, ended>>
  BY DEF Enter
<1>3. Idle.kind = "none" /\ work.kind = "mark" /\ work.ptr = ptr /\ work.tracked = tracked
  BY DEF Idle
<1> HIDE DEF work
<1>5. OneHook'
  BY <1>1, <1>3 DEF OneHook
<1>6. HeapSpread' /\ EntriesApart'
  BY <1>2 DEF Order, HeapSpread, EntriesApart
<1>7. Known' \subseteq Known \ gone
  <2>1. \A h \in heap : Returned(h)
    BY <1>1, <1>3 DEF Returned
  <2> QED BY <2>1 DEF Known
<1>8. LiveHaveEntries'
  BY <1>2, <1>7 DEF Order, LiveHaveEntries
<1>9. UnfreedAreLive'
  <2>1. ASSUME NEW i \in Unfreed
        PROVE  \/ \E h \in heap' : h.memory = allocations[i].memory
               \/ allocations[i].memory \in Blocks /\ ptr = allocations[i].memory.start
    BY <1>1, <1>3, HeapBlocks DEF Order, UnfreedAreLive, TypeOK
  <2> QED BY <1>1, <1>2, <1>3, <2>1 DEF UnfreedAreLive, Unfreed
<1>10. NewMakesRoom'
  BY <1>1, <1>3 DEF NewMakesRoom
<1>11. FreeFindsItsEntry'
  <2>1. tracked => \E i \in Unfreed' : Contains(allocations'[i].memory, ptr)
    BY <1>2 DEF Unfreed
  <2> QED BY <1>1, <1>3, <1>7, <2>1 DEF FreeFindsItsEntry
<1> QED BY <1>2, <1>5, <1>6, <1>8, <1>9, <1>10, <1>11 DEF Order

LEMMA AgentMallocOrder ==
  ASSUME TypeOK, Order, Header > 0,
         NEW t \in Threads, NEW b \in Blocks, AgentMalloc(t, b)
  PROVE  Order'
<1> DEFINE new == [memory |-> b, site |-> Agent, tracked |-> FALSE]
<1>1. /\ heap' = heap \cup {new} /\ Clear(b, heap)
      /\ UNCHANGED <<allocations, capacity, hook, ended, history>>
  BY DEF AgentMalloc
<1>2. b \in AnyBlock /\ \A h \in heap : h.memory \in AnyBlock /\ Clear(b, {h})
  BY <1>1, HeapBlocks DEF TypeOK, Clear
<1>3. HeapSpread'
  <2>1. \A h \in heap : Clear(new.memory, {h}) /\ Clear(h.memory, {new})
    BY <1>2, ClearBlocks
  <2> QED BY <1>1, <2>1 DEF Order, HeapSpread
<1>4. Known' \subseteq Known
  <2>1. \A h : Returned(h)' <=> Returned(h)
    BY <1>1 DEF Returned
  <2> QED BY <1>1, <2>1, KnownShrinks
<1>5. OneHook' /\ EntriesApart'
  BY <1>1 DEF Order, OneHook, EntriesApart
<1>6. LiveHaveEntries'
  BY <1>1, <1>4 DEF Order, LiveHaveEntries
<1>7. UnfreedAreLive'
  BY <1>1 DEF Order, UnfreedAreLive, Unfreed
<1>8. NewMakesRoom'
  BY <1>1 DEF Order, NewMakesRoom, Unfreed
<1>9. FreeFindsItsEntry'
  BY <1>1, <1>4 DEF Order, FreeFindsItsEntry, Unfreed
<1> QED BY <1>1, <1>3, <1>5, <1>6, <1>7, <1>8, <1>9 DEF Order

\* Lemma: every call that leaves history empty keeps the order.
LEMMA CallOrder ==
  ASSUME TypeOK, Order, Header > 0, history' = {}, NEW t \in Threads, Call(t)
  PROVE  Order'
<1>1. CASE FreeNull(t)
  <2> DEFINE gone == {}
             tracked == FALSE
  <2>1. \A h \in Known \ gone : ~Contains(h.memory, NULL)
    BY HeapBlocks DEF Known, TypeOK
  <2>2. /\ In(t, "none") /\ heap' = heap \ gone /\ NULL \in Nat
        /\ Enter(t, [kind |-> "mark", ptr |-> NULL, tracked |-> tracked], {})
    BY <1>1 DEF FreeNull, Begins, NULL
  <2>3. /\ \A h \in gone : h.memory.start = NULL
        /\ tracked \in BOOLEAN
        /\ tracked => \E i \in Unfreed : Contains(allocations[i].memory, NULL)
    OBVIOUS
  <2> HIDE DEF gone, tracked
  <2> QED BY <2>1, <2>2, <2>3, FreeOrder
<1>2. ASSUME NEW h \in heap, Free(t, h) PROVE Order'
  <2> DEFINE ptr == h.memory.start
  <2>1. /\ In(t, "none") /\ heap' = heap \ {h} /\ Returned(h)
        /\ Enter(t, [kind |-> "mark", ptr |-> ptr, tracked |-> h.tracked], {})
    BY <1>2 DEF Free, Begins
  <2>2. /\ h.memory \in AnyBlock /\ ptr \in Nat /\ h.tracked \in BOOLEAN
        /\ Contains(h.memory, ptr)
    BY HeapBlocks DEF TypeOK, HeapBlock, AnyBlock, Contains
  <2>3. ASSUME NEW g \in Known \ {h} PROVE ~Contains(g.memory, ptr)
    <3>1. g \in heap /\ g.memory \in AnyBlock /\ Clear(g.memory, {h})
      BY HeapBlocks DEF TypeOK, Known, Order, HeapSpread
    <3> QED BY <2>2, <3>1, ClearBlocks
  <2>4. h.tracked => \E i \in Unfreed : Contains(allocations[i].memory, ptr)
    <3> SUFFICES ASSUME h.tracked
                 PROVE  \E i \in Unfreed : Contains(allocations[i].memory, ptr)
      OBVIOUS
    <3>1. PICK i \in DOMAIN allocations :
            allocations[i] = Allocation(h.memory, h.site, "ALLOCATED")
      BY <2>1 DEF Order, LiveHaveEntries, Known
    <3>2. allocations[i].memory = h.memory /\ allocations[i].status # "FREED"
      BY <3>1 DEF Allocation
    <3> QED BY <2>2, <3>2 DEF Unfreed
  <2> HIDE DEF ptr
  <2>5. \A g \in {h} : g.memory.start = ptr
    BY DEF ptr
  <2> QED BY <2>1, <2>2, <2>3, <2>4, <2>5, FreeOrder
<1>3. ASSUME NEW e, NEW work, Enter(t, work, {e}) PROVE FALSE
  BY <1>3 DEF Enter
<1>4. CASE \/ \E b \in Blocks, site \in CallSites : ReallocNull(t, b, site)
           \/ \E size \in FailSizes, site \in CallSites : MallocFails(t, size, site)
           \/ \E h \in heap, b \in Blocks : Realloc(t, h, b)
           \/ \E h \in heap, size \in FailSizes : ReallocFails(t, h, size)
  <2>1. ASSUME NEW b, NEW site, ReallocNull(t, b, site) PROVE FALSE
    BY <1>3, <2>1 DEF ReallocNull
  <2>2. ASSUME NEW size, NEW site, MallocFails(t, size, site) PROVE FALSE
    BY <1>3, <2>2 DEF MallocFails
  <2>3. ASSUME NEW h, NEW b, Realloc(t, h, b) PROVE FALSE
    BY <1>3, <2>3 DEF Realloc
  <2>4. ASSUME NEW h, NEW size, ReallocFails(t, h, size) PROVE FALSE
    BY <1>3, <2>4 DEF ReallocFails
  <2> QED BY <1>4, <2>1, <2>2, <2>3, <2>4
<1> QED BY <1>1, <1>2, <1>4, MallocOrder, AgentMallocOrder DEF Call

\* Lemma: while one thread is in a hook the others are in none.
LEMMA Alone ==
  ASSUME Order, NEW t \in Threads, hook[t].kind # "none"
  PROVE  \A u \in Threads \ {t} : hook[u].kind = "none"
BY DEF Order, OneHook

LEMMA MarkOrder ==
  ASSUME TypeOK, Order, NEW t \in Threads, Mark(t)
  PROVE  Order'
<1> DEFINE ptr == hook[t].ptr
<1>1. /\ hook[t].kind = "mark" /\ ptr \in Nat
      /\ \A u \in Threads \ {t} : hook[u].kind = "none"
  <2>1. hook[t].kind = "mark"
    BY DEF Mark, In
  <2>2. hook[t] \in Marking
    BY <2>1 DEF TypeOK, Idle, Tracking, Marking, Moving
  <2> QED BY <2>1, <2>2, Alone DEF Marking
<1>2. /\ allocations' = MarkFree(allocations, ptr)
      /\ \A u \in Threads : hook'[u] = IF u = t THEN Idle ELSE hook[u]
      /\ UNCHANGED <<heap, ended>>
      /\ Idle.kind = "none"
  BY DEF Mark, Finish, TypeOK, Idle
<1>3. /\ DOMAIN allocations = 1 .. Len(allocations)
      /\ DOMAIN allocations' = DOMAIN allocations
      /\ allocations \in Seq(Tracked)
      /\ \A i \in DOMAIN allocations : allocations'[i].memory = allocations[i].memory
  BY <1>2, MarkFreeEntries DEF TypeOK
<1>4. ASSUME NEW i \in DOMAIN allocations
      PROVE  allocations'[i] =
               IF Contains(allocations[i].memory, ptr) /\ allocations[i].status # "FREED"
               THEN [allocations[i] EXCEPT !.status = "FREED"] ELSE allocations[i]
  BY <1>1, <1>2, <1>3, MarkFreeOne DEF Order
<1> HIDE DEF ptr
<1>5. ASSUME NEW i \in Unfreed'
      PROVE  i \in Unfreed /\ ~Contains(allocations[i].memory, ptr)
  <2>1. i \in DOMAIN allocations /\ allocations'[i].status # "FREED"
    BY <1>3 DEF Unfreed
  <2>2. allocations[i] \in Tracked
    BY <1>3, <2>1
  <2>3. [allocations[i] EXCEPT !.status = "FREED"].status = "FREED"
    BY <2>2 DEF Tracked
  <2> QED BY <1>4, <2>1, <2>3 DEF Unfreed
<1>6. Known' = Known
  <2>1. ASSUME NEW h PROVE Returned(h)' <=> Returned(h)
    BY <1>1, <1>2 DEF Returned
  <2> QED BY <1>2, <2>1 DEF Known
<1>7. OneHook' /\ HeapSpread'
  BY <1>1, <1>2 DEF Order, OneHook, HeapSpread
<1>8. EntriesApart'
  BY <1>3 DEF Order, EntriesApart
<1>9. LiveHaveEntries'
  <2> SUFFICES ASSUME NEW h \in Known
               PROVE  \E i \in DOMAIN allocations :
                        allocations'[i] = Allocation(h.memory, h.site, "ALLOCATED")
    BY <1>3, <1>6 DEF LiveHaveEntries
  <2>1. PICK i \in DOMAIN allocations :
          allocations[i] = Allocation(h.memory, h.site, "ALLOCATED")
    BY DEF Order, LiveHaveEntries
  <2>2. allocations[i].memory = h.memory
    BY <2>1 DEF Allocation
  <2>3. ~Contains(h.memory, ptr)
    BY <1>1 DEF Order, FreeFindsItsEntry, ptr
  <2> QED BY <1>4, <2>1, <2>2, <2>3
<1>10. UnfreedAreLive'
  <2> SUFFICES ASSUME NEW i \in Unfreed'
               PROVE  \E h \in heap : h.memory = allocations[i].memory
    BY <1>2, <1>3, <1>5 DEF UnfreedAreLive, Unfreed
  <2>1. i \in Unfreed /\ ~Contains(allocations[i].memory, ptr)
    BY <1>5
  <2>2. Contains(allocations[i].memory, allocations[i].memory.start)
    BY <2>1 DEF Order, EntriesApart, Unfreed, AnyBlock, Contains
  <2>3. ~(\E u \in Threads : hook[u].kind = "mark"
                            /\ hook[u].ptr = allocations[i].memory.start)
    BY <1>1, <2>1, <2>2 DEF ptr
  <2> QED BY <2>1, <2>3 DEF Order, UnfreedAreLive
<1>11. NewMakesRoom' /\ FreeFindsItsEntry'
  BY <1>1, <1>2 DEF NewMakesRoom, FreeFindsItsEntry
<1> QED BY <1>2, <1>7, <1>8, <1>9, <1>10, <1>11 DEF Order

\* Lemma: what is apart from a block is apart from a part of it.
LEMMA PartApart ==
  ASSUME NEW x \in AnyBlock, NEW y \in AnyBlock, NEW part \in AnyBlock, Apart(x, y),
         y.start <= part.start, part.end <= y.end
  PROVE  Apart(x, part) /\ Apart(part, x)
BY DEF Apart, AnyBlock

\* Lemma: the pieces of a cut lie in the old block and apart from each other.
LEMMA CutsApart ==
  ASSUME NEW f \in AnyBlock, NEW w \in AnyBlock
  PROVE  /\ \A i \in DOMAIN Cuts(f, w) :
              /\ Cuts(f, w)[i] \in AnyBlock
              /\ f.start <= Cuts(f, w)[i].start /\ Cuts(f, w)[i].end <= f.end
         /\ \A i, j \in DOMAIN Cuts(f, w) : i # j => Apart(Cuts(f, w)[i], Cuts(f, w)[j])
<1>1. ASSUME NEW i \in DOMAIN Cuts(f, w)
      PROVE  /\ Cuts(f, w)[i] \in AnyBlock
             /\ f.start <= Cuts(f, w)[i].start /\ Cuts(f, w)[i].end <= f.end
  <2> DEFINE c == Cuts(f, w)[i]
  <2>1. \/ f.start < w.start /\ w.start <= f.end /\ c = Block(f.start, w.start)
        \/ f.start <= w.end /\ w.end < f.end /\ c = Block(w.end, f.end)
    BY CutElements
  <2> HIDE DEF c
  <2>2. c \in AnyBlock /\ f.start <= c.start /\ c.end <= f.end
    BY <2>1 DEF Block, AnyBlock
  <2> QED BY <2>2 DEF c
<1> DEFINE l == Block(f.start, w.start)
           r == Block(w.end, f.end)
<1>2. LeftCut(f, w) \in {<<>>, <<l>>} /\ RightCut(f, w) \in {<<>>, <<r>>}
  BY DEF LeftCut, RightCut, NonEmpty
<1>3. Apart(l, r) /\ Apart(r, l)
  BY DEF Apart, Block, AnyBlock
<1> HIDE DEF l, r
<1>4. Cuts(f, w) \in {<<>>, <<l>>, <<r>>, <<l, r>>}
  BY <1>2, JoinPieces DEF Cuts
<1>5. ASSUME NEW s \in {<<>>, <<l>>, <<r>>, <<l, r>>}
      PROVE  \A i, j \in DOMAIN s : i # j => Apart(s[i], s[j])
  <2>1. CASE s = <<l, r>>
    BY <1>3, <2>1
  <2>2. CASE s \in {<<>>, <<l>>, <<r>>}
    BY <2>2
  <2> QED BY <2>1, <2>2
<1> QED BY <1>1, <1>4, <1>5

\* Lemma: the loop passes an entry that the new block does not collide with.
LEMMA SkipOrder ==
  ASSUME TypeOK, Order, NEW t \in Threads, TrackSkip(t)
  PROVE  Order'
<1>1. /\ hook[t].kind = "track" /\ hook[t] \in Tracking
      /\ hook[t].it \in 1 .. Len(allocations)
      /\ ~Intersect(allocations[hook[t].it].memory, hook[t].new.memory)
  BY RoundTypes, HookTypes DEF TrackSkip, In, Collides
<1>2. /\ hook' = [hook EXCEPT ![t].it = hook[t].it + 1]
      /\ UNCHANGED <<heap, allocations, ended>>
  BY DEF TrackSkip
<1>3. ASSUME NEW u \in Threads
      PROVE  /\ hook'[u].kind = hook[u].kind /\ hook'[u].new = hook[u].new
             /\ hook'[u].to = hook[u].to
             /\ u # t => hook'[u] = hook[u]
             /\ hook'[t].it = hook[t].it + 1
  BY <1>1, <1>2 DEF TypeOK, Tracking
<1>4. Known' = Known
  <2>1. ASSUME NEW h PROVE Returned(h)' <=> Returned(h)
    BY <1>3 DEF Returned
  <2> QED BY <1>2, <2>1 DEF Known
<1>5. OneHook' /\ HeapSpread' /\ EntriesApart'
  BY <1>2, <1>3 DEF Order, OneHook, HeapSpread, EntriesApart
<1>6. LiveHaveEntries'
  BY <1>2, <1>4 DEF Order, LiveHaveEntries
<1>7. UnfreedAreLive'
  BY <1>1, <1>2, <1>3 DEF Order, UnfreedAreLive, Unfreed
<1>8. NewMakesRoom'
  <2>1. \A i \in DOMAIN allocations :
          i < hook[t].it + 1 => ~Intersect(allocations[i].memory, hook[t].new.memory)
    BY <1>1 DEF TypeOK, Order, NewMakesRoom
  <2>2. \A u \in Threads \ {t} : hook[u].kind # "track"
    BY <1>1, Alone
  <2> QED BY <1>1, <1>2, <1>3, <2>1, <2>2 DEF Order, NewMakesRoom, Unfreed
<1>9. FreeFindsItsEntry'
  BY <1>1, <1>3, Alone DEF FreeFindsItsEntry
<1> QED BY <1>2, <1>5, <1>6, <1>7, <1>8, <1>9 DEF Order

\* Lemma: the entries after a cut are those before, without the one that was
\* cut, and freed ones that lie in it and apart from each other.
LEMMA CutShape ==
  ASSUME TypeOK, Order, NEW t \in Threads, TrackCut(t)
  PROVE  LET i == hook[t].it
             P == Pieces(allocations, i, hook[t].new)
             n == Len(allocations)
             from(k) == IF k < i THEN k ELSE k + 1
         IN
         /\ i \in 1 .. n /\ allocations[i].status = "FREED" /\ P \in Seq(Tracked)
         /\ allocations' \in Seq(Tracked) /\ Len(allocations') = n + Len(P) - 1
         /\ \A k \in 1 .. n + Len(P) - 1 :
              allocations'[k] = IF from(k) <= n THEN allocations[from(k)] ELSE P[from(k) - n]
         /\ \A k \in 1 .. Len(P) :
              /\ P[k].status = "FREED" /\ P[k].memory \in AnyBlock
              /\ allocations[i].memory.start <= P[k].memory.start
              /\ P[k].memory.end <= allocations[i].memory.end
         /\ \A j, k \in 1 .. Len(P) : j # k => Apart(P[j].memory, P[k].memory)
<1> DEFINE i == hook[t].it
           new == hook[t].new
           P == Pieces(allocations, i, new)
           n == Len(allocations)
           from(k) == IF k < i THEN k ELSE k + 1
<1>1. /\ i \in 1 .. n /\ allocations \in Seq(Tracked) /\ new \in Tracked
      /\ Collides(t) /\ allocations' = Cut(allocations, i, new)
      /\ hook[t].kind = "track"
  BY RoundTypes DEF TrackCut, In
<1>2. allocations[i].status = "FREED" /\ allocations[i].memory \in AnyBlock
      /\ new.memory \in AnyBlock
  BY <1>1 DEF Order, NewMakesRoom, EntriesApart, Unfreed, Collides
<1> HIDE DEF i, new
<1>3. P \in Seq(Tracked) /\ Len(P) = Len(Cuts(allocations[i].memory, new.memory))
  BY <1>1, PiecesType
<1>4. ASSUME NEW k \in 1 .. Len(P)
      PROVE  /\ P[k] = [allocations[i] EXCEPT !.memory = Cuts(allocations[i].memory, new.memory)[k]]
             /\ P[k].status = "FREED"
             /\ P[k].memory = Cuts(allocations[i].memory, new.memory)[k]
             /\ k \in DOMAIN Cuts(allocations[i].memory, new.memory)
  <2>1. k \in DOMAIN P
    BY <1>3
  <2>2. k \in DOMAIN Cuts(allocations[i].memory, new.memory)
    BY <2>1 DEF Pieces
  <2>3. P[k] = [allocations[i] EXCEPT !.memory = Cuts(allocations[i].memory, new.memory)[k]]
    BY <2>2 DEF Pieces
  <2>4. allocations[i] \in Tracked
    BY <1>1
  <2>5. P[k].status = "FREED" /\ P[k].memory = Cuts(allocations[i].memory, new.memory)[k]
    <3> HIDE DEF P
    <3> QED BY <1>2, <2>3, <2>4 DEF Tracked
  <2> QED BY <2>2, <2>3, <2>5
<1> HIDE DEF P
<1>5. /\ allocations' \in Seq(Tracked) /\ Len(allocations') = n + Len(P) - 1
      /\ \A k \in 1 .. n + Len(P) - 1 :
           allocations'[k] = IF from(k) <= n THEN allocations[from(k)] ELSE P[from(k) - n]
  <2>1. /\ Len(allocations \o P) = n + Len(P)
        /\ \A k \in 1 .. n + Len(P) :
             (allocations \o P)[k] = IF k <= n THEN allocations[k] ELSE P[k - n]
    <3>1. allocations \in Seq(Tracked) /\ P \in Seq(Tracked) /\ n = Len(allocations)
      BY <1>1, <1>3
    <3> QED BY ONLY <3>1, ConcatProperties
  <2>2. /\ Cut(allocations, i, new) \in Seq(Tracked)
        /\ Len(Cut(allocations, i, new)) = Len(allocations \o P) - 1
        /\ \A k \in 1 .. Len(allocations \o P) - 1 :
             Cut(allocations, i, new)[k] = (allocations \o P)[from(k)]
    <3>1. allocations \in Seq(Tracked) /\ i \in 1 .. Len(allocations) /\ new \in Tracked
      BY <1>1
    <3> QED BY ONLY <3>1, CutEntries DEF P
  <2>3. n + Len(P) \in Nat
    BY <1>1, <1>3
  <2>4. ASSUME NEW k \in 1 .. n + Len(P) - 1
        PROVE  allocations'[k] = IF from(k) <= n THEN allocations[from(k)] ELSE P[from(k) - n]
    <3>1. from(k) \in 1 .. n + Len(P)
      BY <1>1, <2>3
    <3>2. allocations'[k] = (allocations \o P)[from(k)]
      BY <1>1, <2>1, <2>2
    <3> HIDE DEF from
    <3> QED BY <2>1, <3>1, <3>2
  <2> HIDE DEF from
  <2> QED BY <1>1, <2>1, <2>2, <2>4
<1> DEFINE C == Cuts(allocations[i].memory, new.memory)
<1>6. /\ \A k \in DOMAIN C :
           /\ C[k] \in AnyBlock
           /\ allocations[i].memory.start <= C[k].start
           /\ C[k].end <= allocations[i].memory.end
      /\ \A j, k \in DOMAIN C : j # k => Apart(C[j], C[k])
  BY <1>2, CutsApart
<1>7. \A k \in 1 .. Len(P) : P[k].memory = C[k] /\ k \in DOMAIN C
  BY <1>4
<1> HIDE DEF C
<1>8. \A k \in 1 .. Len(P) :
        /\ P[k].memory \in AnyBlock
        /\ allocations[i].memory.start <= P[k].memory.start
        /\ P[k].memory.end <= allocations[i].memory.end
  BY <1>6, <1>7
<1>9. \A j, k \in 1 .. Len(P) : j # k => Apart(P[j].memory, P[k].memory)
  BY <1>6, <1>7
<1> QED BY <1>1, <1>2, <1>3, <1>4, <1>5, <1>8, <1>9 DEF i, new, P

LEMMA CutOrder ==
  ASSUME TypeOK, Order, NEW t \in Threads, TrackCut(t)
  PROVE  Order'
<1> DEFINE i == hook[t].it
           P == Pieces(allocations, i, hook[t].new)
           n == Len(allocations)
           from(k) == IF k < i THEN k ELSE k + 1
<1>1. /\ i \in 1 .. n /\ allocations[i].status = "FREED" /\ P \in Seq(Tracked)
      /\ allocations' \in Seq(Tracked) /\ Len(allocations') = n + Len(P) - 1
  BY CutShape
<1>2. \A k \in 1 .. n + Len(P) - 1 :
        allocations'[k] = IF from(k) <= n THEN allocations[from(k)] ELSE P[from(k) - n]
  BY CutShape
<1>3. /\ \A k \in 1 .. Len(P) :
           /\ P[k].status = "FREED" /\ P[k].memory \in AnyBlock
           /\ allocations[i].memory.start <= P[k].memory.start
           /\ P[k].memory.end <= allocations[i].memory.end
      /\ \A j, k \in 1 .. Len(P) : j # k => Apart(P[j].memory, P[k].memory)
  BY CutShape
<1>4. /\ hook[t].kind = "track" /\ hook[t] \in Tracking
      /\ hook' = [hook EXCEPT ![t].it = 1]
      /\ UNCHANGED <<heap, ended>>
      /\ \A u \in Threads \ {t} : hook[u].kind = "none"
  BY HookTypes, Alone DEF TrackCut, In
<1>5. ASSUME NEW u \in Threads
      PROVE  /\ hook'[u].kind = hook[u].kind /\ hook'[u].new = hook[u].new
             /\ hook'[u].to = hook[u].to
             /\ hook'[t].it = 1
  BY <1>4 DEF TypeOK, Tracking
<1>6. Known' = Known
  <2>1. ASSUME NEW h PROVE Returned(h)' <=> Returned(h)
    BY <1>5 DEF Returned
  <2> QED BY <1>4, <2>1 DEF Known
<1>7. /\ DOMAIN allocations = 1 .. n /\ n \in Nat /\ Len(P) \in Nat
      /\ DOMAIN allocations' = 1 .. n + Len(P) - 1
  BY <1>1 DEF TypeOK
<1> HIDE DEF i, P, n
\* An entry that is not freed keeps its contents and gets a place of its own.
<1>8. ASSUME NEW k \in Unfreed'
      PROVE  from(k) \in Unfreed /\ allocations'[k] = allocations[from(k)]
  <2>1. k \in 1 .. n + Len(P) - 1 /\ allocations'[k].status # "FREED"
    BY <1>7 DEF Unfreed
  <2>2. from(k) <= n
    <3>1. ~(from(k) <= n) => from(k) - n \in 1 .. Len(P)
      BY <1>1, <1>7, <2>1
    <3> QED BY <1>2, <1>3, <2>1, <3>1
  <2>3. from(k) \in 1 .. n
    BY <1>1, <1>7, <2>1, <2>2
  <2> HIDE DEF from
  <2> QED BY <1>2, <1>7, <2>1, <2>2, <2>3 DEF Unfreed
<1>9. ASSUME NEW k \in Unfreed
      PROVE  \E j \in DOMAIN allocations' : allocations'[j] = allocations[k]
  <2>1. k \in 1 .. n /\ k # i
    BY <1>1, <1>7 DEF Unfreed
  <2> DEFINE j == IF k < i THEN k ELSE k - 1
  <2>2. j \in 1 .. n + Len(P) - 1 /\ from(j) = k
    BY <1>1, <1>7, <2>1
  <2> HIDE DEF j, from
  <2> QED BY <1>2, <1>7, <2>1, <2>2
<1>10. OneHook' /\ HeapSpread'
  BY <1>4, <1>5 DEF Order, OneHook, HeapSpread
<1>11. EntriesApart'
  <2>1. ASSUME NEW k \in 1 .. n, k # i
        PROVE  /\ allocations[k].memory \in AnyBlock /\ allocations[i].memory \in AnyBlock
               /\ Apart(allocations[k].memory, allocations[i].memory)
               /\ Apart(allocations[i].memory, allocations[k].memory)
    BY <1>1, <1>7, <2>1 DEF Order, EntriesApart
  <2>2. ASSUME NEW k \in 1 .. n, k # i, NEW l \in 1 .. Len(P)
        PROVE  /\ Apart(allocations[k].memory, P[l].memory)
               /\ Apart(P[l].memory, allocations[k].memory)
    BY <1>3, <2>1, <2>2, PartApart
  <2>3. ASSUME NEW k \in 1 .. n + Len(P) - 1
        PROVE  IF from(k) <= n THEN from(k) \in 1 .. n /\ from(k) # i
                               ELSE from(k) - n \in 1 .. Len(P)
    BY <1>1, <1>7
  <2>4. ASSUME NEW j \in 1 .. n + Len(P) - 1, NEW k \in 1 .. n + Len(P) - 1, j # k
        PROVE  from(j) # from(k) /\ from(j) - n # from(k) - n
    BY <1>1, <1>7, <2>4
  <2> HIDE DEF from
  <2>5. ASSUME NEW k \in 1 .. n + Len(P) - 1 PROVE allocations'[k].memory \in AnyBlock
    BY <1>2, <1>3, <2>1, <2>3
  <2>6. ASSUME NEW j \in 1 .. n + Len(P) - 1, NEW k \in 1 .. n + Len(P) - 1, j # k
        PROVE  Apart(allocations'[j].memory, allocations'[k].memory)
    <3>1. CASE from(j) <= n /\ from(k) <= n
      <4>1. from(j) # from(k)
        BY <2>4, <2>6
      <4>2. Apart(allocations[from(j)].memory, allocations[from(k)].memory)
        BY <1>7, <2>3, <3>1, <4>1 DEF Order, EntriesApart
      <4> QED BY <1>2, <3>1, <4>2
    <3>2. CASE from(j) <= n /\ ~(from(k) <= n)
      BY <1>2, <2>2, <2>3, <3>2
    <3>3. CASE ~(from(j) <= n) /\ from(k) <= n
      BY <1>2, <2>2, <2>3, <3>3
    <3>4. CASE ~(from(j) <= n) /\ ~(from(k) <= n)
      <4>1. from(j) - n # from(k) - n
        BY <2>4, <2>6
      <4> QED BY <1>2, <1>3, <2>3, <3>4, <4>1
    <3> QED BY <3>1, <3>2, <3>3, <3>4
  <2> QED BY <1>7, <2>5, <2>6 DEF EntriesApart
<1>12. LiveHaveEntries'
  <2> SUFFICES ASSUME NEW h \in Known
               PROVE  \E j \in DOMAIN allocations' :
                        allocations'[j] = Allocation(h.memory, h.site, "ALLOCATED")
    BY <1>6 DEF LiveHaveEntries
  <2>1. PICK k \in DOMAIN allocations :
          allocations[k] = Allocation(h.memory, h.site, "ALLOCATED")
    BY DEF Order, LiveHaveEntries
  <2>2. k \in Unfreed
    BY <2>1 DEF Unfreed, Allocation
  <2> QED BY <1>9, <2>1, <2>2
<1>13. UnfreedAreLive'
  <2>1. \A k \in Unfreed : \E h \in heap : h.memory = allocations[k].memory
    BY <1>4 DEF Order, UnfreedAreLive
  <2> QED BY <1>4, <1>8, <2>1 DEF UnfreedAreLive
<1>14. NewMakesRoom'
  <2>1. \A k \in Unfreed' : ~Intersect(allocations'[k].memory, hook[t].new.memory)
    BY <1>4, <1>8 DEF Order, NewMakesRoom
  <2>2. \A k \in DOMAIN allocations' : ~(k < 1)
    BY <1>7
  <2> QED BY <1>4, <1>5, <2>1, <2>2 DEF Order, NewMakesRoom
<1>15. FreeFindsItsEntry'
  BY <1>4, <1>5 DEF FreeFindsItsEntry
<1> QED BY <1>4, <1>10, <1>11, <1>12, <1>13, <1>14, <1>15 DEF Order

LEMMA AppendOrder ==
  ASSUME TypeOK, Order, Header > 0, NEW t \in Threads, TrackAppend(t)
  PROVE  Order'
<1> DEFINE new == hook[t].new
           n == Len(allocations)
<1>1. /\ hook[t].kind = "track" /\ new \in Tracked /\ hook[t].it = n + 1
      /\ \A u \in Threads \ {t} : hook[u].kind = "none"
  BY HookTypes, Alone DEF TrackAppend, In
<1>2. /\ UNCHANGED <<heap, ended>> /\ Idle.kind = "none"
      /\ \A u \in Threads : hook'[u].kind = "none"
  BY <1>1 DEF TrackAppend, Idle
<1>3. /\ n \in Nat /\ DOMAIN allocations = 1 .. n
      /\ DOMAIN allocations' = 1 .. n + 1
      /\ \A k \in 1 .. n : allocations'[k] = allocations[k]
      /\ allocations'[n + 1] = new
  BY <1>1 DEF TrackAppend, TypeOK
<1>4. /\ new.memory \in AnyBlock /\ new.status = "ALLOCATED"
      /\ \E h \in heap : h.memory = new.memory /\ h.site = new.site
      /\ \A k \in 1 .. n : ~Intersect(allocations[k].memory, new.memory)
  BY <1>1, <1>3 DEF Order, NewMakesRoom
<1> HIDE DEF new, n
<1>5. OneHook' /\ HeapSpread' /\ NewMakesRoom' /\ FreeFindsItsEntry'
  BY <1>2 DEF Order, OneHook, HeapSpread, NewMakesRoom, FreeFindsItsEntry
<1>6. EntriesApart'
  <2>1. \A k \in 1 .. n : allocations[k].memory \in AnyBlock
    BY <1>3 DEF Order, EntriesApart
  <2>2. ASSUME NEW k \in 1 .. n
        PROVE  Apart(allocations[k].memory, new.memory) /\ Apart(new.memory, allocations[k].memory)
    <3>1. Apart(allocations[k].memory, new.memory)
      BY <1>4, <2>1, NoCollision
    <3> QED BY <3>1 DEF Apart
  <2>3. ASSUME NEW j \in 1 .. n + 1, NEW k \in 1 .. n + 1, j # k
        PROVE  Apart(allocations'[j].memory, allocations'[k].memory)
    <3>1. CASE j = n + 1
      BY <1>3, <2>2, <2>3, <3>1
    <3>2. CASE k = n + 1
      BY <1>3, <2>2, <2>3, <3>2
    <3>3. CASE j # n + 1 /\ k # n + 1
      <4>1. j \in 1 .. n /\ k \in 1 .. n
        BY <1>3, <3>3
      <4> QED BY <1>3, <2>3, <4>1 DEF Order, EntriesApart
    <3> QED BY <3>1, <3>2, <3>3
  <2>4. ASSUME NEW k \in 1 .. n + 1 PROVE allocations'[k].memory \in AnyBlock
    BY <1>3, <1>4, <2>1
  <2> QED BY <1>3, <2>3, <2>4 DEF EntriesApart
<1>7. LiveHaveEntries'
  <2> SUFFICES ASSUME NEW h \in Known'
               PROVE  \E k \in 1 .. n + 1 :
                        allocations'[k] = Allocation(h.memory, h.site, "ALLOCATED")
    BY <1>3 DEF LiveHaveEntries
  <2>1. h \in heap /\ h.tracked
    BY <1>2 DEF Known
  <2>2. CASE h.memory = new.memory
    <3>1. PICK g \in heap : g.memory = new.memory /\ g.site = new.site
      BY <1>4
    <3>2. g = h
      <4>1. Clear(g.memory, {h}) => g.memory # h.memory
        BY <1>4, <2>2, <3>1, ClearBlocks
      <4> QED BY <2>1, <2>2, <3>1, <4>1 DEF Order, HeapSpread
    <3>3. new = Allocation(h.memory, h.site, "ALLOCATED")
      BY <1>1, <1>4, <3>1, <3>2 DEF Tracked, Allocation
    <3>4. n + 1 \in 1 .. n + 1
      BY <1>3
    <3> QED BY <1>3, <3>3, <3>4
  <2>3. CASE h.memory # new.memory
    <3>1. Returned(h)
      BY <1>1, <2>3 DEF Returned, new
    <3>2. PICK k \in DOMAIN allocations :
            allocations[k] = Allocation(h.memory, h.site, "ALLOCATED")
      BY <2>1, <3>1 DEF Order, LiveHaveEntries, Known
    <3>3. k \in 1 .. n /\ k \in 1 .. n + 1
      BY <1>3
    <3> QED BY <1>3, <3>2, <3>3
  <2> QED BY <2>2, <2>3
<1>8. UnfreedAreLive'
  <2> SUFFICES ASSUME NEW k \in Unfreed'
               PROVE  \E h \in heap : h.memory = allocations'[k].memory
    BY <1>2 DEF UnfreedAreLive
  <2>1. CASE k = n + 1
    BY <1>3, <1>4, <2>1
  <2>2. CASE k # n + 1
    <3>1. k \in 1 .. n /\ allocations'[k] = allocations[k] /\ k \in Unfreed
      BY <1>3, <2>2 DEF Unfreed
    <3>2. ~\E u \in Threads : hook[u].kind = "mark"
      BY <1>1
    <3> QED BY <3>1, <3>2 DEF Order, UnfreedAreLive
  <2> QED BY <2>1, <2>2
<1> QED BY <1>2, <1>5, <1>6, <1>7, <1>8 DEF Order

\* Lemma: a new block never meets an entry that is not freed, so the assertion
\* does not fail; the other ends of the process leave the list alone.
LEMMA EndOrder ==
  ASSUME TypeOK, Order, NEW t \in Threads,
         TrackAsserts(t) \/ TrackGrowsUnderIterator(t) \/ TrackLosesIterator(t)
  PROVE  Order'
<1>1. ~TrackAsserts(t)
  <2> SUFFICES ASSUME TrackAsserts(t) PROVE FALSE
    OBVIOUS
  <2>1. /\ hook[t].kind = "track" /\ hook[t].it \in 1 .. Len(allocations)
        /\ Collides(t) /\ AssertFails(t)
    BY RoundTypes DEF TrackAsserts, In
  <2>2. hook[t].it \in Unfreed
    BY <2>1 DEF TypeOK, AssertFails, Unfreed
  <2> QED BY <2>1, <2>2 DEF Order, NewMakesRoom, Collides
<1>2. End("undefined")
  BY <1>1 DEF TrackGrowsUnderIterator, TrackLosesIterator
<1>3. ended' # "assert" /\ UNCHANGED <<heap, allocations, hook>>
  BY <1>2 DEF End
<1>4. Known' = Known /\ Unfreed' = Unfreed
  <2>1. \A h : Returned(h)' <=> Returned(h)
    BY <1>3 DEF Returned
  <2> QED BY <1>3, <2>1 DEF Known, Unfreed
<1>5. OneHook' /\ HeapSpread' /\ EntriesApart' /\ LiveHaveEntries'
  BY <1>3, <1>4 DEF Order, OneHook, HeapSpread, EntriesApart, LiveHaveEntries
<1>6. UnfreedAreLive' /\ NewMakesRoom' /\ FreeFindsItsEntry'
  BY <1>3, <1>4 DEF Order, UnfreedAreLive, NewMakesRoom, FreeFindsItsEntry
<1> QED BY <1>3, <1>5, <1>6 DEF Order

LEMMA UpdateOrder ==
  ASSUME TypeOK, Order, Header > 0, NEW t \in Threads, Update(t)
  PROVE  Order'
<1>1. ~Move(t)
  BY DEF Order, OneHook, Move, In
<1> QED BY <1>1, MarkOrder, SkipOrder, CutOrder, AppendOrder, EndOrder DEF Update

\* Lemma: history never forgets.
LEMMA HistoryGrows == ASSUME Next PROVE history \subseteq history'
<1>1. ASSUME NEW t \in Threads, NEW work, NEW events, Enter(t, work, events)
      PROVE  history \subseteq history'
  BY <1>1 DEF Enter
<1>2. PICK t \in Threads : Update(t) \/ Call(t)
  BY Steps
<1>3. ASSUME Update(t) PROVE history' = history
  BY <1>3
     DEF Update, Mark, Move, TrackSkip, TrackCut, TrackAppend, TrackAsserts,
         TrackGrowsUnderIterator, TrackLosesIterator, End
<1>4. ASSUME NEW b \in Blocks, AgentMalloc(t, b) PROVE history' = history
  BY <1>4 DEF AgentMalloc
<1> QED
  BY <1>1, <1>2, <1>3, <1>4
     DEF Call, FreeNull, Malloc, ReallocNull, MallocFails, Free, Realloc, ReallocFails

\* Theorem: the inductive invariant, for every heap that keeps live blocks at
\* least one address apart, any number of threads, and lists of any length.
THEOREM InvariantHolds ==
  ASSUME Header > 0
  PROVE  Spec => [](TypeOK /\ Orderly)
<1>1. Init => TypeOK /\ Orderly
  <2> SUFFICES ASSUME Init PROVE Orderly
    BY InitType
  <2>1. /\ DOMAIN allocations = {} /\ heap = {}
        /\ \A t \in Threads : hook[t].kind = "none"
    BY DEF Init, Idle
  <2> QED BY <2>1 DEF Init, Orderly, Order, OneHook, HeapSpread, EntriesApart,
       LiveHaveEntries, Known, UnfreedAreLive, Unfreed, NewMakesRoom, FreeFindsItsEntry
<1>2. TypeOK /\ Orderly /\ [Next]_vars => TypeOK' /\ Orderly'
  <2> SUFFICES ASSUME TypeOK, Orderly, [Next]_vars PROVE TypeOK' /\ Orderly'
    OBVIOUS
  <2>1. CASE Next
    <3>1. TypeOK'
      BY <2>1, CallType, UpdateType, Steps
    <3>2. ASSUME history' = {} PROVE Order'
      <4>1. Order
        BY <2>1, <3>2, HistoryGrows DEF Orderly
      <4>2. ASSUME NEW t \in Threads, Update(t) PROVE Order'
        BY <3>2, <4>1, <4>2, UpdateOrder
      <4>3. ASSUME NEW t \in Threads, Call(t) PROVE Order'
        BY <3>2, <4>1, <4>3, CallOrder
      <4> QED BY <2>1, <4>2, <4>3, Steps
    <3> QED BY <3>1, <3>2 DEF Orderly
  <2>2. CASE UNCHANGED vars
    <3>1. UNCHANGED <<heap, allocations, capacity, hook, ended, history>>
      BY <2>2 DEF vars
    <3>2. TypeOK'
      BY <3>1 DEF TypeOK
    <3>3. Order => Order'
      <4>1. Unfreed' = Unfreed /\ Known' = Known
        BY <3>1 DEF Unfreed, Known, Returned
      <4>2. /\ OneHook => OneHook'
            /\ HeapSpread => HeapSpread'
            /\ EntriesApart => EntriesApart'
        BY <3>1 DEF OneHook, HeapSpread, EntriesApart
      <4>3. /\ LiveHaveEntries => LiveHaveEntries'
            /\ UnfreedAreLive => UnfreedAreLive'
        BY <3>1, <4>1 DEF LiveHaveEntries, UnfreedAreLive
      <4>4. /\ NewMakesRoom => NewMakesRoom'
            /\ FreeFindsItsEntry => FreeFindsItsEntry'
        BY <3>1, <4>1 DEF NewMakesRoom, FreeFindsItsEntry
      <4> QED BY <3>1, <4>2, <4>3, <4>4 DEF Order
    <3> QED BY <3>1, <3>2, <3>3 DEF Orderly
  <2> QED BY <2>1, <2>2
<1> QED BY <1>1, <1>2, PTL DEF Spec

-----------------------------------------------------------------------------
(***************************************************************************)
(* What the invariant says of the properties the runs check.                *)
(***************************************************************************)
\* Lemma: find() returns the entry of every address that some entry contains.
LEMMA FindsEntry ==
  ASSUME TypeOK, EntriesApart, NEW i \in DOMAIN allocations, NEW a \in Nat,
         Contains(allocations[i].memory, a)
  PROVE  Find(allocations, a) = i /\ Found(allocations, a)
<1>1. i \in 1 .. Len(allocations) /\ Len(allocations) \in Nat
  BY DEF TypeOK
<1>2. Find(allocations, a) = i
  BY <1>1, FindApart
<1> QED BY <1>1, <1>2 DEF Found

\* Lemma: the order means what the four properties say.
LEMMA OrderMeans ==
  ASSUME TypeOK, Orderly
  PROVE  LiveBlocksTracked /\ EntriesDisjoint /\ FreeRecorded /\ AssertHolds
<1>1. CASE history # {}
  BY <1>1 DEF LiveBlocksTracked, EntriesDisjoint, FreeRecorded, AssertHolds
<1>2. CASE history = {}
  <2>1. Order /\ EntriesApart
    BY <1>2 DEF Orderly, Order
  <2>2. LiveBlocksTracked
    <3> SUFFICES ASSUME NEW h \in Known, NEW a \in Addresses(h.memory)
                 PROVE  /\ Found(allocations, a)
                        /\ allocations[Find(allocations, a)] =
                             Allocation(h.memory, h.site, "ALLOCATED")
      BY DEF LiveBlocksTracked
    <3>1. PICK i \in DOMAIN allocations :
            allocations[i] = Allocation(h.memory, h.site, "ALLOCATED")
      BY <2>1 DEF Order, LiveHaveEntries
    <3>2. allocations[i].memory = h.memory
      BY <3>1 DEF Allocation
    <3>3. a \in Nat /\ Contains(h.memory, a)
      <4>1. h.memory \in AnyBlock
        BY HeapBlocks DEF Known, TypeOK
      <4> QED BY <4>1 DEF Addresses, Contains, AnyBlock
    <3> QED BY <2>1, <3>1, <3>2, <3>3, FindsEntry
  <2>3. EntriesDisjoint
    <3> SUFFICES ASSUME NEW i \in DOMAIN allocations, NEW j \in DOMAIN allocations, i # j
                 PROVE  Addresses(allocations[i].memory)
                          \cap Addresses(allocations[j].memory) = {}
      BY DEF EntriesDisjoint
    <3>1. /\ allocations[i].memory \in AnyBlock /\ allocations[j].memory \in AnyBlock
          /\ Apart(allocations[i].memory, allocations[j].memory)
      BY <2>1 DEF EntriesApart
    <3> QED BY <3>1 DEF Addresses, Apart, AnyBlock
  <2>4. FreeRecorded
    <3> SUFFICES ASSUME NEW t \in Threads, hook[t].kind = "mark", hook[t].tracked
                 PROVE  FreeStatus(allocations, hook[t].ptr) = "OK"
      BY DEF FreeRecorded
    <3>1. PICK i \in Unfreed : Contains(allocations[i].memory, hook[t].ptr)
      BY <2>1 DEF Order, FreeFindsItsEntry
    <3>2. hook[t].ptr \in Nat
      BY DEF TypeOK, Idle, Tracking, Marking, Moving
    <3>3. Find(allocations, hook[t].ptr) = i /\ Found(allocations, hook[t].ptr)
      BY <2>1, <3>1, <3>2, FindsEntry DEF Unfreed
    <3> QED BY <3>1, <3>3 DEF FreeStatus, Unfreed
  <2>5. AssertHolds
    BY <2>1 DEF Order, AssertHolds
  <2> QED BY <2>2, <2>3, <2>4, <2>5
<1> QED BY <1>1, <1>2

\* Theorem: as long as hooks do not overlap, and the target only calls malloc and
\* free, every address of a block malloc has returned leads find() to the entry
\* that describes the block.
THEOREM EveryLiveBlockTracked == ASSUME Header > 0 PROVE Spec => []LiveBlocksTracked
BY InvariantHolds, OrderMeans, PTL

\* Theorem: under the same conditions no address is in two entries.
THEOREM NoAddressTwice == ASSUME Header > 0 PROVE Spec => []EntriesDisjoint
BY InvariantHolds, OrderMeans, PTL

\* Theorem: under the same conditions mark_free finds each tracked block the
\* target frees, and not freed yet.
THEOREM EveryFreeRecorded == ASSUME Header > 0 PROVE Spec => []FreeRecorded
BY InvariantHolds, OrderMeans, PTL

\* Theorem: under the same conditions ASSERT(it->status == FREED) never fails.
THEOREM AssertionNeverFails == ASSUME Header > 0 PROVE Spec => []AssertHolds
BY InvariantHolds, OrderMeans, PTL
-----------------------------------------------------------------------------
(***************************************************************************)
(* With realloc.  Entries may overlap now, and an entry may be moved or     *)
(* marked in place of another one, but never the one of a live block.       *)
(***************************************************************************)
\* Lemma: find() returns an entry that contains the address if there is one.
LEMMA FindAny ==
  ASSUME NEW list \in Seq(Tracked), NEW ptr \in Nat
  PROVE  LET f == Find(list, ptr) IN
         /\ f \in 1 .. Len(list) + 1
         /\ f <= Len(list) => Contains(list[f].memory, ptr)
         /\ \A i \in 1 .. Len(list) : Contains(list[i].memory, ptr) => f <= i
<1> DEFINE n == Len(list)
           Has(i) == Contains(list[i].memory, ptr)
           First(i) == (i <= n => Has(i)) /\ \A j \in 1 .. i - 1 : ~Has(j)
           S == {i \in 1 .. n + 1 : i <= n => Has(i)}
<1>1. n \in Nat
  OBVIOUS
<1> HIDE DEF n, Has
<1>2. n + 1 \in S /\ S \subseteq Nat
  BY <1>1
<1>3. PICK m \in S : \A y \in S : ~(<<y, m>> \in OpToRel(<, Nat))
  <2> HIDE DEF OpToRel, S
  <2> QED BY <1>2, NatLessThanWellFounded, WFMin
<1>4. ASSUME NEW y \in S PROVE m <= y
  <2> SUFFICES ASSUME y < m PROVE FALSE
    BY <1>2
  <2>1. <<y, m>> \in Nat \X Nat /\ <<y, m>>[1] < <<y, m>>[2]
    BY <1>2
  <2>2. <<y, m>> \in OpToRel(<, Nat)
    BY <2>1 DEF OpToRel
  <2> QED BY <2>2, <1>3
<1>5. m \in 1 .. n + 1 /\ First(m)
  <2>1. ASSUME NEW j \in 1 .. m - 1 PROVE ~Has(j)
    <3>1. j \notin S
      BY <1>1, <1>2, <1>4
    <3> QED BY <3>1, <1>1, <1>2
  <2> QED BY <2>1, <1>1, <1>2
<1>6. Find(list, ptr) = CHOOSE i \in 1 .. n + 1 : First(i)
  BY DEF Find, n, Has
<1> DEFINE f == Find(list, ptr)
<1>7. f \in 1 .. n + 1 /\ First(f)
  BY <1>5, <1>6
<1> HIDE DEF f
<1>8. \A i \in 1 .. n : Has(i) => f <= i
  BY <1>1, <1>7
<1> QED BY <1>7, <1>8 DEF n, Has, f

HasEntry(memory) ==
  \E i \in DOMAIN allocations :
    allocations[i].memory = memory /\ allocations[i].status # "FREED"

OneAtATime == \A t, u \in Threads : hook[t].kind # "none" /\ hook[u].kind # "none" => t = u

\* The work of a hook does not concern the entries of the other live blocks, and
\* a block that has moved has an entry that can be found where it was.
WorkApart ==
  \A t \in Threads :
    /\ hook[t].kind = "track" =>
         /\ hook[t].new.status # "FREED"
         /\ \A h \in Known : ~Intersect(h.memory, hook[t].new.memory)
    /\ hook[t].kind \in {"mark", "moved"} =>
         \A h \in Known : ~Contains(h.memory, hook[t].ptr)
    /\ hook[t].kind = "moved" =>
         \A h \in heap : h.tracked /\ h.memory = hook[t].to =>
           \E i \in DOMAIN allocations : Contains(allocations[i].memory, hook[t].ptr)

Held ==
  /\ OneAtATime /\ HeapSpread /\ WorkApart
  /\ \A h \in Known : HasEntry(h.memory)

Holding == history \subseteq {"realloc"} => Held

\* Lemma: a hook that overlaps with no other starts when all threads are outside.
LEMMA EnterFirst ==
  ASSUME TypeOK, NEW t \in Threads, NEW work, NEW events,
         Enter(t, work, events), In(t, "none"), history' \subseteq {"realloc"}
  PROVE  /\ events \subseteq {"realloc"} /\ UNCHANGED allocations
         /\ \A u \in Threads : hook[u] = Idle
         /\ \A u \in Threads : hook'[u] = IF u = t THEN work ELSE Idle
<1>1. events \subseteq {"realloc"} /\ UNCHANGED allocations
  BY DEF Enter
<1>2. \A u \in Threads \ {t} : hook[u] = Idle
  BY DEF Enter
<1>3. hook[t] = Idle
  BY IdleKind DEF In
<1>4. \A u \in Threads : hook'[u] = IF u = t THEN work ELSE hook[u]
  BY DEF Enter, TypeOK
<1> QED BY <1>1, <1>2, <1>3, <1>4

\* Lemma: live blocks share no address.
LEMMA SpreadBlocks ==
  ASSUME TypeOK, HeapSpread, Header > 0, NEW g \in heap, NEW h \in heap, g # h
  PROVE  /\ g.memory # h.memory /\ ~Contains(g.memory, h.memory.start)
         /\ g.memory \in AnyBlock /\ h.memory \in AnyBlock
<1>1. Clear(g.memory, {h}) /\ g.memory \in AnyBlock /\ h.memory \in AnyBlock
  BY HeapBlocks DEF TypeOK, HeapSpread
<1>2. Contains(h.memory, h.memory.start) /\ h.memory.start \in Nat
  BY <1>1 DEF AnyBlock, Contains
<1> QED BY <1>1, <1>2, ClearBlocks

\* Lemma: the invariant after a hook has begun.
LEMMA BegunHeld ==
  ASSUME TypeOK, Held, NEW t \in Threads, NEW work, work.kind # "none",
         \A u \in Threads : hook[u] = Idle,
         \A u \in Threads : hook'[u] = IF u = t THEN work ELSE Idle,
         UNCHANGED allocations, HeapSpread', Known' \subseteq Known,
         work.kind = "track" =>
           /\ work.new.status # "FREED"
           /\ \A h \in Known' : ~Intersect(h.memory, work.new.memory),
         work.kind \in {"mark", "moved"} => \A h \in Known' : ~Contains(h.memory, work.ptr),
         work.kind = "moved" =>
           \A h \in heap' : h.tracked /\ h.memory = work.to =>
             \E i \in DOMAIN allocations : Contains(allocations[i].memory, work.ptr)
  PROVE  Held'
<1>1. Idle.kind = "none"
  BY DEF Idle
<1>2. OneAtATime'
  BY <1>1 DEF OneAtATime
<1>3. WorkApart'
  BY <1>1 DEF WorkApart
<1>4. \A h \in Known' : HasEntry(h.memory)'
  BY DEF Held, HasEntry
<1> QED BY <1>2, <1>3, <1>4 DEF Held

\* Lemma: malloc and free begin.
LEMMA CallHeld ==
  ASSUME TypeOK, Held, Header > 0, history' \subseteq {"realloc"}, NEW t \in Threads,
         \/ FreeNull(t) \/ (\E h \in heap : Free(t, h))
         \/ \E b \in Blocks, site \in CallSites : Malloc(t, b, site)
  PROVE  Held'
<1>1. CASE FreeNull(t)
  <2> DEFINE work == [kind |-> "mark", ptr |-> NULL, tracked |-> FALSE]
  <2>1. /\ heap' = heap /\ UNCHANGED allocations
        /\ \A u \in Threads : hook[u] = Idle
        /\ \A u \in Threads : hook'[u] = IF u = t THEN work ELSE Idle
    BY <1>1, EnterFirst DEF FreeNull, Begins
  <2>2. work.kind = "mark" /\ work.ptr = NULL
    OBVIOUS
  <2> HIDE DEF work
  <2>3. Known' \subseteq Known
    BY <2>1, <2>2 DEF Known, Returned, Idle
  <2>4. \A h \in Known : ~Contains(h.memory, NULL)
    BY HeapBlocks DEF Known, TypeOK
  <2>5. HeapSpread'
    BY <2>1 DEF Held, HeapSpread
  <2> QED BY <2>1, <2>2, <2>3, <2>4, <2>5, BegunHeld
<1>2. ASSUME NEW h \in heap, Free(t, h) PROVE Held'
  <2> DEFINE work == [kind |-> "mark", ptr |-> h.memory.start, tracked |-> h.tracked]
  <2>1. /\ heap' = heap \ {h} /\ UNCHANGED allocations
        /\ \A u \in Threads : hook[u] = Idle
        /\ \A u \in Threads : hook'[u] = IF u = t THEN work ELSE Idle
    BY <1>2, EnterFirst DEF Free, Begins
  <2>2. work.kind = "mark" /\ work.ptr = h.memory.start
    OBVIOUS
  <2> HIDE DEF work
  <2>3. Known' \subseteq Known
    BY <2>1, <2>2 DEF Known, Returned, Idle
  <2>4. \A g \in Known' : ~Contains(g.memory, h.memory.start)
    BY <2>1, SpreadBlocks DEF Held, Known
  <2>5. HeapSpread'
    BY <2>1 DEF Held, HeapSpread
  <2> QED BY <2>1, <2>2, <2>3, <2>4, <2>5, BegunHeld
<1>3. ASSUME NEW b \in Blocks, NEW site \in CallSites, Malloc(t, b, site) PROVE Held'
  <2> DEFINE new == [memory |-> b, site |-> site, tracked |-> TRUE]  work == Track(b, site)
  <2>1. /\ heap' = heap \cup {new} /\ UNCHANGED allocations /\ Clear(b, heap)
        /\ \A u \in Threads : hook[u] = Idle
        /\ \A u \in Threads : hook'[u] = IF u = t THEN work ELSE Idle
    BY <1>3, EnterFirst DEF Malloc, Begins
  <2>2. /\ work.kind = "track" /\ work.new.memory = b /\ work.new.status # "FREED"
        /\ new.memory = b
    BY DEF Track, Allocation
  <2> HIDE DEF work, new
  <2>3. \A h \in heap : /\ h.memory \in AnyBlock /\ b \in AnyBlock
                        /\ Clear(b, {h}) /\ Clear(h.memory, {new})
                        /\ ~Intersect(h.memory, b)
    BY <2>1, <2>2, HeapBlocks, ClearBlocks DEF Clear, TypeOK
  <2>4. Known' \subseteq Known
    BY <2>1, <2>2 DEF Known, Returned, Idle
  <2>5. HeapSpread'
    BY <2>1, <2>2, <2>3 DEF Held, HeapSpread, Clear
  <2>6. \A h \in Known' : ~Intersect(h.memory, b)
    BY <2>3, <2>4 DEF Known
  <2> QED BY <2>1, <2>2, <2>4, <2>5, <2>6, BegunHeld
<1> QED BY <1>1, <1>2, <1>3

\* Lemma: the heap stays spread when it returns a block.
LEMMA SpreadGrows ==
  ASSUME TypeOK, Header > 0, NEW rest \in SUBSET heap, NEW new, new.memory \in Blocks,
         HeapSpread, Clear(new.memory, rest), heap' = rest \cup {new}
  PROVE  HeapSpread' /\ \A h \in rest : h.memory # new.memory
<1>1. new.memory \in AnyBlock /\ \A h \in rest : h.memory \in AnyBlock /\ Clear(new.memory, {h})
  BY HeapBlocks DEF TypeOK, Clear
<1>2. \A h \in rest : Clear(h.memory, {new}) /\ h.memory # new.memory
  BY <1>1, ClearBlocks
<1> QED BY <1>1, <1>2 DEF HeapSpread

\* Lemma: realloc begins, or the agent calls malloc.
LEMMA ReallocHeld ==
  ASSUME TypeOK, Held, Header > 0, history' \subseteq {"realloc"}, NEW t \in Threads,
         \/ \E b \in Blocks : AgentMalloc(t, b)
         \/ \E b \in Blocks, site \in CallSites : ReallocNull(t, b, site)
         \/ \E h \in heap, b \in Blocks : Realloc(t, h, b)
  PROVE  Held'
<1>1. ASSUME NEW b \in Blocks, AgentMalloc(t, b) PROVE Held'
  <2> DEFINE new == [memory |-> b, site |-> Agent, tracked |-> FALSE]
  <2>1. /\ heap' = heap \cup {new} /\ Clear(b, heap)
        /\ UNCHANGED <<allocations, hook>>
    BY <1>1 DEF AgentMalloc
  <2>2. new.memory = b /\ ~new.tracked
    OBVIOUS
  <2> HIDE DEF new
  <2>3. HeapSpread'
    BY <2>1, <2>2, SpreadGrows DEF Held
  <2>4. Known' = Known
    BY <2>1, <2>2 DEF Known, Returned
  <2>5. WorkApart'
    BY <2>1, <2>2, <2>4 DEF Held, WorkApart
  <2> QED BY <2>1, <2>3, <2>4, <2>5 DEF Held, OneAtATime, HasEntry
<1>2. ASSUME NEW b \in Blocks, NEW site \in CallSites, ReallocNull(t, b, site) PROVE Held'
  <2> DEFINE new == [memory |-> b, site |-> site, tracked |-> FALSE]
             work == [kind |-> "moved", ptr |-> NULL, to |-> b]
  <2>1. /\ heap' = heap \cup {new} /\ UNCHANGED allocations /\ Clear(b, heap)
        /\ \A u \in Threads : hook[u] = Idle
        /\ \A u \in Threads : hook'[u] = IF u = t THEN work ELSE Idle
    BY <1>2, EnterFirst DEF ReallocNull, Begins
  <2>2. /\ work.kind = "moved" /\ work.ptr = NULL /\ work.to = b
        /\ new.memory = b /\ ~new.tracked
    OBVIOUS
  <2> HIDE DEF work, new
  <2>3. HeapSpread' /\ \A h \in heap : h.memory # b
    BY <2>1, <2>2, SpreadGrows DEF Held
  <2>4. Known' \subseteq Known
    BY <2>1, <2>2 DEF Known, Returned, Idle
  <2>5. \A h \in Known' : ~Contains(h.memory, NULL)
    BY <2>4, HeapBlocks DEF Known, TypeOK
  <2>6. \A h \in heap' : ~(h.tracked /\ h.memory = b)
    BY <2>1, <2>2, <2>3
  <2> QED BY <2>1, <2>2, <2>3, <2>4, <2>5, <2>6, BegunHeld
<1>3. ASSUME NEW h \in heap, NEW b \in Blocks, Realloc(t, h, b) PROVE Held'
  <2> DEFINE new == [h EXCEPT !.memory = b]
             work == [kind |-> "moved", ptr |-> h.memory.start, to |-> b]
  <2>1. /\ heap' = (heap \ {h}) \cup {new} /\ UNCHANGED allocations
        /\ Clear(b, heap \ {h}) /\ Returned(h)
        /\ \A u \in Threads : hook[u] = Idle
        /\ \A u \in Threads : hook'[u] = IF u = t THEN work ELSE Idle
    BY <1>3, EnterFirst DEF Realloc, Begins
  <2>2. /\ work.kind = "moved" /\ work.ptr = h.memory.start /\ work.to = b
        /\ new.memory = b /\ new.tracked = h.tracked
    <3>1. h \in HeapBlock
      BY DEF TypeOK
    <3> QED BY <3>1 DEF HeapBlock
  <2> HIDE DEF work, new
  <2>3. HeapSpread' /\ \A g \in heap \ {h} : g.memory # b
    <3> DEFINE rest == heap \ {h}
    <3>1. rest \in SUBSET heap /\ heap' = rest \cup {new} /\ Clear(new.memory, rest)
          /\ new.memory \in Blocks /\ HeapSpread
      BY <2>1, <2>2 DEF Held
    <3> HIDE DEF rest
    <3>2. HeapSpread' /\ \A g \in rest : g.memory # new.memory
      BY <3>1, SpreadGrows
    <3> QED BY <2>2, <3>2 DEF rest
  <2>4. Known' \subseteq Known \ {h}
    <3> SUFFICES ASSUME NEW g \in Known' PROVE g \in Known \ {h}
      OBVIOUS
    <3>1. g.memory # b
      BY <2>1, <2>2 DEF Known, Returned
    <3>2. g \in heap \ {h} /\ g.tracked
      BY <2>1, <2>2, <3>1 DEF Known
    <3> QED BY <2>1, <3>2 DEF Known, Returned, Idle
  <2>5. \A g \in Known' : ~Contains(g.memory, h.memory.start)
    BY <2>4, SpreadBlocks DEF Held, Known
  <2>6. ASSUME NEW g \in heap', g.tracked, g.memory = b
        PROVE  \E i \in DOMAIN allocations : Contains(allocations[i].memory, h.memory.start)
    <3>1. h \in Known
      BY <2>1, <2>2, <2>3, <2>6 DEF Known
    <3>2. Contains(h.memory, h.memory.start)
      BY HeapBlocks DEF TypeOK, AnyBlock, Contains
    <3> QED BY <3>1, <3>2 DEF Held, HasEntry
  <2> QED BY <2>1, <2>2, <2>3, <2>4, <2>5, <2>6, BegunHeld
<1> QED BY <1>1, <1>2, <1>3

\* Lemma: a request that the heap refuses shows in history.
LEMMA NoFailure ==
  ASSUME history' \subseteq {"realloc"}, NEW t, NEW size, NEW site, NEW h
  PROVE  ~MallocFails(t, size, site) /\ ~ReallocFails(t, h, size)
BY DEF MallocFails, ReallocFails, Enter

\* Lemma: the invariant after a hook has come to its end.
LEMMA EndedHeld ==
  ASSUME TypeOK, Held, NEW t \in Threads, hook[t].kind # "none",
         \A u \in Threads : hook'[u] = IF u = t THEN Idle ELSE hook[u],
         UNCHANGED heap, \A h \in Known' : HasEntry(h.memory)'
  PROVE  Held'
<1>1. \A u \in Threads : hook'[u].kind = "none"
  BY DEF Held, OneAtATime, Idle
<1> QED BY <1>1 DEF Held, OneAtATime, HeapSpread, WorkApart

LEMMA MarkHeld ==
  ASSUME TypeOK, Held, NEW t \in Threads, Mark(t)
  PROVE  Held'
<1> DEFINE ptr == hook[t].ptr  f == Find(allocations, ptr)
<1>1. /\ hook[t].kind = "mark" /\ UNCHANGED heap
      /\ allocations' = MarkFree(allocations, ptr)
      /\ \A u \in Threads : hook'[u] = IF u = t THEN Idle ELSE hook[u]
  BY DEF Mark, In, Finish, TypeOK
<1>2. ptr \in Nat
  <2>1. hook[t] \in Marking
    BY <1>1 DEF TypeOK, Idle, Tracking, Marking, Moving
  <2> QED BY <2>1 DEF Marking
<1>3. /\ allocations \in Seq(Tracked) /\ DOMAIN allocations = 1 .. Len(allocations)
      /\ f <= Len(allocations) => Contains(allocations[f].memory, ptr)
      /\ f \in 1 .. Len(allocations) + 1
  <2>1. allocations \in Seq(Tracked) /\ DOMAIN allocations = 1 .. Len(allocations)
    BY DEF TypeOK
  <2> HIDE DEF ptr
  <2> QED BY <1>2, <2>1, FindAny
<1>4. /\ DOMAIN allocations' = DOMAIN allocations
      /\ \A i \in DOMAIN allocations : i # f => allocations'[i] = allocations[i]
      /\ f \notin DOMAIN allocations => allocations' = allocations
  <2>1. allocations' = IF f <= Len(allocations) /\ allocations[f].status # "FREED"
                       THEN [allocations EXCEPT ![f].status = "FREED"] ELSE allocations
    BY <1>1 DEF MarkFree, FreeStatus, Found
  <2> HIDE DEF f, ptr
  <2> QED BY <1>3, <2>1
<1> HIDE DEF f, ptr
<1>5. Known' = Known
  BY <1>1 DEF Known, Returned, Idle
<1>6. ASSUME NEW h \in Known PROVE HasEntry(h.memory)'
  <2>1. PICK i \in DOMAIN allocations :
          allocations[i].memory = h.memory /\ allocations[i].status # "FREED"
    BY DEF Held, HasEntry
  <2>2. ~Contains(h.memory, ptr)
    BY <1>1 DEF Held, WorkApart, ptr
  <2>3. i # f
    BY <1>3, <2>1, <2>2
  <2> QED BY <1>4, <2>1, <2>3 DEF HasEntry
<1> QED BY <1>1, <1>5, <1>6, EndedHeld

LEMMA MoveHeld ==
  ASSUME TypeOK, Held, NEW t \in Threads, Move(t)
  PROVE  Held'
<1> DEFINE ptr == hook[t].ptr  to == hook[t].to  f == Find(allocations, ptr)
           moved == [allocations[f] EXCEPT !.status = "REALLOCATED", !.memory = to]
<1>1. /\ hook[t].kind = "moved" /\ UNCHANGED heap
      /\ allocations' = MarkReallocated(allocations, ptr, to)
      /\ \A u \in Threads : hook'[u] = IF u = t THEN Idle ELSE hook[u]
  BY DEF Move, In, Finish, TypeOK
<1>2. ptr \in Nat
  <2>1. hook[t] \in Moving
    BY <1>1 DEF TypeOK, Idle, Tracking, Marking, Moving
  <2> QED BY <2>1 DEF Moving
<1>3. /\ allocations \in Seq(Tracked) /\ DOMAIN allocations = 1 .. Len(allocations)
      /\ f <= Len(allocations) => Contains(allocations[f].memory, ptr)
      /\ f \in 1 .. Len(allocations) + 1
      /\ \A i \in DOMAIN allocations : Contains(allocations[i].memory, ptr) => f <= i
  <2>1. allocations \in Seq(Tracked) /\ DOMAIN allocations = 1 .. Len(allocations)
    BY DEF TypeOK
  <2> HIDE DEF ptr
  <2> QED BY <1>2, <2>1, FindAny
<1>4. /\ DOMAIN allocations' = DOMAIN allocations
      /\ \A i \in DOMAIN allocations : i # f => allocations'[i] = allocations[i]
      /\ f \in DOMAIN allocations => allocations'[f] = moved
  <2>1. allocations' = IF f <= Len(allocations)
                       THEN [allocations EXCEPT ![f] = moved] ELSE allocations
    BY <1>1 DEF MarkReallocated, Found
  <2> HIDE DEF f, ptr, to, moved
  <2> QED BY <1>3, <2>1
<1>5. f \in DOMAIN allocations => moved.memory = to /\ moved.status = "REALLOCATED"
  <2>1. f \in DOMAIN allocations => allocations[f] \in Tracked
    BY <1>3
  <2> HIDE DEF f, to
  <2> QED BY <2>1 DEF Tracked
<1> HIDE DEF f, ptr, to, moved
<1>6. ASSUME NEW h \in Known PROVE HasEntry(h.memory)'
  <2>1. PICK i \in DOMAIN allocations :
          allocations[i].memory = h.memory /\ allocations[i].status # "FREED"
    BY DEF Held, HasEntry
  <2>2. ~Contains(h.memory, ptr)
    BY <1>1 DEF Held, WorkApart, ptr
  <2>3. i # f
    BY <1>3, <2>1, <2>2
  <2> QED BY <1>4, <2>1, <2>3 DEF HasEntry
<1>7. ASSUME NEW h \in Known', h \notin Known PROVE HasEntry(h.memory)'
  <2>1. h \in heap /\ h.tracked /\ h.memory = to
    <3>1. h \in heap /\ h.tracked /\ ~Returned(h)
      BY <1>1, <1>7 DEF Known
    <3>2. \A u \in Threads \ {t} : hook[u].kind = "none"
      BY <1>1 DEF Held, OneAtATime
    <3> QED BY <1>1, <3>1, <3>2 DEF Returned, to
  <2>2. PICK i \in DOMAIN allocations : Contains(allocations[i].memory, ptr)
    BY <1>1, <2>1 DEF Held, WorkApart, to, ptr
  <2>3. f \in DOMAIN allocations
    BY <1>3, <2>2
  <2>4. allocations'[f].memory = h.memory /\ allocations'[f].status # "FREED"
    BY <1>4, <1>5, <2>1, <2>3
  <2> QED BY <1>4, <2>3, <2>4 DEF HasEntry
<1> QED BY <1>1, <1>6, <1>7, EndedHeld

\* Lemma: a round of the loop gives every entry but the one it cuts a place.
LEMMA CutHeld ==
  ASSUME TypeOK, Held, NEW t \in Threads, TrackCut(t)
  PROVE  \A h \in Known : HasEntry(h.memory)'
<1> DEFINE i == hook[t].it
           new == hook[t].new
           P == Pieces(allocations, i, new)
           all == allocations \o P
<1>1. /\ i \in 1 .. Len(allocations) /\ allocations \in Seq(Tracked) /\ new \in Tracked
      /\ Intersect(allocations[i].memory, new.memory)
      /\ allocations' = Cut(allocations, i, new)
      /\ hook[t].kind = "track"
  BY RoundTypes DEF TrackCut, In, Collides
<1>2. \A h \in Known : ~Intersect(h.memory, new.memory)
  BY <1>1 DEF Held, WorkApart
<1> HIDE DEF i, new
<1>3. P \in Seq(Tracked)
  BY <1>1, PiecesType
<1>4. /\ allocations' \in Seq(Tracked) /\ Len(allocations') = Len(all) - 1
      /\ \A k \in 1 .. Len(all) - 1 : allocations'[k] = all[IF k < i THEN k ELSE k + 1]
  BY <1>1, CutEntries
<1> HIDE DEF P
<1>5. /\ Len(all) \in Nat /\ Len(all) >= Len(allocations)
      /\ \A k \in 1 .. Len(allocations) : all[k] = allocations[k]
  BY <1>1, <1>3, ConcatProperties
<1> HIDE DEF all
<1>6. ASSUME NEW h \in Known PROVE HasEntry(h.memory)'
  <2>1. PICK k \in 1 .. Len(allocations) :
          allocations[k].memory = h.memory /\ allocations[k].status # "FREED"
    BY <1>1 DEF Held, HasEntry
  <2>2. k # i
    BY <1>1, <1>2, <2>1
  <2> DEFINE m == IF k < i THEN k ELSE k - 1
  <2>3. m \in 1 .. Len(all) - 1 /\ (IF m < i THEN m ELSE m + 1) = k
    BY <1>1, <1>5, <2>2
  <2> HIDE DEF m
  <2>4. allocations'[m] = allocations[k]
    BY <1>4, <1>5, <2>3
  <2>5. m \in DOMAIN allocations'
    BY <1>4, <2>3
  <2> QED BY <2>1, <2>4, <2>5 DEF HasEntry
<1> QED BY <1>6

\* Lemma: the invariant inside the loop of track_new.
LEMMA LoopHeld ==
  ASSUME TypeOK, Held, NEW t \in Threads, TrackSkip(t) \/ TrackCut(t)
  PROVE  Held'
<1>1. hook[t].kind = "track" /\ hook[t] \in Tracking /\ UNCHANGED heap
  BY HookTypes DEF TrackSkip, TrackCut, In
<1>2. \E n \in Nat : hook' = [hook EXCEPT ![t].it = n]
  <2>1. TrackSkip(t) => hook[t].it + 1 \in Nat /\ hook' = [hook EXCEPT ![t].it = hook[t].it + 1]
    BY <1>1 DEF TrackSkip, Tracking
  <2> QED BY <2>1 DEF TrackCut
<1>3. ASSUME NEW u \in Threads
      PROVE  /\ hook'[u].kind = hook[u].kind /\ hook'[u].new = hook[u].new
             /\ u # t => hook'[u] = hook[u]
  BY <1>1, <1>2 DEF TypeOK, Tracking
<1>4. \A u \in Threads \ {t} : hook[u].kind = "none"
  BY <1>1 DEF Held, OneAtATime
<1>5. Known' = Known
  <2>1. ASSUME NEW h PROVE Returned(h)' <=> Returned(h)
    BY <1>1, <1>3, <1>4 DEF Returned
  <2> QED BY <1>1, <2>1 DEF Known
<1>6. OneAtATime' /\ HeapSpread'
  BY <1>1, <1>3 DEF Held, OneAtATime, HeapSpread
<1>7. WorkApart'
  BY <1>1, <1>3, <1>4, <1>5 DEF Held, WorkApart
<1>8. \A h \in Known : HasEntry(h.memory)'
  <2>1. CASE TrackSkip(t)
    BY <2>1 DEF Held, HasEntry, TrackSkip
  <2>2. CASE TrackCut(t)
    BY <2>2, CutHeld
  <2> QED BY <2>1, <2>2
<1> QED BY <1>5, <1>6, <1>7, <1>8 DEF Held

LEMMA AppendHeld ==
  ASSUME TypeOK, Held, NEW t \in Threads, TrackAppend(t)
  PROVE  Held'
<1> DEFINE new == hook[t].new  n == Len(allocations)
<1>1. /\ hook[t].kind = "track" /\ UNCHANGED heap /\ new \in Tracked
      /\ allocations' = Append(allocations, new)
      /\ allocations \in Seq(Tracked) /\ n \in Nat
  BY HookTypes DEF TrackAppend, In, TypeOK
<1>2. \A u \in Threads \ {t} : hook[u].kind = "none"
  BY <1>1 DEF Held, OneAtATime
<1>3. \A u \in Threads : hook'[u] = IF u = t THEN Idle ELSE hook[u]
  BY <1>2 DEF TrackAppend
<1>4. /\ DOMAIN allocations' = 1 .. n + 1 /\ allocations'[n + 1] = new
      /\ \A i \in 1 .. n : allocations'[i] = allocations[i]
  BY <1>1
<1>5. ASSUME NEW h \in Known PROVE HasEntry(h.memory)'
  BY <1>1, <1>4 DEF Held, HasEntry
<1>6. ASSUME NEW h \in Known', h \notin Known PROVE HasEntry(h.memory)'
  <2>1. h \in heap /\ h.tracked /\ ~Returned(h)
    BY <1>1, <1>6 DEF Known
  <2>2. h.memory = new.memory /\ new.status # "FREED"
    BY <1>1, <1>2, <2>1 DEF Returned, Held, WorkApart
  <2> QED BY <1>1, <1>4, <2>2 DEF HasEntry
<1> QED BY <1>1, <1>3, <1>5, <1>6, EndedHeld

\* Lemma: the process ends, and leaves the list and the heap as they are.
LEMMA EndHeld ==
  ASSUME Held, UNCHANGED <<heap, allocations, hook>>
  PROVE  Held'
<1>1. Known' = Known
  BY DEF Known, Returned
<1> QED BY <1>1 DEF Held, OneAtATime, HeapSpread, WorkApart, HasEntry

\* Theorem: the inductive invariant with realloc, for every heap that keeps live
\* blocks at least one address apart, any number of threads, and lists of any length.
THEOREM HoldingHolds ==
  ASSUME Header > 0
  PROVE  Spec => [](TypeOK /\ Holding)
<1>1. Init => TypeOK /\ Holding
  <2> SUFFICES ASSUME Init PROVE Held
    BY InitType DEF Holding
  <2>1. heap = {} /\ \A t \in Threads : hook[t].kind = "none"
    BY DEF Init, Idle
  <2> QED BY <2>1 DEF Held, OneAtATime, HeapSpread, WorkApart, Known
<1>2. TypeOK /\ Holding /\ [Next]_vars => TypeOK' /\ Holding'
  <2> SUFFICES ASSUME TypeOK, Holding, [Next]_vars PROVE TypeOK' /\ Holding'
    OBVIOUS
  <2>1. CASE Next
    <3>1. TypeOK'
      BY <2>1, CallType, UpdateType, Steps
    <3>2. ASSUME history' \subseteq {"realloc"} PROVE Held'
      <4>1. Held
        BY <2>1, <3>2, HistoryGrows DEF Holding
      <4>2. ASSUME NEW t \in Threads, Update(t) PROVE Held'
        <5>1. CASE TrackAsserts(t) \/ TrackGrowsUnderIterator(t) \/ TrackLosesIterator(t)
          BY <4>1, <5>1, EndHeld
             DEF TrackAsserts, TrackGrowsUnderIterator, TrackLosesIterator, End
        <5> QED BY <4>1, <4>2, <5>1, MarkHeld, MoveHeld, LoopHeld, AppendHeld DEF Update
      <4>3. ASSUME NEW t \in Threads, Call(t) PROVE Held'
        BY <3>2, <4>1, <4>3, CallHeld, ReallocHeld, NoFailure DEF Call
      <4> QED BY <2>1, <4>2, <4>3, Steps
    <3> QED BY <3>1, <3>2 DEF Holding
  <2>2. CASE UNCHANGED vars
    <3>1. UNCHANGED <<heap, allocations, capacity, hook, ended, history>>
      BY <2>2 DEF vars
    <3>2. TypeOK'
      BY <3>1 DEF TypeOK
    <3>3. Held => Held'
      BY <3>1, EndHeld
    <3> QED BY <3>1, <3>2, <3>3 DEF Holding
  <2> QED BY <2>1, <2>2
<1> QED BY <1>1, <1>2, PTL DEF Spec

\* Theorem: with realloc too, as long as hooks do not overlap and the heap refuses
\* no request, each block the target holds has an entry that is not freed.
THEOREM LiveBlocksKeepEntries == ASSUME Header > 0 PROVE Spec => []LiveBlockHasEntry
<1>1. Holding => LiveBlockHasEntry
  BY DEF Holding, Held, HasEntry, LiveBlockHasEntry
<1> QED BY <1>1, HoldingHolds, PTL
-----------------------------------------------------------------------------
(***************************************************************************)
(* The list implements HeapShadow: while the order holds, every step of the *)
(* hooks is one of the shadow or leaves it as it is.                        *)
(***************************************************************************)
\* What the shadow sees of the list: its freed addresses, without those of the
\* blocks the hooks make room for.
FreedAt(a) == \E i \in DOMAIN allocations \ Unfreed : Contains(allocations[i].memory, a)

UnfreedMemory == {allocations[i].memory : i \in Unfreed}

HeapAddresses == UNION {Addresses(b) : b \in Blocks}

\* Lemma: the addresses of a block are those it contains.
LEMMA AddressesOf ==
  /\ \A b \in AnyBlock : \A a : a \in Addresses(b) <=> a \in Nat /\ Contains(b, a)
  /\ \A b \in AnyBlock : Addresses(b) # {}
  /\ \A a \in HeapAddresses : a \in Nat
<1>1. ASSUME NEW b \in AnyBlock, NEW a PROVE a \in Addresses(b) <=> a \in Nat /\ Contains(b, a)
  BY DEF Addresses, Contains, AnyBlock
<1>2. ASSUME NEW b \in AnyBlock PROVE b.start \in Addresses(b)
  BY DEF Addresses, AnyBlock
<1> QED BY <1>1, <1>2, HeapBlocks DEF HeapAddresses

IncomingAddresses == UNION {Addresses(b) : b \in Incoming}

Mapping ==
  /\ LiveMemory = Incoming \cup UnfreedMemory
  /\ FreedMemory = {a \in HeapAddresses : FreedAt(a)} \ IncomingAddresses

\* Lemma: the refinement mapping in these terms, before and after a step.
LEMMA ShadowOf == TypeOK /\ Order => Mapping
<1> SUFFICES ASSUME TypeOK, EntriesApart PROVE Mapping
  BY DEF Order
<1>1. LiveMemory = Incoming \cup UnfreedMemory
  BY DEF LiveMemory, UnfreedMemory, Unfreed
<1>2. ASSUME NEW a \in HeapAddresses PROVE ReportsUseAfterFree(allocations, a) <=> FreedAt(a)
  <2>1. a \in Nat
    BY AddressesOf
  <2>2. ASSUME ReportsUseAfterFree(allocations, a) PROVE FreedAt(a)
    <3> DEFINE f == Find(allocations, a)
    <3>1. f \in DOMAIN allocations /\ Contains(allocations[f].memory, a)
      <4>1. /\ f \in 1 .. Len(allocations) + 1
            /\ f <= Len(allocations) => Contains(allocations[f].memory, a)
        BY <2>1, FindApart
      <4>2. f <= Len(allocations) /\ DOMAIN allocations = 1 .. Len(allocations)
        BY <2>2 DEF ReportsUseAfterFree, Found, TypeOK
      <4> HIDE DEF f
      <4> QED BY <4>1, <4>2
    <3>2. allocations[f].status = "FREED"
      BY <2>2 DEF ReportsUseAfterFree
    <3> QED BY <3>1, <3>2 DEF FreedAt, Unfreed
  <2>3. ASSUME FreedAt(a) PROVE ReportsUseAfterFree(allocations, a)
    <3>1. PICK i \in DOMAIN allocations \ Unfreed : Contains(allocations[i].memory, a)
      BY <2>3 DEF FreedAt
    <3>2. Find(allocations, a) = i /\ Found(allocations, a)
      BY <2>1, <3>1, FindsEntry
    <3> QED BY <3>1, <3>2 DEF ReportsUseAfterFree, Unfreed
  <2> QED BY <2>2, <2>3
<1>3. FreedMemory = {a \in HeapAddresses : ReportsUseAfterFree(allocations, a)}
                      \ IncomingAddresses
  BY DEF FreedMemory, HeapAddresses, IncomingAddresses
<1> QED BY <1>1, <1>2, <1>3 DEF Mapping

LEMMA ShadowOfNext == TypeOK' /\ Order' => Mapping'
BY ShadowOf, PTL

\* Lemma: a step that changes neither the list nor a block that is to be tracked.
LEMMA ShadowStays ==
  ASSUME UNCHANGED <<allocations, Incoming>>
  PROVE  UNCHANGED Shadow!shadowVars
BY DEF Shadow!shadowVars, LiveMemory, FreedMemory

\* Lemma: the block a thread makes room for is the one that comes in.
LEMMA OneIncoming ==
  ASSUME Order, NEW t \in Threads, hook[t].kind = "track"
  PROVE  Incoming = {hook[t].new.memory}
BY DEF Order, OneHook, Incoming

\* Lemma: malloc is ShadowMalloc.
LEMMA MallocShadows ==
  ASSUME TypeOK, Order, Header > 0, history' = {},
         NEW t \in Threads, NEW b \in Blocks, NEW site \in CallSites, Malloc(t, b, site)
  PROVE  Shadow!ShadowNext
<1>1. /\ \A u \in Threads : hook[u] = Idle
      /\ \A u \in Threads : hook'[u] = IF u = t THEN Track(b, site) ELSE Idle
      /\ UNCHANGED allocations /\ Clear(b, heap)
  BY EnterAlone DEF Malloc, Begins, Enter
<1>2. Track(b, site).kind = "track" /\ Track(b, site).new.memory = b /\ Idle.kind = "none"
  BY DEF Track, Allocation, Idle
<1>3. Incoming = {} /\ Incoming' = {b}
  BY <1>1, <1>2 DEF Incoming
<1>4. LiveMemory' = LiveMemory \cup {b} /\ FreedMemory' = FreedMemory \ Addresses(b)
  BY <1>1, <1>3 DEF LiveMemory, FreedMemory
<1>5. ASSUME NEW l \in LiveMemory PROVE Addresses(l) \cap Addresses(b) = {}
  <2>1. l \in UnfreedMemory
    BY <1>3, ShadowOf DEF Mapping
  <2>2. PICK h \in heap : h.memory = l
    BY <1>1, <1>2, <2>1 DEF UnfreedMemory, Order, UnfreedAreLive
  <2>3. /\ b \in AnyBlock /\ l \in AnyBlock
        /\ \A a \in Nat : ~(Contains(b, a) /\ Contains(l, a))
    BY <1>1, <2>2, HeapBlocks, ClearBlocks DEF TypeOK, Clear
  <2> QED BY <2>3, AddressesOf
<1> QED BY <1>4, <1>5 DEF Shadow!ShadowNext, Shadow!ShadowMalloc

\* Lemma: mark_free is ShadowFree, or finds nothing to mark.
LEMMA MarkShadows ==
  ASSUME TypeOK, Order, TypeOK', Order', NEW t \in Threads, Mark(t)
  PROVE  Shadow!ShadowNext \/ UNCHANGED Shadow!shadowVars
<1> DEFINE ptr == hook[t].ptr  f == Find(allocations, ptr)
<1>1. /\ hook[t].kind = "mark" /\ ptr \in Nat /\ UNCHANGED heap
      /\ allocations' = MarkFree(allocations, ptr)
      /\ \A u \in Threads : hook'[u] = IF u = t THEN Idle ELSE hook[u]
      /\ allocations \in Seq(Tracked) /\ DOMAIN allocations = 1 .. Len(allocations)
  <2>1. hook[t].kind = "mark"
    BY DEF Mark, In
  <2>2. hook[t] \in Marking
    BY <2>1 DEF TypeOK, Idle, Tracking, Marking, Moving
  <2> QED BY <2>1, <2>2 DEF Mark, Finish, TypeOK, Marking
<1>2. Incoming = {} /\ Incoming' = {}
  BY <1>1 DEF Order, OneHook, Incoming, Idle
<1> HIDE DEF ptr
<1>3. CASE f <= Len(allocations) /\ allocations[f].status # "FREED"
  <2> DEFINE b == allocations[f].memory
  <2>1. f \in Unfreed /\ Contains(b, ptr) /\ b \in AnyBlock /\ b \in Blocks
    <3>1. f \in Unfreed /\ Contains(b, ptr)
      <4>1. /\ f \in 1 .. Len(allocations) + 1
            /\ f <= Len(allocations) => Contains(allocations[f].memory, ptr)
        BY <1>1, FindApart DEF Order
      <4> HIDE DEF f
      <4> QED BY <1>1, <1>3, <4>1 DEF Unfreed
    <3>2. b \in Blocks
      BY <3>1, HeapBlocks DEF Order, UnfreedAreLive, TypeOK
    <3> QED BY <3>1, <3>2, HeapBlocks
  <2>2. /\ DOMAIN allocations' = DOMAIN allocations
        /\ \A i \in DOMAIN allocations :
             /\ allocations'[i].memory = allocations[i].memory
             /\ i # f => allocations'[i] = allocations[i]
        /\ allocations'[f].status = "FREED"
    <3>1. allocations' = [allocations EXCEPT ![f].status = "FREED"]
      BY <1>1, <1>3 DEF MarkFree, FreeStatus, Found
    <3>2. f \in DOMAIN allocations
      BY <2>1 DEF Unfreed
    <3> HIDE DEF f
    <3>3. /\ allocations'[f] = [allocations[f] EXCEPT !.status = "FREED"]
          /\ DOMAIN allocations' = DOMAIN allocations
          /\ \A i \in DOMAIN allocations : i # f => allocations'[i] = allocations[i]
      BY <1>1, <3>1, <3>2
    <3>4. allocations[f] \in Tracked
      BY <1>1, <3>2
    <3> QED BY <3>3, <3>4 DEF Tracked
  <2> HIDE DEF f
  <2>3. Unfreed' = Unfreed \ {f}
    BY <2>2 DEF Unfreed
  <2>4. ASSUME NEW i \in Unfreed, i # f PROVE allocations[i].memory # b
    <3>1. /\ Apart(allocations[i].memory, allocations[f].memory)
          /\ allocations[i].memory \in AnyBlock
      BY <2>1, <2>4 DEF Order, EntriesApart, Unfreed
    <3> QED BY <2>1, <3>1 DEF Apart, AnyBlock
  <2>5. UnfreedMemory' = UnfreedMemory \ {b} /\ b \in UnfreedMemory
    <3>1. \A i \in Unfreed : allocations'[i].memory = allocations[i].memory
      BY <2>2 DEF Unfreed
    <3> QED BY <2>1, <2>3, <2>4, <3>1 DEF UnfreedMemory
  <2>6. ASSUME NEW a PROVE FreedAt(a)' <=> FreedAt(a) \/ Contains(b, a)
    <3>1. f \in DOMAIN allocations' \ Unfreed'
      BY <2>1, <2>2, <2>3 DEF Unfreed
    <3>2. DOMAIN allocations' \ Unfreed' = (DOMAIN allocations \ Unfreed) \cup {f}
      BY <2>2, <2>3, <3>1
    <3> QED BY <2>2, <3>2, <3>1 DEF FreedAt
  <2>7. Addresses(b) \subseteq HeapAddresses
    BY <2>1 DEF HeapAddresses
  <2>8. FreedMemory' = FreedMemory \cup Addresses(b)
    <3>1. FreedMemory = {a \in HeapAddresses : FreedAt(a)}
      BY <1>2, ShadowOf DEF Mapping, IncomingAddresses
    <3>2. FreedMemory' = {a \in HeapAddresses : FreedAt(a)'}
      BY <1>2, ShadowOfNext DEF Mapping, IncomingAddresses, HeapAddresses
    <3>3. \A a \in HeapAddresses : a \in Addresses(b) <=> Contains(b, a)
      BY <2>1, AddressesOf
    <3> QED BY <2>6, <2>7, <3>1, <3>2, <3>3
  <2>9. LiveMemory' = LiveMemory \ {b} /\ b \in LiveMemory
    BY <1>2, <2>5 DEF LiveMemory, UnfreedMemory, Unfreed
  <2> QED BY <2>1, <2>8, <2>9 DEF Shadow!ShadowNext, Shadow!ShadowFree
<1>4. CASE ~(f <= Len(allocations) /\ allocations[f].status # "FREED")
  <2>1. allocations' = allocations
    BY <1>1, <1>4 DEF MarkFree, FreeStatus, Found
  <2> QED BY <1>2, <2>1, ShadowStays
<1> QED BY <1>3, <1>4

\* Lemma: a step between whose ends the shadow sees the same.
LEMMA SameShadow ==
  ASSUME TypeOK, Order, TypeOK', Order',
         Incoming' \cup UnfreedMemory' = Incoming \cup UnfreedMemory,
         \A a \in HeapAddresses :
           FreedAt(a)' /\ a \notin IncomingAddresses' <=> FreedAt(a) /\ a \notin IncomingAddresses
  PROVE  UNCHANGED Shadow!shadowVars
<1>1. LiveMemory' = LiveMemory
  BY ShadowOf, ShadowOfNext DEF Mapping
<1>2. HeapAddresses' = HeapAddresses
  BY DEF HeapAddresses, Addresses
<1>3. FreedMemory' = FreedMemory
  BY <1>2, ShadowOf, ShadowOfNext DEF Mapping
<1> QED BY <1>1, <1>3 DEF Shadow!shadowVars

\* Lemma: a round of the loop that passes an entry is none of the shadow's.
LEMMA SkipShadows ==
  ASSUME TypeOK, NEW t \in Threads, TrackSkip(t)
  PROVE  UNCHANGED Shadow!shadowVars
<1>1. hook[t] \in Tracking /\ hook' = [hook EXCEPT ![t].it = hook[t].it + 1]
  BY HookTypes DEF TrackSkip, In
<1>2. \A u \in Threads : hook'[u].kind = hook[u].kind /\ hook'[u].new = hook[u].new
  BY <1>1 DEF TypeOK, Tracking
<1>3. Incoming' = Incoming
  BY <1>2 DEF Incoming
<1> QED BY <1>3, ShadowStays DEF TrackSkip

\* Lemma: a cut takes the addresses of the new block out of a freed entry and no
\* others.
LEMMA CutShadows ==
  ASSUME TypeOK, Order, TypeOK', Order', NEW t \in Threads, TrackCut(t)
  PROVE  UNCHANGED Shadow!shadowVars
<1> DEFINE i == hook[t].it
           w == hook[t].new.memory
           old == allocations[i].memory
           P == Pieces(allocations, i, hook[t].new)
           n == Len(allocations)
           from(k) == IF k < i THEN k ELSE k + 1
<1>1. /\ i \in 1 .. n /\ allocations[i].status = "FREED" /\ P \in Seq(Tracked)
      /\ allocations' \in Seq(Tracked) /\ Len(allocations') = n + Len(P) - 1
  BY CutShape
<1>2. \A k \in 1 .. n + Len(P) - 1 :
        allocations'[k] = IF from(k) <= n THEN allocations[from(k)] ELSE P[from(k) - n]
  BY CutShape
<1>3. \A k \in 1 .. Len(P) : P[k].status = "FREED"
  BY CutShape
<1>4. /\ hook[t].kind = "track" /\ hook[t] \in Tracking /\ Intersect(old, w)
      /\ hook' = [hook EXCEPT ![t].it = 1]
      /\ old \in AnyBlock /\ w \in AnyBlock
  BY <1>1, HookTypes DEF TrackCut, In, Collides, Order, EntriesApart, NewMakesRoom, TypeOK
<1>5. Incoming' = Incoming /\ Incoming = {w} /\ IncomingAddresses = Addresses(w)
  <2>1. \A u \in Threads : hook'[u].kind = hook[u].kind /\ hook'[u].new = hook[u].new
    BY <1>4 DEF TypeOK, Tracking
  <2> QED BY <1>4, <2>1, OneIncoming DEF Incoming, IncomingAddresses
<1>6. /\ DOMAIN P = 1 .. Len(P) /\ DOMAIN P = DOMAIN Cuts(old, w)
      /\ \A k \in DOMAIN P : P[k].memory = Cuts(old, w)[k]
  <2>1. DOMAIN P = DOMAIN Cuts(old, w)
    BY DEF Pieces
  <2>2. ASSUME NEW k \in DOMAIN Cuts(old, w) PROVE P[k].memory = Cuts(old, w)[k]
    <3>1. P[k] = [allocations[i] EXCEPT !.memory = Cuts(old, w)[k]]
      BY DEF Pieces
    <3>2. allocations[i] \in Tracked
      BY <1>1 DEF TypeOK
    <3> HIDE DEF P, old, w
    <3> QED BY <3>1, <3>2 DEF Tracked
  <2>3. DOMAIN P = 1 .. Len(P)
    <3> HIDE DEF P
    <3> QED BY <1>1
  <2> QED BY <2>1, <2>2, <2>3
<1>7. ASSUME NEW a \in Nat
      PROVE  (\E k \in 1 .. Len(P) : Contains(P[k].memory, a)) <=> Contains(old, a) /\ ~Contains(w, a)
  <2>1. (\E k \in DOMAIN Cuts(old, w) : Contains(Cuts(old, w)[k], a)) <=>
          Contains(old, a) /\ ~Contains(w, a)
    BY <1>4, PiecesAreTheRest
  <2> HIDE DEF P, old, w
  <2> QED BY <1>6, <2>1
<1>8. /\ DOMAIN allocations = 1 .. n /\ n \in Nat /\ Len(P) \in Nat
      /\ DOMAIN allocations' = 1 .. n + Len(P) - 1
  BY <1>1 DEF TypeOK
<1> HIDE DEF i, P, n, w
\* Where the entries and the pieces are found after the cut.
<1>9. ASSUME NEW k \in 1 .. n, k # i
      PROVE  \E j \in DOMAIN allocations' : allocations'[j] = allocations[k]
  <2> DEFINE j == IF k < i THEN k ELSE k - 1
  <2>1. j \in 1 .. n + Len(P) - 1 /\ from(j) = k /\ k <= n
    BY <1>1, <1>8, <1>9
  <2> HIDE DEF j, from
  <2> QED BY <1>2, <1>8, <2>1
<1>10. ASSUME NEW k \in 1 .. Len(P)
       PROVE  \E j \in DOMAIN allocations' : allocations'[j] = P[k]
  <2> DEFINE j == n + k - 1
  <2>1. j \in 1 .. n + Len(P) - 1 /\ from(j) = n + k /\ ~(n + k <= n) /\ n + k - n = k
    BY <1>1, <1>8
  <2> HIDE DEF j, from
  <2> QED BY <1>2, <1>8, <2>1
<1>11. ASSUME NEW j \in DOMAIN allocations'
       PROVE  \/ \E k \in 1 .. n : k # i /\ allocations'[j] = allocations[k]
              \/ \E k \in 1 .. Len(P) : allocations'[j] = P[k]
  <2>1. /\ from(j) <= n => from(j) \in 1 .. n /\ from(j) # i
        /\ ~(from(j) <= n) => from(j) - n \in 1 .. Len(P)
    BY <1>1, <1>8
  <2> HIDE DEF from
  <2> QED BY <1>2, <1>8, <2>1
<1>12. UnfreedMemory' = UnfreedMemory
  <2>1. ASSUME NEW j \in Unfreed'
        PROVE  \E k \in Unfreed : allocations'[j].memory = allocations[k].memory
    BY <1>3, <1>8, <1>11 DEF Unfreed
  <2>2. ASSUME NEW k \in Unfreed
        PROVE  \E j \in Unfreed' : allocations'[j].memory = allocations[k].memory
    BY <1>1, <1>8, <1>9 DEF Unfreed
  <2> QED BY <2>1, <2>2 DEF UnfreedMemory
<1>13. ASSUME NEW a \in Nat, ~Contains(w, a) PROVE FreedAt(a)' <=> FreedAt(a)
  <2>1. ASSUME FreedAt(a)' PROVE FreedAt(a)
    <3>1. PICK j \in DOMAIN allocations' :
            allocations'[j].status = "FREED" /\ Contains(allocations'[j].memory, a)
      BY <2>1 DEF FreedAt, Unfreed
    <3>2. CASE \E k \in 1 .. n : allocations'[j] = allocations[k]
      BY <1>8, <3>1, <3>2 DEF FreedAt, Unfreed
    <3>3. CASE \E k \in 1 .. Len(P) : allocations'[j] = P[k]
      BY <1>1, <1>7, <1>8, <3>1, <3>3 DEF FreedAt, Unfreed
    <3> QED BY <1>11, <3>2, <3>3
  <2>2. ASSUME FreedAt(a) PROVE FreedAt(a)'
    <3>1. PICK k \in 1 .. n : allocations[k].status = "FREED" /\ Contains(allocations[k].memory, a)
      BY <1>8, <2>2 DEF FreedAt, Unfreed
    <3>2. CASE k # i
      BY <1>9, <3>1, <3>2 DEF FreedAt, Unfreed
    <3>3. CASE k = i
      <4>1. PICK l \in 1 .. Len(P) : Contains(P[l].memory, a)
        BY <1>7, <1>13, <3>1, <3>3
      <4> QED BY <1>3, <1>10, <4>1 DEF FreedAt, Unfreed
    <3> QED BY <3>2, <3>3
  <2> QED BY <2>1, <2>2
<1>14. \A a \in HeapAddresses : a \in Nat /\ (a \in Addresses(w) <=> Contains(w, a))
  BY <1>4, AddressesOf
<1>15. IncomingAddresses' = IncomingAddresses
  BY <1>5 DEF IncomingAddresses, Addresses
<1> QED BY <1>5, <1>12, <1>13, <1>14, <1>15, SameShadow

\* Lemma: the block that comes in stays in when it gets its entry.
LEMMA AppendShadows ==
  ASSUME TypeOK, Order, TypeOK', Order', NEW t \in Threads, TrackAppend(t)
  PROVE  UNCHANGED Shadow!shadowVars
<1> DEFINE new == hook[t].new
           n == Len(allocations)
<1>1. /\ hook[t].kind = "track" /\ new \in Tracked /\ hook[t].it = n + 1
      /\ \A u \in Threads \ {t} : hook[u].kind = "none"
  BY HookTypes, Alone DEF TrackAppend, In
<1>2. Incoming = {new.memory} /\ Incoming' = {}
  <2>1. \A u \in Threads : hook'[u].kind = "none"
    BY <1>1 DEF TrackAppend, Idle
  <2> QED BY <1>1, <2>1, OneIncoming DEF Incoming
<1>3. /\ n \in Nat /\ DOMAIN allocations = 1 .. n
      /\ DOMAIN allocations' = 1 .. n + 1
      /\ \A k \in 1 .. n : allocations'[k] = allocations[k]
      /\ allocations'[n + 1] = new
  BY <1>1 DEF TrackAppend, TypeOK
<1>4. /\ new.memory \in AnyBlock /\ new.status = "ALLOCATED"
      /\ \A k \in 1 .. n : ~Intersect(allocations[k].memory, new.memory)
  BY <1>1, <1>3 DEF Order, NewMakesRoom
<1> HIDE DEF new, n
<1>5. Unfreed' = Unfreed \cup {n + 1} /\ n + 1 \notin DOMAIN allocations
  BY <1>3, <1>4 DEF Unfreed
<1>6. UnfreedMemory' = UnfreedMemory \cup {new.memory}
  <2>1. \A k \in Unfreed : allocations'[k].memory = allocations[k].memory
    BY <1>3 DEF Unfreed
  <2> QED BY <1>3, <1>5, <2>1 DEF UnfreedMemory
<1>7. ASSUME NEW a \in HeapAddresses
      PROVE  (FreedAt(a)' <=> FreedAt(a)) /\ (FreedAt(a) => a \notin Addresses(new.memory))
  <2>1. DOMAIN allocations' \ Unfreed' = DOMAIN allocations \ Unfreed
    BY <1>3, <1>5
  <2>2. FreedAt(a)' <=> FreedAt(a)
    BY <1>3, <2>1 DEF FreedAt
  <2>3. ASSUME NEW k \in 1 .. n, Contains(allocations[k].memory, a)
        PROVE  a \notin Addresses(new.memory)
    <3>1. Apart(allocations[k].memory, new.memory) /\ allocations[k].memory \in AnyBlock
      BY <1>3, <1>4, NoCollision DEF Order, EntriesApart
    <3>2. a \in Nat /\ (a \in Addresses(new.memory) <=> Contains(new.memory, a))
      BY <1>4, AddressesOf
    <3> QED BY <1>4, <2>3, <3>1, <3>2 DEF Apart, Contains, AnyBlock
  <2> QED BY <1>3, <2>2, <2>3 DEF FreedAt
<1>8. IncomingAddresses' = {} /\ IncomingAddresses = Addresses(new.memory)
  BY <1>2 DEF IncomingAddresses
<1> QED BY <1>2, <1>6, <1>7, <1>8, SameShadow

\* Lemma: every step that leaves history empty is one of the shadow or none.
LEMMA StepShadows ==
  ASSUME TypeOK, Orderly, TypeOK', Orderly', Header > 0, history' = {}, [Next]_vars
  PROVE  [Shadow!ShadowNext]_Shadow!shadowVars
<1>1. CASE UNCHANGED vars
  <2>1. UNCHANGED <<allocations, Incoming>>
    BY <1>1 DEF vars, Incoming
  <2> QED BY <2>1, ShadowStays
<1>2. CASE Next
  <2>1. history = {} /\ Order /\ Order'
    BY <1>2, HistoryGrows DEF Orderly
  <2>2. PICK t \in Threads : Update(t) \/ Call(t)
    BY <1>2, Steps
  <2>3. CASE Update(t)
    <3>1. CASE TrackAsserts(t) \/ TrackGrowsUnderIterator(t) \/ TrackLosesIterator(t)
      <4>1. UNCHANGED <<allocations, hook>>
        BY <3>1 DEF TrackAsserts, TrackGrowsUnderIterator, TrackLosesIterator, End
      <4>2. UNCHANGED <<allocations, Incoming>>
        BY <4>1 DEF Incoming
      <4> QED BY <4>2, ShadowStays
    <3>2. ~Move(t)
      BY <2>1 DEF Order, OneHook, Move, In
    <3> QED BY <2>1, <2>3, <3>1, <3>2, MarkShadows, SkipShadows, CutShadows, AppendShadows
            DEF Update
  <2>4. ASSUME NEW work, Enter(t, work, {}), In(t, "none"), work.kind # "track"
        PROVE  UNCHANGED Shadow!shadowVars
    <3>1. /\ \A u \in Threads : hook[u] = Idle
          /\ \A u \in Threads : hook'[u] = IF u = t THEN work ELSE Idle
          /\ UNCHANGED allocations
      BY <2>4, EnterAlone DEF Enter
    <3>2. UNCHANGED <<allocations, Incoming>>
      BY <2>4, <3>1 DEF Incoming, Idle
    <3> QED BY <3>2, ShadowStays
  <2>5. CASE FreeNull(t)
    BY <2>4, <2>5 DEF FreeNull, Begins
  <2>6. CASE \E h \in heap : Free(t, h)
    BY <2>4, <2>6 DEF Free, Begins
  <2>7. CASE \E b \in Blocks : AgentMalloc(t, b)
    <3>1. UNCHANGED <<allocations, Incoming>>
      BY <2>7 DEF AgentMalloc, Incoming
    <3> QED BY <3>1, ShadowStays
  <2>8. CASE \E b \in Blocks, site \in CallSites : Malloc(t, b, site)
    BY <2>1, <2>8, MallocShadows
  <2>9. ASSUME NEW e, NEW work, Enter(t, work, {e}) PROVE FALSE
    BY <2>9 DEF Enter
  <2>10. ASSUME NEW b, NEW site, NEW size, NEW h
         PROVE  /\ ~ReallocNull(t, b, site) /\ ~MallocFails(t, size, site)
                /\ ~Realloc(t, h, b) /\ ~ReallocFails(t, h, size)
    BY <2>9 DEF ReallocNull, MallocFails, Realloc, ReallocFails
  <2> QED BY <2>2, <2>3, <2>5, <2>6, <2>7, <2>8, <2>10 DEF Call
<1> QED BY <1>1, <1>2

\* Lemma: an empty list is an empty shadow.
LEMMA InitShadows == Init => Shadow!ShadowInit
<1> SUFFICES ASSUME Init PROVE Shadow!ShadowInit
  OBVIOUS
<1>1. allocations = <<>> /\ Incoming = {}
  BY DEF Init, Incoming, Idle
<1>2. LiveMemory = {}
  BY <1>1 DEF LiveMemory
<1>3. ASSUME NEW a PROVE ~ReportsUseAfterFree(allocations, a)
  <2>1. ~(1 <= Len(allocations))
    BY <1>1
  <2>2. ASSUME NEW i \in 1 .. Len(allocations) + 1 PROVE i = 1
    BY <1>1
  <2>3. Find(allocations, a) = 1
    BY <1>1 DEF Find
  <2> QED BY <2>1, <2>3 DEF ReportsUseAfterFree, Found
<1>4. FreedMemory = {}
  BY <1>1, <1>3 DEF FreedMemory
<1> QED BY <1>2, <1>4 DEF Shadow!ShadowInit

\* Theorem: the steps of the hooks are steps of the shadow, on any number of
\* threads, for as long as no two hooks overlap and the target calls malloc and
\* free only.
THEOREM ListFollowsShadow ==
  ASSUME Header > 0
  PROVE  Spec => FollowsShadow
<1>1. TypeOK /\ Orderly /\ TypeOK' /\ Orderly' /\ [Next]_vars =>
        (history' = {} => [Shadow!ShadowNext]_Shadow!shadowVars)
  BY StepShadows
<1> QED BY <1>1, InitShadows, InvariantHolds, PTL DEF Spec, FollowsShadow

\* Theorem: a target of one thread that calls malloc and free only, and whose heap
\* refuses nothing: the list implements the shadow.
THEOREM ListImplementsShadow ==
  ASSUME Header > 0, \A t, u \in Threads : t = u,
         FailSizes = {}, Calls \subseteq {"malloc", "free"}
  PROVE  Spec => ImplementsShadow
<1>1. Init => history = {}
  BY DEF Init
<1>2. history = {} /\ [Next]_vars => history' = {}
  <2> SUFFICES ASSUME history = {}, Next PROVE history' = {}
    BY DEF vars
  <2>1. ASSUME NEW t \in Threads, NEW work, Enter(t, work, {}) PROVE history' = {}
    BY <2>1 DEF Enter
  <2>2. ASSUME NEW t \in Threads, Update(t) PROVE history' = {}
    BY <2>2
       DEF Update, Mark, Move, TrackSkip, TrackCut, TrackAppend, TrackAsserts,
           TrackGrowsUnderIterator, TrackLosesIterator, End
  <2>3. ASSUME NEW t \in Threads, NEW h, NEW b, NEW site
        PROVE  ~ReallocNull(t, b, site) /\ ~Realloc(t, h, b)
    BY DEF ReallocNull, Realloc, Begins
  <2>4. ASSUME NEW t \in Threads,
               \/ FreeNull(t) \/ (\E h \in heap : Free(t, h))
               \/ (\E b \in Blocks : AgentMalloc(t, b))
               \/ \E b \in Blocks, site \in CallSites : Malloc(t, b, site)
        PROVE  history' = {}
    BY <2>1, <2>4 DEF FreeNull, Free, AgentMalloc, Malloc
  <2>5. PICK t \in Threads :
          \/ Update(t)
          \/ FreeNull(t)
          \/ \E b \in Blocks : AgentMalloc(t, b)
          \/ \E b \in Blocks, site \in CallSites : Malloc(t, b, site) \/ ReallocNull(t, b, site)
          \/ \E h \in heap : Free(t, h)
          \/ \E h \in heap, b \in Blocks : Realloc(t, h, b)
    BY DEF Next
  <2> QED BY <2>2, <2>3, <2>4, <2>5
<1>3. [Next]_vars /\ history = {} /\ TypeOK /\ Orderly /\ (TypeOK /\ Orderly)' =>
        [Shadow!ShadowNext]_Shadow!shadowVars
  <2> SUFFICES ASSUME history = {}, [Next]_vars, TypeOK, Orderly, TypeOK', Orderly'
               PROVE  [Shadow!ShadowNext]_Shadow!shadowVars
    OBVIOUS
  <2>1. history' = {}
    BY <1>2
  <2> QED BY <2>1, StepShadows
<1>4. Spec => [](TypeOK /\ Orderly)
  BY InvariantHolds
<1>5. Spec => [](history = {})
  <2>1. history = {} /\ [Next]_vars => (history = {})'
    BY <1>2
  <2> QED BY <1>1, <2>1, PTL DEF Spec
<1> QED BY <1>3, <1>4, <1>5, InitShadows, PTL DEF Spec, ImplementsShadow, Shadow!ShadowSpec

-----------------------------------------------------------------------------
(***************************************************************************)
(* The loop of track_new: each time it starts over, one entry less is in    *)
(* the way of the new block, as long as no cut leaves a right piece.        *)
(***************************************************************************)
\* The range of a new block does not end before it starts.
NewForward ==
  \A t \in Threads :
    hook[t].kind = "track" => hook[t].new.memory.start <= hook[t].new.memory.end

\* Lemma: a left piece ends where the new block starts and is clear of it.
LEMMA LeftPieceSettles ==
  ASSUME NEW f \in Range01, NEW w \in Range01, w.start <= w.end, RightCut(f, w) = <<>>,
         NEW k \in DOMAIN Cuts(f, w)
  PROVE  ~Intersect(Cuts(f, w)[k], w)
<1>1. CASE LeftCut(f, w) = <<>>
  <2>1. Cuts(f, w) = <<>>
    BY <1>1 DEF Cuts
  <2> QED BY <2>1
<1>2. CASE LeftCut(f, w) # <<>>
  <2>1. LeftCut(f, w) = <<Block(f.start, w.start)>> /\ f.start < w.start
    BY <1>2 DEF LeftCut, NonEmpty, Range01
  <2>2. Cuts(f, w) = <<Block(f.start, w.start)>>
    BY <2>1 DEF Cuts
  <2>3. Cuts(f, w)[k] = Block(f.start, w.start)
    BY <2>2
  <2>4. ~Intersect(Block(f.start, w.start), w)
    BY <2>1 DEF Intersect, Contains, Block, Range01
  <2> QED BY <2>3, <2>4
<1> QED BY <1>1, <1>2

\* Lemma: an entry that is in the way after a cut was in the way before, and is
\* not the one that was cut.
LEMMA CutClears ==
  ASSUME NEW list \in Seq(Tracked), NEW i \in 1 .. Len(list), NEW new \in Tracked,
         new.memory.start <= new.memory.end,
         RightCut(list[i].memory, new.memory) = <<>>,
         NEW k \in DOMAIN Cut(list, i, new), Intersect(Cut(list, i, new)[k].memory, new.memory)
  PROVE  LET j == IF k < i THEN k ELSE k + 1 IN
         j \in DOMAIN list \ {i} /\ Intersect(list[j].memory, new.memory)
<1> DEFINE j == IF k < i THEN k ELSE k + 1
           left == Pieces(list, i, new)
           all == list \o left
<1>1. /\ Cut(list, i, new) \in Seq(Tracked)
      /\ Len(Cut(list, i, new)) = Len(all) - 1
      /\ \A n \in 1 .. Len(all) - 1 : Cut(list, i, new)[n] = all[IF n < i THEN n ELSE n + 1]
  BY CutEntries
<1>2. left \in Seq(Tracked) /\ Len(left) \in Nat
  BY PiecesType, LenProperties
<1>3. /\ Len(all) = Len(list) + Len(left)
      /\ \A n \in 1 .. Len(list) + Len(left) :
           all[n] = IF n <= Len(list) THEN list[n] ELSE left[n - Len(list)]
  <2> HIDE DEF left
  <2> QED BY <1>2, ConcatProperties
<1>4. DOMAIN left = DOMAIN Cuts(list[i].memory, new.memory)
      /\ \A n \in DOMAIN left : left[n].memory = Cuts(list[i].memory, new.memory)[n]
  <2>1. list[i] \in Tracked
    OBVIOUS
  <2> QED BY <2>1 DEF Pieces, Tracked
<1>5. list[i].memory \in Range01 /\ new.memory \in Range01
  <2>1. list[i] \in Tracked
    OBVIOUS
  <2> QED BY <2>1 DEF Tracked, Range01
<1>6. \A n \in DOMAIN left : ~Intersect(left[n].memory, new.memory)
  BY <1>4, <1>5, LeftPieceSettles
<1>7. Len(list) \in Nat /\ DOMAIN list = 1 .. Len(list) /\ DOMAIN left = 1 .. Len(left)
  BY <1>2, LenProperties
<1> HIDE DEF left, all
<1>8. k \in 1 .. Len(all) - 1
  BY <1>1, LenProperties
<1>9. Cut(list, i, new)[k] = all[j] /\ j \in 1 .. Len(list) + Len(left) /\ j # i
  BY <1>1, <1>2, <1>3, <1>7, <1>8
<1> HIDE DEF j
<1>10. j <= Len(list)
  <2> SUFFICES ASSUME j > Len(list) PROVE FALSE
    BY <1>7, <1>9
  <2>1. all[j] = left[j - Len(list)] /\ j - Len(list) \in DOMAIN left
    BY <1>2, <1>3, <1>7, <1>9
  <2> QED BY <1>6, <1>9, <2>1
<1>11. all[j] = list[j] /\ j \in DOMAIN list
  BY <1>2, <1>3, <1>7, <1>9, <1>10
<1> QED BY <1>9, <1>11 DEF j

\* Lemma: so one entry less is in the way.
LEMMA CutShrinks ==
  ASSUME TypeOK, NewForward, NEW t \in Threads, TrackCut(t), ~LeavesRight(t)
  PROVE  Cardinality(InTheWay(t)') < Cardinality(InTheWay(t))
<1> DEFINE i == hook[t].it
           new == hook[t].new
           before == InTheWay(t)
           after == InTheWay(t)'
           place(k) == IF k < i THEN k ELSE k + 1
           f == [k \in after |-> place(k)]
<1>1. allocations \in Seq(Tracked) /\ new \in Tracked /\ i \in 1 .. Len(allocations)
  BY RoundTypes DEF TrackCut
<1>2. new.memory.start <= new.memory.end /\ RightCut(allocations[i].memory, new.memory) = <<>>
  BY DEF NewForward, LeavesRight, TrackCut, In
<1>3. hook'[t].new = new /\ allocations' = Cut(allocations, i, new)
  BY DEF TrackCut, TypeOK
<1>4. after = {k \in DOMAIN Cut(allocations, i, new) :
                 Intersect(Cut(allocations, i, new)[k].memory, new.memory)}
  BY <1>3 DEF InTheWay
<1>5. before = {k \in DOMAIN allocations : Intersect(allocations[k].memory, new.memory)}
  BY DEF InTheWay
<1>6. i \in before
  BY <1>1, <1>5 DEF TrackCut, Collides
<1>7. before \subseteq 1 .. Len(allocations) /\ Len(allocations) \in Nat
  BY <1>1, <1>5, LenProperties
<1>8. after \subseteq Nat
  <2>1. Cut(allocations, i, new) \in Seq(Tracked)
    BY <1>1, CutEntries
  <2> HIDE DEF i, new
  <2> QED BY <1>4, <2>1, LenProperties
<1> HIDE DEF i, new, before, after
<1>9. \A k \in after : place(k) \in before \ {i}
  BY <1>1, <1>2, <1>4, <1>5, CutClears
<1>10. \A k, n \in after : place(k) = place(n) => k = n
  BY <1>1, <1>8
<1>11. f \in Injection(after, before \ {i})
  <2>1. f \in [after -> before \ {i}]
    BY <1>9
  <2>2. \A k, n \in after : f[k] = f[n] => k = n
    BY <1>10
  <2> HIDE DEF f
  <2> QED BY <2>1, <2>2, Fun_IsInj
<1>12. IsFiniteSet(before)
  <2>1. IsFiniteSet(1 .. Len(allocations))
    BY <1>7, FS_Interval
  <2> QED BY <1>7, <2>1, FS_Subset
<1>13. /\ IsFiniteSet(before \ {i})
       /\ Cardinality(before \ {i}) = Cardinality(before) - 1
  BY <1>6, <1>12, FS_RemoveElement
<1> HIDE DEF f
<1>14. IsFiniteSet(after) /\ Cardinality(after) <= Cardinality(before \ {i})
  BY <1>11, <1>13, FS_Injection
<1>15. Cardinality(before) \in Nat /\ Cardinality(after) \in Nat
  BY <1>12, <1>14, FS_CardinalityType
<1> QED BY <1>13, <1>14, <1>15 DEF before, after

\* Lemma: a call is made outside the hooks, and gets a block that ends behind
\* its start; it leaves the list and the other hooks as they are.
LEMMA CallFrom ==
  ASSUME TypeOK, NEW t \in Threads, Call(t)
  PROVE  /\ UNCHANGED allocations
         /\ \A u \in Threads :
              \/ hook'[u] = hook[u]
              \/ /\ u = t /\ hook[t].kind = "none"
                 /\ hook'[u].kind = "track" =>
                      hook'[u].new.memory.start <= hook'[u].new.memory.end
<1> USE DEF TypeOK
<1>1. ASSUME NEW work, NEW events, Enter(t, work, events), hook[t].kind = "none",
             work.kind = "track" => work.new.memory.start <= work.new.memory.end
      PROVE  /\ UNCHANGED allocations
             /\ \A u \in Threads :
                  \/ hook'[u] = hook[u]
                  \/ /\ u = t /\ hook[t].kind = "none"
                     /\ hook'[u].kind = "track" =>
                          hook'[u].new.memory.start <= hook'[u].new.memory.end
  BY <1>1 DEF Enter
<1>2. \A b \in Blocks, site \in CallSites :
        Track(b, site).new.memory.start <= Track(b, site).new.memory.end
  BY BlocksAssumption DEF BlocksAssumption, Track, Allocation
<1>3. \A size \in FailSizes, site \in CallSites :
        Track(Block(NULL, NULL + size), site).new.memory.start
          <= Track(Block(NULL, NULL + size), site).new.memory.end
  BY BlocksAssumption DEF BlocksAssumption, Track, Allocation, Block, NULL
<1>4. CASE FreeNull(t)
  BY <1>1, <1>4 DEF FreeNull, Begins, In
<1>5. ASSUME NEW b \in Blocks, AgentMalloc(t, b)
      PROVE  UNCHANGED <<allocations, hook>>
  BY <1>5 DEF AgentMalloc
<1>6. CASE \E b \in Blocks, site \in CallSites : Malloc(t, b, site)
  BY <1>1, <1>2, <1>6 DEF Malloc, Begins, In
<1>7. CASE \E b \in Blocks, site \in CallSites : ReallocNull(t, b, site)
  BY <1>1, <1>7 DEF ReallocNull, Begins, In
<1>8. CASE \E size \in FailSizes, site \in CallSites : MallocFails(t, size, site)
  BY <1>1, <1>3, <1>8 DEF MallocFails, Begins, In
<1>9. CASE \E h \in heap : Free(t, h)
  BY <1>1, <1>9 DEF Free, Begins, In
<1>10. CASE \E h \in heap, b \in Blocks : Realloc(t, h, b)
  BY <1>1, <1>10 DEF Realloc, Begins, In
<1>11. CASE \E h \in heap, size \in FailSizes : ReallocFails(t, h, size)
  BY <1>1, <1>11 DEF ReallocFails, Begins, In
<1> QED BY <1>4, <1>5, <1>6, <1>7, <1>8, <1>9, <1>10, <1>11 DEF Call

\* Lemma: a hook keeps its new block until it is done with it.
LEMMA UpdateFrom ==
  ASSUME TypeOK, NEW t \in Threads, Update(t)
  PROVE  /\ hook[t].kind # "none"
         /\ \A u \in Threads :
              \/ hook'[u].kind # "track"
              \/ hook[u].kind = "track" /\ hook'[u].new = hook[u].new
<1> SUFFICES ASSUME NEW u \in Threads
             PROVE  /\ hook[t].kind # "none"
                    /\ \/ hook'[u].kind # "track"
                       \/ hook[u].kind = "track" /\ hook'[u].new = hook[u].new
  OBVIOUS
<1>0. hook[u].kind = "track" => hook[u] \in Tracking
  BY HookTypes
<1>1. CASE Mark(t) \/ Move(t)
  BY <1>1 DEF Mark, Move, In, Finish, TypeOK, Idle
<1>2. CASE TrackSkip(t)
  BY <1>2 DEF TrackSkip, In, TypeOK
<1>3. CASE TrackCut(t)
  BY <1>3 DEF TrackCut, In, TypeOK
<1>4. CASE TrackAppend(t)
  <2>1. hook'[u] \in {Idle, hook[u]} \/
          (hook[u].kind = "track" /\ hook'[u] = [hook[u] EXCEPT !.dangling = TRUE])
    BY <1>4 DEF TrackAppend, TypeOK
  <2>2. hook[t].kind # "none"
    BY <1>4 DEF TrackAppend, In
  <2> QED BY <1>0, <2>1, <2>2 DEF Idle, Tracking
<1>5. CASE TrackAsserts(t) \/ TrackGrowsUnderIterator(t) \/ TrackLosesIterator(t)
  BY <1>5 DEF TrackAsserts, TrackGrowsUnderIterator, TrackLosesIterator, End, In
<1> QED BY <1>1, <1>2, <1>3, <1>4, <1>5 DEF Update

\* Lemma: no block that is tracked ends before it starts, not even at NULL.
LEMMA NewStaysForward == TypeOK /\ NewForward /\ [Next]_vars => NewForward'
<1> SUFFICES ASSUME TypeOK, NewForward, [Next]_vars PROVE NewForward'
  OBVIOUS
<1>1. CASE UNCHANGED vars
  BY <1>1 DEF NewForward, vars
<1>2. ASSUME NEW t \in Threads, Call(t) PROVE NewForward'
  BY <1>2, CallFrom DEF NewForward
<1>3. ASSUME NEW t \in Threads, Update(t) PROVE NewForward'
  BY <1>3, UpdateFrom DEF NewForward
<1> QED BY <1>1, <1>2, <1>3, Steps

\* Theorem: whatever the list, and however many entries are in the way, the loop
\* of track_new makes progress in every round, unless a cut leaves a right piece
\* or another thread is in a hook.  It ends for that reason.
THEOREM LoopMakesProgress == Spec => LoopAdvances
<1> DEFINE Advance(t) ==
             \/ UNCHANGED <<allocations, hook[t]>>
             \/ Cardinality(InTheWay(t)') < Cardinality(InTheWay(t))
             \/ InTheWay(t)' = InTheWay(t) /\ hook'[t].it > hook[t].it
           Advances(t) ==
             /\ hook[t].kind = "track" /\ hook'[t].kind = "track"
             /\ (\A u \in Threads \ {t} : hook[u] = Idle) /\ ~LeavesRight(t)
             => Advance(t)
<1>1. TypeOK /\ NewForward /\ [Next]_vars => \A t \in Threads : Advances(t)
  <2> SUFFICES ASSUME TypeOK, NewForward, [Next]_vars, NEW t \in Threads,
                      hook[t].kind = "track", hook'[t].kind = "track",
                      \A u \in Threads \ {t} : hook[u] = Idle, ~LeavesRight(t)
               PROVE  Advance(t)
    OBVIOUS
  <2>1. CASE UNCHANGED vars
    BY <2>1 DEF vars
  <2>2. ASSUME NEW u \in Threads, Call(u) PROVE Advance(t)
    BY <2>2, CallFrom
  <2>3. ASSUME NEW u \in Threads, Update(u) PROVE u = t
    BY <2>3, UpdateFrom DEF Idle
  <2>4. CASE Mark(t) \/ Move(t)
    BY <2>4 DEF Mark, Move, In
  <2>5. CASE TrackSkip(t)
    <3>1. hook[t].it \in Nat
      BY HookTypes
    <3>2. /\ allocations' = allocations /\ hook'[t].new = hook[t].new
          /\ hook'[t].it = hook[t].it + 1
      BY <2>5, HookTypes DEF TrackSkip, TypeOK, Tracking
    <3>3. InTheWay(t)' = InTheWay(t)
      BY <3>2 DEF InTheWay
    <3> QED BY <3>1, <3>2, <3>3
  <2>6. CASE TrackCut(t)
    BY <2>6, CutShrinks
  <2>7. CASE TrackAppend(t)
    <3>1. hook'[t] = Idle
      BY <2>7 DEF TrackAppend
    <3> QED BY <3>1 DEF Idle
  <2>8. CASE TrackAsserts(t) \/ TrackGrowsUnderIterator(t) \/ TrackLosesIterator(t)
    BY <2>8 DEF TrackAsserts, TrackGrowsUnderIterator, TrackLosesIterator, End
  <2>9. ASSUME Update(t) PROVE Advance(t)
    BY <2>4, <2>5, <2>6, <2>7, <2>8, <2>9 DEF Update
  <2> QED BY <2>1, <2>2, <2>3, <2>9, Steps
<1>2. Init => NewForward
  BY DEF Init, NewForward, Idle
<1> QED BY <1>1, <1>2, TypeCorrect, NewStaysForward, PTL DEF Spec, LoopAdvances
=============================================================================
