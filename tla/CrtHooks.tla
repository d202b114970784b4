------------------------------- MODULE CrtHooks -------------------------------
(***************************************************************************)
(* The hooks of malloc, free and realloc (crt_instrumentation.cpp) that     *)
(* keep the agent's AllocationList, on any thread of the target.            *)
(*                                                                         *)
(* A hook calls the C library first and updates the list afterwards, and    *)
(* the list has no lock ("TODO: add lock"): the two are separate steps, and *)
(* every round of the loop in track_new is one.  The heap is modelled by    *)
(* what it promises: it returns any block that is clear of the live ones.   *)
(***************************************************************************)
EXTENDS AllocationTracker, FiniteSets

CONSTANTS
  Threads,
  CallSites,   \* return addresses in the target
  Agent,       \* a return address in win_agent.dll
  Blocks,      \* the blocks the heap may return
  Header,      \* the least distance the heap keeps between live blocks
  FailSizes,   \* sizes of requests that fail and return NULL
  Calls,       \* the functions the target calls, of malloc, free and realloc
  MaxEntries,  \* bound: a hook starts only while the list is shorter, with what
               \* has happened then
  MaxUntracked \* bound: live blocks that no hook tracks

\* What the properties make allowance for: two threads in hooks at the same
\* time, a call of realloc, a request the heap refuses.
Events == {"overlap", "realloc", "failure"}

ASSUME BlocksAssumption ==
  /\ Blocks \subseteq [start : Nat \ {0}, end : Nat]
  /\ \A b \in Blocks : b.start < b.end
  /\ Header \in Nat /\ FailSizes \subseteq Nat \ {0}
  /\ MaxEntries \in [SUBSET Events -> Nat] /\ MaxUntracked \in Nat

ASSUME SitesAssumption ==
  Agent \notin CallSites /\ Calls \subseteq {"malloc", "free", "realloc"}

VARIABLES
  heap,         \* the live blocks, with the caller of malloc and whether the
                \* hook is to track them
  allocations,  \* the list
  capacity,     \* the capacity of its vector
  hook,         \* what a thread has yet to do in a hook
  ended,        \* "no", or how the process ended
  history       \* what has happened so far of Events

vars == <<heap, allocations, capacity, hook, ended, history>>

NULL == 0

Idle == [kind |-> "none"]

Init ==
  /\ heap = {} /\ allocations = <<>> /\ capacity = 0
  /\ hook = [t \in Threads |-> Idle]
  /\ ended = "no" /\ history = {}

In(t, kind) == ended = "no" /\ hook[t].kind = kind

-----------------------------------------------------------------------------
(***************************************************************************)
(* The calls: the C library's part, then what is left for the list.         *)
(***************************************************************************)
\* The heap may return b while the blocks in used are live.
Clear(b, used) ==
  \A h \in used : b.end + Header <= h.memory.start \/ h.memory.end + Header <= b.start

Enter(t, work, events) ==
  /\ hook' = [hook EXCEPT ![t] = work]
  /\ history' = history \cup events
       \cup {e \in {"overlap"} : \E u \in Threads \ {t} : hook[u] # Idle}
  /\ Len(allocations) < MaxEntries[history']
  /\ UNCHANGED <<allocations, capacity, ended>>

Begins(t, call) == In(t, "none") /\ call \in Calls

Untracked == {h \in heap : ~h.tracked}

Track(memory, site) ==
  [kind |-> "track", new |-> Allocation(memory, site, "ALLOCATED"),
   it |-> 1, dangling |-> FALSE]

Malloc(t, b, site) ==
  /\ Begins(t, "malloc") /\ Clear(b, heap)
  /\ heap' = heap \cup {[memory |-> b, site |-> site, tracked |-> TRUE]}
  /\ Enter(t, Track(b, site), {})

\* malloc returned NULL: the block is tracked all the same.
MallocFails(t, size, site) ==
  /\ Begins(t, "malloc")
  /\ Enter(t, Track(Block(NULL, NULL + size), site), {"failure"})
  /\ UNCHANGED heap

\* The return address is the agent's: the block is not tracked.
AgentMalloc(t, b) ==
  /\ Begins(t, "malloc") /\ Clear(b, heap)
  /\ Cardinality(Untracked) < MaxUntracked
  /\ heap' = heap \cup {[memory |-> b, site |-> Agent, tracked |-> FALSE]}
  /\ UNCHANGED <<allocations, capacity, hook, ended, history>>

\* No thread is still in the malloc or realloc that returns h.
Returned(h) ==
  \A t \in Threads :
    /\ hook[t].kind = "track" => hook[t].new.memory # h.memory
    /\ hook[t].kind = "moved" => hook[t].to # h.memory

\* The target, and the agent, free what they own and once.  The hook does not
\* look at the caller here.
Free(t, h) ==
  /\ Begins(t, "free") /\ Returned(h)
  /\ heap' = heap \ {h}
  /\ Enter(t, [kind |-> "mark", ptr |-> h.memory.start, tracked |-> h.tracked],
           {})

FreeNull(t) ==
  /\ Begins(t, "free")
  /\ Enter(t, [kind |-> "mark", ptr |-> NULL, tracked |-> FALSE], {})
  /\ UNCHANGED heap

\* realloc moves or resizes a block of the target ...
Realloc(t, h, b) ==
  /\ Begins(t, "realloc") /\ Returned(h) /\ h.site # Agent
  /\ Clear(b, heap \ {h})
  /\ heap' = (heap \ {h}) \cup {[h EXCEPT !.memory = b]}
  /\ Enter(t, [kind |-> "moved", ptr |-> h.memory.start, to |-> b],
           {"realloc"})

\* ... allocates one that the hook cannot find ...
ReallocNull(t, b, site) ==
  /\ Begins(t, "realloc") /\ Clear(b, heap) /\ Cardinality(Untracked) < MaxUntracked
  /\ heap' = heap \cup {[memory |-> b, site |-> site, tracked |-> FALSE]}
  /\ Enter(t, [kind |-> "moved", ptr |-> NULL, to |-> b], {"realloc"})

\* ... or fails and leaves the old block as it is.
ReallocFails(t, h, size) ==
  /\ Begins(t, "realloc") /\ Returned(h) /\ h.site # Agent
  /\ Enter(t, [kind |-> "moved", ptr |-> h.memory.start,
               to |-> Block(NULL, NULL + size)], {"failure"})
  /\ UNCHANGED heap

-----------------------------------------------------------------------------
(***************************************************************************)
(* The list's part.                                                         *)
(***************************************************************************)
Finish(t) == hook' = [hook EXCEPT ![t] = Idle]

\* mark_free(ptr): the hook drops its result.
Mark(t) ==
  /\ In(t, "mark")
  /\ allocations' = MarkFree(allocations, hook[t].ptr)
  /\ Finish(t)
  /\ UNCHANGED <<heap, capacity, ended, history>>

Move(t) ==
  /\ In(t, "moved")
  /\ allocations' = MarkReallocated(allocations, hook[t].ptr, hook[t].to)
  /\ Finish(t)
  /\ UNCHANGED <<heap, capacity, ended, history>>

\* it is a valid position of the vector, or its end.
ItValid(t) == ~hook[t].dangling /\ hook[t].it <= Len(allocations) + 1

AtEntry(t) == ItValid(t) /\ hook[t].it <= Len(allocations)

Collides(t) == Intersect(allocations[hook[t].it].memory, hook[t].new.memory)

Left(t) == Pieces(allocations, hook[t].it, hook[t].new)

\* The entry is clear of the new block: ++it.
TrackSkip(t) ==
  /\ In(t, "track") /\ AtEntry(t) /\ ~Collides(t)
  /\ hook' = [hook EXCEPT ![t].it = @ + 1]
  /\ UNCHANGED <<heap, allocations, capacity, ended, history>>

AssertFails(t) == Left(t) # <<>> /\ allocations[hook[t].it].status # "FREED"

\* A round that replaces an entry by its pieces and starts over.
TrackCut(t) ==
  /\ In(t, "track") /\ AtEntry(t) /\ Collides(t) /\ ~AssertFails(t)
  /\ Left(t) # <<>> => Len(allocations) + Len(Left(t)) <= capacity
  /\ allocations' = Cut(allocations, hook[t].it, hook[t].new)
  /\ hook' = [hook EXCEPT ![t].it = 1]
  /\ UNCHANGED <<heap, capacity, ended, history>>

End(how) ==
  /\ ended' = how
  /\ UNCHANGED <<heap, allocations, capacity, hook, history>>

\* ASSERT(it->status == FREED) calls __debugbreak(), which nobody handles.
TrackAsserts(t) ==
  In(t, "track") /\ AtEntry(t) /\ Collides(t) /\ AssertFails(t) /\ End("assert")

\* The pieces do not fit: emplace_back moves the vector, and the next use of it,
\* at the latest by erase(it), is of a freed buffer.
TrackGrowsUnderIterator(t) ==
  /\ In(t, "track") /\ AtEntry(t) /\ Collides(t) /\ ~AssertFails(t)
  /\ Left(t) # <<>> /\ Len(allocations) + Len(Left(t)) > capacity
  /\ End("undefined")

\* Another thread moved the vector, or left fewer entries than the loop passed.
TrackLosesIterator(t) ==
  In(t, "track") /\ ~ItValid(t) /\ End("undefined")

\* it == end(): the new block is appended.  A vector that moves leaves the
\* iterators of all other threads dangling.
TrackAppend(t) ==
  LET grows == Len(allocations) = capacity IN
  /\ In(t, "track") /\ ItValid(t) /\ hook[t].it = Len(allocations) + 1
  /\ allocations' = Append(allocations, hook[t].new)
  /\ capacity' = Grown(capacity, Len(allocations) + 1)
  /\ hook' = [u \in Threads |->
       IF u = t THEN Idle
       ELSE IF grows /\ hook[u].kind = "track"
            THEN [hook[u] EXCEPT !.dangling = TRUE] ELSE hook[u]]
  /\ UNCHANGED <<heap, ended, history>>

Update(t) ==
  \/ Mark(t) \/ Move(t)
  \/ TrackSkip(t) \/ TrackCut(t) \/ TrackAppend(t)
  \/ TrackAsserts(t) \/ TrackGrowsUnderIterator(t) \/ TrackLosesIterator(t)

Next ==
  \E t \in Threads :
    \/ Update(t)
    \/ FreeNull(t)
    \/ \E b \in Blocks : AgentMalloc(t, b)
    \/ \E b \in Blocks, site \in CallSites : Malloc(t, b, site) \/ ReallocNull(t, b, site)
    \/ \E size \in FailSizes, site \in CallSites : MallocFails(t, size, site)
    \/ \E h \in heap : Free(t, h)
    \/ \E h \in heap, b \in Blocks : Realloc(t, h, b)
    \/ \E h \in heap, size \in FailSizes : ReallocFails(t, h, size)

Spec == Init /\ [][Next]_vars

\* A thread inside a hook keeps running; nothing makes the target call one.
FairSpec == Spec /\ \A t \in Threads : WF_vars(Update(t))

-----------------------------------------------------------------------------
HeapBlock == [memory : Blocks, site : CallSites \cup {Agent}, tracked : BOOLEAN]

Tracked == [memory : [start : Nat, end : Nat], site : CallSites, status : Statuses]

\* What a hook has yet to do: track_new, mark_free or mark_reallocated.
Tracking == [kind : {"track"}, new : Tracked, it : Nat \ {0}, dangling : BOOLEAN]
Marking == [kind : {"mark"}, ptr : Nat, tracked : BOOLEAN]
Moving == [kind : {"moved"}, ptr : Nat, to : [start : Nat, end : Nat]]

TypeOK ==
  /\ heap \subseteq HeapBlock
  /\ allocations \in Seq(Tracked)
  /\ capacity \in Nat /\ Len(allocations) <= capacity
  /\ hook \in [Threads -> {Idle} \cup Tracking \cup Marking \cup Moving]
  /\ ended \in {"no", "assert", "undefined"}
  /\ history \subseteq Events

Addresses(b) == b.start .. b.end - 1

\* The live blocks the list should know.
Known == {h \in heap : h.tracked /\ Returned(h)}

\* As long as the target only calls malloc and free, one hook at a time, every
\* address of a live block leads to the one entry that describes it, also in
\* the middle of a cut; left-over pieces of freed blocks never get in the way.
LiveBlocksTracked ==
  history = {} => \A h \in Known : \A a \in Addresses(h.memory) :
    /\ Found(allocations, a)
    /\ allocations[Find(allocations, a)] = Allocation(h.memory, h.site, "ALLOCATED")

\* Under the same conditions no address is in two entries, so that find(), which
\* takes the first, cannot pick the wrong one.
EntriesDisjoint ==
  history = {} => \A i, j \in DOMAIN allocations : i # j =>
    Addresses(allocations[i].memory) \cap Addresses(allocations[j].memory) = {}

\* Under the same conditions the free of a tracked block is recorded, and is no
\* double or invalid free.
FreeRecorded ==
  history = {} => \A t \in Threads :
    hook[t].kind = "mark" /\ hook[t].tracked =>
      FreeStatus(allocations, hook[t].ptr) = "OK"

\* Under the same conditions ASSERT(it->status == FREED) in track_new holds: a
\* new block only ever cuts freed ones, however the heap splits and merges them.
AssertHolds == history = {} => ended # "assert"

\* With realloc too, each live block keeps an entry of its own that is not
\* freed, though find() may come to another one first.
LiveBlockHasEntry ==
  history \subseteq {"realloc"} => \A h \in Known : \E i \in DOMAIN allocations :
    allocations[i].memory = h.memory /\ allocations[i].status # "FREED"

\* The loop of track_new, which starts over after every cut, comes to an end.
TrackNewReturns ==
  \A t \in Threads :
    hook[t].kind = "track" ~>
      hook[t].kind # "track" \/ ended # "no" \/ "overlap" \in history

\* The entries that are still in the way of the new block of thread t.
InTheWay(t) ==
  {i \in DOMAIN allocations : Intersect(allocations[i].memory, hook[t].new.memory)}

LeavesRight(t) ==
  AtEntry(t) /\ RightCut(allocations[hook[t].it].memory, hook[t].new.memory) # <<>>

\* Why it does: starting over costs an entry that was in the way, and no piece
\* takes its place, unless a right one is left; any other round is a step on.
LoopAdvances ==
  [][\A t \in Threads :
       /\ hook[t].kind = "track" /\ hook'[t].kind = "track"
       /\ (\A u \in Threads \ {t} : hook[u] = Idle) /\ ~LeavesRight(t)
       => \/ UNCHANGED <<allocations, hook[t]>>
          \/ Cardinality(InTheWay(t)') < Cardinality(InTheWay(t))
          \/ InTheWay(t)' = InTheWay(t) /\ hook'[t].it > hook[t].it]_vars

\* "erase and start over to avoid issues with the iterator changing because of
\* the insert": the loop never uses an iterator the insert has invalidated.
IteratorSurvivesInsert == history = {} => ended # "undefined"

\* check_use_after_free never reports an argument that points into a live block.
LiveNotReported ==
  \A h \in Known : \A a \in Addresses(h.memory) : ~ReportsUseAfterFree(allocations, a)

-----------------------------------------------------------------------------
(***************************************************************************)
(* The list implements HeapShadow.  A new block counts from its malloc on,  *)
(* while the loop still makes room for it.                                  *)
(***************************************************************************)
Incoming == {hook[t].new.memory : t \in {u \in Threads : hook[u].kind = "track"}}

LiveMemory ==
  Incoming \cup {allocations[i].memory :
                 i \in {j \in DOMAIN allocations : allocations[j].status # "FREED"}}

FreedMemory ==
  {a \in UNION {Addresses(b) : b \in Blocks} : ReportsUseAfterFree(allocations, a)}
    \ UNION {Addresses(b) : b \in Incoming}

Shadow == INSTANCE HeapShadow
            WITH Ranges <- Blocks, live <- LiveMemory, freed <- FreedMemory

\* On any thread, as long as hooks do not overlap and the target calls malloc and
\* free only, every step of the hooks is one of the shadow or none: the list says
\* of an address that it was freed exactly when the last block it belonged to was.
FollowsShadow ==
  /\ Shadow!ShadowInit
  /\ [][history' = {} => [Shadow!ShadowNext]_Shadow!shadowVars]_vars

\* A target that can do nothing else implements the shadow.
ImplementsShadow == Shadow!ShadowSpec
=============================================================================
