-------------------------- MODULE AllocationTracker --------------------------
(***************************************************************************)
(* AllocationList (allocation_tracker.cpp): the vector of heap blocks the   *)
(* agent knows, and its operations as functions of the list.                *)
(* reallocation_sites is left out: nothing reads it.                        *)
(***************************************************************************)
EXTENDS MemoryBlock

Seqs == INSTANCE SequencesExt

Statuses == {"ALLOCATED", "REALLOCATED", "FREED"}

Allocation(memory, site, status) ==
  [memory |-> memory, site |-> site, status |-> status]

\* The position find() returns; Len(list) + 1 is allocations.end().
Find(list, ptr) ==
  CHOOSE i \in 1 .. Len(list) + 1 :
    /\ i <= Len(list) => Contains(list[i].memory, ptr)
    /\ \A j \in 1 .. i - 1 : ~Contains(list[j].memory, ptr)

Found(list, ptr) == Find(list, ptr) <= Len(list)

-----------------------------------------------------------------------------
\* What mark_free(ptr) returns ...
FreeStatus(list, ptr) ==
  IF ~Found(list, ptr) THEN "INVALID_FREE"
  ELSE IF list[Find(list, ptr)].status = "FREED" THEN "DOUBLE_FREE" ELSE "OK"

\* (slip) mark_free drops the entry.
ForgetFreed(list, ptr) ==
  IF FreeStatus(list, ptr) = "OK" THEN Seqs!RemoveAt(list, Find(list, ptr)) ELSE list

\* (slip) mark_free finds the entry and does not mark it.
MarkNothing(list, ptr) == list

\* ... and what it leaves behind.
MarkFree(list, ptr) ==
  IF FreeStatus(list, ptr) = "OK"
  THEN [list EXCEPT ![Find(list, ptr)].status = "FREED"] ELSE list

\* (slip) the entry keeps the old range.
MarkReallocatedInPlace(list, ptr, memory) ==
  IF Found(list, ptr)
  THEN [list EXCEPT ![Find(list, ptr)].status = "REALLOCATED"] ELSE list

\* The entry moves to the new block; what it covered before is forgotten.
MarkReallocated(list, ptr, memory) ==
  IF Found(list, ptr)
  THEN [list EXCEPT ![Find(list, ptr)] =
          [@ EXCEPT !.status = "REALLOCATED", !.memory = memory]]
  ELSE list

-----------------------------------------------------------------------------
\* The entries one round of track_new puts in place of entry i: copies of it,
\* each with one of the pieces the new block leaves.
Pieces(list, i, new) ==
  LET cuts == Cuts(list[i].memory, new.memory) IN
  [k \in DOMAIN cuts |-> [list[i] EXCEPT !.memory = cuts[k]]]

\* (slip) the entry stays beside its pieces.
KeepCut(list, i, new) == list \o Pieces(list, i, new)

\* They are appended, then entry i is erased.
Cut(list, i, new) == Seqs!RemoveAt(list \o Pieces(list, i, new), i)

\* (slip) a small vector does not grow.
GrownByHalf(capacity, size) ==
  IF size <= capacity THEN capacity ELSE capacity + capacity \div 2

\* The capacity of the vector once it has grown to size entries.
Grown(capacity, size) ==
  IF size <= capacity THEN capacity
  ELSE IF capacity \div 2 > 0 THEN capacity + capacity \div 2 ELSE size

-----------------------------------------------------------------------------
\* check_use_after_free on an argument: it prints "Detected Use-after-free".
ReportsUseAfterFree(list, arg) ==
  Found(list, arg) /\ list[Find(list, arg)].status = "FREED"
=============================================================================
