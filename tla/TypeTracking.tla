----------------------------- MODULE TypeTracking -----------------------------
(***************************************************************************)
(* What the agent records while the program runs: the callback configure()  *)
(* installs, as the breakpoint handler calls it on any thread, notes the    *)
(* callers of a dynamic function and the types its arguments point to       *)
(* (track_dynamic_dispatch, track_type_usage); exfiltrate_all writes all of *)
(* it down when the agent is detached.  Nothing is locked: a list is read   *)
(* and written in two steps.                                                *)
(*                                                                         *)
(* A type is known by the address its vtable starts at, a function by its   *)
(* start.  check_use_after_free only prints (AllocationTracker).            *)
(***************************************************************************)
EXTENDS Discovery

CONSTANTS
  Threads,
  Allocations,  \* the blocks in the allocation list, freed ones included
  Words,        \* what a word of the heap may hold; Null where no memory is left
  Registers,    \* RCX, RDX, R8 and R9 at a call
  Callers,      \* return addresses
  Called,       \* bound: the functions that are called
  MaxHits,      \* bound: calls of instrumented functions
  MaxWrites     \* bound: changes of the heap

Params == 0 .. 3    \* parameter_count is unknown of every function: four

ASSUME TrackingAssumption ==
  /\ Allocations \subseteq [start : Nat, end : Nat]
  /\ Null \in Words /\ Words \subseteq Nat
  /\ Registers \subseteq [Params -> Nat] /\ Callers \subseteq Nat
  /\ MaxHits \in Nat /\ MaxWrites \in Nat

VARIABLES
  heap,         \* the words of the allocations
  hits, writes, \* so far
  pc, local,    \* a thread, and what its callback works with
  nodes,        \* the TypeUsage nodes ever allocated
  usage,        \* the list of nodes of each type
  calledFrom,   \* called_from of all functions: pairs of a function and a caller
  log,          \* what was written to tyrecon.log
  ended,        \* whether it was
  observed,     \* history: what the callbacks came to know
  raced         \* the lists that two threads worked on at once

targetVars == <<heap, hits, writes>>
recordVars == <<nodes, usage, calledFrom>>
logVars == <<log, ended>>
historyVars == <<observed, raced>>
monitorVars == <<targetVars, pc, local, recordVars, logVars, historyVars>>
vars == <<discoveryVars, monitorVars>>

NoCall == [fn |-> Null, args |-> [p \in Params |-> Null], from |-> Null, param |-> 0,
           vtable |-> Null, node |-> 0, list |-> <<>>, bits |-> {}, callers |-> {}]

HeapAddresses == UNION {b.start .. (b.end - 1) : b \in Allocations}

Init ==
  /\ DiscoveryInit
  /\ heap \in [HeapAddresses -> Words \ {Null}] /\ hits = 0 /\ writes = 0
  /\ pc = [t \in Threads |-> "out"] /\ local = [t \in Threads |-> NoCall]
  /\ nodes = <<>> /\ usage = [v \in Words |-> <<>>] /\ calledFrom = {}
  /\ log = {} /\ ended = "no"
  /\ observed = {} /\ raced = {}

-----------------------------------------------------------------------------
(***************************************************************************)
(* The callback.                                                            *)
(***************************************************************************)
Running(t, where) == ended = "no" /\ pc[t] = where

Inserting(t) == pc[t] = "insert"

Marking(t) == pc[t] \in {"emplace", "link", "read", "or"}

Go(t, where, new) ==
  pc' = [pc EXCEPT ![t] = where] /\ local' = [local EXCEPT ![t] = new]

\* A thread calls an instrumented function; find_function(ctx.rip()).
Hit(t, i, registers, from) ==
  /\ Running(t, "out") /\ stage = "done" /\ hits < MaxHits
  /\ functions[i].start \in Called /\ Contains(image.text, functions[i].start)
  /\ LET fn == functions[FindFunction(functions[i].start)] IN
       Go(t, IF fn.dynamic THEN "dispatch" ELSE "params",
          [NoCall EXCEPT !.fn = fn.start, !.args = registers, !.from = from])
  /\ hits' = hits + 1
  /\ UNCHANGED <<discoveryVars, heap, writes, recordVars, logVars, historyVars>>

\* Another thread works on the same list.
Contended(t, list) ==
  IF \E u \in Threads \ {t} : \/ Inserting(u) /\ local[u].fn = list
                              \/ Marking(u) /\ local[u].vtable = list
  THEN {list} ELSE {}

\* track_dynamic_dispatch: called_from is searched for the place ...
Dispatch(t) ==
  LET l == local[t] IN
  /\ Running(t, "dispatch")
  /\ Go(t, "insert", [l EXCEPT !.callers = {c \in calledFrom : c[1] = l.fn}])
  /\ observed' = observed \cup {<<l.fn, l.from>>}
  /\ raced' = raced \cup Contended(t, l.fn)
  /\ UNCHANGED <<discoveryVars, targetVars, recordVars, logVars>>

\* ... and the caller inserted there.
Insert(t) ==
  LET l == local[t] IN
  /\ Running(t, "insert") /\ Go(t, "params", [l EXCEPT !.callers = {}])
  /\ calledFrom' = {c \in calledFrom : c[1] # l.fn} \cup l.callers \cup {<<l.fn, l.from>>}
  /\ UNCHANGED <<discoveryVars, targetVars, nodes, usage, logVars, historyVars>>

AtParam(t) == Running(t, "params") /\ local[t].param \in Params

\* get_arg
Arg(t) == local[t].args[local[t].param]

\* lookup_alloc; the status of the block is not looked at.
Known(p) == \E b \in Allocations : Contains(b, p)

HasType(v) == v # Null /\ \E k \in DOMAIN types : types[k].vtable.start = v

NextParam(t) ==
  Go(t, "params", [local[t] EXCEPT !.param = @ + 1, !.vtable = Null, !.node = 0,
                                   !.list = <<>>, !.bits = {}])

SkipParam(t) ==
  /\ AtParam(t) /\ NextParam(t)
  /\ Known(Arg(t)) => heap[Arg(t)] # Null /\ ~HasType(heap[Arg(t)])
  /\ UNCHANGED <<discoveryVars, targetVars, recordVars, logVars, historyVars>>

\* The memory of a freed block is gone: veh_handler repeats the access for ever.
ReadFaults(t) ==
  /\ AtParam(t) /\ Known(Arg(t)) /\ heap[Arg(t)] = Null
  /\ Go(t, "faulting", local[t])
  /\ UNCHANGED <<discoveryVars, targetVars, recordVars, logVars, historyVars>>

\* (slip) the first entry is taken, whichever function it is of.
FindAnyUse(vtable, fn) == IF usage[vtable] = <<>> THEN 0 ELSE usage[vtable][1]

\* mark_used: the first entry of the function, or none.
FindUse(vtable, fn) ==
  LET found == {i \in DOMAIN usage[vtable] : nodes[usage[vtable][i]].fn = fn}
  IN  IF found = {} THEN 0 ELSE usage[vtable][Min(found)]

\* The word is a vtable; mark_used looks for the function.
Match(t) ==
  LET l == local[t]
      v == heap[Arg(t)]
      node == FindUse(v, l.fn)
  IN  /\ AtParam(t) /\ Known(Arg(t)) /\ HasType(v)
      /\ Go(t, IF node = 0 THEN "emplace" ELSE "read", [l EXCEPT !.vtable = v, !.node = node])
      /\ observed' = observed \cup {<<v, l.fn, l.param>>}
      /\ raced' = raced \cup Contended(t, v)
      /\ UNCHANGED <<discoveryVars, targetVars, recordVars, logVars>>

\* emplace_back: a node behind the last one ...
Emplace(t) ==
  LET l == local[t] IN
  /\ Running(t, "emplace")
  /\ nodes' = Append(nodes, [vtable |-> l.vtable, fn |-> l.fn, bits |-> {l.param}])
  /\ Go(t, "link", [l EXCEPT !.node = Len(nodes) + 1, !.list = usage[l.vtable]])
  /\ UNCHANGED <<discoveryVars, targetVars, usage, calledFrom, logVars, historyVars>>

\* ... is linked to it: of two threads that read the same end one loses its node.
Link(t) ==
  LET l == local[t] IN
  /\ Running(t, "link") /\ NextParam(t)
  /\ usage' = [usage EXCEPT ![l.vtable] = Append(l.list, l.node)]
  /\ UNCHANGED <<discoveryVars, targetVars, nodes, calledFrom, logVars, historyVars>>

\* parameter_bits |= index_bit, which is no atomic operation.
ReadBits(t) ==
  /\ Running(t, "read")
  /\ Go(t, "or", [local[t] EXCEPT !.bits = nodes[local[t].node].bits])
  /\ UNCHANGED <<discoveryVars, targetVars, recordVars, logVars, historyVars>>

\* (slip) the bit replaces the others.
AssignBit(t) ==
  LET l == local[t] IN
  /\ Running(t, "or") /\ NextParam(t)
  /\ nodes' = [nodes EXCEPT ![l.node].bits = {l.param}]
  /\ UNCHANGED <<discoveryVars, targetVars, usage, calledFrom, logVars, historyVars>>

OrBit(t) ==
  LET l == local[t] IN
  /\ Running(t, "or") /\ NextParam(t)
  /\ nodes' = [nodes EXCEPT ![l.node].bits = l.bits \cup {l.param}]
  /\ UNCHANGED <<discoveryVars, targetVars, usage, calledFrom, logVars, historyVars>>

\* From then on such a list may end, or such a tree have a branch, where no search
\* comes any more: what is added there is lost as well.
AddLost(t) ==
  /\ \/ Running(t, "insert") /\ local[t].fn \in raced
        /\ Go(t, "params", [local[t] EXCEPT !.callers = {}])
     \/ Running(t, "link") /\ local[t].vtable \in raced /\ NextParam(t)
  /\ UNCHANGED <<discoveryVars, targetVars, recordVars, logVars, historyVars>>

Return(t) ==
  /\ Running(t, "params") /\ local[t].param \notin Params
  /\ Go(t, "out", NoCall)
  /\ UNCHANGED <<discoveryVars, targetVars, recordVars, logVars, historyVars>>

Callback(t) ==
  \/ \E i \in DOMAIN functions, r \in Registers, from \in Callers : Hit(t, i, r, from)
  \/ Dispatch(t) \/ Insert(t) \/ SkipParam(t) \/ ReadFaults(t) \/ Match(t)
  \/ Emplace(t) \/ Link(t) \/ AddLost(t) \/ ReadBits(t) \/ OrBit(t) \/ Return(t)

-----------------------------------------------------------------------------
\* The target constructs, destroys or frees an object, and its memory may go.
Write(a, w) ==
  /\ ended = "no" /\ stage = "done" /\ writes < MaxWrites /\ heap[a] # w
  /\ heap' = [heap EXCEPT ![a] = w] /\ writes' = writes + 1
  /\ UNCHANGED <<discoveryVars, hits, pc, local, recordVars, logVars, historyVars>>

\* The nodes in the list of a type.
Listed(v) == {usage[v][i] : i \in DOMAIN usage[v]}

\* What exfiltrate_all prints under "Passed into:".
UsesOf(v) == UNION {{<<v, nodes[n].fn, p>> : p \in nodes[n].bits} : n \in Listed(v)}
Uses == UNION {UsesOf(v) : v \in Words}

LongName == \E k \in DOMAIN types : types[k].name = "long"

\* DLL_PROCESS_DETACH: by then the other threads were ended wherever they were.
Detach ==
  /\ ended = "no" /\ stage = "done" /\ \E t \in Threads : pc[t] = "out"
  /\ ~LongName
  /\ log' = Uses \cup calledFrom /\ ended' = "written"
  /\ UNCHANGED <<discoveryVars, targetVars, pc, local, recordVars, historyVars>>

\* A demangled name that println has no room for ends the process before the
\* file is written.
DetachFails ==
  /\ ended = "no" /\ stage = "done" /\ \E t \in Threads : pc[t] = "out"
  /\ LongName
  /\ ended' = "lost"
  /\ UNCHANGED <<discoveryVars, targetVars, pc, local, recordVars, log, historyVars>>

Next ==
  \/ Discover /\ UNCHANGED monitorVars
  \/ \E t \in Threads : Callback(t)
  \/ \E a \in HeapAddresses, w \in Words : Write(a, w)
  \/ Detach \/ DetachFails

Spec == Init /\ [][Next]_vars

-----------------------------------------------------------------------------
Places == {"out", "dispatch", "insert", "params", "emplace", "link", "read", "or", "faulting"}

Node == [vtable : Words, fn : Nat, bits : SUBSET Params]

Local == [fn : Nat, args : [Params -> Nat], from : Nat, param : 0 .. 4, vtable : Words,
          node : Nat, list : Seq(Nat), bits : SUBSET Params, callers : SUBSET (Nat \X Nat)]

TypeOK ==
  /\ DiscoveryTypeOK
  /\ heap \in [HeapAddresses -> Words]
  /\ pc \in [Threads -> Places]
  /\ local \in [Threads -> Local]
  /\ nodes \in Seq(Node)
  /\ usage \in [Words -> Seq(Nat)]
  /\ calledFrom \subseteq Nat \X Nat
  /\ ended \in {"no", "written", "lost"}

\* What is recorded was seen: whatever threads do to the lists at once, no type
\* is noted for a function or a parameter it was not passed to, no caller for a
\* function it did not call, and each printed entry has a parameter (the first
\* character of none is skipped).
RecordsTrue ==
  /\ Uses \cup calledFrom \subseteq observed
  /\ \A v \in Words : \A n \in Listed(v) : nodes[n].bits # {}

\* A callback that has not come to the end of its entry yet.
Unfinished(o) == \E t \in Threads :
  \/ Inserting(t) /\ o = <<local[t].fn, local[t].from>>
  \/ Marking(t) /\ o = <<local[t].vtable, local[t].fn, local[t].param>>

\* The log has all that was seen of a type or of a function's callers, unless two
\* threads worked on that very list at the same time.
LogComplete ==
  ended = "written" =>
    \A o \in observed : o[1] \in raced \/ Unfinished(o) \/ o \in log
=============================================================================
