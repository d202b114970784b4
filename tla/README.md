# TLA+ specifications of tyrecon

tyrecon finds out how the heap blocks and the types of a Windows program are used
while it runs. A launcher (the *installer*) injects `win_agent.dll` into a process.
There the *agent* looks for all functions, hooks `malloc`, `free` and `realloc`, puts
an `INT3` on the first instruction of every function and observes each call from
a vectored exception handler.

This directory holds

- TLA+ modules of the installer and of the agent: how it gets into a process, what it
  finds there, and the parts in which several threads, or a long history of calls,
  meet shared state;
- TLC configurations that check them on small instances;
- TLAPS proofs of invariants for all values of the constants;
- `PROJECT.json`, which lists components, runs, mutants, findings, hazards and
  theorems, and says for every definition which lines of the source it stands for.

```
tlasany M.tla                      parse a module
tlc -workers 2 -config X.cfg M     check an instance (the runs below)
tlapm M_proofs.tla                 check the proofs
```

Paths below are relative to `src/`.

## 1. Inventory

### The system and how its parts interact

```
 installer ── CreateProcess(suspended) / OpenProcess, LoadLibrary, remote thread ──┐
     │  static: waits for the agent thread, then resumes the process               │
     ▼                                                                             ▼
 ┌── target process ──────────────────────────────────────────────────────────────────┐
 │ agent thread: configure()                                                          │
 │    find_functions ─► find_rtti ─► install_crt_replacements ─► instrument each      │
 │                                        │  function ─► set the callback             │
 │ target threads:                        │                                           │
 │    f() ─ INT3 ─► veh_handler ─► callback (type tracking, use-after-free check)     │
 │                      └► disable(), single step, enable()         ▲                 │
 │    malloc/free/realloc ─► hook ─► C library ─► AllocationList ───┘ reads           │
 └────────────────────────────────────────────────────────────────────────────────────┘
```

Everything the agent keeps is global and used by all threads of the target.
There is no lock in the program (`win_agent/allocation_tracking/allocation_tracker.hpp:26`
has "TODO: add lock").

| component | state | operations | status |
|---|---|---|---|
| Breakpoints: exception handler, fault inducer (`win_agent/instrumentation/veh.cpp`, `fault_inducer.*`) | code bytes and page protections of the target; `instrumented_instructions` with the saved protection; per thread `singlestep_callbacks` and the trap flag | `install`, `enable`, `disable`, `find_code_instrumentation`, `veh_handler` | partly |
| Configuration (`win_agent/configuration`, `plat_init.cpp`) | the callback | `configure`, attach and detach of the DLL | partly |
| Installer (`win_agent/installer`, `parameterized_load.hpp`) | suspended or running target, the remote thread | `main`, `perform_static_init`, `perform_dynamic_init`, both `load`s, the shellcode | modelled |
| Allocation tracker (`win_agent/allocation_tracking/allocation_tracker.*`, `track_usage.cpp`) | `allocations`, a vector of (block, call site, status) | `track_new`, `mark_free`, `mark_reallocated`, `find`, `check_use_after_free` | partly |
| Hooks of the C library (`crt_instrumentation.cpp`) | none of their own | the hooks of `malloc`, `free`, `realloc` | partly |
| Memory blocks (`shared/memory_block.hpp`) | — | `contains`, `intersect`, `from_intersection` | modelled |
| Function replacement (`function_replacement.*`) | the code buffer and its stubs; the first bytes of the replaced functions | `replace_function`, `reserve_aligned`, `revert_allocation` | modelled |
| Function finder (`win_agent/function_finder`, `disassembler`) | `g_functions`, `called_from` | `.pdata` walk, leaf functions, `process_functions`, `find_function`, `track_dynamic_dispatch` | modelled |
| RTTI analyzer (`win_agent/rtti`, `shared/rva.hpp`) | tables found, `dynamic_dispatch` | `find_pointer_tables`, `find_rtti` | modelled |
| Type tracking (`win_agent/type_tracking`) | types, their uses, parameter bits | `discover_rtti`, `discover_vtable`, `track_type_usage`, `mark_used` | partly: `discover_usage` has no caller |
| Exfiltration (`win_agent/exfiltration`) | the log | `exfiltrate_all`, `println` | partly: what is written, not how |
| Remote process (`win_agent/process`) | suspend counts, remote memory | `start_suspended_process`, `get_handle_to_remote`, `for_all_threads`, `alloc`, `push` | partly: the rest has no caller |
| Argument parser (`shared/argparse.hpp`) | — | `parse_arg` | modelled |
| Execution context (`execution_context.*`), stack walk | — | `get_arg`, `return_address` | partly: the inputs of a callback; the stack walker has no caller |
| Module parser (`win_agent/module`) | PE headers | read once | not modelled: a pure reader of a format Windows has validated |
| Small helpers, test program | — | — | not modelled: unused, or not part of the tool |

### What is hard, and what makes each part correct

- **Breakpoints.** Taking a breakpoint out and putting it back is four operations
  each (make the page writable, save its protection, store a byte, restore the
  protection), by any number of threads, on pages that several breakpoints share, with
  one saved protection per breakpoint that all threads overwrite. Correct means: no
  interleaving loses a breakpoint for good; an `INT3` of the agent is never mistaken
  for one of the target's; every call is observed, once; pages end as protected as
  they were; the handler always returns; nobody follows a pointer into a vector that
  has grown since.
- **Configuration and installer.** Which of the above may happen while the agent is
  still arming functions depends on the mode: a process the installer *starts* is held
  until the agent thread has ended, a *running* one goes on.
- **Allocation list.** Correct means: at any time the entries say of each address
  whether it belongs to a live or a freed block, whatever history of mallocs and
  frees led there. That takes cutting freed entries whenever the heap reuses part of
  them, in a loop that edits the vector it iterates over. `track_new` has to end,
  its assertion has to hold, and its iterator to stay valid.
- **Hooks.** The C library is called first, the list updated after it; between the two
  other threads run.

- **Installer and function replacement.** A started process must be released, whatever
  call fails on the way, and not before the agent thread has stopped writing to its
  code: the jump over a function's first bytes is not one store. Copied instructions
  have to do what the originals did, the stubs must not overlap, and a hook that is
  reached must know its original. A command line in any order means what it says.
- **Discovery.** No function is listed twice or inside another one (a second breakpoint
  would save the first one's `INT3`); the tables are the longest runs of pointers, each
  once, to their ends; the dynamic functions are those the tables name.
- **Type tracking.** Callbacks on any thread search and extend the same lists without a
  lock. Correct means: nothing is recorded that no callback saw, and nothing is
  missing from the log but for lists that two threads worked on at once.

`hazards` in `PROJECT.json` lists these one by one, with the line where each bites and
the properties that are about it, or the reason why there is none yet.

## 2. Modules

| module | content |
|---|---|
| `MemoryBlock` | blocks `[start, end)`, the collision test, the pieces a cut leaves |
| `AllocationTracker` | the operations of `AllocationList` as functions of the list |
| `CrtHooks` | the state machine: a heap, the list and its vector's capacity, threads in hooks |
| `HeapShadow` | abstract specification: live blocks and freed addresses |
| `Breakpoints` | the state machine of agent thread, target threads, handlers |
| `Trampoline` | `replace_function` and `install_crt_replacements`, and a thread that calls such a function |
| `Arguments` | `parse_arg` and `main` as functions of the command line |
| `Attach` | the state machine of installer, remote thread and target, with every call that may be refused |
| `Launch` | abstract specification: the target's threads and the writing to its code |
| `Discovery` | from an image to the lists of functions and of types |
| `TypeTracking` | the callbacks of all threads on the lists they share, and the log |
| `MCCrtHooks`, `MCBreakpoints`, `MCAttach`, `MCTypeTracking` | instances for TLC |
| `MemoryBlock_proofs`, `CrtHooks_proofs`, `Breakpoints_proofs`, `Attach_proofs`, `TypeTracking_proofs` | theorems |
| `OneCaller_proofs` | theorems on `Breakpoints` for a started process, most of them while one thread makes calls; extends `Breakpoints_proofs` |
| `Completeness_proofs` | theorems on what `Discovery` finds and `TypeTracking` keeps; extends `TypeTracking_proofs` |

`AllocationTracker` extends `MemoryBlock`, `CrtHooks` extends `AllocationTracker` and
instantiates `HeapShadow` with a refinement mapping. `Attach` composes `Trampoline` (the
remote thread installs the hooks while the target's threads may run) and `Arguments`;
`Attach` also instantiates `Launch`. `TypeTracking` extends `Discovery`,
whose result is what its callbacks look things up in. Operators whose comment starts
with `(slip)` are not part of any model: each is a plausible mistake in one
definition, and `PROJECT.json` ("mutants") names the property that notices it.

### Breakpoints

| state | in the code |
|---|---|
| `code`, `prot` | the byte at each function's first instruction; the protection of each page |
| `instrumented`, `capacity` | `instrumented_instructions` and the capacity of that vector |
| `originalProtection` | the field of that name in the vector's entries |
| `loader`, `todo`, `callbackSet` | where `configure()` is; what its loop has left; the callback |
| `pc`, `at`, `step`, `old` | where a thread is, at which function, how far in `enable`/`disable`, what its last `VirtualProtect` found |
| `pending` | length of the thread's `singlestep_callbacks`. The trap flag is set exactly while it is not empty, so one variable stands for both |
| `stale` | which of the thread's `CodeInstrumentation` pointers a growing vector has left dangling |
| `observed`, `calls` | counters for the properties and the bound |

Every `VirtualProtect` and every store is a step of its own, and so is the write of
the old protection through `VirtualProtect`'s out-parameter, which happens after the
page has changed. `instrument()` arms its local copy, so what the agent saves there
stays in that copy (`AgentProtect` restores `old[Agent]`), whereas handlers save into
the shared entry. A store to a page that is not writable faults; `veh_handler`
answers an access violation with `EXCEPTION_CONTINUE_EXECUTION` and repairs nothing,
so the store is simply tried again: `Write` is disabled until the page is
writable. `install()` refuses a page that is not `PAGE_EXECUTE` or
`PAGE_EXECUTE_READ` at this moment (`InstallRefused`), and `configure()` ignores that.

The vector has no lock, and `emplace_back` and `find_code_instrumentation` are two steps
each. With room left, `Emplace` stores the entry at once. A full vector is copied to larger
storage and the old storage freed (`Emplace`); only then are the vector's own pointers
set to the new one (`Swap`), with `loader = "swap"` in between. A thread that
meets an `INT3` reads `begin()` and `end()` (`Trap`) and searches between them later. What
it has read is freed storage if it trapped in between, or if the vector moved while it
searched (`stale`). The search then has three outcomes: it meets the entry, which freed
storage may still hold (`Found`); it misses it, `veh_handler` returns
`EXCEPTION_CONTINUE_SEARCH`, nobody else handles the exception and the target ends
(`Missed`); or anything else happens (`UseDangling`).

Installing the hooks is an outcome here, `HooksInstalled` or `HooksFailed`; how it comes
about is the subject of `Trampoline`.
`ForeignTrap` is an `INT3` of the target's own code, which ends the process.

### CrtHooks

| state | in the code |
|---|---|
| `heap` | the live blocks of the C library's heap, with the caller of `malloc`. *External*: modelled by what it promises |
| `allocations`, `capacity` | the list, the capacity of its vector |
| `hook` | per thread: nothing, `track_new` with its iterator, `mark_free`, or `mark_reallocated` to come |
| `ended` | the assertion failed, or the behaviour is undefined from here on |
| `history` | whether two hooks have overlapped, `realloc` was called, a request was refused. Not in the code; the properties make allowance for these |

The heap returns any block of `Blocks` that keeps `Header` addresses of distance to
the live ones: every block of an NT heap is preceded by a header, so two live blocks
are never adjacent. The collision test counts adjacency as a collision, so this
matters, and the proofs state it as their assumption (`Header > 0`).

Each hook is two steps or more: the call of the C library, then the update of the
list. One round of the loop in `track_new` is one step (`TrackSkip`, `TrackCut`,
`TrackAppend`), so that other threads run between two rounds. A vector without room
moves: `cap + cap/2` as the MSVC library does it, and exactly the needed size where
half of the capacity is none. If that happens in the midst of a cut,
`erase(it)` uses an iterator into the old buffer (`TrackGrowsUnderIterator`); if
another thread does it, the thread's iterator dangles (`TrackLosesIterator`).
`ASSERT` calls `__debugbreak`, which nobody handles: the process ends
(`TrackAsserts`). A request that fails returns NULL and is tracked all the same
(`MallocFails`, `ReallocFails`). `malloc` called by the agent itself is not tracked,
while its `free` goes through the list (`AgentMalloc`, `Free`). `reallocation_sites`
is left out because nothing reads it.

### HeapShadow

What the use-after-free check relies on: the set of live blocks and the set of
addresses that were freed and not reused. `malloc` takes a block that overlaps no
live one and removes its addresses from the freed ones, `free` adds the block's
addresses to them. `CrtHooks` follows it (`FollowsShadow`) for as long as hooks do not
overlap and the target calls `malloc` and `free` only, under the mapping `LiveMemory`,
`FreedMemory`: an entry that is not freed is a live block, an address on which
`check_use_after_free` would report is a freed one. A new block counts from its
`malloc` on, so the rounds of `track_new` that cut entries are stuttering steps.

### Trampoline and Attach

| state | in the code |
|---|---|
| `prologue` | what the disassembler and the encoder say of a function's first instructions: a length, and the length it is re-encoded to, if it is. *External* |
| `phase`, `pos`, `decoded`, `copyLen`, `encoded`, `assembled` | where `replace_function` is, for which of the hooks; `to_encode`, `copy_len`, `assembled` |
| `reserved`, `lastReserved` | the fields of `CodeBuffer` |
| `stub`, `entry`, `jmpTarget`, `replacements` | what was built, the first bytes of each function, `*jmp_target`, the stored `FunctionReplacement`s |
| `pc`, `at`, `next`, `offset` | a thread of the target, in a function, its hook or its copy; "wild" is where it executes bytes that are no instruction |
| `line`, `request`, `installer` | the command line, what `main` makes of it, where the installer is |
| `target`, `pushed`, `remote`, `suspend` | the process, whether its memory was written, the thread the installer started there, suspend counts |
| `snapshot`, `refused` | what is left of `for_all_threads`; whether the system denied it something |

An `AbsoluteJmp` of 14 bytes takes two stores (`Patch`, `PatchRest`), and a thread that
is among those bytes executes the middle of it (`RunTorn`). The copied code is sound
only if re-encoding left every length as it was: the jump back leads to
`fn + assembled` and stands at `buf + copy_len`. The stub of a push with a redundant
prefix (`40 53`, which compilers do emit) becomes one byte shorter, and a function of
less than 14 bytes that is followed by undecodable data is patched beyond its end; both
are among `MCPrologues`, and `OriginalReached` leaves out just these. Where memory could
not be had or made writable nobody looks, and the store faults for ever
(`StoreFaults`). Every call of the installer may be refused. `perform_static_init`
ignores what `load()` returns (`Loaded`), so that the target is resumed all the same.
With `-p`, the remote thread runs the page even if nothing was written there
(`RunsZeroes`).

`parse_arg` reads an option only if there is room for all its values, the optional ones
too: `-s program` at the end of a line is not given, and no message says so.
`DocumentedLineAccepted` is about lines with all values that `print_usage` lists. A token
is an option with or without its dashes, so that a value called like an option (a program
named `d`) is read as one.

### Discovery and TypeTracking

| state | in the code |
|---|---|
| `image` | the sections, the `.pdata` entries, where instructions decode and where calls lead, the words of `.rdata`. *External* |
| `stage`, `pos`, `offset`, `addr` | which loop `find_functions` or `find_rtti` is in, and where |
| `functions`, `leaves`, `tables`, `types` | `g_functions`, `leaf_functions`, `tables`, `global_typelist` |
| `heap` | the words of the blocks in the allocation list; `Null` where the memory is gone |
| `pc`, `local` | a callback: the function, the arguments, the parameter it is at, and what it has read of a list but not written back |
| `nodes`, `usage`, `calledFrom` | the `TypeUsage` nodes, the list of each type, the `called_from` sets |
| `log`, `ended` | `tyrecon.log` |
| `observed`, `raced` | what callbacks came to know (history); the lists two threads worked on at once |

`emplace_back` on a list, `emplace` on a set and `|=` on the bits are a read and a write
each, and other threads run in between. What comes of a race on a container of the
library is undefined; the outcomes modelled are that either insertion is lost, and that
what is added to such a list later is lost too (`AddLost`), because it hangs on a node
nobody reaches. A corrupted tree may also end the process, after which nothing is
recorded. `lookup_alloc` does not look at the status: a freed block is found like any
other, and where its memory is gone the read is repeated for ever (`ReadFaults`).
When the DLL is detached the other threads have been ended wherever they were.

A call through a pointer (`call [rip+x]`) makes the address of the *pointer* a leaf
function; it is dropped only if it does not decode. The scan for tables stops at
`end - 8`, so that the last slot of a section whose size is a multiple of eight is not
looked at: `Scanned`, the slots the code looks at, says so. The properties do not use it.
`LongestTables` are the longest runs of pointers of the whole section. `TypesExact` says
what comes of each: all of it, but for a slot that ends with the section. `TablesComplete`
asks for that slot too, and is violated.

### Launch

What the installer promises about the target's own threads: a started process is
released only when the agent thread no longer writes to its code, and a running one
is not held. `Attach` implements it, with the installation of the hooks as the writing.

## 3. Runs

| run | instance | what it shows |
|---|---|---|
| `bp_static` | started suspended; 2 threads, 2 functions on one code page, 1 candidate on a data page, 2 calls each, and `INT3`s of the target's own | `NoDanglingUse`, `EveryFunctionArmed`; `TargetResumed`: the target gets to run. While only one thread has made calls: `ObservedOnce`, `ProtectionRestored`, `WriteAllowed`, `HandlerReturns` and, step by step, `HandlerAdvances` |
| `bp_attach` | attached: the same with running threads | with the agent at work among the handlers: `TrapsFound` (every `INT3` has its entry), `RearmOwed` (no breakpoint is lost), `NoMissedCall` (with any number of callers, a call is missed only while another thread steps over the same breakpoint) and `OwnProtection` (no page gets a protection that is not its own) |
| `bp_lost` | attached, 2 functions on one page, no `INT3` of the target's own | **violated** `AgentTrapsHandled` |
| `bp_livelock` | 2 threads, 2 breakpoints on one page | **violated** `BreakpointRestored` |
| `bp_skipped` | attached, 2 functions on one page | **violated** `EveryFunctionArmed` |
| `injection` | all lines of up to 3 options out of 10 (complete, incomplete, any order), 2 functions of 6 shapes, 1 thread of the target, 1 of another program | `StubsApart`, `HookFindsOriginal`, `OriginalReached`, `DocumentedLineAccepted`, `TargetReleased` (whatever fails, no started process is left suspended) and its safety half `NoneLeftSuspended`, `ImplementsLaunch` |
| `monitor` | 5 images, 2 threads, 2 calls, one object whose words change once | `FunctionsApart`, `TypesExact`, `RecordsTrue`, `LogComplete` |
| `monitor_tables` | the same | **violated** `TablesComplete` |
| `alloc_list` | 2 threads, `malloc`, `free` and `realloc`, refused requests, the agent's own calls; 5 blocks that include, precede and follow each other, lists of up to 6 entries | with `malloc` and `free`, one hook at a time: `LiveBlocksTracked`, `EntriesDisjoint`, `FreeRecorded`, `AssertHolds`, `FollowsShadow`; with `realloc` too: `LiveBlockHasEntry`; whatever has happened: `TypeOK` and, while no other hook is at work, `LoopAdvances`: each round of `track_new` that leaves no right piece brings its end nearer |
| `alloc_hang` | a large block, two small ones in its place | **violated** `TrackNewReturns` |
| `alloc_iterator` | the same | **violated** `IteratorSurvivesInsert` |
| `alloc_race` | 2 threads, 1 block | **violated** `LiveNotReported` |

### Bounds, and why they are enough

- *Two threads.* Handlers interact through one byte, one page or one saved protection;
  each of them is overwritten as a whole, and two writers already overlap in every
  order. The invariants are proved for any number (section 5).
- *Three sites on two pages.* Two share a page, which is where protections collide;
  the third is on a data page and is refused.
- *`MaxCalls`.* Two calls per thread: a second call finds what the first has left
  behind, in the same function or another.
- *`Blocks`.* `SplitBlocks` has a large block, one in its middle, a suffix of it, and two
  apart from it: cut out of a freed block, these leave a piece on the left, on both sides,
  or none, and a block may cover several pieces of others. `ShrinkBlocks`
  is the smallest heap in which a right piece is left.
- *`MaxEntries`.* A hook starts only while the list is shorter. Entries of freed blocks
  are never dropped in the code and the list grows without end, so some bound is
  needed, and it depends on what has happened. As long as the target keeps to
  `malloc` and `free`, one hook at a time, the bound of `alloc_list` is 6, which its blocks
  never reach: all lists are explored. With `realloc` it is 4: a vector
  has room for the left piece of a cut, so that the loop starts over past it with another
  entry in the way; up to three entries are in the way at once; and there are live blocks which
  `find` meets in a freed left-over piece before it comes to their own entry. After two
  overlapping hooks it is 2, and 1 after a refused request or more than one of these.
- *`MaxUntracked`.* One live block that is not tracked, of the agent or from
  `realloc(NULL, n)`, already reuses the memory of any freed entry.
- *`Prologues`, `Lines`.* The six shapes are the ways through `replace_function`: a copy
  of the least and of the greatest length, one that becomes shorter, one that cannot be
  encoded, one that cannot be decoded, one that ends too early. Two hooks are enough for
  two stubs to meet, and for the second to fail when the first is in place. One
  thread of the target suffices, since target threads write nothing; the proofs are for any number.
- *`Images`.* `.pdata` empty, of one entry and of four; leaf functions called twice,
  inside a function, undecodable, through a pointer; tables at the start, in the middle
  and at the end of `.rdata` (with the last slot and without it), a single pointer, locators that are good, of the wrong
  architecture, and outside of the module.
- *`MaxHits` = 2, `MaxWrites` = 1.* Two callbacks of two threads already meet in each
  list, on one type or two, with one parameter or several; one change of the heap makes
  the word read by one of them another one. An entry that is lost needs two.
- *Deadlock* is not checked: the system stops when the calls are used up, the list is
  at its bound, or the process has ended.
- Symmetry of threads is used in `bp_attach` and `alloc_list`, which have no liveness
  property.

### Fairness

`FairSpec` of `Breakpoints` has weak fairness of the agent thread and, for each
target thread, of being resumed and of the steps of its handlers: Windows runs every
thread that can run, and the installer calls `ResumeThread` for each. Calls are not
fair: nothing makes the target call a function. A store that faults is disabled, not
blocked by unfairness: for a page that stays read-only it never succeeds.
`FairSpec` of `Attach` has weak fairness of the installer and of the remote thread: both
are threads that can run, the user answers the pause in `configure()`, and an export
called with `-p` returns. The target's threads need none: `TargetReleased` is about the
installer, which waits for the remote thread only, and makes allowance for a target that
has ended, for a thread or snapshot the system denies, and for a store that faults.
`Discovery` and `TypeTracking` state no fairness: nothing there waits.
`FairSpec` of `CrtHooks` has weak fairness of what is left to do in a hook.

### Why some properties make allowances

`Solo` (one thread has made calls so far) and `history` (no overlap, no `realloc`, no
refused request) are conditions of properties, never of actions: the models contain
everything that breaks them. The code does not promise more. Two handlers at once
cause missed or double reports, leave pages writable, or fault for ever; `realloc`
moves an entry over left-over pieces of freed blocks without cutting them, so that
`find` may reach a freed piece first; a refused request is tracked at NULL and
collides with live entries. `RearmOwed`, `NoMissedCall`, `NoDanglingUse`, `TrapsFound`,
`OwnProtection` and `LiveBlockHasEntry` hold beyond these conditions: the first five for all
threads at once, the last with `realloc` too.

## 4. What the violated properties show

1. `bp_livelock` — `BreakpointRestored`: two threads in breakpoints of one page. The
   first restores the page's protection between the second one's `VirtualProtect` and
   its store; the store faults and is retried for ever
   (`win_agent/instrumentation/fault_inducer.cpp:66`, `veh.cpp:53`).
2. `bp_skipped` — `EveryFunctionArmed`: the installer's README says that all threads are
   suspended first (`win_agent/installer/README.md:13`), `perform_dynamic_init` does not
   do it. A handler has the page writable while `install()` looks at it: the function
   is never armed.
3. `bp_lost` — `AgentTrapsHandled`: while the agent attaches, `emplace_back` moves the
   vector that a handler searches (`fault_inducer.cpp:40`). The handler does not meet the
   entry of a breakpoint that is armed, `veh_handler` passes the `INT3` on and
   the target ends by it. `veh.cpp:15` says "find the corresponding code instrumentation".
   `TrapsFound` holds all the same: the entry is there, the search just misses it.
4. `monitor_tables` — `TablesComplete`: the scan of `.rdata` stops at `end - 8`
   (`win_agent/rtti/rtti_analyzer.cpp:22`). A table that reaches the end of the section
   loses its last slot, and the function in it is not marked dynamic, although
   `functions.hpp:42` asks whether it is "present in any dispatch table".
5. `alloc_hang` — `TrackNewReturns`: the right piece of a cut starts where the new block
   ends, and `intersect` takes that for a collision: it is cut into itself for ever
   (`shared/memory_block.hpp:55`). `OnlyLeftPiecesSettle` proves that this is so for
   every block and every cut.
6. `alloc_iterator` — `IteratorSurvivesInsert`: `emplace_back` moves a full vector, and
   the iterator it invalidates is used for `erase`
   (`win_agent/allocation_tracking/allocation_tracker.cpp:36`).
7. `alloc_race` — `LiveNotReported`: `free` first, `mark_free` afterwards. Another thread
   gets the block in between, its new entry is marked as freed, and a correct access is
   reported as use-after-free (`crt_instrumentation.cpp:44`).

Because of 5, what `alloc_list` checks of a behaviour with a right piece stays in the
loop: the safety properties hold along it, but the new block is never appended.

## 5. Proofs

The theorems hold for any number of threads, functions, pages, blocks and list
lengths. The proofs assume the `ASSUME`s of the modules, which TLC evaluates in every
run, and what a theorem states after its own `ASSUME`.

**Blocks** (`MemoryBlock_proofs`). For blocks of any size: the pieces of a cut are
exactly what the new block leaves of the old one (`PiecesAreTheRest`), the collision test
misses no overlap and is wrong for one kind of neighbour only (`IntersectIsOverlap`), and
a right piece collides with the new block again (`OnlyLeftPiecesSettle`). `CutElements` says which pieces there are; the others follow by arithmetic.

**Breakpoints** (`Breakpoints_proofs`). `TypeCorrect`, `EveryTrapFound`
(`TrapsFound`), `EveryBreakpointOwed` (`RearmOwed`), `ArmedWhenQuiescent`
(`QuiescentArmed`), `MissedOnlyWhileOwed` (`NoMissedCall`); and `NoDanglingPointer`
(`NoDanglingUse`) for `~Dynamic`.
`RearmOwed` alone is not inductive: that a thread which owes an `INT3` still knows
*where* is a matter of how `pc`, `step`, `at` and `pending` go together. The inductive
invariant `IInv` adds `AtSites` (who is in the handler is at a site) and `HandlerShape`
(that site has an entry; closures are queued in `enable`; outside
`enable` and `disable` nobody is half-way through a patch). Given that, each store
of the original byte makes its own thread owe the breakpoint, and only the store of
`INT3` or the end of the process discharges it. `MissedOnlyWhileOwed` is an action
property: a call that goes by finds the original byte, then somebody owes the breakpoint,
and the caller itself does not. That all threads end with the agent (`EndsTogether`)
is part of the invariant for this. For `NoDanglingPointer` the
invariant adds that no thread runs before the agent is done, so no pointer exists
when the vector grows, and each search is for a breakpoint that has its entry.

`PagesStayOwn` (`OwnProtection`) is what two handlers on one page cannot break, attached
or not. What `Protect` writes back comes from an entry all threads share, so `OwnInv`
adds `SavedOwn` (what a patch will restore, in its own hands and from `save` on in the
entry, is the page's own protection or the writable one) and `VisitedOnce` (the loop of
`configure()` comes to a function once, so that the placeholder of a new entry is in
nobody's way).

**One calling thread** (`OneCaller_proofs`). All for `~Dynamic`, from `SoloInvariance`;
all but the first also for one thread that has made calls so far (`Solo`).

- `AllFunctionsArmed` (`EveryFunctionArmed`): `LoaderProgress` says that a function the
  loop in `configure()` has left behind is armed or not executable, and that every page
  is as it was whenever `install()` looks at it.
- `WritesNeverFault` (`WriteAllowed`) and `PagesRestored` (`ProtectionRestored`):
  breakpoints share pages and handlers share the saved protection, but who patches is
  alone with both (`CallersOnly`: only a thread that has made a call is half-way through
  a patch). So it finds the page as it was (`PagesKept`), and what it saves and later
  restores is what the page had (`SavedRight`). Each of the four steps of a patch has a
  lemma of its own, which the agent and the handlers both use.
- `CallsObservedOnce` (`ObservedOnce`): `SeenOnce` ties the number of reports to where
  the thread is, and the byte at its breakpoint stays the original one until it has
  been stepped over.
- `CallsAdvance` (`HandlerAdvances`): an action property, the part of `HandlerReturns`
  that needs no fairness. `HandlerLeft` counts the steps a call is from its end: no step
  of its thread raises it, and one of another thread or of the agent does not touch it,
  because the byte at the breakpoint is this thread's to change.

All but the first are false for two calling threads (section 3).

**Allocation list** (`CrtHooks_proofs`). `TypeCorrect` without conditions. Under
`Header > 0`: `EveryLiveBlockTracked` (`LiveBlocksTracked`), `NoAddressTwice`
(`EntriesDisjoint`), `EveryFreeRecorded` (`FreeRecorded`), `AssertionNeverFails`
(`AssertHolds`), from `InvariantHolds`. The invariant `Orderly` says that as long as
`history = {}`, `Order` holds, the conjunction of

- `OneHook`: one thread at most is in a hook;
- `HeapSpread`: live blocks keep their distance;
- `EntriesApart`: entries are non-empty and share no address;
- `LiveHaveEntries` and `UnfreedAreLive`: live blocks and entries that are not freed
  correspond to each other, but for the hook that is under way;
- `NewMakesRoom`: the block `track_new` works on is on the heap, collides with no entry
  that is not freed, and with none the iterator has passed;
- `FreeFindsItsEntry`: the pointer of a `mark_free` is in one such entry.

`AssertHolds` rests on the fourth and the sixth together: what collides is
freed. `EntriesApart` survives an append because of `NewMakesRoom`, and a cut because
its pieces are parts of the entry they replace (`CutsApart`, `PartApart`). One lemma
per action (`MallocOrder`, `FreeOrder`, `SkipOrder`, `CutOrder`, `AppendOrder`, ...),
one step per conjunct it can disturb. `history` only grows, which makes `Orderly`
inductive where `Order` is not.

`LiveBlocksKeepEntries` (`LiveBlockHasEntry`) allows `realloc` too. Entries overlap
then, and `Order` fails: an entry moves over left-over pieces without cutting them, and
`find` may come to one of these first. The invariant is `Held`: one hook at a time, live
blocks at a distance, and `WorkApart`. What a hook is at work on is not in any *other*
live block, so that an entry it marks, moves or cuts in error is nobody's; and a block
that has moved leaves some entry to be found under its old address. All that is needed of
`find` is that it finds an entry with the address if there is one (`FindAny`).

`ListFollowsShadow` (`FollowsShadow`) is the step simulation, on any number of
threads: a step that leaves `history` empty is one of `HeapShadow` or none. `ShadowOf`
restates the mapping as the ranges of the entries that are not freed and the addresses
of those that are, which `EntriesApart` allows, as `find` then has no choice. `malloc`
is `ShadowMalloc` (live blocks are apart because the entries that are not freed are
blocks of the heap), `mark_free` that finds something is `ShadowFree`, a cut
takes from the freed addresses just those of the new block (`PiecesAreTheRest`), and an
append none, because the new block is then clear of all entries.
`ListImplementsShadow` concludes `Spec => ImplementsShadow` where `history` can only stay
empty: one thread, `malloc` and `free`, no request that fails.

`LoopMakesProgress` (`LoopAdvances`) says of any list and any blocks why the loop of
`track_new` ends where `alloc_hang` does not apply: a round that starts over leaves one
entry less in the way of the new block, any other round moves the iterator on. A cut maps
the entries still in the way one-to-one to those that were, except the one that was
cut (`CutClears`, `CutShrinks`), since a left piece is clear of the new block
(`LeftPieceSettles`). It needs no more of the reachable states than their types and
that no tracked block ends before it starts (`NewForward`).

**Attach** (`Attach_proofs`). `AttachInvariant` is the inductive invariant, for any number
of threads, hooks that fit in the buffer, and instructions. Its parts: `TrampolineInv`
(what `reserved` is at each step, so that stubs are apart and within the buffer, and a
function redirected to its hook has its replacement stored), `InstallInv` (where
installer, remote thread and process may be at the same time), `HeldInv` (a started
process is suspended until the installer has waited for the agent thread) and `CodeInv`
(as long as it is, no thread is in a function). From it follow `AttachTypes`,
`StubsDoNotOverlap`, `HooksFindOriginal`, `StartedThreadsReachOriginal` and
`AttachImplementsLaunch`; `ExitLeavesNoneSuspended`
(`NoneLeftSuspended`) adds to it where the installer and its snapshot are while a thread
of the target is still suspended (`ReleaseInv`).
`DocumentedLinesAccepted` (`DocumentedLineAccepted`) is about `parse_arg` and `main`, for
any values: `ArgvTokens` says where the tokens of an option are in `argv`,
`NamesAreOptions` that only an option has the name of one, so that `parse_arg` finds it
at its own place and reads all of its values (`ReadsOption`) or, when it is not on the
line, nothing (`ReadsNothing`). It assumes of the lines (`Readable`) that no value is
called like an option: `parse_arg` compares a token without its dashes, and would take
such a value for the option. No documented line has more than `MaxOptions` options, since
none comes twice and only one of `-s` and `-d`.

**Discovery and TypeTracking** (`TypeTracking_proofs`). `FunctionsListedOnce`
(`FunctionsApart`) for every image whose `.pdata` entries lie apart: the invariant
`DiscoveryInv` adds `LeavesApart`, that the leaf functions differ from each other and
those not merged yet from all in the list; erasing and marking keep it because they map
the new list into the old one (`FewerFunctions`). `MonitorTypes` and `OnlySeenRecorded`
(`RecordsTrue`) for any number of threads and calls, from `MonitorInvariant`:
`RecordsInv` says that each bit of a node and each caller was seen, that a type's list
leads to nodes of this type only, and `LocalTrue` the same of what a callback has read
and not yet written. Then a write can lose what another thread has written, but never
make up something new.

**Completeness** (`Completeness_proofs`). `TypesFoundExactly` (`TypesExact`), for every
image whose `.rdata` does not end before it starts. `ScanInv` says that the tables found
so far are just the longest runs of pointers, among the slots the code looks at (`Run`), that
start before `addr`, in their order; `RunsAreStored` that these are what the longest runs of
the whole section leave without the slot that ends with it;
`NamedInv` that the types made so far come from the first of them, and that the dynamic
functions are those these types name.
`NothingSeenIsMissing` (`LogComplete`), for any number of threads: `OneAtList` (two
threads at one list make it a raced one) and `WholeCopy` (what a thread has read of a
list that is not raced is still what the list holds) imply that writing the copy back
takes nothing away, so that everything observed is accounted for: on record, at a
callback that has not ended, or in a raced list (`Accounted`). `RecordsKeptWhole` is that
invariant.

**Only model-checked.** Liveness (`HandlerReturns`, `TargetResumed`, `TargetReleased`): fairness and `ENABLED` are out of the prover's reach. What of them
is safety is proved: `HandlerAdvances` is the measure behind `HandlerReturns`, and `NoneLeftSuspended` is `TargetReleased` at
the installer's end.
All other properties of passing runs are stated by a theorem.

## 6. What the models leave out

- Empty blocks (`malloc(0)`): the blocks of the instances are not empty.
- The vector's own allocations, which run through the hooks of `malloc` and `free`.
- Functions hooked in part, in `Breakpoints`: `HooksFailed` stands for the return of
  `configure()`, not for the hooks already in place (which `Trampoline` has).
- Which of several processes of one name `get_handle_to_remote` takes.
- The allocation list under the callbacks of `TypeTracking`: its entries are constant,
  and the memory of a freed block may go at any time.
- Functions with more than four parameters: `parameter_count` is never set.
- What a data race on a container does beyond losing entries.
- Guard-page exceptions, access violations of the target itself, and the pause for the
  user after an unknown exception.
- The texts: the log's layout, messages, and names but for their being too long.
- Addresses do not wrap around: blocks come from the heap.

## 7. Plan

In this order; 1 to 8 exist.

1. `MemoryBlock`, `AllocationTracker`, `CrtHooks`, `HeapShadow`: the list and the hooks.
2. `Breakpoints`: the handler, the fault inducer, `configure`, both ways of loading.
3. Their proofs.
4. `Trampoline`, `Arguments`, `Attach`, `Launch`: from the command line to the hooks, with
   their proofs.
5. `Discovery`, `TypeTracking`: from the image to the log.
6. Proofs of `FunctionsApart` and `RecordsTrue`.
7. More proofs: `LogComplete`, `TypesExact`, the properties of one calling thread,
   `EveryFunctionArmed`, `LiveBlockHasEntry`, `FollowsShadow`.
8. What is true of two calling threads in place of `ProtectionRestored`
   (`OwnProtection`), and the safety of the liveness properties.
9. `CrtHooks` with empty blocks and with the nested `free` of a growing vector.
10. A bound on the reports of one call where two threads call, in place of `ObservedOnce`.
