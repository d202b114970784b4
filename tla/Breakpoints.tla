----------------------------- MODULE Breakpoints -----------------------------
(***************************************************************************)
(* The breakpoints the agent keeps on the first instruction of every        *)
(* function: how the agent thread writes them (configuration.cpp,           *)
(* fault_inducer.cpp) while or before the target runs (installer/main.cpp), *)
(* and how the exception handler takes one out, single-steps the original   *)
(* instruction and puts it back (veh.cpp).                                  *)
(*                                                                         *)
(* Code and page protections are shared by all threads and no lock guards   *)
(* them, so every call of VirtualProtect and every store is a step of its   *)
(* own.  VirtualProtect changes the page first and stores the protection it *)
(* found afterwards; the two are separate steps too.                        *)
(***************************************************************************)
EXTENDS Naturals, FiniteSets

CONSTANTS
  Threads,    \* threads of the target
  Agent,      \* the injected thread that runs configure()
  Sites,      \* first instructions of the functions that were found
  NoSite,
  Pages,
  PageOf,     \* the page of a site
  InitProt,   \* the protection of a page when the agent is loaded
  Dynamic,    \* TRUE: attached to a running process; FALSE: started suspended
  OwnTraps,   \* TRUE: the target may execute an INT3 of its own
  MaxCalls    \* bound: calls of instrumented functions per thread

Procs == Threads \cup {Agent}

\* "WCX" is the AllocationProtect of an image section, PAGE_EXECUTE_WRITECOPY.
Protections == {"R", "RX", "RWX", "WCX"}

ASSUME ProcsAssumption == Agent \notin Threads

ASSUME SitesAssumption ==
  /\ IsFiniteSet(Sites) /\ NoSite \notin Sites
  /\ PageOf \in [Sites -> Pages]
  /\ InitProt \in [Pages -> {"R", "RX"}]

ASSUME ModeAssumption ==
  /\ Dynamic \in BOOLEAN /\ OwnTraps \in BOOLEAN /\ MaxCalls \in Nat

VARIABLES
  code,           \* the byte at a site: the original one or INT3
  prot,           \* the protection of a page
  instrumented,   \* instrumented_instructions: the sites it has an entry for
  capacity,       \* the capacity of that vector
  originalProtection,  \* the field of that name in the vector's entries
  callbackSet,    \* function_instrumentation_callback is the configured one
  loader,         \* where configure() is
  todo,           \* the functions its loop has yet to visit
  pc,             \* where a thread is
  at,             \* the site a thread calls, or the agent instruments
  step,           \* the next step inside enable() or disable()
  old,            \* what the process's last VirtualProtect found on the page
  pending,        \* length of the thread's singlestep_callbacks
  stale,          \* of the thread's ci pointers, those into freed storage
  observed,       \* callbacks run for the thread's current call
  calls           \* calls the thread has made

patchVars  == <<code, prot, originalProtection, step, old>>
vectorVars == <<instrumented, capacity, stale>>
threadVars == <<pc, at, pending, observed, calls>>
loaderVars == <<loader, todo, callbackSet>>
vars == <<patchVars, vectorVars, threadVars, loaderVars>>

\* How the process may end: by an unhandled exception, or in a state C++ does
\* not define.  Then every thread and the agent are in that state.
Over == {"terminated", "undefined"}

Executable(s) == InitProt[PageOf[s]] = "RX"

Init ==
  /\ code = [s \in Sites |-> "orig"]
  /\ prot = InitProt
  /\ instrumented = {} /\ capacity = 0
  /\ originalProtection = [s \in Sites |-> "WCX"]
  /\ callbackSet = FALSE
  /\ loader = "hooks" /\ todo = Sites
  /\ pc = [t \in Threads |-> IF Dynamic THEN "idle" ELSE "held"]
  /\ at = [p \in Procs |-> NoSite]
  /\ step = [p \in Procs |-> "unprotect"]
  /\ old = [p \in Procs |-> "RX"]
  /\ pending = [t \in Threads |-> 0]
  /\ stale = [t \in Threads |-> {}]
  /\ observed = [t \in Threads |-> 0]
  /\ calls = [t \in Threads |-> 0]

-----------------------------------------------------------------------------
(***************************************************************************)
(* The four steps shared by CodeInstrumentation::enable and ::disable.      *)
(***************************************************************************)
Page(p) == PageOf[at[p]]

\* (slip) enable() and disable() do not make the page writable.
UnprotectKeepsPage(p, next) ==
  /\ step[p] = "unprotect"
  /\ old' = [old EXCEPT ![p] = prot[Page(p)]]
  /\ step' = [step EXCEPT ![p] = next]
  /\ UNCHANGED <<code, prot, originalProtection>>

Unprotect(p, next) ==
  /\ step[p] = "unprotect"
  /\ old' = [old EXCEPT ![p] = prot[Page(p)]]
  /\ prot' = [prot EXCEPT ![Page(p)] = "RWX"]
  /\ step' = [step EXCEPT ![p] = next]
  /\ UNCHANGED <<code, originalProtection>>

\* (slip) disable() restores the protection install() found.
SaveNothing(p) ==
  /\ step[p] = "save"
  /\ step' = [step EXCEPT ![p] = "write"]
  /\ UNCHANGED <<code, prot, originalProtection, old>>

\* The old protection reaches the entry all threads share.
Save(p) ==
  /\ step[p] = "save"
  /\ originalProtection' = [originalProtection EXCEPT ![at[p]] = old[p]]
  /\ step' = [step EXCEPT ![p] = "write"]
  /\ UNCHANGED <<code, prot, old>>

\* (slip) disable() writes the breakpoint again; enable() the original byte.
WriteInt3(p, byte) ==
  /\ step[p] = "write" /\ prot[Page(p)] = "RWX"
  /\ code' = [code EXCEPT ![at[p]] = "int3"]
  /\ step' = [step EXCEPT ![p] = "protect"]
  /\ UNCHANGED <<prot, originalProtection, old>>

WriteOriginal(p, byte) ==
  /\ step[p] = "write" /\ prot[Page(p)] = "RWX"
  /\ code' = [code EXCEPT ![at[p]] = "orig"]
  /\ step' = [step EXCEPT ![p] = "protect"]
  /\ UNCHANGED <<prot, originalProtection, old>>

\* On a page that is not writable the store faults and veh_handler answers an
\* access violation with EXCEPTION_CONTINUE_EXECUTION: it is tried again.
Write(p, byte) ==
  /\ step[p] = "write"
  /\ prot[Page(p)] = "RWX"
  /\ code' = [code EXCEPT ![at[p]] = byte]
  /\ step' = [step EXCEPT ![p] = "protect"]
  /\ UNCHANGED <<prot, originalProtection, old>>

\* (slip) the page stays writable.
ProtectForgotten(p, saved) ==
  /\ step[p] = "protect"
  /\ step' = [step EXCEPT ![p] = "unprotect"]
  /\ UNCHANGED <<code, prot, originalProtection, old>>

Protect(p, saved) ==
  /\ step[p] = "protect"
  /\ prot' = [prot EXCEPT ![Page(p)] = saved]
  /\ step' = [step EXCEPT ![p] = "unprotect"]
  /\ UNCHANGED <<code, originalProtection, old>>

-----------------------------------------------------------------------------
(***************************************************************************)
(* The agent: configure() in the injected thread.                           *)
(***************************************************************************)
HooksInstalled ==
  /\ loader = "hooks" /\ loader' = "install"
  /\ UNCHANGED <<todo, callbackSet, patchVars, vectorVars, threadVars>>

\* install_crt_replacements failed: configure() returns and nothing is armed.
HooksFailed ==
  /\ loader = "hooks" /\ loader' = "done"
  /\ UNCHANGED <<todo, callbackSet, patchVars, vectorVars, threadVars>>

\* (slip) the loop stays at a function install() refuses.
InstallRetried(s) ==
  /\ loader = "install" /\ s \in todo /\ prot[PageOf[s]] # "RX"
  /\ UNCHANGED vars

\* install() refuses a page whose protection is not EXECUTE or EXECUTE_READ
\* at this moment; configure() ignores the result.
InstallRefused(s) ==
  /\ loader = "install" /\ s \in todo
  /\ prot[PageOf[s]] # "RX"
  /\ todo' = todo \ {s}
  /\ UNCHANGED <<loader, callbackSet, patchVars, vectorVars, threadVars>>

Install(s) ==
  /\ loader = "install" /\ s \in todo
  /\ prot[PageOf[s]] = "RX"
  /\ todo' = todo \ {s}
  /\ at' = [at EXCEPT ![Agent] = s]
  /\ loader' = "emplace"
  /\ UNCHANGED <<callbackSet, patchVars, vectorVars>>
  /\ UNCHANGED <<pc, pending, observed, calls>>

\* Which of a thread's pointers into the vector a reallocation leaves dangling.
Pointers(t) ==
  (IF pc[t] \in {"search", "callback", "disable"} THEN {"ci"} ELSE {})
    \cup (IF pending[t] > 0 THEN {"closures"} ELSE {})

\* (slip) the breakpoint is armed without an entry in the vector.
EmplaceNothing ==
  /\ loader = "emplace" /\ loader' = "enable"
  /\ UNCHANGED <<todo, callbackSet, patchVars, vectorVars, threadVars>>

EntryStored ==
  /\ instrumented' = instrumented \cup {at[Agent]}
  /\ originalProtection' = [originalProtection EXCEPT ![at[Agent]] = "WCX"]
  /\ loader' = "enable"

\* emplace_back with room for the entry; a full vector is first copied to larger
\* storage and the old storage freed.
Emplace ==
  /\ loader = "emplace"
  /\ IF Cardinality(instrumented) < capacity
     THEN EntryStored /\ UNCHANGED stale
     ELSE /\ stale' = [t \in Threads |-> stale[t] \cup Pointers(t)]
          /\ loader' = "swap"
          /\ UNCHANGED <<instrumented, originalProtection>>
  /\ UNCHANGED <<capacity, todo, callbackSet, code, prot, step, old, threadVars>>

\* ... then the vector's own pointers are set to the new storage, half as large
\* again.
Swap ==
  /\ loader = "swap" /\ EntryStored
  /\ capacity' = IF capacity \div 2 > 0 THEN capacity + capacity \div 2
                 ELSE Cardinality(instrumented) + 1
  /\ UNCHANGED <<stale, todo, callbackSet, code, prot, step, old, threadVars>>

\* instr->enable() on instrument()'s own copy: the saved protection stays in
\* the copy, where no other thread sees it.
AgentUnprotect ==
  /\ loader = "enable" /\ Unprotect(Agent, "write")
  /\ UNCHANGED <<vectorVars, threadVars, loaderVars>>

AgentWrite ==
  /\ loader = "enable" /\ Write(Agent, "int3")
  /\ UNCHANGED <<vectorVars, threadVars, loaderVars>>

AgentProtect ==
  /\ loader = "enable" /\ Protect(Agent, old[Agent])
  /\ loader' = "install"
  /\ UNCHANGED <<todo, callbackSet, vectorVars, threadVars>>

SetCallback ==
  /\ loader = "install" /\ todo = {}
  /\ callbackSet' = TRUE /\ loader' = "done"
  /\ UNCHANGED <<todo, patchVars, vectorVars, threadVars>>

Configure ==
  \/ HooksInstalled \/ HooksFailed
  \/ \E s \in Sites : InstallRefused(s) \/ Install(s)
  \/ Emplace \/ Swap \/ AgentUnprotect \/ AgentWrite \/ AgentProtect \/ SetCallback

-----------------------------------------------------------------------------
(***************************************************************************)
(* A thread of the target: its calls and veh_handler on its behalf.         *)
(***************************************************************************)
\* (slip) the installer does not wait for the agent thread.
ResumeEarly(t) ==
  /\ pc[t] = "held"
  /\ pc' = [pc EXCEPT ![t] = "idle"]
  /\ UNCHANGED <<at, pending, observed, calls, patchVars, vectorVars, loaderVars>>

\* perform_static_init waits for the agent thread, then resumes the process.
Resume(t) ==
  /\ pc[t] = "held" /\ loader = "done"
  /\ pc' = [pc EXCEPT ![t] = "idle"]
  /\ UNCHANGED <<at, pending, observed, calls, patchVars, vectorVars, loaderVars>>

Call(t, s) ==
  /\ pc[t] = "idle" /\ calls[t] < MaxCalls
  /\ calls' = [calls EXCEPT ![t] = @ + 1]
  /\ at' = [at EXCEPT ![t] = s]
  /\ observed' = [observed EXCEPT ![t] = 0]
  /\ pc' = [pc EXCEPT ![t] = "fetch"]
  /\ UNCHANGED <<pending, patchVars, vectorVars, loaderVars>>

\* The original byte is there and the trap flag is clear: the call goes on.
Pass(t) ==
  /\ pc[t] = "fetch" /\ code[at[t]] = "orig" /\ pending[t] = 0
  /\ pc' = [pc EXCEPT ![t] = "idle"]
  /\ UNCHANGED <<at, pending, observed, calls, patchVars, vectorVars, loaderVars>>

\* INT3: find_code_instrumentation reads begin() and end().  Until the agent has
\* set them both they bound the storage it has freed.
Trap(t) ==
  /\ pc[t] = "fetch" /\ code[at[t]] = "int3"
  /\ pc' = [pc EXCEPT ![t] = "search"]
  /\ stale' = [stale EXCEPT ![t] =
                  IF loader = "swap" THEN @ \cup {"ci"} ELSE @ \ {"ci"}]
  /\ UNCHANGED <<at, pending, observed, calls, instrumented, capacity>>
  /\ UNCHANGED <<patchVars, loaderVars>>

\* find_if meets the entry; freed storage may still hold it.
Found(t) ==
  /\ pc[t] = "search" /\ at[t] \in instrumented
  /\ pc' = [pc EXCEPT ![t] = "callback"]
  /\ UNCHANGED <<at, pending, observed, calls, patchVars, vectorVars, loaderVars>>

\* The search need not meet the entry of the breakpoint.
Lost(t) == at[t] \notin instrumented \/ "ci" \in stale[t]

Callback(t) ==
  /\ pc[t] = "callback"
  /\ observed' = [observed EXCEPT ![t] = @ + (IF callbackSet THEN 1 ELSE 0)]
  /\ pc' = [pc EXCEPT ![t] = "disable"]
  /\ UNCHANGED <<at, pending, calls, patchVars, vectorVars, loaderVars>>

\* (slip) disable() leaves the page protected.
DisableReadOnly(t) ==
  /\ pc[t] = "disable" /\ step[t] # "protect"
  /\ \/ step[t] = "unprotect" /\ step' = [step EXCEPT ![t] = "write"]
        /\ UNCHANGED <<code, prot, originalProtection, old>>
     \/ Write(t, "orig")
  /\ UNCHANGED <<vectorVars, threadVars, loaderVars>>

\* ci->disable(), up to its last call.
DisableStep(t) ==
  /\ pc[t] = "disable" /\ "ci" \notin stale[t]
  /\ Unprotect(t, "save") \/ Save(t) \/ Write(t, "orig")
  /\ UNCHANGED <<vectorVars, threadVars, loaderVars>>

\* (slip) the closure that re-arms the breakpoint is not queued.
DisabledForGood(t) ==
  /\ pc[t] = "disable" /\ "ci" \notin stale[t]
  /\ Protect(t, originalProtection[at[t]])
  /\ pc' = [pc EXCEPT ![t] = "fetch"]
  /\ UNCHANGED <<at, pending, observed, calls, vectorVars, loaderVars>>

\* ... its last call, the trap flag and the closure that re-arms.  The flag is
\* set exactly while closures are pending, so pending stands for both.
Disabled(t) ==
  /\ pc[t] = "disable" /\ "ci" \notin stale[t]
  /\ Protect(t, originalProtection[at[t]])
  /\ pending' = [pending EXCEPT ![t] = @ + 1]
  /\ pc' = [pc EXCEPT ![t] = "fetch"]
  /\ UNCHANGED <<at, observed, calls, vectorVars, loaderVars>>

\* (slip) a step is handled although no breakpoint was taken out.
SingleStepAlways(t) ==
  /\ pc[t] = "fetch" /\ code[at[t]] = "orig"
  /\ pc' = [pc EXCEPT ![t] = "enable"]
  /\ UNCHANGED <<at, pending, observed, calls, patchVars, vectorVars, loaderVars>>

\* The instruction ran under the trap flag: EXCEPTION_SINGLE_STEP.
SingleStep(t) ==
  /\ pc[t] = "fetch" /\ code[at[t]] = "orig" /\ pending[t] > 0
  /\ pc' = [pc EXCEPT ![t] = "enable"]
  /\ UNCHANGED <<at, pending, observed, calls, patchVars, vectorVars, loaderVars>>

\* ci->enable() of the first pending closure, up to its last call.
EnableStep(t) ==
  /\ pc[t] = "enable" /\ "closures" \notin stale[t]
  /\ Unprotect(t, "save") \/ Save(t) \/ Write(t, "int3")
  /\ UNCHANGED <<vectorVars, threadVars, loaderVars>>

\* ... its last call; the handler goes on with the next closure, if any.
Enabled(t) ==
  /\ pc[t] = "enable" /\ "closures" \notin stale[t]
  /\ Protect(t, originalProtection[at[t]])
  /\ pending' = [pending EXCEPT ![t] = @ - 1]
  /\ pc' = [pc EXCEPT ![t] = IF pending[t] > 1 THEN "enable" ELSE "idle"]
  /\ UNCHANGED <<at, observed, calls, vectorVars, loaderVars>>

End(how) ==
  /\ pc' = [t \in Threads |-> how] /\ loader' = how
  /\ UNCHANGED <<at, pending, observed, calls, todo, callbackSet>>
  /\ UNCHANGED <<patchVars, vectorVars>>

\* The handler reads or writes storage the vector has freed.
UseDangling(t) ==
  /\ \/ pc[t] \in {"search", "disable"} /\ "ci" \in stale[t]
     \/ pc[t] = "enable" /\ "closures" \in stale[t]
  /\ End("undefined")

\* No entry found: the handler returns EXCEPTION_CONTINUE_SEARCH and nobody else
\* handles the INT3.
Missed(t) ==
  /\ pc[t] = "search" /\ Lost(t)
  /\ End("terminated")

\* The same for an INT3 that is not the agent's.
ForeignTrap(t) ==
  /\ OwnTraps /\ pc[t] = "idle"
  /\ End("terminated")

\* Everything a thread does between a call and the end of its handlers.
Handle(t) ==
  \/ Pass(t) \/ Trap(t) \/ Found(t) \/ Callback(t) \/ DisableStep(t)
  \/ Disabled(t) \/ SingleStep(t) \/ EnableStep(t) \/ Enabled(t)

Next ==
  \/ Configure
  \/ \E t \in Threads :
       \/ Resume(t) \/ Handle(t) \/ UseDangling(t) \/ Missed(t) \/ ForeignTrap(t)
       \/ \E s \in Sites : Call(t, s)

Spec == Init /\ [][Next]_vars

\* The scheduler runs every thread that can run, and ResumeThread is called for
\* every thread; nothing makes the target call a function.
FairSpec ==
  /\ Spec
  /\ WF_vars(Configure)
  /\ \A t \in Threads : WF_vars(Resume(t) \/ Handle(t))

-----------------------------------------------------------------------------
TypeOK ==
  /\ code \in [Sites -> {"orig", "int3"}]
  /\ prot \in [Pages -> Protections]
  /\ instrumented \subseteq Sites
  /\ capacity \in Nat
  /\ originalProtection \in [Sites -> Protections]
  /\ callbackSet \in BOOLEAN
  /\ loader \in
        {"hooks", "install", "emplace", "swap", "enable", "done"} \cup Over
  /\ todo \subseteq Sites
  /\ pc \in [Threads ->
        {"held", "idle", "fetch", "search", "callback", "disable", "enable"}
          \cup Over]
  /\ at \in [Procs -> Sites \cup {NoSite}]
  /\ step \in [Procs -> {"unprotect", "save", "write", "protect"}]
  /\ old \in [Procs -> Protections]
  /\ pending \in [Threads -> Nat]
  /\ stale \in [Threads -> SUBSET {"ci", "closures"}]
  /\ observed \in [Threads -> Nat]
  /\ calls \in [Threads -> Nat]

-----------------------------------------------------------------------------
(***************************************************************************)
(* Properties.                                                              *)
(***************************************************************************)
\* A thread that has taken a breakpoint out and has not written it back yet.
Owes(t) ==
  \/ pc[t] = "disable" /\ step[t] = "protect"
  \/ pending[t] > 1
  \/ pending[t] = 1 /\ ~(pc[t] = "enable" /\ step[t] = "protect")

AgentArming == loader = "enable" /\ step[Agent] # "protect"

\* However the handlers of several threads interleave on one breakpoint, a
\* function that was instrumented and now has its original byte will be armed
\* again: some thread has yet to single-step over it and call enable(), or the
\* agent is just arming it.  No interleaving loses a breakpoint for good.
RearmOwed ==
  loader \notin Over => \A s \in instrumented : code[s] = "orig" =>
     \/ \E t \in Threads : at[t] = s /\ Owes(t)
     \/ AgentArming /\ at[Agent] = s

\* With any number of callers, a call runs through an instrumented function
\* unseen only while some other thread single-steps over that very breakpoint,
\* or the agent is just arming it: never because it was taken out for good.
NoMissedCall ==
  [][\A t \in Threads :
       pc[t] = "fetch" /\ pc'[t] = "idle" /\ at[t] \in instrumented =>
         \/ \E u \in Threads \ {t} : at[u] = at[t] /\ Owes(u)
         \/ AgentArming /\ at[Agent] = at[t]]_vars

\* Once the agent has finished and every thread is outside the handler, every
\* instrumented function has its INT3 in place.
QuiescentArmed ==
  loader = "done" /\ (\A t \in Threads : pc[t] \in {"held", "idle"}) =>
    \A s \in instrumented : code[s] = "int3"

\* Wherever there is an INT3 the vector has an entry, at every moment of the
\* installation and of all handlers.  That a search finds it is another matter:
\* see AgentTrapsHandled.
TrapsFound == \A s \in Sites : code[s] = "int3" => s \in instrumented

\* "find the corresponding code instrumentation": the target ends by an INT3 only
\* if it has some of its own; one the agent wrote is always found and handled,
\* also while emplace_back moves the vector the handler searches.
AgentTrapsHandled == loader = "terminated" => OwnTraps

\* In a process that was started suspended no handler uses freed storage of the
\* vector of breakpoints, nor searches there for its entry: the vector grows
\* before the first thread is resumed.
NoDanglingUse ==
  loader # "undefined" /\ \A t \in Threads : pc[t] = "search" => ~Lost(t)

\* However patches on a page interleave, it has its own protection or the one
\* that makes it writable: no handler restores the placeholder an entry is made
\* with, nor what another page had, so the code on it can always be executed.
OwnProtection == \A g \in Pages : prot[g] \in {InitProt[g], "RWX"}

\* configure() "install[s] Instrumentation on every function": when it is done,
\* every function on an executable page has a breakpoint, several on one page too.
EveryFunctionArmed ==
  loader = "done" /\ callbackSet => {s \in Sites : Executable(s)} \subseteq instrumented

\* Only one thread of the target has called functions so far.  What follows is
\* promised to such a process, and no more: two threads in the handler at once
\* get into each other's way (see the README).
Solo == \A t, u \in Threads : calls[t] > 0 /\ calls[u] > 0 => t = u

\* One call is reported to the monitoring callback once: the breakpoint does
\* not fire a second time before its instruction has been stepped over.
ObservedOnce ==
  Solo => \A t \in Threads : pending[t] > 0 => pending[t] = 1 /\ observed[t] = 1

\* Between calls every page is as protected as it was before the agent came.
ProtectionRestored ==
  Solo /\ loader = "done" /\ (\A t \in Threads : pc[t] \in {"held", "idle"}) =>
    prot = InitProt

\* Whoever is about to patch a byte finds the page writable: its store does not
\* fault, although several breakpoints share the page and its saved protection.
WriteAllowed ==
  Solo => \A p \in Procs : step[p] = "write" => prot[Page(p)] = "RWX"

\* How many steps a thread is away from the end of its call: it meets the INT3,
\* is seen, takes the INT3 out, steps over the instruction and puts it back.
PatchLeft(t) ==
  CASE step[t] = "unprotect" -> 4 [] step[t] = "save" -> 3
    [] step[t] = "write" -> 2     [] step[t] = "protect" -> 1

HandlerLeft(t) ==
  CASE pc[t] = "fetch" -> IF code[at[t]] = "int3" THEN 12
                          ELSE IF pending[t] > 0 THEN 5 ELSE 1
    [] pc[t] = "search" -> 11
    [] pc[t] = "callback" -> 10
    [] pc[t] = "disable"  -> 5 + PatchLeft(t)
    [] pc[t] = "enable"   -> PatchLeft(t)
    [] OTHER -> 0

\* A call goes through the handler in one direction: no step of the thread, of
\* the agent or of another thread takes it back, to trap a second time.  It is
\* out after twelve steps, which is why HandlerReturns holds.
HandlerAdvances ==
  [][\A t \in Threads : Solo /\ HandlerLeft(t) > 0 =>
       \/ HandlerLeft(t)' < HandlerLeft(t)
       \/ UNCHANGED <<pc[t], step[t], pending[t], HandlerLeft(t)>>]_vars

\* A thread that called an instrumented function gets out of the handler again.
HandlerReturns ==
  \A t \in Threads :
    pc[t] # "held" ~> pc[t] \in {"idle"} \cup Over \/ ~Solo

\* "found the instrumentation, singlestep the original instruction and restore
\* the breakpoint": the same for every thread, whatever the others do.
BreakpointRestored ==
  \A t \in Threads : pc[t] = "callback" ~> pc[t] \in {"idle"} \cup Over

\* The agent finishes and the suspended target gets to run.
TargetResumed == \A t \in Threads : <>(pc[t] # "held")
=============================================================================
