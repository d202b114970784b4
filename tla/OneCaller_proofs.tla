---------------------------- MODULE OneCaller_proofs ----------------------------
(***************************************************************************)
(* What Breakpoints promises to a process that was started suspended and of *)
(* which one thread only has made calls so far: no call is missed or seen   *)
(* twice, no store faults, and pages end as protected as they were.         *)
(***************************************************************************)
EXTENDS Breakpoints_proofs

USE SitesAssumption, ModeAssumption, ProcsAssumption
USE DEF SitesAssumption, ModeAssumption, ProcsAssumption

InHandler == {"fetch", "search", "callback", "disable", "enable"}

\* Only a thread that has made a call is at a breakpoint, or half-way through a
\* patch, also when the process has ended.
CallersOnly ==
  /\ \A t \in Threads : pc[t] = "held" => calls[t] = 0
  /\ \A t \in Threads : pc[t] \in InHandler => calls[t] > 0
  /\ \A t \in Threads : calls[t] = 0 => step[t] = "unprotect" /\ pending[t] = 0
  /\ loader \in Over => \A t \in Threads : pc[t] \in Over
  /\ loader # "enable" => step[Agent] = "unprotect"

Installing == {"install", "emplace", "swap", "enable"}

\* What configure() has still to do, and what it has done.
LoaderProgress ==
  /\ loader = "hooks" => instrumented = {} /\ todo = Sites
  /\ loader \in {"hooks"} \cup Installing => ~callbackSet
  /\ loader = "done" => callbackSet \/ instrumented = {}
  /\ callbackSet => todo = {}
  /\ loader \in Installing \/ callbackSet =>
       \A s \in Sites : Executable(s) =>
         \/ s \in todo \cup instrumented
         \/ loader \in {"emplace", "swap"} /\ at[Agent] = s

\* A page is as it was, or somebody is half-way through a patch on it and has it
\* writable; what is to be restored is what the page had.
PagesKept ==
  /\ \A g \in Pages : \/ prot[g] = InitProt[g]
                      \/ \E p \in Procs : step[p] # "unprotect" /\ Page(p) = g
  /\ \A p \in Procs : step[p] # "unprotect" => prot[Page(p)] = "RWX"

SavedRight ==
  /\ \A t \in Threads :
       /\ step[t] = "save" => old[t] = InitProt[Page(t)]
       /\ step[t] \in {"write", "protect"} => originalProtection[at[t]] = InitProt[Page(t)]
  /\ step[Agent] # "unprotect" => old[Agent] = InitProt[Page(Agent)]

\* Where a thread is tells how often its call was seen.
SeenOnce ==
  \A t \in Threads :
    /\ pc[t] \in {"search", "callback"} => pending[t] = 0
    /\ pc[t] \in {"fetch", "search", "callback"} /\ pending[t] = 0 => observed[t] = 0
    /\ pc[t] = "disable" => pending[t] = 0 /\ observed[t] = 1
    /\ pc[t] = "disable" /\ step[t] = "protect" => code[at[t]] = "orig"
    /\ pc[t] = "fetch" /\ pending[t] > 0 => code[at[t]] = "orig"
    /\ pending[t] > 0 => pending[t] = 1 /\ observed[t] = 1

CallerInv == PagesKept /\ SavedRight /\ SeenOnce

SoloInv ==
  /\ IInv /\ Suspended
  /\ CallersOnly /\ LoaderProgress
  /\ Solo => CallerInv

-----------------------------------------------------------------------------
\* Lemma: threads that have made calls stay so.
LEMMA SoloBefore == TypeOK /\ [Next]_vars /\ Solo' => Solo
<1> SUFFICES ASSUME TypeOK, [Next]_vars
             PROVE  \A t \in Threads : calls'[t] \in Nat /\ calls'[t] >= calls[t]
  BY DEF Solo, TypeOK
<1>1. ASSUME NEW t \in Threads, NEW s \in Sites, Call(t, s)
      PROVE  \A u \in Threads : calls'[u] \in Nat /\ calls'[u] >= calls[u]
  BY <1>1 DEF Call, TypeOK
<1>2. ASSUME UNCHANGED calls PROVE \A u \in Threads : calls'[u] \in Nat /\ calls'[u] >= calls[u]
  BY <1>2 DEF TypeOK
<1> QED
  BY <1>1, <1>2
  DEF Next, Configure, Handle, HooksInstalled, HooksFailed, InstallRefused, Install, Emplace, Swap,
      AgentUnprotect, AgentWrite, AgentProtect, SetCallback, Resume, Pass, Trap, Found, Callback,
      DisableStep, Disabled, SingleStep, EnableStep, Enabled, UseDangling, Missed, ForeignTrap, End,
      vars, threadVars

\* Lemma: who patches is alone: the one thread in the handler, or the agent.
LEMMA Alone ==
  ASSUME TypeOK, Suspended, CallersOnly, Solo, NEW p \in Procs,
         \/ p \in Threads /\ pc[p] \in InHandler
         \/ p = Agent /\ loader \in Installing
  PROVE  \A q \in Procs \ {p} : step[q] = "unprotect"
<1> SUFFICES ASSUME NEW q \in Procs, q # p PROVE step[q] = "unprotect"
  OBVIOUS
<1>1. CASE p = Agent
  BY <1>1 DEF Procs, Suspended, CallersOnly, Installing, Over, InHandler
<1>2. CASE p \in Threads /\ q = Agent
  BY <1>2 DEF Procs, Suspended, CallersOnly, Installing, Over, InHandler
<1>3. CASE p \in Threads /\ q \in Threads
  <2>1. calls[p] > 0 /\ calls[q] \in Nat
    BY <1>3 DEF TypeOK, CallersOnly, Procs
  <2>2. calls[q] = 0
    BY <2>1, <1>3 DEF Solo
  <2> QED BY <2>2, <1>3 DEF CallersOnly
<1> QED BY <1>1, <1>2, <1>3 DEF Procs

\* Lemma: and all other threads are outside of the handler.
LEMMA OthersOutside ==
  ASSUME TypeOK, CallersOnly, Solo, NEW t \in Threads, calls[t] > 0,
         NEW u \in Threads, u # t
  PROVE  pc[u] \notin InHandler /\ pending[u] = 0 /\ calls[u] = 0
BY DEF TypeOK, CallersOnly, Solo

-----------------------------------------------------------------------------
(***************************************************************************)
(* The four steps of a patch, for somebody who is alone with it.            *)
(***************************************************************************)
PatchInv == PagesKept /\ SavedRight

\* Lemma: the page is made writable, and what it had is found.
LEMMA UnprotectKeeps ==
  ASSUME TypeOK, PatchInv, NEW p \in Procs, at[p] \in Sites,
         \A q \in Procs \ {p} : step[q] = "unprotect",
         Unprotect(p, IF p = Agent THEN "write" ELSE "save"), UNCHANGED at
  PROVE  PatchInv'
<1> USE DEF TypeOK, Page, Unprotect
<1>1. prot[Page(p)] = InitProt[Page(p)]
  BY DEF PatchInv, PagesKept
<1>2. PagesKept'
  BY <1>1 DEF PatchInv, PagesKept
<1>3. SavedRight'
  BY <1>1 DEF SavedRight, Procs
<1> QED BY <1>2, <1>3 DEF PatchInv

\* Lemma: it reaches the entry.
LEMMA SaveKeeps ==
  ASSUME TypeOK, PatchInv, NEW p \in Threads, at[p] \in Sites,
         \A q \in Procs \ {p} : step[q] = "unprotect",
         Save(p), UNCHANGED at
  PROVE  PatchInv'
<1> USE DEF TypeOK, Page, Save, PatchInv
<1>1. PagesKept'
  BY DEF PagesKept, Procs
<1>2. SavedRight'
  BY DEF SavedRight, Procs
<1> QED BY <1>1, <1>2

\* Lemma: the byte is written.
LEMMA WriteKeeps ==
  ASSUME TypeOK, PatchInv, NEW p \in Procs, at[p] \in Sites,
         \A q \in Procs \ {p} : step[q] = "unprotect",
         NEW byte, Write(p, byte), UNCHANGED at
  PROVE  PatchInv'
<1> USE DEF TypeOK, Page, Write, PatchInv
<1>1. PagesKept'
  BY DEF PagesKept, Procs
<1>2. SavedRight'
  BY DEF SavedRight, Procs
<1> QED BY <1>1, <1>2

\* Lemma: the page gets back what it had.
LEMMA ProtectKeeps ==
  ASSUME TypeOK, PatchInv, NEW p \in Procs, at[p] \in Sites,
         \A q \in Procs \ {p} : step[q] = "unprotect",
         Protect(p, IF p = Agent THEN old[p] ELSE originalProtection[at[p]]), UNCHANGED at
  PROVE  PatchInv'
<1> USE DEF TypeOK, Page, Protect, PatchInv
<1>1. prot'[Page(p)] = InitProt[Page(p)]
  BY DEF SavedRight, Procs
<1>2. PagesKept'
  BY <1>1 DEF PagesKept, Procs
<1>3. SavedRight'
  BY DEF SavedRight, Procs
<1> QED BY <1>2, <1>3

\* Lemma: other steps do not touch pages, nor move who is half-way through a patch.
LEMMA NoPatchKeeps ==
  ASSUME PatchInv, UNCHANGED <<prot, step, old, originalProtection>>,
         \A p \in Procs : step[p] # "unprotect" => at'[p] = at[p]
  PROVE  PatchInv'
<1>1. \A p \in Procs : step[p] # "unprotect" => Page(p)' = Page(p)
  BY DEF Page
<1>2. PagesKept'
  BY <1>1 DEF PagesKept, PatchInv
<1>3. SavedRight'
  BY <1>1 DEF SavedRight, PatchInv, Procs
<1> QED BY <1>2, <1>3 DEF PatchInv

-----------------------------------------------------------------------------
\* Lemma: the initial state.
LEMMA InitSolo == ~Dynamic /\ Init => SoloInv
<1> SUFFICES ASSUME ~Dynamic, Init PROVE SoloInv
  OBVIOUS
<1>1. IInv
  BY InitInv
<1>2. Suspended
  BY DEF Init, Suspended, Over
<1>3. CallersOnly /\ LoaderProgress
  BY DEF Init, CallersOnly, LoaderProgress, InHandler, Installing, Over, Procs
<1>4. PagesKept /\ SavedRight /\ SeenOnce
  BY DEF Init, PagesKept, SavedRight, SeenOnce, Procs
<1> QED BY <1>1, <1>2, <1>3, <1>4 DEF SoloInv, CallerInv

\* Lemma: who has made calls.
LEMMA CallersStep == SoloInv /\ [Next]_vars => CallersOnly'
<1> SUFFICES ASSUME SoloInv, [Next]_vars PROVE CallersOnly'
  OBVIOUS
<1> USE DEF SoloInv, IInv, TypeOK, Procs, Over, InHandler, CallersOnly
<1>1. ASSUME HooksInstalled \/ HooksFailed \/ SetCallback \/ Emplace \/ Swap PROVE CallersOnly'
  BY <1>1 DEF HooksInstalled, HooksFailed, SetCallback, Emplace, Swap, EntryStored,
     patchVars, vectorVars, threadVars
<1>2. ASSUME NEW s \in Sites, InstallRefused(s) \/ Install(s) PROVE CallersOnly'
  BY <1>2 DEF InstallRefused, Install, patchVars, vectorVars, threadVars
<1>3. ASSUME AgentUnprotect \/ AgentWrite \/ AgentProtect PROVE CallersOnly'
  BY <1>3 DEF AgentUnprotect, AgentWrite, AgentProtect, Unprotect, Write,
     Protect, vectorVars, threadVars, loaderVars
<1>4. ASSUME NEW t \in Threads, Resume(t) \/ Pass(t) \/ Trap(t) \/ Found(t) \/ SingleStep(t)
      PROVE  CallersOnly'
  BY <1>4 DEF Resume, Pass, Trap, Found, SingleStep, patchVars, vectorVars, loaderVars
<1>5. ASSUME NEW t \in Threads, Callback(t) PROVE CallersOnly'
  BY <1>5 DEF Callback, patchVars, vectorVars, loaderVars
<1>6. ASSUME NEW t \in Threads, NEW s \in Sites, Call(t, s) PROVE CallersOnly'
  BY <1>6 DEF Call, patchVars, vectorVars, loaderVars
<1>7. ASSUME NEW t \in Threads, DisableStep(t) \/ EnableStep(t) PROVE CallersOnly'
  BY <1>7 DEF DisableStep, EnableStep, Unprotect, Save, Write,
     vectorVars, threadVars, loaderVars
<1>8. ASSUME NEW t \in Threads, Disabled(t) \/ Enabled(t) PROVE CallersOnly'
  BY <1>8 DEF Disabled, Enabled, Protect, vectorVars, loaderVars
<1>9. ASSUME NEW t \in Threads, UseDangling(t) \/ Missed(t) \/ ForeignTrap(t) PROVE CallersOnly'
  BY <1>9 DEF UseDangling, Missed, ForeignTrap, End, patchVars, vectorVars, Suspended
<1>10. CASE UNCHANGED vars
  BY <1>10 DEF vars, patchVars, vectorVars, threadVars, loaderVars
<1> QED
  BY <1>1, <1>2, <1>3, <1>4, <1>5, <1>6, <1>7, <1>8, <1>9, <1>10
  DEF Next, Configure, Handle

\* Lemma: while nobody patches every page is as it was.
LEMMA UntouchedPages ==
  ASSUME SoloInv, loader \notin {"done", "enable"} \cup Over
  PROVE  \A s \in Sites : prot[PageOf[s]] = InitProt[PageOf[s]]
<1>1. \A t \in Threads : calls[t] = 0
  BY DEF SoloInv, Suspended, CallersOnly
<1>2. \A p \in Procs : step[p] = "unprotect"
  BY <1>1 DEF SoloInv, CallersOnly, Procs
<1>3. PagesKept
  BY <1>1 DEF Solo, SoloInv, CallerInv
<1> QED BY <1>2, <1>3 DEF PagesKept

\* Lemma: what configure() has done and has still to do.
LEMMA ProgressStep == SoloInv /\ [Next]_vars => LoaderProgress'
<1> SUFFICES ASSUME SoloInv, [Next]_vars PROVE LoaderProgress'
  OBVIOUS
<1> USE DEF SoloInv, IInv, TypeOK, Procs, Over, Installing, LoaderProgress, Executable
<1>1. ASSUME HooksInstalled \/ HooksFailed \/ SetCallback PROVE LoaderProgress'
  BY <1>1 DEF HooksInstalled, HooksFailed, SetCallback,
     patchVars, vectorVars, threadVars
<1>2. ASSUME NEW s \in Sites, InstallRefused(s) PROVE LoaderProgress'
  <2>1. loader = "install" /\ prot[PageOf[s]] = InitProt[PageOf[s]]
    BY <1>2, UntouchedPages DEF InstallRefused
  <2>2. ~Executable(s)
    BY <1>2, <2>1 DEF InstallRefused
  <2> QED BY <1>2, <2>2 DEF InstallRefused, vectorVars, threadVars
<1>3. ASSUME NEW s \in Sites, Install(s) PROVE LoaderProgress'
  BY <1>3 DEF Install, patchVars, vectorVars, threadVars
<1>4. ASSUME Emplace \/ Swap PROVE LoaderProgress'
  BY <1>4 DEF Emplace, Swap, EntryStored, threadVars
<1>5. ASSUME AgentUnprotect \/ AgentWrite \/ AgentProtect PROVE LoaderProgress'
  BY <1>5 DEF AgentUnprotect, AgentWrite, AgentProtect, vectorVars, threadVars, loaderVars
<1>6. ASSUME NEW t \in Threads, UseDangling(t) \/ Missed(t) \/ ForeignTrap(t) PROVE LoaderProgress'
  BY <1>6 DEF UseDangling, Missed, ForeignTrap, End, vectorVars
<1>7. ASSUME UNCHANGED <<loader, instrumented, todo, callbackSet>>, at'[Agent] = at[Agent]
      PROVE  LoaderProgress'
  BY <1>7
<1>8. ASSUME NEW t \in Threads, Resume(t) \/ Handle(t) \/ (\E s \in Sites : Call(t, s))
      PROVE  UNCHANGED <<loader, instrumented, todo, callbackSet>> /\ at'[Agent] = at[Agent]
  BY <1>8 DEF Resume, Handle, Call, Pass, Trap, Found, Callback, DisableStep, Disabled, SingleStep,
     EnableStep, Enabled, vectorVars, threadVars, loaderVars
<1>9. ASSUME UNCHANGED vars
      PROVE  UNCHANGED <<loader, instrumented, todo, callbackSet>> /\ at'[Agent] = at[Agent]
  BY <1>9 DEF vars, vectorVars, threadVars, loaderVars
<1> QED
  BY <1>1, <1>2, <1>3, <1>4, <1>5, <1>6, <1>7, <1>8, <1>9 DEF Next, Configure

\* Lemma: pages and what is saved of them.
LEMMA PatchStep == SoloInv /\ Solo /\ [Next]_vars => PatchInv'
<1> SUFFICES ASSUME SoloInv, Solo, [Next]_vars PROVE PatchInv'
  OBVIOUS
<1>1. /\ TypeOK /\ AtSites /\ HandlerShape /\ PatchInv /\ CallersOnly /\ Suspended
      /\ \A t \in Threads : step[t] # "unprotect" => pc[t] \notin {"held", "idle", "fetch", "search", "callback"}
  BY DEF SoloInv, IInv, CallerInv, PatchInv, HandlerShape
<1>2. ASSUME NEW p \in Procs,
             \/ p \in Threads /\ pc[p] \in InHandler
             \/ p = Agent /\ loader \in Installing
      PROVE  \A q \in Procs \ {p} : step[q] = "unprotect"
  BY <1>1, <1>2, Alone
<1>3. Agent \in Procs /\ Threads \subseteq Procs /\ Agent \notin Threads
  BY DEF Procs
<1>4. ASSUME AgentUnprotect \/ AgentWrite \/ AgentProtect PROVE PatchInv'
  <2>1. /\ loader \in Installing /\ at[Agent] \in Sites /\ UNCHANGED at
        /\ \/ Unprotect(Agent, "write") \/ Write(Agent, "int3") \/ Protect(Agent, old[Agent])
    BY <1>1, <1>4 DEF AgentUnprotect, AgentWrite, AgentProtect, Installing, AtSites,
       threadVars
  <2>2. \A q \in Procs \ {Agent} : step[q] = "unprotect"
    BY <2>1, <1>2, <1>3
  <2> QED BY <2>1, <2>2, <1>1, <1>3, UnprotectKeeps, WriteKeeps, ProtectKeeps
<1>5. ASSUME NEW t \in Threads,
             DisableStep(t) \/ EnableStep(t) \/ Disabled(t) \/ Enabled(t)
      PROVE  PatchInv'
  <2>1. /\ pc[t] \in InHandler /\ at[t] \in Sites /\ UNCHANGED at
        /\ \/ Unprotect(t, "save") \/ Save(t) \/ Write(t, "orig") \/ Write(t, "int3")
           \/ Protect(t, originalProtection[at[t]])
    BY <1>1, <1>5 DEF DisableStep, EnableStep, Disabled, Enabled, InHandler, AtSites,
       threadVars
  <2>2. t \in Procs /\ t # Agent /\ \A q \in Procs \ {t} : step[q] = "unprotect"
    BY <2>1, <1>2, <1>3
  <2>3. Unprotect(t, "save") => PatchInv'
    BY <2>1, <2>2, <1>1, UnprotectKeeps
  <2>4. Save(t) => PatchInv'
    BY <2>1, <2>2, <1>1, SaveKeeps
  <2>5. Write(t, "orig") \/ Write(t, "int3") => PatchInv'
    BY <2>1, <2>2, <1>1, WriteKeeps
  <2>6. Protect(t, originalProtection[at[t]]) => PatchInv'
    BY <2>1, <2>2, <1>1, ProtectKeeps
  <2> QED BY <2>1, <2>3, <2>4, <2>5, <2>6
<1>6. CASE Emplace \/ Swap
  <2>1. \A q \in Procs : step[q] = "unprotect"
    BY <1>6, <1>1, <1>2, <1>3 DEF Emplace, Swap, Installing, CallersOnly
  <2>2. UNCHANGED <<prot, step, old, at>>
    BY <1>6 DEF Emplace, Swap, threadVars
  <2>3. PagesKept'
    BY <2>1, <2>2, <1>1 DEF PatchInv, PagesKept, Page
  <2> QED BY <2>1, <2>2, <2>3, <1>3 DEF PatchInv, SavedRight
<1>7. ASSUME NEW s \in Sites, Install(s) PROVE PatchInv'
  <2>1. step[Agent] = "unprotect" /\ UNCHANGED <<prot, step, old, originalProtection>>
        /\ at' = [at EXCEPT ![Agent] = s]
    BY <1>1, <1>7 DEF Install, CallersOnly, patchVars
  <2>2. \A p \in Procs : step[p] # "unprotect" => at'[p] = at[p]
    BY <2>1, <1>1 DEF TypeOK
  <2> QED BY <2>1, <2>2, <1>1, NoPatchKeeps
<1>8. ASSUME NEW t \in Threads, NEW s \in Sites, Call(t, s) PROVE PatchInv'
  <2>1. step[t] = "unprotect" /\ UNCHANGED <<prot, step, old, originalProtection>>
        /\ at' = [at EXCEPT ![t] = s]
    BY <1>1, <1>8 DEF Call, HandlerShape, patchVars
  <2>2. \A p \in Procs : step[p] # "unprotect" => at'[p] = at[p]
    BY <2>1, <1>1 DEF TypeOK
  <2> QED BY <2>1, <2>2, <1>1, NoPatchKeeps
<1>9. ASSUME UNCHANGED <<prot, step, old, originalProtection, at>> PROVE PatchInv'
  BY <1>9, <1>1, NoPatchKeeps
<1>10. ASSUME NEW t \in Threads,
              \/ Resume(t) \/ Pass(t) \/ Trap(t) \/ Found(t) \/ Callback(t) \/ SingleStep(t)
              \/ UseDangling(t) \/ Missed(t) \/ ForeignTrap(t)
       PROVE  PatchInv'
  BY <1>9, <1>10 DEF Resume, Pass, Trap, Found, Callback, SingleStep, UseDangling, Missed, ForeignTrap, End,
     patchVars
<1>11. ASSUME \/ HooksInstalled \/ HooksFailed \/ SetCallback
              \/ (\E s \in Sites : InstallRefused(s)) \/ UNCHANGED vars
       PROVE  PatchInv'
  BY <1>9, <1>11 DEF HooksInstalled, HooksFailed, SetCallback, InstallRefused, vars,
     patchVars, threadVars
<1> QED
  BY <1>4, <1>5, <1>6, <1>7, <1>8, <1>10, <1>11 DEF Next, Configure, Handle

\* What SeenOnce says of one thread.
Seen(t) ==
  /\ pc[t] \in {"search", "callback"} => pending[t] = 0
  /\ pc[t] \in {"fetch", "search", "callback"} /\ pending[t] = 0 => observed[t] = 0
  /\ pc[t] = "disable" => pending[t] = 0 /\ observed[t] = 1
  /\ pc[t] = "disable" /\ step[t] = "protect" => code[at[t]] = "orig"
  /\ pc[t] = "fetch" /\ pending[t] > 0 => code[at[t]] = "orig"
  /\ pending[t] > 0 => pending[t] = 1 /\ observed[t] = 1

\* Lemma: a call is seen by one callback, and the byte stays away until it is stepped over.
LEMMA SeenStep == SoloInv /\ Solo /\ [Next]_vars => SeenOnce'
<1> SUFFICES ASSUME SoloInv, Solo, [Next]_vars PROVE SeenOnce'
  OBVIOUS
<1>1. /\ TypeOK /\ AtSites /\ HandlerShape /\ CallersOnly /\ Suspended /\ LoaderProgress
      /\ \A t \in Threads : Seen(t)
  BY DEF SoloInv, IInv, CallerInv, SeenOnce, Seen
<1>2. SUFFICES ASSUME NEW u \in Threads PROVE Seen(u)'
  BY DEF SeenOnce, Seen
<1> USE DEF TypeOK, Procs, Over, InHandler
<1>3. ASSUME NEW t \in Threads, pc[t] \in InHandler
      PROVE  u # t => pc[u] \notin InHandler /\ pending[u] = 0
  BY <1>1, <1>3, OthersOutside DEF CallersOnly
<1>4. ASSUME pc'[u] = pc[u], pending'[u] = pending[u], observed'[u] = observed[u],
             pc[u] \notin InHandler
      PROVE  Seen(u)'
  BY <1>1, <1>4 DEF Seen
<1>5. ASSUME Configure PROVE Seen(u)'
  <2>1. UNCHANGED <<pc, pending, observed>> /\ loader \notin {"done"} \cup Over
    BY <1>5 DEF Configure, HooksInstalled, HooksFailed, InstallRefused, Install, Emplace, Swap,
       AgentUnprotect, AgentWrite, AgentProtect, SetCallback, threadVars
  <2>2. pc[u] = "held"
    BY <2>1, <1>1 DEF Suspended
  <2> QED BY <2>1, <2>2, <1>4
<1>6. ASSUME NEW t \in Threads, Resume(t) \/ (\E s \in Sites : Call(t, s)) PROVE Seen(u)'
  <2>1. CASE u = t
    BY <2>1, <1>1, <1>6 DEF Resume, Call, HandlerShape, Seen
  <2>2. CASE u # t
    BY <2>2, <1>1, <1>6 DEF Resume, Call, Seen, patchVars
  <2> QED BY <2>1, <2>2
<1>7. ASSUME NEW t \in Threads, Handle(t), u # t PROVE Seen(u)'
  <2>1. /\ pc[t] \in InHandler
        /\ pc'[u] = pc[u] /\ pending'[u] = pending[u] /\ observed'[u] = observed[u]
    BY <1>1, <1>7 DEF Handle, Pass, Trap, Found, Callback, DisableStep, Disabled, SingleStep,
       EnableStep, Enabled, threadVars
  <2> QED BY <2>1, <1>3, <1>4, <1>7
<1>8. CASE Pass(u)
  BY <1>1, <1>8 DEF Pass, Seen
<1>9. CASE Trap(u) \/ Found(u)
  BY <1>1, <1>9 DEF Trap, Found, Seen
<1>10. CASE Callback(u)
  <2>1. at[u] \in instrumented /\ loader = "done"
    BY <1>1, <1>10 DEF Callback, HandlerShape, Busy, Suspended, CallersOnly
  <2>2. callbackSet
    BY <2>1, <1>1 DEF LoaderProgress
  <2>3. observed'[u] = observed[u] + 1 /\ pending' = pending /\ pc'[u] = "disable"
        /\ step' = step /\ pc[u] = "callback"
    BY <2>2, <1>1, <1>10 DEF Callback, patchVars
  <2> QED BY <2>3, <1>1 DEF Seen, HandlerShape
<1>11. CASE DisableStep(u)
  <2>1. pc[u] = "disable" /\ UNCHANGED threadVars /\ Seen(u)
    BY <1>1, <1>11 DEF DisableStep
  <2>2. CASE Unprotect(u, "save") \/ Save(u)
    BY <2>1, <2>2, <1>1 DEF Unprotect, Save, Seen, threadVars
  <2>3. CASE Write(u, "orig")
    <3>1. at[u] \in Sites
      BY <2>1, <1>1 DEF AtSites
    <3>2. code'[at[u]] = "orig"
      BY <2>3, <3>1, <1>1 DEF Write
    <3> QED BY <2>1, <3>2 DEF Seen, threadVars
  <2> QED BY <2>2, <2>3, <1>11 DEF DisableStep
<1>12. CASE Disabled(u)
  BY <1>1, <1>12 DEF Disabled, Protect, Seen
<1>13. CASE SingleStep(u)
  BY <1>1, <1>13 DEF SingleStep, Seen
<1>14. CASE EnableStep(u)
  BY <1>1, <1>14 DEF EnableStep, Seen, threadVars
<1>15. CASE Enabled(u)
  BY <1>1, <1>15 DEF Enabled, Seen
<1>16. ASSUME NEW t \in Threads, UseDangling(t) \/ Missed(t) \/ ForeignTrap(t) PROVE Seen(u)'
  BY <1>1, <1>16 DEF UseDangling, Missed, ForeignTrap, End, patchVars, Seen
<1>17. CASE UNCHANGED vars
  BY <1>1, <1>17 DEF vars, patchVars, threadVars, Seen
<1> QED
  BY <1>5, <1>6, <1>7, <1>8, <1>9, <1>10, <1>11, <1>12, <1>13, <1>14, <1>15, <1>16, <1>17
  DEF Next, Handle

\* Theorem: the inductive invariant of a process that was started suspended.  Its
\* last part is about one calling thread: then who patches is alone with the page,
\* so that what it saves is what the page had before.
THEOREM SoloInvariance == ASSUME ~Dynamic PROVE Spec => []SoloInv
<1>1. Init => SoloInv
  BY InitSolo
<1>2. SoloInv /\ [Next]_vars => SoloInv'
  <2> SUFFICES ASSUME SoloInv, [Next]_vars PROVE SoloInv'
    OBVIOUS
  <2>1. (IInv /\ Suspended)'
    <3>1. IInv /\ Suspended
      BY DEF SoloInv
    <3>2. IInv'
      BY <3>1, NextType, NextShape, NextTrapsFound, NextRearmOwed, NextEnds DEF IInv
    <3> QED BY <3>1, <3>2, SuspendedStep
  <2>2. (CallersOnly /\ LoaderProgress)'
    BY CallersStep, ProgressStep
  <2>3. ASSUME Solo' PROVE CallerInv'
    <3>1. Solo
      BY <2>3, SoloBefore DEF SoloInv, IInv
    <3> QED BY <3>1, PatchStep, SeenStep DEF CallerInv, PatchInv
  <2> QED BY <2>1, <2>2, <2>3 DEF SoloInv
<1> QED BY <1>1, <1>2, PTL DEF Spec

\* Theorem: the store of a patch does not fault, however many breakpoints share the
\* page and its saved protection (CodeInstrumentation::enable, disable).
THEOREM WritesNeverFault == ASSUME ~Dynamic PROVE Spec => []WriteAllowed
<1>1. SoloInv => WriteAllowed
  BY DEF SoloInv, CallerInv, PagesKept, WriteAllowed
<1> QED BY <1>1, SoloInvariance, PTL

\* Theorem: a call is reported to the monitoring callback once (veh_handler).
THEOREM CallsObservedOnce == ASSUME ~Dynamic PROVE Spec => []ObservedOnce
<1>1. SoloInv => ObservedOnce
  BY DEF SoloInv, CallerInv, SeenOnce, ObservedOnce
<1> QED BY <1>1, SoloInvariance, PTL

\* Theorem: between calls every page is as protected as it was before the agent came.
THEOREM PagesRestored == ASSUME ~Dynamic PROVE Spec => []ProtectionRestored
<1>1. ASSUME SoloInv PROVE ProtectionRestored
  <2> SUFFICES ASSUME Solo, loader = "done", \A t \in Threads : pc[t] \in {"held", "idle"}
               PROVE  prot = InitProt
    BY DEF ProtectionRestored
  <2>1. \A p \in Procs : step[p] = "unprotect"
    BY <1>1 DEF SoloInv, IInv, HandlerShape, Procs
  <2>2. \A g \in Pages : prot[g] = InitProt[g]
    BY <1>1, <2>1 DEF SoloInv, CallerInv, PagesKept
  <2>3. prot \in [Pages -> Protections]
    BY <1>1 DEF SoloInv, IInv, TypeOK
  <2> QED BY <2>2, <2>3
<1> QED BY <1>1, SoloInvariance, PTL

\* Theorem: configure() has armed every function on an executable page when it is
\* done, whichever of them share one: install() refuses none that it should take.
THEOREM AllFunctionsArmed == ASSUME ~Dynamic PROVE Spec => []EveryFunctionArmed
<1>1. SoloInv => EveryFunctionArmed
  BY DEF SoloInv, LoaderProgress, EveryFunctionArmed
<1> QED BY <1>1, SoloInvariance, PTL

-----------------------------------------------------------------------------
(***************************************************************************)
(* A call goes through the handler in one direction.                        *)
(***************************************************************************)
\* Lemma: how far a thread is, case by case.
LEMMA LeftOf ==
  ASSUME TypeOK, NEW t \in Threads
  PROVE  /\ PatchLeft(t) \in 1 .. 4
         /\ step[t] = "unprotect" => PatchLeft(t) = 4
         /\ step[t] = "save" => PatchLeft(t) = 3
         /\ step[t] = "write" => PatchLeft(t) = 2
         /\ step[t] = "protect" => PatchLeft(t) = 1
         /\ pc[t] = "fetch" => HandlerLeft(t) = IF code[at[t]] = "int3" THEN 12
                                                ELSE IF pending[t] > 0 THEN 5 ELSE 1
         /\ pc[t] = "search" => HandlerLeft(t) = 11
         /\ pc[t] = "callback" => HandlerLeft(t) = 10
         /\ pc[t] = "disable" => HandlerLeft(t) = 5 + PatchLeft(t)
         /\ pc[t] = "enable" => HandlerLeft(t) = PatchLeft(t)
         /\ pc[t] \notin InHandler => HandlerLeft(t) = 0
<1>1. /\ PatchLeft(t) \in 1 .. 4
      /\ step[t] = "unprotect" => PatchLeft(t) = 4
      /\ step[t] = "save" => PatchLeft(t) = 3
      /\ step[t] = "write" => PatchLeft(t) = 2
      /\ step[t] = "protect" => PatchLeft(t) = 1
  BY DEF TypeOK, PatchLeft, Procs
<1>2. /\ pc[t] = "fetch" => HandlerLeft(t) = IF code[at[t]] = "int3" THEN 12
                                             ELSE IF pending[t] > 0 THEN 5 ELSE 1
      /\ pc[t] = "search" => HandlerLeft(t) = 11
      /\ pc[t] = "callback" => HandlerLeft(t) = 10
      /\ pc[t] = "disable" => HandlerLeft(t) = 5 + PatchLeft(t)
      /\ pc[t] = "enable" => HandlerLeft(t) = PatchLeft(t)
      /\ pc[t] \notin InHandler => HandlerLeft(t) = 0
  BY DEF HandlerLeft, InHandler
<1> QED BY <1>1, <1>2

\* Lemma: the same after a step.
LEMMA LeftAfter ==
  ASSUME TypeOK', NEW t \in Threads
  PROVE  /\ PatchLeft(t)' \in 1 .. 4
         /\ step'[t] = "save" => PatchLeft(t)' = 3
         /\ step'[t] = "write" => PatchLeft(t)' = 2
         /\ step'[t] = "protect" => PatchLeft(t)' = 1
         /\ pc'[t] = "fetch" => HandlerLeft(t)' = IF code'[at'[t]] = "int3" THEN 12
                                                  ELSE IF pending'[t] > 0 THEN 5 ELSE 1
         /\ pc'[t] = "search" => HandlerLeft(t)' = 11
         /\ pc'[t] = "callback" => HandlerLeft(t)' = 10
         /\ pc'[t] = "disable" => HandlerLeft(t)' = 5 + PatchLeft(t)'
         /\ pc'[t] = "enable" => HandlerLeft(t)' = PatchLeft(t)'
         /\ pc'[t] \notin InHandler => HandlerLeft(t)' = 0
<1>1. /\ PatchLeft(t)' \in 1 .. 4
      /\ step'[t] = "save" => PatchLeft(t)' = 3
      /\ step'[t] = "write" => PatchLeft(t)' = 2
      /\ step'[t] = "protect" => PatchLeft(t)' = 1
  BY DEF TypeOK, PatchLeft, Procs
<1>2. /\ pc'[t] = "fetch" => HandlerLeft(t)' = IF code'[at'[t]] = "int3" THEN 12
                                               ELSE IF pending'[t] > 0 THEN 5 ELSE 1
      /\ pc'[t] = "search" => HandlerLeft(t)' = 11
      /\ pc'[t] = "callback" => HandlerLeft(t)' = 10
      /\ pc'[t] = "disable" => HandlerLeft(t)' = 5 + PatchLeft(t)'
      /\ pc'[t] = "enable" => HandlerLeft(t)' = PatchLeft(t)'
      /\ pc'[t] \notin InHandler => HandlerLeft(t)' = 0
  BY DEF HandlerLeft, InHandler
<1> QED BY <1>1, <1>2

\* Lemma: each step of a thread in the handler takes it nearer to the end of its call.
LEMMA OwnStepAdvances ==
  ASSUME SoloInv, TypeOK', Solo, NEW t \in Threads, Handle(t)
  PROVE  HandlerLeft(t)' < HandlerLeft(t)
<1>1. TypeOK /\ AtSites /\ HandlerShape /\ Seen(t)
  BY DEF SoloInv, IInv, CallerInv, SeenOnce, Seen
<1>2. /\ pc \in [Threads ->
            {"held", "idle", "fetch", "search", "callback", "disable", "enable"} \cup Over]
      /\ step \in [Procs -> {"unprotect", "save", "write", "protect"}]
      /\ code \in [Sites -> {"orig", "int3"}] /\ pending \in [Threads -> Nat]
      /\ t \in Procs
  BY <1>1 DEF TypeOK, Procs
<1>3. CASE Pass(t)
  <2>1. pc[t] = "fetch" /\ code[at[t]] = "orig" /\ pending[t] = 0 /\ pc'[t] = "idle"
    BY <1>2, <1>3 DEF Pass
  <2> QED BY <2>1, <1>1, LeftOf, LeftAfter DEF InHandler
<1>4. CASE Trap(t)
  <2>1. pc[t] = "fetch" /\ code[at[t]] = "int3" /\ pc'[t] = "search"
    BY <1>2, <1>4 DEF Trap
  <2> QED BY <2>1, <1>1, LeftOf, LeftAfter
<1>12. CASE Found(t)
  <2>1. pc[t] = "search" /\ pc'[t] = "callback"
    BY <1>2, <1>12 DEF Found
  <2> QED BY <2>1, <1>1, LeftOf, LeftAfter
<1>5. CASE Callback(t)
  <2>1. pc[t] = "callback" /\ pc'[t] = "disable"
    BY <1>2, <1>5 DEF Callback
  <2> QED BY <2>1, <1>1, LeftOf, LeftAfter
<1>6. ASSUME pc' = pc, pc[t] \in {"disable", "enable"}, NEW byte,
             Unprotect(t, "save") \/ Save(t) \/ Write(t, byte)
      PROVE  HandlerLeft(t)' < HandlerLeft(t)
  <2>1. \/ step[t] = "unprotect" /\ step'[t] = "save"
        \/ step[t] = "save" /\ step'[t] = "write"
        \/ step[t] = "write" /\ step'[t] = "protect"
    BY <1>2, <1>6 DEF Unprotect, Save, Write
  <2>2. PatchLeft(t)' < PatchLeft(t)
    BY <2>1, <1>1, LeftOf, LeftAfter
  <2> QED BY <2>2, <1>1, <1>6, LeftOf, LeftAfter
<1>7. CASE DisableStep(t)
  BY <1>6, <1>7 DEF DisableStep, threadVars
<1>8. CASE EnableStep(t)
  BY <1>6, <1>8 DEF EnableStep, threadVars
<1>9. CASE Disabled(t)
  <2>1. /\ pc[t] = "disable" /\ step[t] = "protect" /\ pc'[t] = "fetch"
        /\ pending'[t] = pending[t] + 1 /\ code' = code /\ at' = at
    BY <1>2, <1>9 DEF Disabled, Protect
  <2>2. code'[at'[t]] = "orig" /\ pending'[t] > 0
    BY <2>1, <1>1, <1>2 DEF Seen
  <2> QED BY <2>1, <2>2, <1>1, LeftOf, LeftAfter
<1>10. CASE SingleStep(t)
  <2>1. pc[t] = "fetch" /\ code[at[t]] = "orig" /\ pending[t] > 0 /\ pc'[t] = "enable"
    BY <1>2, <1>10 DEF SingleStep
  <2> QED BY <2>1, <1>1, LeftOf, LeftAfter
<1>11. CASE Enabled(t)
  <2>1. pc[t] = "enable" /\ pc'[t] = "idle"
    BY <1>1, <1>2, <1>11 DEF Enabled, Seen
  <2> QED BY <2>1, <1>1, LeftOf, LeftAfter DEF InHandler
<1> QED BY <1>3, <1>4, <1>5, <1>7, <1>8, <1>9, <1>10, <1>11, <1>12 DEF Handle

\* Theorem: the safety part of HandlerReturns.  Whatever step is taken while one
\* thread calls functions, it brings the call nearer to its end or leaves the
\* thread where it is: the INT3 that was taken out stays out until the
\* instruction behind it has run, and nobody else is at the thread's breakpoint.
THEOREM CallsAdvance == ASSUME ~Dynamic PROVE Spec => HandlerAdvances
<1>1. SoloInv /\ TypeOK' /\ [Next]_vars =>
        \A t \in Threads : Solo /\ HandlerLeft(t) > 0 =>
          \/ HandlerLeft(t)' < HandlerLeft(t)
          \/ UNCHANGED <<pc[t], step[t], pending[t], HandlerLeft(t)>>
  <2> SUFFICES ASSUME SoloInv, TypeOK', [Next]_vars, NEW t \in Threads, Solo, HandlerLeft(t) > 0
               PROVE  \/ HandlerLeft(t)' < HandlerLeft(t)
                      \/ UNCHANGED <<pc[t], step[t], pending[t], HandlerLeft(t)>>
    OBVIOUS
  <2>1. TypeOK /\ CallersOnly /\ Suspended
    BY DEF SoloInv, IInv
  <2>2. pc[t] \in InHandler
    BY <2>1, LeftOf
  <2>3. loader = "done" /\ calls[t] > 0 /\ stale[t] = {}
    BY <2>1, <2>2 DEF TypeOK, Suspended, CallersOnly, Over, InHandler
  <2>4. ASSUME UNCHANGED <<pc[t], step[t], pending[t], code, at[t]>>
        PROVE  UNCHANGED <<pc[t], step[t], pending[t], HandlerLeft(t)>>
    BY <2>4 DEF HandlerLeft, PatchLeft
  <2>5. CASE Configure
    BY <2>3, <2>5 DEF Configure, HooksInstalled, HooksFailed, InstallRefused, Install, Emplace, Swap,
       AgentUnprotect, AgentWrite, AgentProtect, SetCallback
  <2>6. ASSUME NEW u \in Threads, u # t, Resume(u) \/ Handle(u) \/ \E s \in Sites : Call(u, s)
        PROVE  UNCHANGED <<pc[t], step[t], pending[t], code, at[t]>>
    <3>1. pc[u] \notin InHandler
      BY <2>1, <2>3, <2>6, OthersOutside
    <3>2. ~Handle(u)
      BY <3>1 DEF InHandler, Handle, Pass, Trap, Found, Callback, DisableStep, Disabled, SingleStep,
         EnableStep, Enabled
    <3>3. CASE Resume(u)
      BY <2>1, <2>6, <3>3 DEF TypeOK, Resume, patchVars
    <3>4. CASE \E s \in Sites : Call(u, s)
      BY <2>1, <2>6, <3>4 DEF TypeOK, Procs, Call, patchVars
    <3> QED BY <2>6, <3>2, <3>3, <3>4
  <2>7. ~Resume(t) /\ \A s \in Sites : ~Call(t, s)
    BY <2>2 DEF Resume, Call, InHandler
  <2>8. CASE Handle(t)
    BY <2>8, OwnStepAdvances
  <2>9. ASSUME NEW u \in Threads, UseDangling(u) \/ Missed(u) \/ ForeignTrap(u)
        PROVE  HandlerLeft(t)' < HandlerLeft(t)
    <3>1. pc'[t] \in Over
      BY <2>9 DEF UseDangling, Missed, ForeignTrap, End, Over
    <3>2. HandlerLeft(t)' = 0
      BY <3>1, LeftAfter DEF Over, InHandler
    <3> QED BY <3>2
  <2>10. CASE UNCHANGED vars
    BY <2>4, <2>10 DEF vars, patchVars, threadVars
  <2> QED BY <2>4, <2>5, <2>6, <2>7, <2>8, <2>9, <2>10 DEF Next
<1>2. SoloInv => TypeOK
  BY DEF SoloInv, IInv
<1> QED BY <1>1, <1>2, SoloInvariance, PTL DEF Spec, HandlerAdvances
=============================================================================
