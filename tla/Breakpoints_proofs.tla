-------------------------- MODULE Breakpoints_proofs --------------------------
(***************************************************************************)
(* Invariants of Breakpoints, for any number of threads, sites and pages.   *)
(***************************************************************************)
EXTENDS Breakpoints, FiniteSetTheorems, TLAPS

USE SitesAssumption, ModeAssumption, ProcsAssumption
USE DEF SitesAssumption, ModeAssumption, ProcsAssumption

\* Lemma: the vector of breakpoints has a size.
LEMMA SizeIsNat ==
  ASSUME instrumented \subseteq Sites
  PROVE  Cardinality(instrumented) \in Nat
BY FS_Subset, FS_CardinalityType

-----------------------------------------------------------------------------
\* A thread that is at a breakpoint is at a site, which has an entry if the
\* thread is in the handler; its closures are queued while they are needed, and
\* outside enable() and disable() nobody is half-way through a patch.
Busy(t) == pc[t] \in {"search", "callback", "disable", "enable"} \/ pending[t] > 0

AtSites ==
  /\ \A t \in Threads : pc[t] \in {"fetch", "search", "callback", "disable", "enable"}
       => at[t] \in Sites
  /\ loader \in {"emplace", "swap", "enable"} => at[Agent] \in Sites

HandlerShape ==
  /\ \A t \in Threads : Busy(t) => at[t] \in instrumented
  /\ \A t \in Threads : pc[t] \in {"held", "idle"} => pending[t] = 0
  /\ \A t \in Threads : pc[t] = "enable" => pending[t] > 0
  /\ \A t \in Threads : pc[t] \in {"held", "idle", "fetch", "search", "callback"}
       => step[t] = "unprotect"
  /\ loader = "enable" => at[Agent] \in instrumented
  /\ loader \in {"hooks", "install", "emplace", "swap", "done"} => step[Agent] = "unprotect"

\* Lemma: initially every variable has its type.
LEMMA InitType == Init => TypeOK
<1> SUFFICES ASSUME Init PROVE TypeOK
  OBVIOUS
<1> USE DEF Init, Procs, Protections, Over
<1>1. prot \in [Pages -> Protections]
  OBVIOUS
<1>2. pc \in [Threads -> {"held", "idle"}]
  OBVIOUS
<1>3. /\ at \in [Procs -> Sites \cup {NoSite}]
      /\ stale \in [Threads -> SUBSET {"ci", "closures"}]
  OBVIOUS
<1>4. /\ code \in [Sites -> {"orig", "int3"}]
      /\ originalProtection \in [Sites -> Protections]
      /\ step \in [Procs -> {"unprotect", "save", "write", "protect"}]
      /\ old \in [Procs -> Protections]
  OBVIOUS
<1>5. /\ instrumented \subseteq Sites /\ capacity \in Nat /\ callbackSet \in BOOLEAN
      /\ loader \in {"hooks", "install", "emplace", "swap", "enable", "done"} \cup Over
      /\ todo \subseteq Sites
  OBVIOUS
<1>6. /\ pending \in [Threads -> Nat] /\ observed \in [Threads -> Nat]
      /\ calls \in [Threads -> Nat]
  OBVIOUS
<1> HIDE DEF Init, Procs, Protections, Over
<1>7. pc \in [Threads ->
        {"held", "idle", "fetch", "search", "callback", "disable", "enable"} \cup Over]
  BY <1>2
<1> QED BY <1>1, <1>3, <1>4, <1>5, <1>6, <1>7 DEF TypeOK

\* Lemma: every step keeps the variables' types, given where it happens.
LEMMA NextType == TypeOK /\ AtSites /\ HandlerShape /\ [Next]_vars => TypeOK'
<1> SUFFICES ASSUME TypeOK, AtSites, HandlerShape, [Next]_vars PROVE TypeOK'
  OBVIOUS
<1> USE DEF TypeOK, Procs, Protections, Over
<1>1. ASSUME HooksInstalled \/ HooksFailed \/ SetCallback PROVE TypeOK'
  <2>1. CASE HooksInstalled
    BY <2>1 DEF HooksInstalled, patchVars, vectorVars, threadVars
  <2>2. CASE HooksFailed
    BY <2>2 DEF HooksFailed, patchVars, vectorVars, threadVars
  <2>3. CASE SetCallback
    BY <2>3 DEF SetCallback, patchVars, vectorVars, threadVars
  <2> QED BY <1>1, <2>1, <2>2, <2>3
<1>2. ASSUME NEW s \in Sites, InstallRefused(s) \/ Install(s) PROVE TypeOK'
  BY <1>2 DEF InstallRefused, Install, patchVars, vectorVars, threadVars
<1>3. ASSUME Emplace \/ Swap PROVE TypeOK'
  <2>1. capacity' \in Nat
    <3>1. Cardinality(instrumented) + 1 \in Nat
      BY SizeIsNat
    <3>2. capacity + capacity \div 2 \in Nat
      OBVIOUS
    <3> QED BY <1>3, <3>1, <3>2 DEF Emplace, Swap
  <2>2. stale' \in [Threads -> SUBSET {"ci", "closures"}]
    BY <1>3 DEF Emplace, Swap, Pointers
  <2>3. /\ instrumented' \subseteq Sites /\ originalProtection' \in [Sites -> Protections]
        /\ loader' \in {"swap", "enable"}
    BY <1>3 DEF Emplace, Swap, EntryStored, AtSites
  <2>4. UNCHANGED <<todo, callbackSet, code, prot, step, old, threadVars>>
    BY <1>3 DEF Emplace, Swap
  <2> QED BY <2>1, <2>2, <2>3, <2>4 DEF threadVars
<1>4. ASSUME AgentUnprotect \/ AgentWrite \/ AgentProtect PROVE TypeOK'
  BY <1>4 DEF AgentUnprotect, AgentWrite, AgentProtect, Unprotect, Write,
     Protect, Page, AtSites, vectorVars, threadVars, loaderVars
<1>5. ASSUME NEW t \in Threads, Resume(t) \/ Pass(t) \/ Trap(t) \/ Found(t) \/ SingleStep(t)
      PROVE  TypeOK'
  BY <1>5 DEF Resume, Pass, Trap, Found, SingleStep, patchVars, vectorVars, loaderVars
<1>6. ASSUME NEW t \in Threads, Callback(t) \/ (\E s \in Sites : Call(t, s))
      PROVE  TypeOK'
  BY <1>6 DEF Callback, Call, patchVars, vectorVars, loaderVars
<1>7. ASSUME NEW t \in Threads, DisableStep(t) \/ EnableStep(t) PROVE TypeOK'
  BY <1>7 DEF DisableStep, EnableStep, Unprotect, Save, Write, Page, AtSites,
     vectorVars, threadVars, loaderVars
<1>8. ASSUME NEW t \in Threads, Disabled(t) \/ Enabled(t) PROVE TypeOK'
  BY <1>8 DEF Disabled, Enabled, Protect, Page, AtSites, HandlerShape,
     vectorVars, loaderVars
<1>9. ASSUME NEW t \in Threads, UseDangling(t) \/ Missed(t) \/ ForeignTrap(t) PROVE TypeOK'
  BY <1>9 DEF UseDangling, Missed, ForeignTrap, End, patchVars, vectorVars
<1>10. CASE UNCHANGED vars
  BY <1>10 DEF vars, patchVars, vectorVars, threadVars, loaderVars
<1> QED
  BY <1>1, <1>2, <1>3, <1>4, <1>5, <1>6, <1>7, <1>8, <1>9, <1>10
  DEF Next, Configure, Handle

-----------------------------------------------------------------------------
\* The process ends for the agent and for all threads at once.
EndsTogether == loader \in Over => \A t \in Threads : pc[t] \in Over

IInv == TypeOK /\ AtSites /\ HandlerShape /\ TrapsFound /\ RearmOwed /\ EndsTogether

LEMMA InitInv == Init => IInv
<1> SUFFICES ASSUME Init PROVE IInv
  OBVIOUS
<1>1. TypeOK
  BY InitType
<1>2. AtSites /\ HandlerShape
  BY DEF Init, AtSites, HandlerShape, Busy, Procs
<1>3. TrapsFound /\ RearmOwed /\ EndsTogether
  BY DEF Init, TrapsFound, RearmOwed, EndsTogether, Over
<1> QED BY <1>1, <1>2, <1>3 DEF IInv

\* Lemma: a thread in the handler stays at a site that has an entry.
LEMMA NextShape == IInv /\ [Next]_vars => (AtSites /\ HandlerShape)'
<1> SUFFICES ASSUME IInv, [Next]_vars PROVE (AtSites /\ HandlerShape)'
  OBVIOUS
<1> USE DEF IInv, TypeOK, Procs, Over, AtSites, HandlerShape, Busy
<1>1. ASSUME HooksInstalled \/ HooksFailed \/ SetCallback
      PROVE  (AtSites /\ HandlerShape)'
  BY <1>1 DEF HooksInstalled, HooksFailed, SetCallback,
     patchVars, vectorVars, threadVars
<1>2. ASSUME NEW s \in Sites, InstallRefused(s) \/ Install(s)
      PROVE  (AtSites /\ HandlerShape)'
  BY <1>2 DEF InstallRefused, Install, patchVars, vectorVars, threadVars
<1>3. ASSUME Emplace \/ Swap PROVE (AtSites /\ HandlerShape)'
  BY <1>3 DEF Emplace, Swap, EntryStored, threadVars
<1>4. ASSUME AgentUnprotect \/ AgentWrite \/ AgentProtect
      PROVE  (AtSites /\ HandlerShape)'
  BY <1>4 DEF AgentUnprotect, AgentWrite, AgentProtect, Unprotect, Write,
     Protect, vectorVars, threadVars, loaderVars
<1>5. ASSUME NEW t \in Threads, Resume(t) \/ Pass(t) \/ Trap(t) \/ Found(t) \/ SingleStep(t)
      PROVE  (AtSites /\ HandlerShape)'
  BY <1>5 DEF Resume, Pass, Trap, Found, SingleStep, TrapsFound, patchVars,
     vectorVars, loaderVars
<1>6. ASSUME NEW t \in Threads, Callback(t) \/ (\E s \in Sites : Call(t, s))
      PROVE  (AtSites /\ HandlerShape)'
  BY <1>6 DEF Callback, Call, patchVars, vectorVars, loaderVars
<1>7. ASSUME NEW t \in Threads, DisableStep(t) \/ EnableStep(t)
      PROVE  (AtSites /\ HandlerShape)'
  BY <1>7 DEF DisableStep, EnableStep, Unprotect, Save, Write,
     vectorVars, threadVars, loaderVars
<1>8. ASSUME NEW t \in Threads, Disabled(t) \/ Enabled(t)
      PROVE  (AtSites /\ HandlerShape)'
  BY <1>8 DEF Disabled, Enabled, Protect, vectorVars, loaderVars
<1>9. ASSUME NEW t \in Threads, UseDangling(t) \/ Missed(t) \/ ForeignTrap(t)
      PROVE  (AtSites /\ HandlerShape)'
  BY <1>9 DEF UseDangling, Missed, ForeignTrap, End, patchVars, vectorVars
<1>10. CASE UNCHANGED vars
  BY <1>10 DEF vars, patchVars, vectorVars, threadVars, loaderVars
<1> QED
  BY <1>1, <1>2, <1>3, <1>4, <1>5, <1>6, <1>7, <1>8, <1>9, <1>10
  DEF Next, Configure, Handle

\* Lemma: INT3 is only ever written over sites that have an entry.
LEMMA NextTrapsFound == IInv /\ [Next]_vars => TrapsFound'
<1> SUFFICES ASSUME IInv, [Next]_vars PROVE TrapsFound'
  OBVIOUS
<1> USE DEF IInv, TypeOK, Procs, TrapsFound
<1>1. ASSUME Emplace \/ Swap PROVE TrapsFound'
  BY <1>1 DEF Emplace, Swap, EntryStored
<1>2. ASSUME AgentWrite PROVE TrapsFound'
  BY <1>2 DEF AgentWrite, Write, HandlerShape, vectorVars
<1>3. ASSUME NEW t \in Threads, DisableStep(t) \/ EnableStep(t) PROVE TrapsFound'
  BY <1>3 DEF DisableStep, EnableStep, Unprotect, Save, Write, HandlerShape,
     Busy, vectorVars
<1>4. ASSUME UNCHANGED <<code, instrumented>> PROVE TrapsFound'
  BY <1>4
<1> QED
  BY <1>1, <1>2, <1>3, <1>4
  DEF Next, Configure, Handle, HooksInstalled, HooksFailed, InstallRefused,
      Install, AgentUnprotect, AgentProtect, SetCallback, Resume, Call, Pass,
      Trap, Found, Callback, Disabled, SingleStep, Enabled, UseDangling, Missed,
      ForeignTrap, End, Unprotect, Protect, vars, patchVars, vectorVars, loaderVars

\* Lemma: whoever owes a breakpoint at a site still owes it after a step of
\* another thread or of the agent, or has written it back.
LEMMA NextRearmOwed == IInv /\ [Next]_vars => RearmOwed'
<1> SUFFICES ASSUME IInv, [Next]_vars PROVE RearmOwed'
  OBVIOUS
<1> USE DEF IInv, TypeOK, Procs, Over, RearmOwed, AgentArming, Owes,
     HandlerShape
<1>1. ASSUME HooksInstalled \/ HooksFailed \/ SetCallback PROVE RearmOwed'
  BY <1>1 DEF HooksInstalled, HooksFailed, SetCallback,
     patchVars, vectorVars, threadVars
<1>2. ASSUME NEW s \in Sites, InstallRefused(s) \/ Install(s) PROVE RearmOwed'
  BY <1>2 DEF InstallRefused, Install, patchVars, vectorVars, threadVars
<1>3. ASSUME Emplace \/ Swap PROVE RearmOwed'
  <2>1. CASE Emplace
    BY <2>1 DEF Emplace, EntryStored, threadVars
  <2>2. CASE Swap
    BY <2>2 DEF Swap, EntryStored, threadVars
  <2> QED BY <1>3, <2>1, <2>2
<1>4. ASSUME AgentUnprotect \/ AgentWrite \/ AgentProtect PROVE RearmOwed'
  <2>1. CASE AgentUnprotect
    BY <2>1 DEF AgentUnprotect, Unprotect, AtSites, vectorVars, threadVars, loaderVars
  <2>2. CASE AgentWrite
    BY <2>2 DEF AgentWrite, Write, AtSites, vectorVars, threadVars, loaderVars
  <2>3. CASE AgentProtect
    BY <2>3 DEF AgentProtect, Protect, AtSites, vectorVars, threadVars, loaderVars
  <2> QED BY <1>4, <2>1, <2>2, <2>3
<1>5. ASSUME NEW t \in Threads, Resume(t) \/ Pass(t) \/ Trap(t) \/ Found(t) \/ SingleStep(t)
      PROVE  RearmOwed'
  BY <1>5 DEF Resume, Pass, Trap, Found, SingleStep, patchVars, vectorVars, loaderVars
<1>6. ASSUME NEW t \in Threads, Callback(t) \/ (\E s \in Sites : Call(t, s))
      PROVE  RearmOwed'
  BY <1>6 DEF Callback, Call, patchVars, vectorVars, loaderVars
<1>7. ASSUME NEW t \in Threads, DisableStep(t) PROVE RearmOwed'
  BY <1>7 DEF DisableStep, Unprotect, Save, Write, vectorVars, threadVars, loaderVars
<1>8. ASSUME NEW t \in Threads, EnableStep(t) PROVE RearmOwed'
  BY <1>8 DEF EnableStep, Unprotect, Save, Write, vectorVars, threadVars, loaderVars
<1>9. ASSUME NEW t \in Threads, Disabled(t) \/ Enabled(t) PROVE RearmOwed'
  <2>1. CASE Disabled(t)
    BY <2>1 DEF Disabled, Protect, vectorVars, loaderVars
  <2>2. CASE Enabled(t)
    BY <2>2 DEF Enabled, Protect, vectorVars, loaderVars
  <2> QED BY <1>9, <2>1, <2>2
<1>10. ASSUME NEW t \in Threads, UseDangling(t) \/ Missed(t) \/ ForeignTrap(t) PROVE RearmOwed'
  BY <1>10 DEF UseDangling, Missed, ForeignTrap, End
<1>11. CASE UNCHANGED vars
  BY <1>11 DEF vars, patchVars, vectorVars, threadVars, loaderVars
<1> HIDE DEF IInv, TypeOK, Procs, Over, RearmOwed, AgentArming, Owes, HandlerShape
<1> QED
  BY <1>1, <1>2, <1>3, <1>4, <1>5, <1>6, <1>7, <1>8, <1>9, <1>10, <1>11
  DEF Next, Configure, Handle

\* Lemma: nothing but an exception ends the process, and nothing runs after it.
LEMMA NextEnds == IInv /\ [Next]_vars => EndsTogether'
<1> SUFFICES ASSUME IInv, [Next]_vars PROVE EndsTogether'
  OBVIOUS
<1> USE DEF IInv, Over, EndsTogether
<1>1. CASE Configure
  BY <1>1 DEF Configure, HooksInstalled, HooksFailed, InstallRefused, Install, Emplace,
     Swap, EntryStored, AgentUnprotect, AgentWrite, AgentProtect, SetCallback, loaderVars
<1>2. ASSUME NEW t \in Threads, Resume(t) \/ Handle(t) \/ (\E s \in Sites : Call(t, s))
      PROVE  EndsTogether'
  <2>1. loader' = loader /\ pc[t] \notin Over
    BY <1>2 DEF Resume, Handle, Call, Pass, Trap, Found, Callback, DisableStep, Disabled,
       SingleStep, EnableStep, Enabled, loaderVars
  <2> QED BY <2>1
<1>3. ASSUME NEW t \in Threads, UseDangling(t) \/ Missed(t) \/ ForeignTrap(t)
      PROVE  EndsTogether'
  BY <1>3 DEF UseDangling, Missed, ForeignTrap, End
<1>4. CASE UNCHANGED vars
  BY <1>4 DEF vars, threadVars, loaderVars
<1> QED BY <1>1, <1>2, <1>3, <1>4 DEF Next

-----------------------------------------------------------------------------
\* Theorem: the inductive invariant.  RearmOwed alone is not inductive: that a
\* thread owes the breakpoint it has taken out needs to know that no thread
\* starts a new call with closures pending, or at a half-done patch (HandlerShape).
THEOREM Invariance == Spec => []IInv
<1>1. IInv /\ [Next]_vars => IInv'
  BY NextType, NextShape, NextTrapsFound, NextRearmOwed, NextEnds DEF IInv
<1> QED BY InitInv, <1>1, PTL DEF Spec

\* Theorem: type correctness.
THEOREM TypeCorrect == Spec => []TypeOK
BY Invariance, PTL DEF IInv

\* Theorem: the vector has an entry for every INT3 the agent wrote, whether the
\* target runs during the installation or not.
THEOREM EveryTrapFound == Spec => []TrapsFound
BY Invariance, PTL DEF IInv

\* Theorem: no interleaving of handlers, of any number of threads at any number
\* of breakpoints, loses one for good.
THEOREM EveryBreakpointOwed == Spec => []RearmOwed
BY Invariance, PTL DEF IInv

\* Theorem: with all threads outside the handler every breakpoint is armed.
THEOREM ArmedWhenQuiescent == Spec => []QuiescentArmed
<1>1. IInv => QuiescentArmed
  BY DEF IInv, TypeOK, HandlerShape, RearmOwed, AgentArming, Owes, Over,
     QuiescentArmed
<1> QED BY Invariance, <1>1, PTL

\* Theorem: whatever the number of callers, a call goes by unseen only while some
\* other thread, or the agent, has yet to write the very breakpoint it meets.
THEOREM MissedOnlyWhileOwed == Spec => NoMissedCall
<1>1. IInv /\ [Next]_vars =>
        \A t \in Threads :
          pc[t] = "fetch" /\ pc'[t] = "idle" /\ at[t] \in instrumented =>
            \/ \E u \in Threads \ {t} : at[u] = at[t] /\ Owes(u)
            \/ AgentArming /\ at[Agent] = at[t]
  <2> SUFFICES ASSUME IInv, [Next]_vars, NEW t \in Threads,
                      pc[t] = "fetch", pc'[t] = "idle", at[t] \in instrumented
               PROVE  \/ \E u \in Threads \ {t} : at[u] = at[t] /\ Owes(u)
                      \/ AgentArming /\ at[Agent] = at[t]
    OBVIOUS
  <2>1. TypeOK /\ RearmOwed
    BY DEF IInv
  <2>2. code[at[t]] = "orig" /\ pending[t] = 0
    <3>1. ASSUME NEW u \in Threads, Handle(u), ~Pass(u) PROVE FALSE
      BY <2>1, <3>1 DEF TypeOK, Handle, Trap, Found, Callback, DisableStep, Disabled,
         SingleStep, EnableStep, Enabled, threadVars
    <3>2. ASSUME NEW u \in Threads, Resume(u) \/ \E s \in Sites : Call(u, s) PROVE FALSE
      BY <2>1, <3>2 DEF TypeOK, Resume, Call
    <3>3. ASSUME NEW u \in Threads, UseDangling(u) \/ Missed(u) \/ ForeignTrap(u) PROVE FALSE
      BY <3>3 DEF UseDangling, Missed, ForeignTrap, End
    <3>4. ~Configure /\ ~UNCHANGED vars
      BY DEF Configure, HooksInstalled, HooksFailed, InstallRefused, Install, Emplace, Swap,
         AgentUnprotect, AgentWrite, AgentProtect, SetCallback, vars, threadVars
    <3>5. PICK u \in Threads : Pass(u)
      BY <3>1, <3>2, <3>3, <3>4 DEF Next
    <3>6. u = t
      BY <2>1, <3>5 DEF TypeOK, Pass
    <3> QED BY <3>5, <3>6 DEF Pass
  <2>3. ~Owes(t)
    BY <2>2 DEF Owes
  <2>4. loader \notin Over
    BY DEF IInv, EndsTogether, Over
  <2> QED BY <2>1, <2>2, <2>3, <2>4 DEF RearmOwed
<1> QED BY Invariance, <1>1, PTL DEF Spec, NoMissedCall

-----------------------------------------------------------------------------
\* While the agent installs breakpoints in a suspended process no thread has a
\* pointer into their vector, so moving it leaves none dangling.
Suspended ==
  /\ loader \notin Over \cup {"done"} => \A t \in Threads : pc[t] = "held"
  /\ \A t \in Threads : stale[t] = {}
  /\ loader # "undefined"

\* Lemma: Suspended is inductive, given the invariant of the handlers.
LEMMA SuspendedStep == IInv /\ Suspended /\ [Next]_vars => Suspended'
<1> SUFFICES ASSUME IInv, Suspended, [Next]_vars PROVE Suspended'
  OBVIOUS
<1> USE DEF IInv, TypeOK, Procs, Over, Suspended
<1>1. ASSUME Emplace \/ Swap PROVE Suspended'
  BY <1>1 DEF Emplace, Swap, EntryStored, Pointers, HandlerShape, threadVars
<1>2. ASSUME Configure, ~Emplace, ~Swap PROVE Suspended'
  BY <1>2 DEF Configure, HooksInstalled, HooksFailed, InstallRefused, Install,
     AgentUnprotect, AgentWrite, AgentProtect, SetCallback,
     vectorVars, threadVars, loaderVars
<1>3. ASSUME NEW t \in Threads, Resume(t) PROVE Suspended'
  BY <1>3 DEF Resume, vectorVars, loaderVars
<1>4. ASSUME NEW t \in Threads, NEW s \in Sites, Call(t, s) PROVE Suspended'
  BY <1>4 DEF Call, vectorVars, loaderVars
<1>5. ASSUME NEW t \in Threads, Handle(t) PROVE Suspended'
  BY <1>5 DEF Handle, Pass, Trap, Found, Callback, DisableStep, Disabled, SingleStep,
     EnableStep, Enabled, vectorVars, threadVars, loaderVars
<1>6. ASSUME NEW t \in Threads, UseDangling(t) \/ Missed(t) \/ ForeignTrap(t)
      PROVE  Suspended'
  BY <1>6 DEF UseDangling, Missed, ForeignTrap, End, vectorVars
<1>7. CASE UNCHANGED vars
  BY <1>7 DEF vars, vectorVars, threadVars, loaderVars
<1> QED BY <1>1, <1>2, <1>3, <1>4, <1>5, <1>6, <1>7 DEF Next

\* Lemma: so a process that was started suspended stays in it.
LEMMA StaysSuspended ==
  ASSUME ~Dynamic PROVE Spec => [](IInv /\ Suspended)
<1>1. Init => Suspended
  BY DEF Init, Suspended, Over
<1> QED BY Invariance, <1>1, SuspendedStep, PTL DEF Spec

\* Theorem: a process that was started suspended never follows a dangling
\* pointer into the vector of breakpoints, and every search finds its entry.
THEOREM NoDanglingPointer ==
  ASSUME ~Dynamic PROVE Spec => []NoDanglingUse
<1>1. IInv /\ Suspended => NoDanglingUse
  BY DEF IInv, HandlerShape, Busy, Suspended, Lost, NoDanglingUse
<1> QED BY StaysSuspended, <1>1, PTL

-----------------------------------------------------------------------------
(***************************************************************************)
(* The protection of a page, however many threads patch on it.              *)
(***************************************************************************)
OwnOf(g) == {InitProt[g], "RWX"}

\* Who has made a page writable has found there its own protection, or that of
\* somebody who was half-way through a patch, and saves no other.
SavedOwn ==
  /\ \A p \in Procs : step[p] # "unprotect" => old[p] \in OwnOf(Page(p))
  /\ \A t \in Threads : step[t] \in {"write", "protect"} =>
       originalProtection[at[t]] \in OwnOf(Page(t))

\* Each function is visited once: the entry that is made is not one that a
\* thread in the handler may be using.
VisitedOnce ==
  /\ todo \cap instrumented = {}
  /\ loader \in {"emplace", "swap"} => at[Agent] \notin todo \cup instrumented
  /\ loader \notin Over => \A t \in Threads : pc[t] \notin Over

OwnInv == OwnProtection /\ SavedOwn /\ VisitedOnce

\* Lemma: each function is visited once.
LEMMA VisitedOnceStep == IInv /\ VisitedOnce /\ [Next]_vars => VisitedOnce'
<1> SUFFICES ASSUME IInv, VisitedOnce, [Next]_vars PROVE VisitedOnce'
  OBVIOUS
<1> USE DEF IInv, TypeOK, Procs, Over, VisitedOnce
<1>1. ASSUME Emplace \/ Swap PROVE VisitedOnce'
  BY <1>1 DEF Emplace, Swap, EntryStored, threadVars
<1>2. ASSUME NEW s \in Sites, InstallRefused(s) \/ Install(s) PROVE VisitedOnce'
  BY <1>2 DEF InstallRefused, Install, vectorVars, threadVars
<1>3. ASSUME HooksInstalled \/ HooksFailed \/ SetCallback PROVE VisitedOnce'
  BY <1>3 DEF HooksInstalled, HooksFailed, SetCallback, vectorVars, threadVars
<1>4. ASSUME AgentUnprotect \/ AgentWrite \/ AgentProtect PROVE VisitedOnce'
  BY <1>4 DEF AgentUnprotect, AgentWrite, AgentProtect, vectorVars, threadVars, loaderVars
<1>5. ASSUME NEW t \in Threads, Resume(t) \/ Handle(t) \/ (\E s \in Sites : Call(t, s))
      PROVE  VisitedOnce'
  <2>1. /\ UNCHANGED <<loader, todo, instrumented>> /\ at'[Agent] = at[Agent]
        /\ \A u \in Threads \ {t} : pc'[u] = pc[u]
        /\ pc'[t] \in {"idle", "fetch", "search", "callback", "disable", "enable"}
    BY <1>5 DEF Resume, Handle, Call, Pass, Trap, Found, Callback, DisableStep, Disabled,
       SingleStep, EnableStep, Enabled, vectorVars, threadVars, loaderVars
  <2> QED BY <2>1
<1>6. ASSUME NEW t \in Threads, UseDangling(t) \/ Missed(t) \/ ForeignTrap(t) PROVE VisitedOnce'
  BY <1>6 DEF UseDangling, Missed, ForeignTrap, End, vectorVars
<1>7. CASE UNCHANGED vars
  BY <1>7 DEF vars, vectorVars, threadVars, loaderVars
<1> HIDE DEF IInv, TypeOK, Procs, Over, VisitedOnce
<1> QED BY <1>1, <1>2, <1>3, <1>4, <1>5, <1>6, <1>7 DEF Next, Configure

\* Lemma: one of the four steps of a patch.  Others at the same site are half-way
\* through theirs with what this one saves.
LEMMA PatchOwn ==
  ASSUME TypeOK, OwnProtection, SavedOwn, NEW p \in Procs, at[p] \in Sites, UNCHANGED at,
         \/ Unprotect(p, IF p = Agent THEN "write" ELSE "save")
         \/ p \in Threads /\ Save(p)
         \/ \E byte \in {"orig", "int3"} : Write(p, byte)
         \/ Protect(p, IF p = Agent THEN old[p] ELSE originalProtection[at[p]])
  PROVE  OwnProtection' /\ SavedOwn'
<1>1. /\ prot \in [Pages -> Protections] /\ step \in [Procs -> {"unprotect", "save", "write", "protect"}]
      /\ old \in [Procs -> Protections] /\ originalProtection \in [Sites -> Protections]
      /\ Page(p) \in Pages /\ prot[Page(p)] \in OwnOf(Page(p)) /\ \A q \in Procs : Page(q)' = Page(q)
      /\ Agent \in Procs /\ Threads \subseteq Procs /\ Agent \notin Threads
      /\ p # Agent => p \in Threads
  BY DEF TypeOK, Page, OwnProtection, OwnOf, Procs
<1>2. CASE Unprotect(p, IF p = Agent THEN "write" ELSE "save")
  <2>1. OwnProtection'
    BY <1>1, <1>2 DEF Unprotect, OwnProtection
  <2>2. SavedOwn'
    BY <1>1, <1>2 DEF Unprotect, SavedOwn, OwnOf
  <2> QED BY <2>1, <2>2
<1>3. CASE p \in Threads /\ Save(p)
  <2>1. old[p] \in OwnOf(Page(p)) /\ UNCHANGED <<prot, old, at>>
        /\ originalProtection' = [originalProtection EXCEPT ![at[p]] = old[p]]
        /\ step' = [step EXCEPT ![p] = "write"] /\ step[p] = "save"
    BY <1>1, <1>3 DEF Save, SavedOwn
  <2>2. ASSUME NEW t \in Threads, step'[t] \in {"write", "protect"}
        PROVE  originalProtection'[at[t]] \in OwnOf(Page(t))
    <3>1. CASE at[t] = at[p]
      BY <1>1, <2>1, <3>1 DEF Page
    <3>2. CASE at[t] # at[p]
      BY <1>1, <2>1, <2>2, <3>2 DEF SavedOwn
    <3> QED BY <3>1, <3>2
  <2>3. \A q \in Procs : step'[q] # "unprotect" => old[q] \in OwnOf(Page(q))
    BY <1>1, <2>1 DEF SavedOwn
  <2>4. OwnProtection'
    BY <2>1 DEF OwnProtection
  <2> QED BY <1>1, <2>1, <2>2, <2>3, <2>4 DEF SavedOwn
<1>4. CASE \E byte \in {"orig", "int3"} : Write(p, byte)
  <2>1. UNCHANGED <<prot, old, at, originalProtection>> /\ step[p] = "write"
        /\ step' = [step EXCEPT ![p] = "protect"]
    BY <1>4 DEF Write
  <2> QED BY <1>1, <2>1 DEF OwnProtection, SavedOwn
<1>5. CASE Protect(p, IF p = Agent THEN old[p] ELSE originalProtection[at[p]])
  <2> DEFINE saved == IF p = Agent THEN old[p] ELSE originalProtection[at[p]]
  <2>1. saved \in OwnOf(Page(p))
    BY <1>1, <1>5 DEF Protect, SavedOwn
  <2>2. UNCHANGED <<old, at, originalProtection>> /\ prot' = [prot EXCEPT ![Page(p)] = saved]
        /\ step' = [step EXCEPT ![p] = "unprotect"]
    BY <1>5 DEF Protect
  <2> HIDE DEF saved
  <2>3. OwnProtection'
    BY <1>1, <2>1, <2>2 DEF OwnProtection, OwnOf
  <2> QED BY <1>1, <2>2, <2>3 DEF SavedOwn
<1> QED BY <1>2, <1>3, <1>4, <1>5

\* Lemma: a step that patches nothing, and moves nobody who is half-way through a patch.
LEMMA OwnStays ==
  ASSUME OwnProtection, SavedOwn, UNCHANGED <<prot, step, old, originalProtection>>,
         \A p \in Procs : step[p] # "unprotect" => at'[p] = at[p]
  PROVE  OwnProtection' /\ SavedOwn'
<1>1. \A p \in Procs : step[p] # "unprotect" => Page(p)' = Page(p)
  BY DEF Page
<1>2. OwnProtection'
  BY DEF OwnProtection
<1>3. SavedOwn'
  BY <1>1 DEF SavedOwn, Procs
<1> QED BY <1>2, <1>3

\* Lemma: no step leaves a page with a protection that is not its own.
LEMMA OwnStep == IInv /\ OwnInv /\ [Next]_vars => OwnProtection' /\ SavedOwn'
<1> SUFFICES ASSUME IInv, OwnInv, [Next]_vars PROVE OwnProtection' /\ SavedOwn'
  OBVIOUS
<1>1. TypeOK /\ AtSites /\ HandlerShape /\ OwnProtection /\ SavedOwn /\ VisitedOnce
  BY DEF IInv, OwnInv
<1>2. Agent \in Procs /\ Threads \subseteq Procs /\ Agent \notin Threads
  BY DEF Procs
<1>3. CASE AgentUnprotect \/ AgentWrite \/ AgentProtect
  <2>1. /\ at[Agent] \in Sites /\ UNCHANGED at
        /\ \/ Unprotect(Agent, "write") \/ Write(Agent, "int3") \/ Protect(Agent, old[Agent])
    BY <1>1, <1>3 DEF AgentUnprotect, AgentWrite, AgentProtect, AtSites, threadVars
  <2> QED BY <2>1, <1>1, <1>2, PatchOwn
<1>4. ASSUME NEW t \in Threads, DisableStep(t) \/ EnableStep(t) \/ Disabled(t) \/ Enabled(t)
      PROVE  OwnProtection' /\ SavedOwn'
  <2>1. /\ at[t] \in Sites /\ UNCHANGED at
        /\ \/ Unprotect(t, "save") \/ Save(t) \/ Write(t, "orig") \/ Write(t, "int3")
           \/ Protect(t, originalProtection[at[t]])
    BY <1>1, <1>4 DEF DisableStep, EnableStep, Disabled, Enabled, AtSites, threadVars
  <2>2. t \in Procs /\ t # Agent
    BY <1>2
  <2> QED BY <2>1, <2>2, <1>1, PatchOwn
<1>5. CASE Emplace \/ Swap
  <2>1. /\ loader \in {"emplace", "swap"} /\ UNCHANGED <<prot, step, old, at>>
        /\ \/ UNCHANGED originalProtection
           \/ originalProtection' = [originalProtection EXCEPT ![at[Agent]] = "WCX"]
    BY <1>5 DEF Emplace, Swap, EntryStored, threadVars
  <2>2. ASSUME NEW t \in Threads, step[t] \in {"write", "protect"} PROVE at[t] # at[Agent]
    <3>1. pc[t] \notin {"held", "idle", "fetch", "search", "callback"} \cup Over
      BY <1>1, <2>1, <2>2 DEF HandlerShape, VisitedOnce, Over
    <3>2. pc[t] \in {"disable", "enable"}
      BY <1>1, <3>1 DEF TypeOK
    <3> QED BY <1>1, <2>1, <3>2 DEF HandlerShape, Busy, VisitedOnce
  <2>3. OwnProtection'
    BY <1>1, <2>1 DEF OwnProtection
  <2>4. \A p \in Procs : Page(p)' = Page(p)
    BY <2>1 DEF Page
  <2>5. ASSUME NEW t \in Threads, step[t] \in {"write", "protect"}
        PROVE  originalProtection'[at[t]] = originalProtection[at[t]]
    <3>1. originalProtection \in [Sites -> Protections] /\ at[t] # at[Agent]
      BY <1>1, <2>2, <2>5 DEF TypeOK
    <3>2. CASE UNCHANGED originalProtection
      BY <3>2
    <3>3. CASE originalProtection' = [originalProtection EXCEPT ![at[Agent]] = "WCX"]
      BY <3>1, <3>3
    <3> QED BY <2>1, <3>2, <3>3
  <2>6. SavedOwn'
    BY <1>1, <1>2, <2>1, <2>4, <2>5 DEF SavedOwn
  <2> QED BY <2>3, <2>6
<1>6. ASSUME NEW s \in Sites, Install(s) PROVE OwnProtection' /\ SavedOwn'
  <2>1. step[Agent] = "unprotect" /\ UNCHANGED <<prot, step, old, originalProtection>>
        /\ at' = [at EXCEPT ![Agent] = s]
    BY <1>1, <1>6 DEF Install, HandlerShape, patchVars
  <2>2. \A p \in Procs : step[p] # "unprotect" => at'[p] = at[p]
    BY <2>1, <1>1 DEF TypeOK
  <2> QED BY <2>1, <2>2, <1>1, OwnStays
<1>7. ASSUME NEW t \in Threads, NEW s \in Sites, Call(t, s) PROVE OwnProtection' /\ SavedOwn'
  <2>1. step[t] = "unprotect" /\ UNCHANGED <<prot, step, old, originalProtection>>
        /\ at' = [at EXCEPT ![t] = s]
    BY <1>1, <1>7 DEF Call, HandlerShape, patchVars
  <2>2. \A p \in Procs : step[p] # "unprotect" => at'[p] = at[p]
    BY <2>1, <1>1 DEF TypeOK
  <2> QED BY <2>1, <2>2, <1>1, OwnStays
<1>8. ASSUME UNCHANGED <<patchVars, at>> PROVE OwnProtection' /\ SavedOwn'
  BY <1>8, <1>1, OwnStays DEF patchVars
<1>9. ASSUME NEW t \in Threads,
             \/ Resume(t) \/ Pass(t) \/ Trap(t) \/ Found(t) \/ Callback(t) \/ SingleStep(t)
             \/ UseDangling(t) \/ Missed(t) \/ ForeignTrap(t)
      PROVE  UNCHANGED <<patchVars, at>>
  BY <1>9 DEF Resume, Pass, Trap, Found, Callback, SingleStep, UseDangling, Missed,
     ForeignTrap, End
<1>10. ASSUME \/ HooksInstalled \/ HooksFailed \/ SetCallback
              \/ (\E s \in Sites : InstallRefused(s)) \/ UNCHANGED vars
       PROVE  UNCHANGED <<patchVars, at>>
  BY <1>10 DEF HooksInstalled, HooksFailed, SetCallback, InstallRefused, vars, threadVars
<1> QED BY <1>3, <1>4, <1>5, <1>6, <1>7, <1>8, <1>9, <1>10 DEF Next, Configure, Handle

\* Theorem: patches of any number of threads on one page leave it with its own
\* protection or writable, in a process that was started suspended and in one the
\* agent attached to: what is saved in an entry was found on that page, and the
\* placeholder of emplace_back is overwritten before anybody restores it.
THEOREM PagesStayOwn == Spec => []OwnProtection
<1>1. Init => OwnInv
  <2>1. Init => OwnProtection /\ SavedOwn
    BY DEF Init, OwnProtection, SavedOwn, Procs
  <2>2. Init => VisitedOnce
    BY DEF Init, VisitedOnce, Over
  <2> QED BY <2>1, <2>2 DEF OwnInv
<1>2. IInv /\ OwnInv /\ [Next]_vars => OwnInv'
  BY OwnStep, VisitedOnceStep DEF OwnInv
<1>3. OwnInv => OwnProtection
  BY DEF OwnInv
<1> QED BY Invariance, <1>1, <1>2, <1>3, PTL DEF Spec
=============================================================================
