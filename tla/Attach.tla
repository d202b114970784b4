-------------------------------- MODULE Attach --------------------------------
(***************************************************************************)
(* How the agent gets into a process (installer/main.cpp, process.cpp,      *)
(* parameterized_load.hpp): the installer starts the target suspended or    *)
(* finds it running, writes to its memory, starts a thread there, waits for *)
(* it and releases the target's own threads.  The remote thread runs        *)
(* install_crt_replacements (Trampoline); the target's threads run at the   *)
(* same time, as far as they are not suspended.                             *)
(*                                                                         *)
(* Every call to the system may be refused, and the target may end whenever *)
(* it exists.                                                               *)
(***************************************************************************)
EXTENDS Trampoline, Arguments

CONSTANTS
  Others,    \* threads of other processes, which the snapshot lists as well
  Lines,     \* command lines: up to MaxOptions options, each with its values
  Files      \* the agent files that exist

MaxOptions == 3

ASSUME AttachAssumption ==
  /\ Threads \cap Others = {}
  /\ \A line \in Lines : DOMAIN line = 1 .. MaxOptions

VARIABLES
  line,        \* the command line, until it is parsed
  request,     \* what it asks for, from then on
  installer,   \* where the installer is
  target,      \* the process
  pushed,      \* the path or the shellcode reached the target's memory
  remote,      \* where the thread the installer started there is
  suspend,     \* suspend counts
  snapshot,    \* the threads for_all_threads has yet to visit
  refused      \* the system refused the snapshot, or a thread of the target

requestVars == <<line, request>>
processVars == <<target, suspend>>
resumeVars == <<snapshot, refused>>
installVars == <<requestVars, installer, pushed, resumeVars>>
vars == <<trampolineVars, requestVars, installer, target, pushed, remote, suspend, resumeVars>>

Argv(l) == l[1] \o l[2] \o l[3]

AttachInit ==
  /\ TrampolineInit
  /\ line \in Lines /\ request = Usage
  /\ installer = "main" /\ remote = "none"
  /\ target = "none" /\ pushed = FALSE
  /\ suspend \in [Threads \cup Others -> {0, 1}]
  /\ \A t \in Threads : suspend[t] = 0
  /\ snapshot = {} /\ refused = FALSE

-----------------------------------------------------------------------------
(***************************************************************************)
(* The installer.                                                           *)
(***************************************************************************)
\* What the command line asks for, parsed or not.
Asked == IF installer = "main" THEN Request(Argv(line)) ELSE request

Parse ==
  LET r == Request(Argv(line)) IN
  /\ installer = "main"
  /\ request' = r /\ line' = <<>>
  /\ installer' = IF r.action = "usage" \/ r.agent \notin Files THEN "exit"
                  ELSE IF r.action = "static" THEN "create" ELSE "open"
  /\ UNCHANGED <<trampolineVars, processVars, pushed, remote, resumeVars>>

\* start_suspended_process, with CREATE_SUSPENDED.
Create ==
  /\ installer = "create" /\ installer' = "alloc"
  /\ target' = "running"
  /\ suspend' = [t \in Threads \cup Others |-> IF t \in Threads THEN 1 ELSE suspend[t]]
  /\ UNCHANGED <<trampolineVars, requestVars, pushed, remote, resumeVars>>

\* get_handle_to_remote
Open ==
  /\ installer = "open" /\ installer' = "alloc"
  /\ target' = "running"
  /\ UNCHANGED <<trampolineVars, requestVars, suspend, pushed, remote, resumeVars>>

\* No such program, no process of that name, or one that may not be opened.
NoProcess ==
  /\ installer \in {"create", "open"} /\ installer' = "exit"
  /\ UNCHANGED <<trampolineVars, requestVars, processVars, pushed, remote, resumeVars>>

\* (slip) perform_static_init returns where load() does.
LoadedOrGone == IF remote = "none" THEN "exit" ELSE "snapshot"

\* perform_static_init does not look at what load() returns.
Loaded == IF request.action = "static" THEN "snapshot" ELSE "exit"

\* VirtualAllocEx
AllocFails ==
  /\ installer = "alloc" /\ installer' = Loaded
  /\ UNCHANGED <<trampolineVars, requestVars, processVars, pushed, remote, resumeVars>>

\* Whether push() succeeds only decides what is printed.
Push ==
  /\ installer = "alloc" /\ installer' = "spawn"
  /\ pushed' \in IF target = "running" THEN BOOLEAN ELSE {FALSE}
  /\ UNCHANGED <<trampolineVars, requestVars, processVars, remote, resumeVars>>

Spawn ==
  /\ installer = "spawn" /\ installer' = "wait"
  /\ target = "running" /\ remote' = "start"
  /\ UNCHANGED <<trampolineVars, requestVars, processVars, pushed, resumeVars>>

\* WaitForSingleObject(NULL, INFINITE) returns at once.
SpawnFails ==
  /\ installer = "spawn" /\ installer' = Loaded
  /\ UNCHANGED <<trampolineVars, requestVars, processVars, pushed, remote, resumeVars>>

\* (slip) the wait times out.
WaitTimesOut ==
  /\ installer = "wait" /\ installer' = Loaded
  /\ UNCHANGED <<trampolineVars, requestVars, processVars, pushed, remote, resumeVars>>

Wait ==
  /\ installer = "wait" /\ (remote = "ended" \/ target = "dead")
  /\ installer' = Loaded
  /\ UNCHANGED <<trampolineVars, requestVars, processVars, pushed, remote, resumeVars>>

\* for_all_threads: the snapshot has the threads of all processes.
Snapshot ==
  /\ installer = "snapshot" /\ installer' = "resume"
  /\ snapshot' = Others \cup (IF target = "running" THEN Threads ELSE {})
  /\ UNCHANGED <<trampolineVars, requestVars, processVars, pushed, remote, refused>>

\* Without a snapshot Thread32Next ends the loop at the zeroed first entry.
SnapshotFails ==
  /\ installer = "snapshot" /\ installer' = "resume"
  /\ refused' = TRUE
  /\ UNCHANGED <<trampolineVars, requestVars, processVars, pushed, remote, snapshot>>

\* The owner is compared, the thread opened and ResumeThread called for it.
Visit(t) ==
  /\ t \in snapshot /\ snapshot' = snapshot \ {t}
  /\ suspend' = IF t \in Threads THEN [suspend EXCEPT ![t] = 0] ELSE suspend
  /\ UNCHANGED <<trampolineVars, requestVars, installer, target, pushed, remote, refused>>

\* OpenThread returned NULL.
VisitFails(t) ==
  /\ t \in snapshot \cap Threads /\ snapshot' = snapshot \ {t}
  /\ refused' = TRUE
  /\ UNCHANGED <<trampolineVars, requestVars, processVars, installer, pushed, remote>>

Exit ==
  /\ installer = "resume" /\ snapshot = {}
  /\ installer' = "exit"
  /\ UNCHANGED <<trampolineVars, requestVars, processVars, pushed, remote, resumeVars>>

Install ==
  \/ Parse \/ Create \/ Open \/ NoProcess \/ AllocFails \/ Push \/ Spawn \/ SpawnFails
  \/ Wait \/ Snapshot \/ SnapshotFails \/ Exit
  \/ \E t \in Threads \cup Others : Visit(t) \/ VisitFails(t)

-----------------------------------------------------------------------------
(***************************************************************************)
(* The thread the installer started in the target: LoadLibraryA itself, or  *)
(* the shellcode that calls it and then the export.                         *)
(***************************************************************************)
Remote(from, to) ==
  /\ remote = from /\ target = "running"
  /\ remote' = to
  /\ UNCHANGED <<trampolineVars, installVars, processVars>>

Parameterized == request.parameters # <<>>

\* LoadLibraryA loads the agent; DllMain calls configure().
LoadLibrary == pushed /\ Remote("start", "configure")

\* The file is no library of this process, or the path did not get there.
LoadLibraryFails == (pushed \/ ~Parameterized) /\ Remote("start", "ended")

\* The shellcode did not get there: the thread runs what the new page holds.
RunsZeroes ==
  /\ remote = "start" /\ target = "running" /\ ~pushed /\ Parameterized
  /\ target' = "dead"
  /\ UNCHANGED <<trampolineVars, installVars, remote, suspend>>

ConfigureStep ==
  /\ remote = "configure" /\ target = "running" /\ AgentStep
  /\ UNCHANGED <<installVars, processVars, remote>>

\* The rest of configure() is Breakpoints' subject.
Configured ==
  /\ phase \in {"installed", "failed"}
  /\ Remote("configure", IF Parameterized THEN "export" ELSE "ended")

\* The export returned, or the agent has none of that name.
ExportReturns == Remote("export", "ended")

RemoteThread ==
  \/ LoadLibrary \/ LoadLibraryFails \/ RunsZeroes
  \/ ConfigureStep \/ Configured \/ ExportReturns

-----------------------------------------------------------------------------
TargetStep(t) ==
  /\ target = "running" /\ suspend[t] = 0 /\ ThreadStep(t)
  /\ UNCHANGED <<installVars, processVars, remote>>

\* The target ends: by itself, by an exception or by its user.
Die ==
  /\ target = "running" /\ target' = "dead"
  /\ UNCHANGED <<trampolineVars, installVars, remote, suspend>>

Next == Install \/ RemoteThread \/ Die \/ \E t \in Threads : TargetStep(t)

Spec == AttachInit /\ [][Next]_vars

\* The installer and the remote thread run when they can: the user answers the
\* pause in configure(), and the export returns.
FairSpec == Spec /\ WF_vars(Install) /\ WF_vars(RemoteThread)

-----------------------------------------------------------------------------
AttachTypeOK ==
  /\ TrampolineTypeOK
  /\ installer \in {"main", "create", "open", "alloc", "spawn", "wait",
                    "snapshot", "resume", "exit"}
  /\ remote \in {"none", "start", "configure", "export", "ended"}
  /\ target \in {"none", "running", "dead"}
  /\ pushed \in BOOLEAN /\ refused \in BOOLEAN
  /\ suspend \in [Threads \cup Others -> {0, 1}]
  /\ snapshot \subseteq Threads \cup Others

\* In a started process no thread ever runs into half a jump or a stub that is
\* not there: installing ends before the first thread is released, whichever
\* call failed on the way.  Only a function whose first instructions cannot be
\* moved as they are (Sound) leads a thread astray.
OriginalReached ==
  Asked.action = "static" =>
    \A t \in Threads : pc[t] = "wild" => at[t] \in Built /\ ~Sound(stub[at[t]])

\* Whichever call failed on the way, the installer does not end with a thread of
\* a living target suspended, unless the system denied it that thread.
NoneLeftSuspended ==
  installer = "exit" /\ target = "running" /\ ~refused =>
    \A t \in Threads : suspend[t] = 0

\* Whatever fails, no started process is left suspended, unless the system
\* denies its threads or a store of the agent faults for ever.
TargetReleased ==
  \A t \in Threads :
    target = "running" ~> suspend[t] = 0 \/ target = "dead" \/ refused \/ phase = "faulting"

\* An option of print_usage with all of its values.
Documented(option) ==
  /\ option[1] \in {Option(name) : name \in {"s", "d", "a", "p"}}
  /\ Len(option) = (IF option[1].word \in {"s", "p"} THEN 3 ELSE 2)
  /\ \A i \in 2 .. Len(option) : ~option[i].dash

\* The values an option is given, or else what stands for them.
Given(options, name, otherwise) ==
  LET values == {SubSeq(o, 2, Len(o)) : o \in {p \in options : p[1] = Option(name)}}
  IN  IF values = {} THEN {otherwise} ELSE values

\* A command line of the options print_usage lists, none of them twice and
\* either -s or -d among them, means what it says, in whatever order they come.
DocumentedLineAccepted ==
  LET options == {line[i] : i \in DOMAIN line} \ {<<>>}
      twice == \E i, j \in DOMAIN line :
                 i # j /\ line[i] # <<>> /\ line[j] # <<>> /\ line[i][1] = line[j][1]
      started == Given(options, "s", <<>>)
      running == Given(options, "d", <<>>)
      r == Request(Argv(line))
  IN  /\ installer = "main" /\ (\A o \in options : Documented(o)) /\ ~twice
      /\ (started = {<<>>}) # (running = {<<>>})
      => /\ r.action = (IF running = {<<>>} THEN "static" ELSE "dynamic")
         /\ {r.target} = IF running = {<<>>} THEN started ELSE running
         /\ {r.parameters} = Given(options, "p", <<>>)
         /\ {<<r.agent>>} = Given(options, "a", <<DefaultAgent>>)

-----------------------------------------------------------------------------
\* The agent thread may yet write to the target's code.
Patching ==
  /\ target # "dead"
  /\ IF remote = "none" THEN installer \in {"main", "create", "open", "alloc", "spawn"}
     ELSE remote # "ended"

Released == Asked.action = "dynamic" \/ (target # "none" /\ \E t \in Threads : suspend[t] = 0)

Promise == INSTANCE Launch WITH patching <- Patching, released <- Released

\* A started process is released only when its code is no longer written to; one
\* that was running stays so.
ImplementsLaunch == Promise!LaunchSpec
=============================================================================
