------------------------------ MODULE Trampoline ------------------------------
(***************************************************************************)
(* replace_function (function_replacement.cpp) and its use by               *)
(* install_crt_replacements (crt_instrumentation.cpp): the first            *)
(* instructions of a function are re-encoded in the code buffer, followed   *)
(* by a jump back and a jump that can be redirected, and a jump to the      *)
(* latter overwrites the function's first bytes.  ThreadStep is what a      *)
(* thread of the target meets when it calls such a function.                *)
(*                                                                         *)
(* Bytes are abstracted to lengths and offsets.  The agent thread works     *)
(* alone on the buffer; the stores to the function are seen by all threads, *)
(* and the jump is longer than a store, so that it takes two.               *)
(***************************************************************************)
EXTENDS Naturals, Sequences

CONSTANTS
  Threads,
  Hooks,       \* the functions to replace, in the order of SETUP_REPLACEMENT
  Prologues    \* the instructions a function may begin with, as far as decodable

JmpSize == 14         \* AbsoluteJmp: jmp [rip+0] and an address
MaxLength == 15       \* of an instruction
MaxCopy == JmpSize - 1 + MaxLength
Align == 64
BufferSize == 32768

\* "encoded" is the length of the re-encoded instruction, 0 where there is no
\* encoder request for it, Unencodable where its operand is out of reach.
Unencodable == Align
Instruction == [length : 1 .. MaxLength, encoded : 0 .. MaxLength \cup {Unencodable}]

ASSUME ProloguesAssumption == Prologues \subseteq Seq(Instruction)

ASSUME HooksAssumption ==
  /\ Hooks \in Seq(STRING) /\ Hooks # <<>>
  /\ \A i, j \in DOMAIN Hooks : i # j => Hooks[i] # Hooks[j]
  /\ Align * (Len(Hooks) + 1) <= BufferSize

Functions == {Hooks[i] : i \in DOMAIN Hooks}

VARIABLES
  prologue,       \* what each function begins with
  phase, pos,     \* what the agent does, with which of Hooks
  decoded, copyLen,      \* instructions in to_encode, and their length
  encoded, assembled,    \* those re-encoded, and their length
  reserved, lastReserved, \* the code buffer's fields
  stub,           \* what was built for a function; start is 0 before
  entry,          \* the first bytes of a function
  jmpTarget,      \* where the stub's second jump leads
  replacements,   \* the functions whose FunctionReplacement is stored
  pc, at, next, offset   \* a thread, the function it calls, how far it is in it

bufferVars == <<decoded, copyLen, encoded, assembled, reserved, lastReserved>>
hookVars == <<stub, entry, jmpTarget, replacements>>
agentVars == <<phase, pos, bufferVars, hookVars>>
threadVars == <<pc, at, next, offset>>
trampolineVars == <<prologue, agentVars, threadVars>>

NoStub == [start |-> 0, copyLen |-> 0, assembled |-> 0]

TrampolineInit ==
  /\ prologue \in [Functions -> Prologues]
  /\ phase = "decode" /\ pos = 1
  /\ decoded = 0 /\ copyLen = 0 /\ encoded = 0 /\ assembled = 0
  /\ reserved = 0 /\ lastReserved = 0
  /\ stub = [f \in Functions |-> NoStub]
  /\ entry = [f \in Functions |-> "original"]
  /\ jmpTarget = [f \in Functions |-> "copy"]
  /\ replacements = {}
  /\ pc = [t \in Threads |-> "out"] /\ at = [t \in Threads |-> ""]
  /\ next = [t \in Threads |-> 1] /\ offset = [t \in Threads |-> 0]

-----------------------------------------------------------------------------
(***************************************************************************)
(* The agent: replace_function(Hooks[pos]).                                 *)
(***************************************************************************)
Fn == Hooks[pos]

Working(step) == phase = step /\ pos <= Len(Hooks)

\* (slip) the loop takes all that can be decoded.
MoreInFunction == decoded < Len(prologue[Fn])

\* The loop takes instructions until the jump fits, or decoding fails.
MoreToDecode == copyLen < JmpSize /\ decoded < Len(prologue[Fn])

Decode ==
  /\ Working("decode") /\ MoreToDecode
  /\ LET instr == prologue[Fn][decoded + 1] IN
       /\ instr.encoded > 0
       /\ copyLen' = copyLen + instr.length
  /\ decoded' = decoded + 1
  /\ UNCHANGED <<phase, pos, encoded, assembled, reserved, lastReserved>>
  /\ UNCHANGED <<prologue, hookVars, threadVars>>

\* "Failed to assemble encoder requests": nothing is reserved yet.
DecodeFails ==
  /\ Working("decode") /\ MoreToDecode
  /\ prologue[Fn][decoded + 1].encoded = 0
  /\ phase' = "failed"
  /\ UNCHANGED <<prologue, pos, bufferVars, hookVars, threadVars>>

\* (slip) the size is padded to eight bytes only.
PaddedToWord(size) == size + (8 - (size % 8))

\* reserve_aligned: the size with its padding, which is never none.
Padded(size) == size + (Align - (size % Align))

\* The jump back and the second jump follow the copied instructions.
StubSize(length) == length + 2 * JmpSize

\* reserve_unaligned adds first: a stub starts where its own reservation ends.
Reserve ==
  LET size == Padded(StubSize(copyLen)) IN
  /\ Working("decode") /\ ~MoreToDecode
  /\ reserved' = reserved + size /\ lastReserved' = size
  /\ phase' = "encode"
  /\ UNCHANGED <<pos, decoded, copyLen, encoded, assembled>>
  /\ UNCHANGED <<prologue, hookVars, threadVars>>

\* VirtualAlloc returned NULL for the buffer, or VirtualProtect refused to make
\* the function writable, and nobody looks: the next store faults, and
\* veh_handler has it repeated for ever.
StoreFaults ==
  /\ \/ Working("decode") /\ ~MoreToDecode /\ pos = 1
     \/ Working("patch")
  /\ phase' = "faulting"
  /\ UNCHANGED <<prologue, pos, bufferVars, hookVars, threadVars>>

\* The re-encoded instruction fits in what is left of copy_len.
Fits(instr) == assembled + instr.encoded <= copyLen

Encode ==
  /\ Working("encode") /\ encoded < decoded
  /\ LET instr == prologue[Fn][encoded + 1] IN
       Fits(instr) /\ assembled' = assembled + instr.encoded
  /\ encoded' = encoded + 1
  /\ UNCHANGED <<phase, pos, decoded, copyLen, reserved, lastReserved>>
  /\ UNCHANGED <<prologue, hookVars, threadVars>>

\* revert_allocation
EncodeFails ==
  /\ Working("encode") /\ encoded < decoded
  /\ ~Fits(prologue[Fn][encoded + 1])
  /\ reserved' = reserved - lastReserved
  /\ phase' = "failed"
  /\ UNCHANGED <<pos, decoded, copyLen, encoded, assembled, lastReserved>>
  /\ UNCHANGED <<prologue, hookVars, threadVars>>

\* Both jumps are written; the second one leads to the copy for now.
Link ==
  /\ Working("encode") /\ encoded = decoded
  /\ stub' = [stub EXCEPT ![Fn] = [start |-> reserved, copyLen |-> copyLen,
                                   assembled |-> assembled]]
  /\ phase' = "patch"
  /\ UNCHANGED <<prologue, pos, bufferVars, entry, jmpTarget, replacements, threadVars>>

\* The jump over the function's first bytes: one store ...
Patch ==
  /\ Working("patch")
  /\ entry' = [entry EXCEPT ![Fn] = "torn"]
  /\ phase' = "patching"
  /\ UNCHANGED <<prologue, pos, bufferVars, stub, jmpTarget, replacements, threadVars>>

\* ... and the other.
PatchRest ==
  /\ Working("patching")
  /\ entry' = [entry EXCEPT ![Fn] = "jmp"]
  /\ phase' = "store"
  /\ UNCHANGED <<prologue, pos, bufferVars, stub, jmpTarget, replacements, threadVars>>

\* (slip) the jump is redirected before the replacement is stored.
RedirectFirst ==
  /\ Working("store")
  /\ jmpTarget' = [jmpTarget EXCEPT ![Fn] = "hook"]
  /\ phase' = "redirect"
  /\ UNCHANGED <<prologue, pos, bufferVars, stub, entry, replacements, threadVars>>

\* replacements::f = *replaced
Store ==
  /\ Working("store")
  /\ replacements' = replacements \cup {Fn}
  /\ phase' = "redirect"
  /\ UNCHANGED <<prologue, pos, bufferVars, stub, entry, jmpTarget, threadVars>>

\* *replaced->jmp_target = fn::f, then the next function.
Redirect ==
  /\ Working("redirect")
  /\ jmpTarget' = [jmpTarget EXCEPT ![Fn] = "hook"]
  /\ pos' = pos + 1
  /\ phase' = IF pos = Len(Hooks) THEN "installed" ELSE "decode"
  /\ decoded' = 0 /\ copyLen' = 0 /\ encoded' = 0 /\ assembled' = 0
  /\ UNCHANGED <<reserved, lastReserved, prologue, stub, entry, replacements, threadVars>>

AgentStep ==
  \/ Decode \/ DecodeFails \/ Reserve \/ StoreFaults \/ Encode \/ EncodeFails
  \/ Link \/ Patch \/ PatchRest \/ Store \/ Redirect

-----------------------------------------------------------------------------
(***************************************************************************)
(* A thread of the target that calls one of the functions.                  *)
(***************************************************************************)
Go(t, where) ==
  /\ pc' = [pc EXCEPT ![t] = where]
  /\ UNCHANGED <<prologue, agentVars, at, next, offset>>

Enter(t, f) ==
  /\ pc[t] = "out"
  /\ pc' = [pc EXCEPT ![t] = "run"] /\ at' = [at EXCEPT ![t] = f]
  /\ next' = [next EXCEPT ![t] = 1] /\ offset' = [offset EXCEPT ![t] = 0]
  /\ UNCHANGED <<prologue, agentVars>>

Behind(t) == offset[t] >= JmpSize \/ next[t] > Len(prologue[at[t]])

\* The next of the function's own first instructions.
Run(t) ==
  /\ pc[t] = "run" /\ ~Behind(t) /\ entry[at[t]] = "original"
  /\ offset' = [offset EXCEPT ![t] = @ + prologue[at[t]][next[t]].length]
  /\ next' = [next EXCEPT ![t] = @ + 1]
  /\ UNCHANGED <<prologue, agentVars, pc, at>>

\* The rest of the function, which is not overwritten.
Return(t) == pc[t] = "run" /\ Behind(t) /\ Go(t, "out")

Jump(t) ==
  /\ pc[t] = "run" /\ offset[t] = 0 /\ entry[at[t]] = "jmp"
  /\ Go(t, jmpTarget[at[t]])

\* The thread is at bytes that are no instruction of the function any more.
RunTorn(t) ==
  /\ pc[t] = "run" /\ ~Behind(t)
  /\ \/ entry[at[t]] = "torn"
     \/ entry[at[t]] = "jmp" /\ offset[t] > 0
  /\ Go(t, "wild")

\* The hook calls the original through replacements::f.
CallOriginal(t) ==
  pc[t] = "hook" /\ Go(t, IF at[t] \in replacements THEN "copy" ELSE "wild")

\* The jump back leads to fn + assembled and stands at buf + copy_len: between
\* the two there is a gap where the copy became shorter, and what is behind the
\* copied instructions was overwritten if they are shorter than the jump.
Sound(s) == s.assembled = s.copyLen /\ s.copyLen >= JmpSize

RunCopy(t) == pc[t] = "copy" /\ Go(t, IF Sound(stub[at[t]]) THEN "out" ELSE "wild")

ThreadStep(t) ==
  \/ \E f \in Functions : Enter(t, f)
  \/ Run(t) \/ Return(t) \/ Jump(t) \/ RunTorn(t) \/ CallOriginal(t) \/ RunCopy(t)

-----------------------------------------------------------------------------
Stub == [start : 0 .. BufferSize, copyLen : 0 .. MaxCopy, assembled : 0 .. MaxCopy]

TrampolineTypeOK ==
  /\ prologue \in [Functions -> Prologues]
  /\ phase \in {"decode", "encode", "patch", "patching", "store", "redirect",
                "installed", "failed", "faulting"}
  /\ pos \in 1 .. Len(Hooks) + 1
  /\ decoded \in Nat /\ copyLen \in 0 .. MaxCopy
  /\ encoded \in Nat /\ assembled \in 0 .. MaxCopy
  /\ reserved \in 0 .. BufferSize /\ lastReserved \in 0 .. BufferSize
  /\ stub \in [Functions -> Stub]
  /\ entry \in [Functions -> {"original", "torn", "jmp"}]
  /\ jmpTarget \in [Functions -> {"copy", "hook"}]
  /\ replacements \subseteq Functions
  /\ pc \in [Threads -> {"out", "run", "hook", "copy", "wild"}]
  /\ at \in [Threads -> Functions \cup {""}]
  /\ next \in [Threads -> Nat \ {0}] /\ offset \in [Threads -> Nat]

Built == {f \in Functions : stub[f].start > 0}

\* The first address behind a stub.
StubEnd(f) == stub[f].start + StubSize(stub[f].copyLen)

\* Stubs stay within the code buffer and off each other, although a stub starts
\* behind the space reserved for it, on that of the next: the padding is what
\* keeps them apart.
StubsApart ==
  /\ \A f \in Built : StubEnd(f) <= BufferSize
  /\ \A f, g \in Built : f # g =>
       StubEnd(f) <= stub[g].start \/ StubEnd(g) <= stub[f].start

\* A thread that comes to a hook finds the original function stored there, even
\* while the agent is still installing it.
HookFindsOriginal == \A t \in Threads : pc[t] = "hook" => at[t] \in replacements
=============================================================================
