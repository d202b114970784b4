----------------------------- MODULE Attach_proofs -----------------------------
(***************************************************************************)
(* Proofs about Attach, for any functions to replace and any instructions   *)
(* they begin with, any threads and any command lines.                      *)
(***************************************************************************)
EXTENDS Attach, SequenceTheorems, TLAPS

(***************************************************************************)
(* The inductive invariant of Trampoline.  AgentInv says where the agent is *)
(* in the code buffer, HookInv what it leaves behind at a function.         *)
(***************************************************************************)
AgentInv ==
  /\ phase = "installed" \/ pos <= Len(Hooks)
  /\ phase # "faulting" =>
       reserved = Align * (IF phase \in {"decode", "failed", "installed"} THEN pos - 1 ELSE pos)
  /\ phase = "encode" => lastReserved = Align
  /\ pos <= Len(Hooks) => decoded <= Len(prologue[Fn])
  /\ encoded <= decoded
  /\ assembled <= copyLen
  /\ \A i \in DOMAIN Hooks : stub[Hooks[i]].start \in {0, Align * i}

HookInv ==
  /\ phase \in {"patch", "patching", "store", "redirect"} => Fn \in Built
  /\ phase = "redirect" => Fn \in replacements
  /\ \A f \in Functions :
       /\ entry[f] # "original" => f \in Built
       /\ entry[f] = "torn" => phase = "patching" /\ f = Fn
       /\ jmpTarget[f] = "hook" => f \in replacements
  /\ \A t \in Threads :
       /\ pc[t] # "out" => at[t] \in Functions
       /\ pc[t] = "hook" => at[t] \in replacements
       /\ pc[t] \in {"hook", "copy"} => at[t] \in Built

TrampolineInv == TrampolineTypeOK /\ AgentInv /\ HookInv

\* The padding of reserve_aligned: whatever the loop copies, the stub takes 64.
LEMMA PaddedStub == ASSUME NEW n \in 0 .. MaxCopy PROVE Padded(StubSize(n)) = Align
BY DEF Padded, StubSize, Align, JmpSize, MaxCopy, MaxLength

\* Lemma: of the buffer's size a proof needs only that an aligned stub fits.
LEMMA BufferNumbers == Align = 64 /\ BufferSize \in Nat /\ Align <= BufferSize
BY DEF Align, BufferSize

\* An instruction of a prologue has its lengths.
LEMMA PrologueInstruction ==
  ASSUME TrampolineTypeOK, NEW f \in Functions, NEW i \in 1 .. Len(prologue[f])
  PROVE  prologue[f][i] \in Instruction
<1>1. prologue[f] \in Seq(Instruction)
  BY ProloguesAssumption DEF TrampolineTypeOK
<1> QED
  BY <1>1

LEMMA HooksAreFunctions ==
  /\ Len(Hooks) \in Nat \ {0}
  /\ DOMAIN Hooks = 1 .. Len(Hooks)
  /\ \A i \in 1 .. Len(Hooks) : Hooks[i] \in Functions
BY HooksAssumption DEF Functions

LEMMA TrampolineInitInv == TrampolineInit => TrampolineInv
<1> SUFFICES ASSUME TrampolineInit PROVE TrampolineInv
  OBVIOUS
<1>1. /\ pos = 1 /\ phase = "decode" /\ prologue \in [Functions -> Prologues]
      /\ decoded = 0 /\ copyLen = 0 /\ encoded = 0 /\ assembled = 0
      /\ reserved = 0 /\ lastReserved = 0
      /\ stub = [f \in Functions |-> NoStub]
  BY DEF TrampolineInit
<1>2. /\ entry = [f \in Functions |-> "original"]
      /\ jmpTarget = [f \in Functions |-> "copy"]
      /\ replacements = {}
      /\ pc = [t \in Threads |-> "out"] /\ at = [t \in Threads |-> ""]
      /\ next = [t \in Threads |-> 1] /\ offset = [t \in Threads |-> 0]
  BY DEF TrampolineInit
<1>3. Fn \in Functions /\ Len(Hooks) \in Nat \ {0}
  BY <1>1, HooksAreFunctions DEF Fn
<1>4. TrampolineTypeOK
  <2>1. stub \in [Functions -> Stub]
    BY <1>1 DEF NoStub, Stub, BufferSize, MaxCopy, JmpSize, MaxLength
  <2>2. /\ pos \in 1 .. Len(Hooks) + 1
        /\ decoded \in Nat /\ copyLen \in 0 .. MaxCopy
        /\ encoded \in Nat /\ assembled \in 0 .. MaxCopy
        /\ reserved \in 0 .. BufferSize /\ lastReserved \in 0 .. BufferSize
    BY <1>1, <1>3 DEF BufferSize, MaxCopy, JmpSize, MaxLength
  <2>3. next \in [Threads -> Nat \ {0}] /\ offset \in [Threads -> Nat]
    <3>1. 1 \in Nat \ {0} /\ 0 \in Nat
      OBVIOUS
    <3> QED
      BY <1>2, <3>1
  <2>4. /\ entry \in [Functions -> {"original", "torn", "jmp"}]
        /\ jmpTarget \in [Functions -> {"copy", "hook"}]
        /\ replacements \subseteq Functions
        /\ pc \in [Threads -> {"out", "run", "hook", "copy", "wild"}]
        /\ at \in [Threads -> Functions \cup {""}]
    BY <1>2
  <2> QED
    BY <1>1, <2>1, <2>2, <2>3, <2>4 DEF TrampolineTypeOK
<1>5. AgentInv
  <2>1. Len(prologue[Fn]) \in Nat
    <3>1. prologue[Fn] \in Seq(Instruction)
      BY <1>1, <1>3, ProloguesAssumption
    <3> QED
      BY <3>1
  <2>2. \A i \in DOMAIN Hooks : stub[Hooks[i]].start = 0
    BY <1>1, HooksAreFunctions DEF NoStub
  <2> QED
    BY <1>1, <1>3, <2>1, <2>2 DEF AgentInv, Align
<1>6. HookInv
  BY <1>1, <1>2 DEF HookInv
<1> QED
  BY <1>4, <1>5, <1>6 DEF TrampolineInv

-----------------------------------------------------------------------------
\* The function the agent works on.
LEMMA WorkingFn ==
  ASSUME TrampolineTypeOK, NEW s, Working(s)
  PROVE  /\ pos \in 1 .. Len(Hooks) /\ Fn \in Functions
         /\ Len(prologue[Fn]) \in Nat
<1>1. pos \in 1 .. Len(Hooks)
  <2>1. pos \in 1 .. Len(Hooks) + 1 /\ pos <= Len(Hooks)
    BY DEF TrampolineTypeOK, Working
  <2> QED
    BY <2>1, HooksAreFunctions
<1>2. Fn \in Functions
  BY <1>1, HooksAreFunctions DEF Fn
<1>3. prologue[Fn] \in Seq(Instruction)
  BY <1>2, ProloguesAssumption DEF TrampolineTypeOK
<1> QED
  BY <1>1, <1>2, <1>3

LEMMA WorkingInstruction ==
  ASSUME TrampolineTypeOK, NEW s, Working(s), NEW i \in 1 .. Len(prologue[Fn])
  PROVE  /\ prologue[Fn][i].length \in 1 .. MaxLength
         /\ prologue[Fn][i].encoded \in Nat
<1>1. prologue[Fn][i] \in Instruction
  BY WorkingFn, PrologueInstruction
<1>2. MaxLength \in Nat /\ Unencodable \in Nat
  BY DEF MaxLength, Unencodable, Align
<1> QED
  BY <1>1, <1>2 DEF Instruction

\* What the two loops, reserve_aligned and revert_allocation compute.
LEMMA DecodeResult ==
  ASSUME TrampolineTypeOK, Decode
  PROVE  /\ decoded' = decoded + 1 /\ decoded' <= Len(prologue[Fn])
         /\ copyLen' \in 0 .. MaxCopy /\ copyLen <= copyLen'
<1>1. /\ Working("decode")
      /\ copyLen < JmpSize /\ decoded < Len(prologue[Fn])
      /\ decoded' = decoded + 1
      /\ copyLen' = copyLen + prologue[Fn][decoded + 1].length
  BY DEF Decode, MoreToDecode
<1>4. decoded \in Nat /\ copyLen \in 0 .. MaxCopy
  BY DEF TrampolineTypeOK
<1>2. Len(prologue[Fn]) \in Nat
  BY <1>1, WorkingFn
<1>3. prologue[Fn][decoded + 1].length \in 1 .. MaxLength
  <2>1. decoded + 1 \in 1 .. Len(prologue[Fn])
    BY <1>1, <1>2, <1>4
  <2> QED
    BY <1>1, <2>1, WorkingInstruction
<1> QED
  <2> DEFINE n == prologue[Fn][decoded + 1].length
             l == Len(prologue[Fn])
  <2>1. /\ n \in 1 .. MaxLength /\ copyLen' = copyLen + n /\ copyLen < JmpSize
        /\ decoded' = decoded + 1 /\ decoded < l /\ l \in Nat
    BY <1>1, <1>2, <1>3
  <2> HIDE DEF n, l
  <2>2. decoded' <= l /\ copyLen' \in 0 .. MaxCopy /\ copyLen <= copyLen'
    BY <2>1, <1>4 DEF MaxCopy, JmpSize, MaxLength
  <2> QED
    BY <2>1, <2>2 DEF l

LEMMA EncodeResult ==
  ASSUME TrampolineTypeOK, AgentInv, Encode
  PROVE  /\ encoded' = encoded + 1 /\ encoded' <= decoded
         /\ assembled' \in 0 .. MaxCopy /\ assembled' <= copyLen
<1>1. /\ Working("encode") /\ encoded < decoded
      /\ encoded' = encoded + 1
      /\ assembled' = assembled + prologue[Fn][encoded + 1].encoded
      /\ assembled + prologue[Fn][encoded + 1].encoded <= copyLen
  BY DEF Encode, Fits
<1>4. /\ encoded \in Nat /\ decoded \in Nat
      /\ assembled \in 0 .. MaxCopy /\ copyLen \in 0 .. MaxCopy
  BY DEF TrampolineTypeOK
<1>2. Len(prologue[Fn]) \in Nat /\ decoded <= Len(prologue[Fn])
  <2>1. Len(prologue[Fn]) \in Nat
    BY <1>1, WorkingFn
  <2> QED
    BY <1>1, <2>1 DEF AgentInv, Working
<1>3. prologue[Fn][encoded + 1].encoded \in Nat
  <2>1. encoded + 1 \in 1 .. Len(prologue[Fn])
    BY <1>1, <1>2, <1>4
  <2> QED
    BY <1>1, <2>1, WorkingInstruction
<1> QED
  <2> DEFINE n == prologue[Fn][encoded + 1].encoded
  <2>1. /\ n \in Nat /\ assembled' = assembled + n /\ assembled + n <= copyLen
        /\ encoded' = encoded + 1 /\ encoded < decoded
    BY <1>1, <1>3
  <2> HIDE DEF n
  <2> QED
    BY <2>1, <1>4 DEF MaxCopy, JmpSize, MaxLength

LEMMA ReserveResult ==
  ASSUME TrampolineTypeOK, AgentInv, Reserve
  PROVE  /\ reserved' = Align * pos /\ lastReserved' = Align
         /\ reserved' \in 0 .. BufferSize
<1>1. /\ phase = "decode" /\ pos \in 1 .. Len(Hooks)
      /\ Len(Hooks) \in Nat /\ Align * (Len(Hooks) + 1) <= BufferSize
  BY WorkingFn, HooksAreFunctions, HooksAssumption DEF Reserve, Working
<1>2. Padded(StubSize(copyLen)) = Align
  BY PaddedStub DEF TrampolineTypeOK
<1>3. reserved = Align * (pos - 1)
  BY <1>1 DEF AgentInv
<1>4. reserved' = reserved + Align /\ lastReserved' = Align
  BY <1>2 DEF Reserve
<1>5. reserved' = Align * pos
  BY <1>1, <1>3, <1>4, BufferNumbers
<1>6. Align * pos \in 0 .. BufferSize
  BY <1>1, BufferNumbers
<1> QED
  BY <1>4, <1>5, <1>6

LEMMA RevertResult ==
  ASSUME TrampolineTypeOK, AgentInv, EncodeFails
  PROVE  reserved' = Align * (pos - 1) /\ reserved' \in 0 .. BufferSize
<1>1. /\ phase = "encode" /\ pos \in 1 .. Len(Hooks) /\ Len(Hooks) \in Nat
      /\ reserved \in 0 .. BufferSize
  BY WorkingFn, HooksAreFunctions DEF EncodeFails, Working, TrampolineTypeOK
<1>2. reserved = Align * pos /\ lastReserved = Align
  BY <1>1 DEF AgentInv
<1>3. reserved' = reserved - lastReserved
  BY DEF EncodeFails
<1>4. reserved' = Align * (pos - 1)
  BY <1>1, <1>2, <1>3, BufferNumbers
<1>5. 0 <= reserved' /\ reserved' <= reserved /\ reserved' \in Nat
  BY <1>1, <1>2, <1>3, BufferNumbers
<1>6. reserved' \in 0 .. BufferSize
  BY <1>1, <1>5, BufferNumbers
<1> QED
  BY <1>4, <1>6

LEMMA AgentStepType == TrampolineInv /\ AgentStep => TrampolineTypeOK'
<1> SUFFICES ASSUME TrampolineTypeOK, AgentInv, AgentStep PROVE TrampolineTypeOK'
  BY DEF TrampolineInv
<1>t. /\ UNCHANGED prologue /\ UNCHANGED threadVars
  BY DEF AgentStep, Decode, DecodeFails, Reserve, StoreFaults, Encode, EncodeFails,
         Link, Patch, PatchRest, Store, Redirect
<1>u. /\ prologue' \in [Functions -> Prologues]
      /\ pc' \in [Threads -> {"out", "run", "hook", "copy", "wild"}]
      /\ at' \in [Threads -> Functions \cup {""}]
      /\ next' \in [Threads -> Nat \ {0}] /\ offset' \in [Threads -> Nat]
  BY <1>t DEF TrampolineTypeOK, threadVars
<1>p. /\ phase' \in {"decode", "encode", "patch", "patching", "store", "redirect",
                     "installed", "failed", "faulting"}
      /\ pos' \in 1 .. Len(Hooks) + 1
  <2>1. CASE Redirect
    <3>1. pos \in 1 .. Len(Hooks) /\ Len(Hooks) \in Nat
      BY <2>1, WorkingFn, HooksAreFunctions DEF Redirect
    <3>2. pos' = pos + 1 /\ phase' \in {"installed", "decode"}
      BY <2>1 DEF Redirect
    <3> QED
      BY <3>1, <3>2
  <2>2. CASE ~Redirect
    BY <2>2 DEF TrampolineTypeOK, AgentStep, Decode, DecodeFails, Reserve, StoreFaults,
         Encode, EncodeFails, Link, Patch, PatchRest, Store, bufferVars
  <2> QED
    BY <2>1, <2>2
<1>c. /\ decoded' \in Nat /\ copyLen' \in 0 .. MaxCopy
      /\ encoded' \in Nat /\ assembled' \in 0 .. MaxCopy
  <2>1. CASE Decode
    <3>1. decoded' = decoded + 1 /\ copyLen' \in 0 .. MaxCopy
      BY <2>1, DecodeResult
    <3>2. UNCHANGED <<encoded, assembled>>
      BY <2>1 DEF Decode
    <3>3. decoded \in Nat /\ encoded \in Nat /\ assembled \in 0 .. MaxCopy
      BY DEF TrampolineTypeOK
    <3> QED
      BY <3>1, <3>2, <3>3
  <2>2. CASE Encode
    <3>1. encoded' = encoded + 1 /\ assembled' \in 0 .. MaxCopy
      BY <2>2, EncodeResult
    <3>2. UNCHANGED <<decoded, copyLen>>
      BY <2>2 DEF Encode
    <3>3. decoded \in Nat /\ encoded \in Nat /\ copyLen \in 0 .. MaxCopy
      BY DEF TrampolineTypeOK
    <3> QED
      BY <3>1, <3>2, <3>3
  <2>3. CASE Redirect
    BY <2>3 DEF Redirect, MaxCopy, MaxLength, JmpSize
  <2>4. CASE ~Decode /\ ~Encode /\ ~Redirect
    BY <2>4 DEF TrampolineTypeOK, AgentStep, DecodeFails, Reserve, StoreFaults,
         EncodeFails, Link, Patch, PatchRest, Store, bufferVars
  <2> QED
    BY <2>1, <2>2, <2>3, <2>4
<1>r. reserved' \in 0 .. BufferSize /\ lastReserved' \in 0 .. BufferSize
  <2>1. CASE Reserve
    <3>1. lastReserved' = Align /\ reserved' \in 0 .. BufferSize
      BY <2>1, ReserveResult
    <3> QED
      BY <3>1, BufferNumbers
  <2>2. CASE EncodeFails
    BY <2>2, RevertResult DEF EncodeFails, TrampolineTypeOK
  <2>3. CASE ~Reserve /\ ~EncodeFails
    BY <2>3 DEF TrampolineTypeOK, AgentStep, Decode, DecodeFails, StoreFaults, Encode,
         Link, Patch, PatchRest, Store, Redirect, bufferVars
  <2> QED
    BY <2>1, <2>2, <2>3
<1>s. stub' \in [Functions -> Stub]
  <2>1. CASE Link
    <3>1. [start |-> reserved, copyLen |-> copyLen, assembled |-> assembled] \in Stub
      BY DEF TrampolineTypeOK, Stub
    <3> QED
      BY <2>1, <3>1, WorkingFn DEF Link, TrampolineTypeOK
  <2>2. CASE ~Link
    BY <2>2 DEF TrampolineTypeOK, AgentStep, Decode, DecodeFails, Reserve, StoreFaults,
         Encode, EncodeFails, Patch, PatchRest, Store, Redirect, hookVars
  <2> QED
    BY <2>1, <2>2
<1>h. /\ entry' \in [Functions -> {"original", "torn", "jmp"}]
      /\ jmpTarget' \in [Functions -> {"copy", "hook"}]
      /\ replacements' \subseteq Functions
  BY WorkingFn
  DEF TrampolineTypeOK, AgentStep, Decode, DecodeFails, Reserve, StoreFaults, Encode,
      EncodeFails, Link, Patch, PatchRest, Store, Redirect, hookVars
<1> QED
  BY <1>u, <1>p, <1>c, <1>r, <1>s, <1>h DEF TrampolineTypeOK

\* Fn stays the same function as long as pos and the hooks do.
LEMMA SameFn == pos' = pos => Fn' = Fn
BY DEF Fn

LEMMA AgentStepAgentInv == TrampolineInv /\ AgentStep => AgentInv'
<1> SUFFICES ASSUME TrampolineTypeOK, AgentInv, AgentStep PROVE AgentInv'
  BY DEF TrampolineInv
<1>t. UNCHANGED prologue
  BY DEF AgentStep, Decode, DecodeFails, Reserve, StoreFaults, Encode, EncodeFails,
         Link, Patch, PatchRest, Store, Redirect
<1>n. /\ pos \in 1 .. Len(Hooks) /\ Len(Hooks) \in Nat /\ Fn \in Functions
      /\ decoded \in Nat /\ encoded \in Nat /\ copyLen \in Nat /\ assembled \in Nat
  <2>1. \E s \in {"decode", "encode", "patch", "patching", "store", "redirect"} : Working(s)
    BY DEF AgentStep, Decode, DecodeFails, Reserve, StoreFaults, Encode, EncodeFails,
           Link, Patch, PatchRest, Store, Redirect
  <2>2. decoded \in Nat /\ encoded \in Nat /\ copyLen \in 0 .. MaxCopy
        /\ assembled \in 0 .. MaxCopy
    BY DEF TrampolineTypeOK
  <2> QED
    BY <2>1, <2>2, WorkingFn, HooksAreFunctions DEF MaxCopy, JmpSize, MaxLength
<1>i. /\ decoded <= Len(prologue[Fn]) /\ encoded <= decoded /\ assembled <= copyLen
      /\ \A i \in DOMAIN Hooks : stub[Hooks[i]].start \in {0, Align * i}
  BY <1>n DEF AgentInv
<1>1. phase' = "installed" \/ pos' <= Len(Hooks)
  BY <1>n DEF AgentStep, Decode, DecodeFails, Reserve, StoreFaults, Encode, EncodeFails,
       Link, Patch, PatchRest, Store, Redirect, bufferVars
<1>2. phase' # "faulting" =>
        reserved' = Align * (IF phase' \in {"decode", "failed", "installed"}
                             THEN pos' - 1 ELSE pos')
  <2>1. CASE Reserve
    BY <2>1, ReserveResult DEF Reserve
  <2>2. CASE EncodeFails
    BY <2>2, RevertResult DEF EncodeFails
  <2>3. CASE Redirect
    <3>1. phase = "redirect" /\ pos' = pos + 1 /\ phase' \in {"installed", "decode"}
          /\ reserved' = reserved
      BY <2>3 DEF Redirect, Working
    <3>2. reserved = Align * pos
      BY <3>1 DEF AgentInv
    <3> QED
      BY <3>1, <3>2, <1>n
  <2>4. CASE ~Reserve /\ ~EncodeFails /\ ~Redirect
    <3>1. pos' = pos /\ reserved' = reserved /\ phase # "faulting"
          /\ (\/ phase' = "faulting"
              \/ /\ phase \in {"decode", "failed", "installed"}
                 /\ phase' \in {"decode", "failed", "installed"}
              \/ /\ phase \notin {"decode", "failed", "installed"}
                 /\ phase' \notin {"decode", "failed", "installed"})
      BY <2>4 DEF AgentStep, Decode, DecodeFails, StoreFaults, Encode,
           Link, Patch, PatchRest, Store, Working, bufferVars
    <3> QED
      BY <3>1 DEF AgentInv
  <2> QED
    BY <2>1, <2>2, <2>3, <2>4
<1>3. phase' = "encode" => lastReserved' = Align
  <2>1. CASE Reserve
    BY <2>1, ReserveResult
  <2>2. CASE Encode
    BY <2>2 DEF Encode, AgentInv, Working
  <2>3. CASE ~Reserve /\ ~Encode
    BY <2>3 DEF AgentStep, Decode, DecodeFails, StoreFaults, EncodeFails,
         Link, Patch, PatchRest, Store, Redirect, Working
  <2> QED
    BY <2>1, <2>2, <2>3
<1>4. /\ pos' <= Len(Hooks) => decoded' <= Len(prologue'[Fn'])
      /\ encoded' <= decoded' /\ assembled' <= copyLen'
  <2>1. CASE Decode
    <3>1. pos' = pos /\ encoded' = encoded /\ assembled' = assembled
      BY <2>1 DEF Decode
    <3>2. decoded' <= Len(prologue[Fn]) /\ decoded' = decoded + 1 /\ copyLen <= copyLen'
          /\ copyLen' \in Nat
      <4>1. /\ decoded' = decoded + 1 /\ decoded' <= Len(prologue[Fn])
            /\ copyLen' \in 0 .. MaxCopy /\ copyLen <= copyLen'
        BY <2>1, DecodeResult
      <4> QED BY ONLY <4>1 DEF MaxCopy, JmpSize, MaxLength
    <3>3. Fn' = Fn
      BY <3>1, SameFn
    <3>4. decoded' <= Len(prologue'[Fn'])
      BY <3>2, <3>3, <1>t
    <3>5. encoded' <= decoded' /\ assembled' <= copyLen'
      BY <3>1, <3>2, <1>n, <1>i
    <3> QED
      BY <3>4, <3>5
  <2>2. CASE Encode
    <3>1. pos' = pos /\ decoded' = decoded /\ copyLen' = copyLen
      BY <2>2 DEF Encode
    <3> QED
      BY <2>2, <3>1, EncodeResult, <1>t, <1>i, SameFn
  <2>3. CASE Redirect
    <3>1. decoded' = 0 /\ encoded' = 0 /\ assembled' = 0 /\ copyLen' = 0
      BY <2>3 DEF Redirect
    <3>2. ASSUME pos' <= Len(Hooks) PROVE Len(prologue'[Fn']) \in Nat
      <4>1. pos' \in 1 .. Len(Hooks)
        BY <2>3, <3>2, <1>n DEF Redirect
      <4>2. Fn' \in Functions
        BY <4>1, HooksAreFunctions DEF Fn
      <4>3. prologue'[Fn'] \in Seq(Instruction)
        BY <4>2, <1>t, ProloguesAssumption DEF TrampolineTypeOK
      <4> QED
        BY <4>3
    <3> QED
      BY <3>1, <3>2
  <2>4. CASE ~Decode /\ ~Encode /\ ~Redirect
    <3>1. UNCHANGED <<pos, decoded, encoded, assembled, copyLen>>
      BY <2>4 DEF AgentStep, DecodeFails, Reserve, StoreFaults, EncodeFails,
           Link, Patch, PatchRest, Store, bufferVars
    <3> QED
      BY <3>1, <1>t, <1>i, SameFn
  <2> QED
    BY <2>1, <2>2, <2>3, <2>4
<1>5. ASSUME NEW i \in DOMAIN Hooks PROVE stub'[Hooks[i]].start \in {0, Align * i}
  <2>1. CASE Link
    <3>1. /\ stub' = [stub EXCEPT ![Fn] = [start |-> reserved, copyLen |-> copyLen,
                                          assembled |-> assembled]]
          /\ phase = "encode"
      BY <2>1 DEF Link, Working
    <3>2. stub \in [Functions -> Stub]
      BY DEF TrampolineTypeOK
    <3>3. CASE i = pos
      <4>1. reserved = Align * pos
        BY <3>1 DEF AgentInv
      <4> QED
        BY <3>1, <3>2, <3>3, <4>1, <1>n DEF Fn
    <3>4. CASE i # pos
      <4>1. Hooks[i] # Fn
        BY <3>4, <1>n, HooksAreFunctions, HooksAssumption DEF Fn
      <4> QED
        BY <3>1, <3>2, <4>1, <1>i, HooksAreFunctions
    <3> QED
      BY <3>3, <3>4
  <2>2. CASE ~Link
    <3>1. stub' = stub
      BY <2>2 DEF AgentStep, Decode, DecodeFails, Reserve, StoreFaults, Encode,
           EncodeFails, Patch, PatchRest, Store, Redirect, hookVars
    <3> QED
      BY <3>1, <1>i
  <2> QED
    BY <2>1, <2>2
<1> QED
  BY <1>1, <1>2, <1>3, <1>4, <1>5 DEF AgentInv

\* What of HookInv the threads rely on grows only: stubs and replacements stay.
LEMMA AgentStepHookInv == TrampolineInv /\ AgentStep => HookInv'
<1> SUFFICES ASSUME TrampolineTypeOK, AgentInv, HookInv, AgentStep PROVE HookInv'
  BY DEF TrampolineInv
<1>n. /\ pos \in 1 .. Len(Hooks) /\ Fn \in Functions
  <2>1. \E s \in {"decode", "encode", "patch", "patching", "store", "redirect"} : Working(s)
    BY DEF AgentStep, Decode, DecodeFails, Reserve, StoreFaults, Encode, EncodeFails,
           Link, Patch, PatchRest, Store, Redirect
  <2> QED
    BY <2>1, WorkingFn
<1>c. UNCHANGED <<pc, at>>
  BY DEF AgentStep, Decode, DecodeFails, Reserve, StoreFaults, Encode, EncodeFails,
         Link, Patch, PatchRest, Store, Redirect, threadVars
<1>b. Built \subseteq Built'
  <2>1. CASE Link
    <3>1. phase = "encode" /\ stub' = [stub EXCEPT ![Fn] =
            [start |-> reserved, copyLen |-> copyLen, assembled |-> assembled]]
      BY <2>1 DEF Link, Working
    <3>2. reserved > 0
      BY <3>1, <1>n DEF AgentInv, Align
    <3>3. stub \in [Functions -> Stub]
      BY DEF TrampolineTypeOK
    <3> QED
      BY <3>1, <3>2, <3>3, <1>n DEF Built
  <2>2. CASE ~Link
    <3>1. stub' = stub
      BY <2>2 DEF AgentStep, Decode, DecodeFails, Reserve, StoreFaults, Encode,
           EncodeFails, Patch, PatchRest, Store, Redirect, hookVars
    <3> QED
      BY <3>1 DEF Built
  <2> QED
    BY <2>1, <2>2
<1>r. replacements \subseteq replacements'
  BY DEF AgentStep, Decode, DecodeFails, Reserve, StoreFaults, Encode,
         EncodeFails, Link, Patch, PatchRest, Store, Redirect, hookVars
<1>1. \A t \in Threads :
        /\ pc'[t] # "out" => at'[t] \in Functions
        /\ pc'[t] = "hook" => at'[t] \in replacements'
        /\ pc'[t] \in {"hook", "copy"} => at'[t] \in Built'
  BY <1>c, <1>b, <1>r DEF HookInv
<1>2. phase' \in {"patch", "patching", "store", "redirect"} => Fn' \in Built'
  <2>1. CASE Link
    <3>1. phase = "encode" /\ pos' = pos /\ stub' = [stub EXCEPT ![Fn] =
            [start |-> reserved, copyLen |-> copyLen, assembled |-> assembled]]
      BY <2>1 DEF Link, Working
    <3>2. reserved > 0
      BY <3>1, <1>n DEF AgentInv, Align
    <3>3. stub \in [Functions -> Stub]
      BY DEF TrampolineTypeOK
    <3> QED
      BY <3>1, <3>2, <3>3, <1>n, SameFn DEF Built
  <2>2. CASE ~Link /\ phase' \in {"patch", "patching", "store", "redirect"}
    <3>1. pos' = pos /\ phase \in {"patch", "patching", "store", "redirect"}
      BY <2>2 DEF AgentStep, Decode, DecodeFails, Reserve, StoreFaults, Encode,
           EncodeFails, Patch, PatchRest, Store, Redirect, Working
    <3> QED
      BY <3>1, <1>b, SameFn DEF HookInv
  <2> QED
    BY <2>1, <2>2
<1>3. phase' = "redirect" => Fn' \in replacements'
  <2>1. CASE Store
    BY <2>1, SameFn DEF Store
  <2>2. CASE ~Store
    BY <2>2 DEF AgentStep, Decode, DecodeFails, Reserve, StoreFaults, Encode,
         EncodeFails, Link, Patch, PatchRest, Redirect, Working
  <2> QED
    BY <2>1, <2>2
<1>4. ASSUME NEW f \in Functions
      PROVE  /\ entry'[f] # "original" => f \in Built'
             /\ entry'[f] = "torn" => phase' = "patching" /\ f = Fn'
             /\ jmpTarget'[f] = "hook" => f \in replacements'
  <2>t. /\ entry \in [Functions -> {"original", "torn", "jmp"}]
        /\ jmpTarget \in [Functions -> {"copy", "hook"}]
    BY DEF TrampolineTypeOK
  <2>i. /\ entry[f] # "original" => f \in Built
        /\ entry[f] = "torn" => phase = "patching" /\ f = Fn
        /\ jmpTarget[f] = "hook" => f \in replacements
    BY DEF HookInv
  <2>1. CASE Patch
    <3>1. phase = "patch" /\ phase' = "patching" /\ UNCHANGED jmpTarget
          /\ entry' = [entry EXCEPT ![Fn] = "torn"] /\ Fn' = Fn
      BY <2>1, SameFn DEF Patch, Working
    <3>2. Fn \in Built
      BY <3>1 DEF HookInv
    <3> QED
      BY <3>1, <3>2, <2>t, <2>i, <1>b, <1>r
  <2>2. CASE PatchRest
    <3>1. /\ phase = "patching" /\ UNCHANGED jmpTarget
          /\ entry' = [entry EXCEPT ![Fn] = "jmp"]
      BY <2>2 DEF PatchRest, Working
    <3>2. Fn \in Built
      BY <3>1 DEF HookInv
    <3>3. entry'[f] # "torn"
      <4>1. f # Fn => entry[f] # "torn"
        BY <2>2 DEF HookInv, PatchRest, Working
      <4> QED
        BY <3>1, <4>1, <2>t
    <3> QED
      BY <3>1, <3>2, <3>3, <2>t, <2>i, <1>b, <1>r
  <2>3. CASE Redirect
    <3>1. /\ phase = "redirect" /\ UNCHANGED entry
          /\ jmpTarget' = [jmpTarget EXCEPT ![Fn] = "hook"]
      BY <2>3 DEF Redirect, Working
    <3>2. Fn \in replacements
      BY <3>1 DEF HookInv
    <3> QED
      BY <3>1, <3>2, <2>t, <2>i, <1>b, <1>r
  <2>4. CASE ~Patch /\ ~PatchRest /\ ~Redirect
    <3>1. UNCHANGED <<entry, jmpTarget>> /\ phase # "patching"
      BY <2>4 DEF AgentStep, Decode, DecodeFails, Reserve, StoreFaults, Encode,
           EncodeFails, Link, Store, hookVars, Working
    <3> QED
      BY <3>1, <2>i, <1>b, <1>r
  <2> QED
    BY <2>1, <2>2, <2>3, <2>4
<1> QED
  BY <1>1, <1>2, <1>3, <1>4 DEF HookInv

LEMMA ThreadStepInv ==
  ASSUME TrampolineInv, NEW t \in Threads, ThreadStep(t)
  PROVE  TrampolineInv' /\ UNCHANGED <<prologue, agentVars>>
<1>i. TrampolineTypeOK /\ AgentInv /\ HookInv
  BY DEF TrampolineInv
<1>u. UNCHANGED <<prologue, agentVars>>
  BY DEF ThreadStep, Enter, Run, Return, Jump, RunTorn, CallOriginal, RunCopy, Go
<1>v. /\ UNCHANGED <<prologue, phase, pos, decoded, copyLen, encoded, assembled>>
      /\ UNCHANGED <<reserved, lastReserved, stub, entry, jmpTarget, replacements>>
  BY <1>u DEF agentVars, bufferVars, hookVars
<1>t. /\ pc \in [Threads -> {"out", "run", "hook", "copy", "wild"}]
      /\ at \in [Threads -> Functions \cup {""}]
      /\ next \in [Threads -> Nat \ {0}] /\ offset \in [Threads -> Nat]
      /\ entry \in [Functions -> {"original", "torn", "jmp"}]
      /\ jmpTarget \in [Functions -> {"copy", "hook"}]
  BY <1>i DEF TrampolineTypeOK
<1>x. offset[t] \in Nat /\ next[t] \in Nat \ {0}
  <2>1. next[t] \in Nat \ {0}
    BY <1>t, Zenon
  <2> QED
    BY <1>t, <2>1
<1>p. \A f \in Functions : prologue[f] \in Seq(Instruction)
  <2>1. prologue \in [Functions -> Prologues]
    BY <1>i DEF TrampolineTypeOK
  <2> QED
    BY <2>1, ProloguesAssumption
<1>h. /\ pc[t] # "out" => at[t] \in Functions
      /\ pc[t] = "hook" => at[t] \in replacements
      /\ pc[t] \in {"hook", "copy"} => at[t] \in Built
  BY <1>i DEF HookInv
<1>1. /\ pc' \in [Threads -> {"out", "run", "hook", "copy", "wild"}]
      /\ at' \in [Threads -> Functions \cup {""}]
      /\ next' \in [Threads -> Nat \ {0}] /\ offset' \in [Threads -> Nat]
      /\ \A u \in Threads \ {t} : pc'[u] = pc[u] /\ at'[u] = at[u]
      /\ pc'[t] # "out" => at'[t] \in Functions
      /\ pc'[t] = "hook" => at'[t] \in replacements
      /\ pc'[t] \in {"hook", "copy"} => at'[t] \in Built
  <2>1. CASE \E f \in Functions : Enter(t, f)
    <3>1. PICK f \in Functions : Enter(t, f)
      BY <2>1
    <3>2. /\ pc' = [pc EXCEPT ![t] = "run"] /\ at' = [at EXCEPT ![t] = f]
          /\ next' = [next EXCEPT ![t] = 1] /\ offset' = [offset EXCEPT ![t] = 0]
      BY <3>1 DEF Enter
    <3>3. 1 \in Nat \ {0} /\ 0 \in Nat
      OBVIOUS
    <3>4. /\ next' \in [Threads -> Nat \ {0}] /\ offset' \in [Threads -> Nat]
      BY <3>2, <3>3, <1>t
    <3>5. /\ pc' \in [Threads -> {"out", "run", "hook", "copy", "wild"}]
          /\ at' \in [Threads -> Functions \cup {""}]
          /\ \A u \in Threads \ {t} : pc'[u] = pc[u] /\ at'[u] = at[u]
          /\ pc'[t] = "run" /\ at'[t] = f
      BY <3>2, <1>t
    <3> QED
      BY <3>4, <3>5
  <2>2. CASE Run(t)
    <3>1. /\ pc' = pc /\ at' = at /\ pc[t] = "run"
          /\ offset' = [offset EXCEPT ![t] = @ + prologue[at[t]][next[t]].length]
          /\ next' = [next EXCEPT ![t] = @ + 1]
          /\ next[t] <= Len(prologue[at[t]])
      <4>1. ~(next[t] > Len(prologue[at[t]]))
        BY <2>2 DEF Run, Behind
      <4>2. prologue[at[t]] \in Seq(Instruction)
        BY <2>2, <1>h, <1>p DEF Run
      <4>3. Len(prologue[at[t]]) \in Nat /\ next[t] \in Nat
        BY <4>2, <1>x
      <4>4. next[t] <= Len(prologue[at[t]])
        BY <4>1, <4>3
      <4> QED
        BY <2>2, <4>4 DEF Run
    <3>2. prologue[at[t]][next[t]].length \in Nat
      <4>1. prologue[at[t]] \in Seq(Instruction)
        BY <3>1, <1>h, <1>p
      <4>2. next[t] \in 1 .. Len(prologue[at[t]])
        BY <3>1, <4>1, <1>x
      <4>3. prologue[at[t]][next[t]] \in Instruction
        BY <4>1, <4>2
      <4> QED
        BY <4>3 DEF Instruction, MaxLength
    <3>4. next' \in [Threads -> Nat \ {0}] /\ offset' \in [Threads -> Nat]
      <4> DEFINE n == prologue[at[t]][next[t]].length
      <4>1. /\ n \in Nat /\ offset' = [offset EXCEPT ![t] = @ + n]
            /\ next' = [next EXCEPT ![t] = @ + 1]
        BY <3>1, <3>2
      <4> HIDE DEF n
      <4>2. offset[t] + n \in Nat /\ next[t] + 1 \in Nat \ {0}
        BY <4>1, <1>x
      <4> QED
        BY <4>1, <4>2, <1>t
    <3> QED
      BY <3>1, <3>4, <1>t, <1>h
  <2>3. CASE Jump(t)
    <3>1. /\ pc[t] = "run" /\ entry[at[t]] = "jmp" /\ at' = at
          /\ next' = next /\ offset' = offset
          /\ pc' = [pc EXCEPT ![t] = jmpTarget[at[t]]]
      BY <2>3 DEF Jump, Go
    <3>2. /\ at[t] \in Functions /\ at[t] \in Built
          /\ jmpTarget[at[t]] = "hook" => at[t] \in replacements
      BY <3>1, <1>h, <1>i DEF HookInv
    <3>3. jmpTarget[at[t]] \in {"copy", "hook"}
      BY <3>2, <1>t
    <3>4. /\ pc' \in [Threads -> {"out", "run", "hook", "copy", "wild"}]
          /\ pc'[t] = jmpTarget[at[t]]
          /\ \A u \in Threads \ {t} : pc'[u] = pc[u]
      BY <3>1, <3>3, <1>t
    <3>5. /\ pc'[t] # "out" => at'[t] \in Functions
          /\ pc'[t] = "hook" => at'[t] \in replacements
          /\ pc'[t] \in {"hook", "copy"} => at'[t] \in Built
      BY <3>1, <3>2, <3>4
    <3>6. /\ at' \in [Threads -> Functions \cup {""}]
          /\ next' \in [Threads -> Nat \ {0}] /\ offset' \in [Threads -> Nat]
      BY <3>1, <1>t
    <3> QED
      BY <3>1, <3>4, <3>5, <3>6
  <2>4. CASE Return(t) \/ RunTorn(t) \/ CallOriginal(t) \/ RunCopy(t)
    <3>1. /\ at' = at /\ next' = next /\ offset' = offset /\ pc[t] # "out"
          /\ \E where \in {"out", "copy", "wild"} :
               pc' = [pc EXCEPT ![t] = where] /\ (where = "copy" => pc[t] = "hook")
      BY <2>4 DEF Return, RunTorn, CallOriginal, RunCopy, Go
    <3>2. PICK where \in {"out", "copy", "wild"} :
            pc' = [pc EXCEPT ![t] = where] /\ (where = "copy" => pc[t] = "hook")
      BY <3>1
    <3>3. /\ pc' \in [Threads -> {"out", "run", "hook", "copy", "wild"}]
          /\ pc'[t] = where
          /\ \A u \in Threads \ {t} : pc'[u] = pc[u]
      BY <3>2, <1>t
    <3>4. at' \in [Threads -> Functions \cup {""}]
          /\ next' \in [Threads -> Nat \ {0}] /\ offset' \in [Threads -> Nat]
      BY <3>1, <1>t
    <3>5. /\ pc'[t] # "out" => at'[t] \in Functions
          /\ pc'[t] \in {"hook", "copy"} => at'[t] \in Built
          /\ pc'[t] # "hook"
      BY <3>1, <3>2, <3>3, <1>h
    <3> QED
      BY <3>1, <3>3, <3>4, <3>5
  <2> QED
    BY <2>1, <2>2, <2>3, <2>4 DEF ThreadStep
<1>2. TrampolineTypeOK'
  BY <1>i, <1>v, <1>1 DEF TrampolineTypeOK
<1>3. AgentInv'
  BY <1>i, <1>v, SameFn DEF AgentInv
<1>4. HookInv'
  <2>1. Built' = Built /\ Fn' = Fn
    BY <1>v, SameFn DEF Built
  <2>2. \A u \in Threads :
          /\ pc'[u] # "out" => at'[u] \in Functions
          /\ pc'[u] = "hook" => at'[u] \in replacements
          /\ pc'[u] \in {"hook", "copy"} => at'[u] \in Built
    BY <1>1, <1>i DEF HookInv
  <2> QED
    BY <2>1, <2>2, <1>v, <1>i DEF HookInv
<1> QED
  BY <1>u, <1>2, <1>3, <1>4 DEF TrampolineInv

LEMMA TrampolineStutter == TrampolineInv /\ UNCHANGED trampolineVars => TrampolineInv'
<1> SUFFICES ASSUME TrampolineInv, UNCHANGED trampolineVars PROVE TrampolineInv'
  OBVIOUS
<1>v. /\ UNCHANGED <<prologue, phase, pos, decoded, copyLen, encoded, assembled>>
      /\ UNCHANGED <<reserved, lastReserved, stub, entry, jmpTarget, replacements>>
      /\ UNCHANGED <<pc, at, next, offset>>
  BY DEF trampolineVars, agentVars, bufferVars, hookVars, threadVars
<1>1. TrampolineTypeOK'
  BY <1>v DEF TrampolineInv, TrampolineTypeOK
<1>2. AgentInv'
  BY <1>v, SameFn DEF TrampolineInv, AgentInv
<1>3. Built' = Built /\ Fn' = Fn
  BY <1>v, SameFn DEF Built
<1>4. HookInv'
  BY <1>v, <1>3 DEF TrampolineInv, HookInv
<1> QED
  BY <1>1, <1>2, <1>4 DEF TrampolineInv

-----------------------------------------------------------------------------
(***************************************************************************)
(* The inductive invariant of Attach.  Its heart: the threads of a started  *)
(* process are held until the remote thread is done, so that the code they  *)
(* run changes only while none of them has begun.                           *)
(***************************************************************************)
InstallInv ==
  /\ installer \in {"main", "create", "open"} => target = "none"
  /\ installer \in {"main", "create", "open", "alloc", "spawn"} => remote = "none"
  /\ installer = "wait" => remote # "none"
  /\ installer = "create" => request.action = "static"
  /\ installer = "open" => request.action = "dynamic"
  /\ installer \in {"snapshot", "resume"} => request.action = "static"
  /\ snapshot # {} => installer = "resume"
  /\ installer \notin {"main", "create", "open", "exit"} => target # "none"
  /\ remote # "configure" => phase \in {"decode", "installed", "failed"}

HeldInv ==
  request.action = "static" =>
    /\ installer \in {"alloc", "spawn", "wait", "snapshot"} =>
         \A t \in Threads : suspend[t] = 1
    /\ installer \in {"snapshot", "resume", "exit"} /\ target = "running" =>
         remote \in {"none", "ended"}

CodeInv ==
  /\ installer = "main" \/ target = "none" => \A t \in Threads : pc[t] = "out"
  /\ request.action = "static" =>
       /\ installer \in {"alloc", "spawn", "wait", "snapshot"} =>
            \A t \in Threads : pc[t] = "out"
       /\ \A t \in Threads :
            /\ pc[t] = "run" /\ offset[t] > 0 => entry[at[t]] = "original"
            /\ pc[t] = "wild" => at[t] \in Built /\ ~Sound(stub[at[t]])

AttachInv == AttachTypeOK /\ TrampolineInv /\ InstallInv /\ HeldInv /\ CodeInv

\* main() asks for nothing else.
LEMMA RequestAction ==
  ASSUME NEW argv PROVE Request(argv).action \in {"usage", "static", "dynamic"}
BY DEF Request, Usage

LEMMA AttachInitInv == AttachInit => AttachInv
<1> SUFFICES ASSUME AttachInit PROVE AttachInv
  OBVIOUS
<1>1. TrampolineInv
  BY TrampolineInitInv DEF AttachInit
<1>2. AttachTypeOK
  BY <1>1 DEF AttachInit, AttachTypeOK, TrampolineInv
<1>3. \A t \in Threads : pc[t] = "out"
  BY DEF AttachInit, TrampolineInit
<1>4. InstallInv /\ HeldInv
  <2>1. phase = "decode"
    BY DEF AttachInit, TrampolineInit
  <2> QED
    BY <2>1 DEF AttachInit, InstallInv, HeldInv
<1>5. CodeInv
  BY <1>3 DEF CodeInv
<1> QED
  BY <1>1, <1>2, <1>4, <1>5 DEF AttachInv

\* An action of the installer or of the system leaves Trampoline alone.
LEMMA InstallKeepsTrampoline == Install \/ Die => UNCHANGED trampolineVars
BY DEF Install, Die, Parse, Create, Open, NoProcess, AllocFails, Push, Spawn, SpawnFails,
       Wait, Snapshot, SnapshotFails, Visit, VisitFails, Exit

LEMMA AttachTrampoline == TrampolineInv /\ [Next]_vars => TrampolineInv'
<1> SUFFICES ASSUME TrampolineInv, [Next]_vars PROVE TrampolineInv'
  OBVIOUS
<1>1. CASE Install \/ Die
  BY <1>1, InstallKeepsTrampoline, TrampolineStutter
<1>2. CASE RemoteThread
  <2>1. CASE ConfigureStep
    BY <2>1, AgentStepType, AgentStepAgentInv, AgentStepHookInv DEF ConfigureStep, TrampolineInv
  <2>2. CASE ~ConfigureStep
    <3>1. UNCHANGED trampolineVars
      BY <1>2, <2>2 DEF RemoteThread, LoadLibrary, LoadLibraryFails, RunsZeroes, Configured,
           ExportReturns, Remote
    <3> QED
      BY <3>1, TrampolineStutter
  <2> QED
    BY <2>1, <2>2
<1>3. CASE \E t \in Threads : TargetStep(t)
  BY <1>3, ThreadStepInv DEF TargetStep
<1>4. CASE UNCHANGED vars
  BY <1>4, TrampolineStutter DEF vars
<1> QED
  BY <1>1, <1>2, <1>3, <1>4 DEF Next

LEMMA AttachType == AttachInv /\ [Next]_vars => AttachTypeOK'
<1> SUFFICES ASSUME AttachInv, [Next]_vars PROVE AttachTypeOK'
  OBVIOUS
<1>1. TrampolineTypeOK'
  BY AttachTrampoline DEF AttachInv, TrampolineInv
<1>t. /\ suspend \in [Threads \cup Others -> {0, 1}]
      /\ snapshot \subseteq Threads \cup Others
      /\ target \in {"none", "running", "dead"} /\ pushed \in BOOLEAN /\ refused \in BOOLEAN
      /\ remote \in {"none", "start", "configure", "export", "ended"}
      /\ installer \in {"main", "create", "open", "alloc", "spawn", "wait",
                        "snapshot", "resume", "exit"}
  BY DEF AttachInv, AttachTypeOK
<1>2. /\ installer' \in {"main", "create", "open", "alloc", "spawn", "wait",
                         "snapshot", "resume", "exit"}
      /\ remote' \in {"none", "start", "configure", "export", "ended"}
      /\ target' \in {"none", "running", "dead"}
  BY <1>t DEF Next, Install, Die, Parse, Create, Open, NoProcess, AllocFails, Push, Spawn,
       SpawnFails, Wait, Snapshot, SnapshotFails, Visit, VisitFails, Exit, Loaded,
       RemoteThread, LoadLibrary, LoadLibraryFails, RunsZeroes, ConfigureStep, Configured,
       ExportReturns, Remote, TargetStep, vars, installVars, processVars
<1>3. pushed' \in BOOLEAN /\ refused' \in BOOLEAN
  BY <1>t DEF Next, Install, Die, Parse, Create, Open, NoProcess, AllocFails, Push, Spawn,
       SpawnFails, Wait, Snapshot, SnapshotFails, Visit, VisitFails, Exit,
       RemoteThread, LoadLibrary, LoadLibraryFails, RunsZeroes, ConfigureStep, Configured,
       ExportReturns, Remote, TargetStep, vars, installVars, processVars, resumeVars
<1>4. /\ suspend' \in [Threads \cup Others -> {0, 1}]
      /\ snapshot' \subseteq Threads \cup Others
  <2>1. CASE \E t \in Threads \cup Others : Visit(t)
    BY <2>1, <1>t DEF Visit
  <2>2. CASE Create
    BY <2>2, <1>t DEF Create, resumeVars
  <2>3. CASE ~Create /\ ~\E t \in Threads \cup Others : Visit(t)
    BY <2>3, <1>t DEF Next, Install, Die, Parse, Open, NoProcess, AllocFails, Push, Spawn,
         SpawnFails, Wait, Snapshot, SnapshotFails, VisitFails, Exit,
         RemoteThread, LoadLibrary, LoadLibraryFails, RunsZeroes, ConfigureStep, Configured,
         ExportReturns, Remote, TargetStep, vars, installVars, processVars, resumeVars
  <2> QED
    BY <2>1, <2>2, <2>3
<1> QED
  BY <1>1, <1>2, <1>3, <1>4 DEF AttachTypeOK

LEMMA AttachInstall == AttachInv /\ [Next]_vars => InstallInv' /\ HeldInv'
<1> SUFFICES ASSUME AttachTypeOK, InstallInv, HeldInv, [Next]_vars
             PROVE  InstallInv' /\ HeldInv'
  BY DEF AttachInv
<1>t. suspend \in [Threads \cup Others -> {0, 1}]
  BY DEF AttachTypeOK
<1>1. CASE Parse
  <2>1. /\ installer = "main" /\ request' = Request(Argv(line))
        /\ installer' = IF request'.action = "usage" \/ request'.agent \notin Files THEN "exit"
                        ELSE IF request'.action = "static" THEN "create" ELSE "open"
        /\ UNCHANGED <<target, remote, snapshot, phase>>
    BY <1>1 DEF Parse, trampolineVars, agentVars, processVars, resumeVars
  <2>2. request'.action \in {"usage", "static", "dynamic"}
    BY <2>1, RequestAction
  <2> QED
    BY <2>1, <2>2 DEF InstallInv, HeldInv
<1>2. CASE Create
  <2>1. /\ installer = "create" /\ installer' = "alloc"
        /\ suspend' = [t \in Threads \cup Others |-> IF t \in Threads THEN 1 ELSE suspend[t]]
        /\ UNCHANGED <<request, remote, snapshot, phase>> /\ target' = "running"
    BY <1>2 DEF Create, trampolineVars, agentVars, requestVars, resumeVars
  <2>2. \A t \in Threads : suspend'[t] = 1
    BY <2>1
  <2> QED
    BY <2>1, <2>2 DEF InstallInv, HeldInv
<1>3. CASE \E t \in Threads \cup Others : Visit(t) \/ VisitFails(t)
  <2>1. /\ snapshot # {} /\ snapshot' \subseteq snapshot
        /\ UNCHANGED <<request, installer, target, remote, phase>>
    BY <1>3 DEF Visit, VisitFails, trampolineVars, agentVars, requestVars, processVars
  <2>2. installer = "resume"
    BY <2>1 DEF InstallInv
  <2> QED
    BY <2>1, <2>2 DEF InstallInv, HeldInv
<1>4. CASE /\ Install /\ ~Parse /\ ~Create
           /\ ~\E t \in Threads \cup Others : Visit(t) \/ VisitFails(t)
  <2>1. UNCHANGED <<request, suspend, phase>>
    BY <1>4 DEF Install, Open, NoProcess, AllocFails, Push, Spawn, SpawnFails, Wait,
         Snapshot, SnapshotFails, Exit, trampolineVars, agentVars, requestVars, processVars
  <2>2. InstallInv'
    BY <1>4, <2>1 DEF Install, Open, NoProcess, AllocFails, Push, Spawn, SpawnFails, Wait,
         Snapshot, SnapshotFails, Exit, Loaded, InstallInv, processVars, resumeVars
  <2>3. HeldInv'
    BY <1>4, <2>1 DEF Install, Open, NoProcess, AllocFails, Push, Spawn, SpawnFails, Wait,
         Snapshot, SnapshotFails, Exit, Loaded, InstallInv, HeldInv, processVars
  <2> QED
    BY <2>2, <2>3
<1>5. CASE RemoteThread
  <2>1. UNCHANGED <<request, installer, suspend, snapshot>> /\ target = "running"
    BY <1>5 DEF RemoteThread, LoadLibrary, LoadLibraryFails, RunsZeroes, ConfigureStep,
         Configured, ExportReturns, Remote, installVars, requestVars, resumeVars, processVars
  <2>2. /\ installer \notin {"main", "create", "open"}
        /\ remote \notin {"none", "ended"}
    BY <1>5, <2>1 DEF RemoteThread, LoadLibrary, LoadLibraryFails, RunsZeroes, ConfigureStep,
         Configured, ExportReturns, Remote, InstallInv
  <2>3. /\ remote' # "none"
        /\ remote' # "configure" => phase' \in {"decode", "installed", "failed"}
    BY <1>5, <2>2 DEF RemoteThread, LoadLibrary, LoadLibraryFails, RunsZeroes, ConfigureStep,
         Configured, ExportReturns, Remote, InstallInv, trampolineVars, agentVars
  <2>4. target' # "none"
    BY <1>5, <2>1 DEF RemoteThread, LoadLibrary, LoadLibraryFails, RunsZeroes, ConfigureStep,
         Configured, ExportReturns, Remote, processVars
  <2>5. InstallInv'
    BY <2>1, <2>2, <2>3, <2>4 DEF InstallInv
  <2> QED
    BY <2>1, <2>2, <2>5 DEF HeldInv
<1>6. CASE Die \/ (\E t \in Threads : TargetStep(t)) \/ UNCHANGED vars
  <2>1. UNCHANGED <<request, installer, suspend, snapshot, remote, phase>>
    BY <1>6 DEF Die, TargetStep, ThreadStep, Enter, Run, Return, Jump, RunTorn, CallOriginal,
         RunCopy, Go, vars, installVars, requestVars, resumeVars, processVars,
         trampolineVars, agentVars
  <2>2. target' = target \/ (target = "running" /\ target' = "dead")
    BY <1>6 DEF Die, TargetStep, vars, processVars
  <2> QED
    BY <2>1, <2>2 DEF InstallInv, HeldInv
<1> QED
  BY <1>1, <1>2, <1>3, <1>4, <1>5, <1>6 DEF Next

LEMMA AttachCode == AttachInv /\ [Next]_vars => CodeInv'
<1> SUFFICES ASSUME AttachTypeOK, TrampolineInv, InstallInv, HeldInv, CodeInv, [Next]_vars
             PROVE  CodeInv'
  BY DEF AttachInv
<1>t. /\ pc \in [Threads -> {"out", "run", "hook", "copy", "wild"}]
      /\ at \in [Threads -> Functions \cup {""}] /\ offset \in [Threads -> Nat]
  BY DEF TrampolineInv, TrampolineTypeOK
<1>h. HookInv
  BY DEF TrampolineInv
\* While the installer works the threads stay where they are.
<1>1. CASE Install \/ Die \/ UNCHANGED vars
  <2>1. UNCHANGED <<pc, at, offset, entry, stub>>
    BY <1>1, InstallKeepsTrampoline
    DEF vars, trampolineVars, agentVars, threadVars, hookVars
  <2>2. Built' = Built
    BY <2>1 DEF Built
  <2>3. CASE Parse
    <3>1. /\ \A t \in Threads : pc[t] = "out"
          /\ UNCHANGED target
      BY <2>3 DEF Parse, CodeInv, processVars
    <3> QED
      BY <2>1, <3>1 DEF CodeInv
  <2>4. CASE ~Parse
    <3>1. /\ UNCHANGED request
          /\ installer' = "main" => installer = "main"
          /\ target' = "none" => target = "none"
          /\ \/ installer \in {"create", "open"}
             \/ /\ request.action = "static"
                /\ installer' \in {"alloc", "spawn", "wait", "snapshot"} =>
                     installer \in {"alloc", "spawn", "wait", "snapshot"}
             \/ request.action # "static"
             \/ installer = "main" /\ installer' = "main"
      BY <1>1, <2>4 DEF Install, Create, Open, NoProcess, AllocFails, Push, Spawn, SpawnFails,
           Wait, Snapshot, SnapshotFails, Visit, VisitFails, Exit, Die, Loaded, vars,
           installVars, requestVars, processVars
    <3>2. installer \in {"main", "create", "open"} => \A t \in Threads : pc[t] = "out"
      BY DEF InstallInv, CodeInv
    <3> QED
      BY <2>1, <2>2, <3>1, <3>2 DEF CodeInv
  <2> QED
    BY <2>3, <2>4
\* The remote thread changes code, but in a started process no thread runs yet.
<1>2. CASE RemoteThread
  <2>1. /\ UNCHANGED <<request, installer, pc, at, offset>> /\ target = "running"
        /\ target' \in {"running", "dead"}
    BY <1>2 DEF RemoteThread, LoadLibrary, LoadLibraryFails, RunsZeroes, ConfigureStep,
         Configured, ExportReturns, Remote, installVars, requestVars, processVars,
         AgentStep, Decode, DecodeFails, Reserve, StoreFaults, Encode, EncodeFails, Link,
         Patch, PatchRest, Store, Redirect, trampolineVars, threadVars
  <2>2. installer # "main"
    BY <2>1 DEF InstallInv
  <2>3. ASSUME request.action = "static" PROVE \A t \in Threads : pc[t] = "out"
    <3>1. remote \notin {"none", "ended"}
      BY <1>2 DEF RemoteThread, LoadLibrary, LoadLibraryFails, RunsZeroes, ConfigureStep,
           Configured, ExportReturns, Remote
    <3>2. installer = "wait"
      BY <2>1, <2>3, <3>1 DEF InstallInv, HeldInv, AttachTypeOK
    <3> QED
      BY <2>3, <3>2 DEF CodeInv
  <2> QED
    BY <2>1, <2>2, <2>3 DEF CodeInv
\* A thread runs only where nothing is written any more.
<1>3. CASE \E t \in Threads : TargetStep(t)
  <2> PICK t \in Threads : TargetStep(t)
    BY <1>3
  <2>1. /\ UNCHANGED <<request, installer, target>>
        /\ target = "running" /\ suspend[t] = 0 /\ ThreadStep(t)
    BY DEF TargetStep, installVars, requestVars, processVars
  <2>2. installer # "main"
    BY <2>1 DEF InstallInv
  <2>3. UNCHANGED <<entry, stub>>
    BY <2>1, ThreadStepInv DEF agentVars, hookVars
  <2>b. Built' = Built
    BY <2>3 DEF Built
  <2>4. CASE request.action = "static"
    <3>1. installer \notin {"main", "create", "open", "alloc", "spawn", "wait", "snapshot"}
      BY <2>1, <2>4 DEF InstallInv, HeldInv
    <3>2. remote \in {"none", "ended"}
      BY <2>1, <2>4, <3>1 DEF HeldInv, AttachTypeOK
    <3>3. \A f \in Functions : entry[f] # "torn"
      BY <3>2, <1>h DEF HookInv, InstallInv
    <3>4. \A u \in Threads \ {t} : pc'[u] = pc[u] /\ at'[u] = at[u] /\ offset'[u] = offset[u]
      BY <2>1, <1>t DEF ThreadStep, Enter, Run, Return, Jump, RunTorn, CallOriginal, RunCopy, Go
    <3>5. /\ pc'[t] = "run" /\ offset'[t] > 0 => entry[at'[t]] = "original"
          /\ pc'[t] = "wild" => at'[t] \in Built /\ ~Sound(stub[at'[t]])
      <4>i. /\ pc[t] = "run" /\ offset[t] > 0 => entry[at[t]] = "original"
            /\ pc[t] # "out" => at[t] \in Functions
            /\ pc[t] = "hook" => at[t] \in replacements
            /\ pc[t] \in {"hook", "copy"} => at[t] \in Built
        BY <2>4, <1>h DEF CodeInv, HookInv
      <4>1. CASE \E f \in Functions : Enter(t, f)
        <5>1. PICK f \in Functions : Enter(t, f)
          BY <4>1
        <5>2. /\ pc' = [pc EXCEPT ![t] = "run"] /\ offset' = [offset EXCEPT ![t] = 0]
          BY <5>1 DEF Enter
        <5>3. pc'[t] = "run" /\ offset'[t] = 0
          BY <5>2, <1>t
        <5> QED
          BY <5>3
      <4>2. CASE Run(t)
        BY <4>2, <1>t DEF Run
      <4>3. CASE Return(t)
        BY <4>3, <1>t DEF Return, Go
      <4>4. CASE Jump(t)
        <5>1. /\ at[t] \in Functions /\ pc' = [pc EXCEPT ![t] = jmpTarget[at[t]]]
          BY <4>4, <4>i DEF Jump, Go
        <5>2. jmpTarget[at[t]] \in {"copy", "hook"}
          BY <5>1 DEF TrampolineInv, TrampolineTypeOK
        <5> QED
          BY <5>1, <5>2, <1>t
      <4>5. CASE RunTorn(t)
        <5>1. pc[t] = "run" /\ entry[at[t]] = "jmp" /\ offset[t] > 0
          BY <4>5, <4>i, <3>3 DEF RunTorn
        <5> QED
          BY <5>1, <4>i
      <4>6. CASE CallOriginal(t)
        BY <4>6, <4>i, <1>t DEF CallOriginal, Go
      <4>7. CASE RunCopy(t)
        BY <4>7, <4>i, <1>t DEF RunCopy, Go
      <4> QED
        BY <2>1, <4>1, <4>2, <4>3, <4>4, <4>5, <4>6, <4>7 DEF ThreadStep
    <3>6. \A u \in Threads :
            /\ pc'[u] = "run" /\ offset'[u] > 0 => entry[at'[u]] = "original"
            /\ pc'[u] = "wild" => at'[u] \in Built /\ ~Sound(stub[at'[u]])
      <4> TAKE u \in Threads
      <4>1. CASE u = t
        BY <4>1, <3>5
      <4>2. CASE u # t
        BY <4>2, <3>4, <2>4 DEF CodeInv
      <4> QED
        BY <4>1, <4>2
    <3> QED
      BY <2>1, <2>2, <2>3, <2>b, <3>1, <3>6 DEF CodeInv
  <2>5. CASE request.action # "static"
    BY <2>1, <2>2, <2>5 DEF CodeInv
  <2> QED
    BY <2>4, <2>5
<1> QED
  BY <1>1, <1>2, <1>3 DEF Next

-----------------------------------------------------------------------------
THEOREM AttachInvariant == Spec => []AttachInv
<1>1. AttachInv /\ [Next]_vars => AttachInv'
  BY AttachTrampoline, AttachType, AttachInstall, AttachCode DEF AttachInv
<1> QED
  BY AttachInitInv, <1>1, PTL DEF Spec

\* Types; among them that what is copied stays within the room for it, and what
\* is reserved within the code buffer.
THEOREM AttachTypes == Spec => []AttachTypeOK
<1>1. AttachInv => AttachTypeOK
  BY DEF AttachInv
<1> QED
  BY AttachInvariant, <1>1, PTL

\* StubsApart for any number of functions the buffer has room for: the padding
\* of every stub is the same, so a stub starts 64 bytes behind the one before.
THEOREM StubsDoNotOverlap == Spec => []StubsApart
<1>1. AttachInv => StubsApart
  <2> SUFFICES ASSUME TrampolineTypeOK, AgentInv PROVE StubsApart
    BY DEF AttachInv, TrampolineInv
  <2>1. \A f \in Built : /\ StubEnd(f) \in Nat /\ stub[f].start \in Nat
                        /\ StubEnd(f) <= stub[f].start + Align
    <3> TAKE f \in Built
    <3>1. stub[f] \in Stub
      BY DEF Built, TrampolineTypeOK
    <3>2. stub[f].start \in 0 .. BufferSize /\ stub[f].copyLen \in 0 .. MaxCopy
      BY <3>1 DEF Stub
    <3> DEFINE s == stub[f].start
               c == stub[f].copyLen
    <3>3. s \in 0 .. BufferSize /\ c \in 0 .. MaxCopy /\ StubEnd(f) = s + (c + 2 * JmpSize)
      BY <3>2 DEF StubEnd, StubSize
    <3> HIDE DEF s, c
    <3>4. StubEnd(f) \in Nat /\ s \in Nat /\ StubEnd(f) <= s + Align
      BY <3>3, BufferNumbers DEF MaxCopy, MaxLength, JmpSize
    <3> QED
      BY <3>4 DEF s
  <2>2. \A f \in Built : \E i \in 1 .. Len(Hooks) : f = Hooks[i] /\ stub[f].start = Align * i
    <3> TAKE f \in Built
    <3>1. PICK i \in DOMAIN Hooks : f = Hooks[i]
      BY DEF Built, Functions
    <3>2. stub[f].start \in {0, Align * i} /\ stub[f].start # 0
      BY <3>1, <2>1 DEF AgentInv, Built
    <3> QED
      BY <3>1, <3>2, HooksAreFunctions
  <2>3. ASSUME NEW f \in Built PROVE StubEnd(f) <= BufferSize
    <3>1. PICK i \in 1 .. Len(Hooks) : stub[f].start = Align * i
      BY <2>2
    <3>2. Len(Hooks) \in Nat /\ Align * (Len(Hooks) + 1) <= BufferSize
      BY HooksAreFunctions, HooksAssumption
    <3> QED
      BY <2>1, <3>1, <3>2, BufferNumbers
  <2>4. ASSUME NEW f \in Built, NEW g \in Built, f # g
        PROVE  StubEnd(f) <= stub[g].start \/ StubEnd(g) <= stub[f].start
    <3>1. PICK i \in 1 .. Len(Hooks) : f = Hooks[i] /\ stub[f].start = Align * i
      BY <2>2
    <3>2. PICK j \in 1 .. Len(Hooks) : g = Hooks[j] /\ stub[g].start = Align * j
      BY <2>2
    <3>3. i # j /\ i \in Nat /\ j \in Nat
      BY <2>4, <3>1, <3>2
    <3> QED
      BY <2>1, <3>1, <3>2, <3>3 DEF Align
  <2> QED
    BY <2>3, <2>4 DEF StubsApart
<1> QED
  BY AttachInvariant, <1>1, PTL

\* HookFindsOriginal for any threads, attached or started.
THEOREM HooksFindOriginal == Spec => []HookFindsOriginal
<1>1. AttachInv => HookFindsOriginal
  BY DEF AttachInv, TrampolineInv, HookInv, HookFindsOriginal
<1> QED
  BY AttachInvariant, <1>1, PTL

\* OriginalReached whichever calls of the installer are refused.
THEOREM StartedThreadsReachOriginal == Spec => []OriginalReached
<1>1. AttachInv => OriginalReached
  <2> SUFFICES ASSUME AttachInv, Asked.action = "static", NEW t \in Threads, pc[t] = "wild"
               PROVE  at[t] \in Built /\ ~Sound(stub[at[t]])
    BY DEF OriginalReached
  <2>1. installer # "main"
    BY DEF AttachInv, CodeInv
  <2> QED
    BY <2>1 DEF AttachInv, CodeInv, Asked
<1> QED
  BY AttachInvariant, <1>1, PTL

\* What the loop of for_all_threads has done so far: a thread of the target is
\* released, or the snapshot still has it.  Only a started process is suspended.
ReleaseInv ==
  /\ request.action # "static" \/ installer \in {"main", "create"} =>
       \A t \in Threads : suspend[t] = 0
  /\ installer = "resume" /\ target = "running" /\ ~refused =>
       \A t \in Threads : suspend[t] = 0 \/ t \in snapshot
  /\ NoneLeftSuspended

LEMMA AttachRelease == AttachInv /\ ReleaseInv /\ [Next]_vars => ReleaseInv'
<1> SUFFICES ASSUME AttachTypeOK, InstallInv, ReleaseInv, [Next]_vars PROVE ReleaseInv'
  BY DEF AttachInv
<1>t. /\ suspend \in [Threads \cup Others -> {0, 1}]
      /\ installer \in {"main", "create", "open", "alloc", "spawn", "wait",
                        "snapshot", "resume", "exit"}
      /\ refused \in BOOLEAN
  BY DEF AttachTypeOK
<1>1. CASE Parse
  <2>1. /\ installer = "main" /\ target = "none" /\ UNCHANGED <<suspend, target>>
        /\ installer' \in {"exit", "create", "open"}
    BY <1>1 DEF Parse, InstallInv, processVars
  <2> QED
    BY <2>1 DEF ReleaseInv, NoneLeftSuspended
<1>2. CASE Create
  BY <1>2 DEF Create, InstallInv, ReleaseInv, NoneLeftSuspended, requestVars
<1>3. CASE Open \/ NoProcess
  <2>1. /\ installer \in {"create", "open"} /\ target = "none"
        /\ UNCHANGED <<request, suspend>>
        /\ \/ installer = "open" /\ installer' = "alloc"
           \/ installer' = "exit" /\ target' = "none"
    BY <1>3 DEF Open, NoProcess, InstallInv, requestVars, processVars
  <2> QED
    BY <2>1 DEF InstallInv, ReleaseInv, NoneLeftSuspended
<1>4. CASE AllocFails \/ Push \/ Spawn \/ SpawnFails \/ Wait
  <2>1. /\ installer \in {"alloc", "spawn", "wait"} /\ UNCHANGED <<request, suspend>>
        /\ installer' \in {"spawn", "wait", Loaded}
    BY <1>4 DEF AllocFails, Push, Spawn, SpawnFails, Wait, requestVars, processVars
  <2> QED
    BY <2>1 DEF Loaded, ReleaseInv, NoneLeftSuspended
<1>5. CASE Snapshot \/ SnapshotFails
  <2>1. /\ installer = "snapshot" /\ installer' = "resume" /\ request.action = "static"
        /\ UNCHANGED <<request, suspend, target>>
        /\ \/ refused'
           \/ target = "running" => Threads \subseteq snapshot'
    BY <1>5 DEF Snapshot, SnapshotFails, InstallInv, requestVars, processVars
  <2> QED
    BY <2>1 DEF ReleaseInv, NoneLeftSuspended
<1>6. ASSUME NEW v \in Threads \cup Others, Visit(v) PROVE ReleaseInv'
  <2>1. /\ installer = "resume" /\ UNCHANGED <<request, installer, target, refused>>
        /\ snapshot' = snapshot \ {v} /\ request.action = "static"
        /\ suspend' = IF v \in Threads THEN [suspend EXCEPT ![v] = 0] ELSE suspend
    BY <1>6 DEF Visit, InstallInv, requestVars
  <2>2. ASSUME NEW t \in Threads PROVE suspend'[t] = IF t = v THEN 0 ELSE suspend[t]
    <3>1. CASE v \in Threads
      BY <1>t, <2>1, <3>1
    <3>2. CASE v \notin Threads
      BY <2>1, <3>2
    <3> QED
      BY <3>1, <3>2
  <2> QED
    BY <2>1, <2>2 DEF ReleaseInv, NoneLeftSuspended
<1>7. ASSUME NEW v \in Threads \cup Others, VisitFails(v) PROVE ReleaseInv'
  BY <1>7 DEF VisitFails, InstallInv, ReleaseInv, NoneLeftSuspended, requestVars, processVars
<1>8. CASE Exit
  BY <1>8 DEF Exit, InstallInv, ReleaseInv, NoneLeftSuspended, requestVars, processVars,
     resumeVars
<1>9. CASE RemoteThread \/ Die \/ (\E t \in Threads : TargetStep(t)) \/ UNCHANGED vars
  <2>1. UNCHANGED <<request, installer, suspend, snapshot, refused>>
    BY <1>9 DEF RemoteThread, LoadLibrary, LoadLibraryFails, RunsZeroes, ConfigureStep,
       Configured, ExportReturns, Remote, Die, TargetStep, vars, installVars, requestVars,
       resumeVars, processVars
  <2>2. target' = "running" => target = "running"
    BY <1>9 DEF RemoteThread, LoadLibrary, LoadLibraryFails, RunsZeroes, ConfigureStep,
       Configured, ExportReturns, Remote, Die, TargetStep, vars, processVars
  <2> QED
    BY <2>1, <2>2 DEF ReleaseInv, NoneLeftSuspended
<1> QED
  BY <1>1, <1>2, <1>3, <1>4, <1>5, <1>6, <1>7, <1>8, <1>9 DEF Next, Install

\* NoneLeftSuspended, the safety part of TargetReleased, for any number of threads
\* and whatever the system refuses: each way through perform_static_init ends in
\* the loop that resumes, and the loop leaves out no thread it has been given.
THEOREM ExitLeavesNoneSuspended == Spec => []NoneLeftSuspended
<1>1. AttachInit => ReleaseInv
  BY DEF AttachInit, ReleaseInv, NoneLeftSuspended, Usage
<1>2. ReleaseInv => NoneLeftSuspended
  BY DEF ReleaseInv
<1> QED
  BY AttachInvariant, AttachRelease, <1>1, <1>2, PTL DEF Spec

\* Attach implements Launch: with HeldInv, the threads of a started process get
\* to run only after the remote thread has ended, or never began.
THEOREM AttachImplementsLaunch == Spec => ImplementsLaunch
<1>1. AttachInit => Promise!LaunchInit
  BY DEF AttachInit, Promise!LaunchInit, Patching, Released
<1>2. AttachInv /\ [Next]_vars => [Promise!Finish \/ Promise!Release]_(Promise!launchVars)
  <2> SUFFICES ASSUME AttachTypeOK, InstallInv, HeldInv, [Next]_vars
               PROVE  \/ Promise!Finish \/ Promise!Release
                      \/ UNCHANGED <<Patching, Released>>
    BY DEF AttachInv, Promise!launchVars
  <2>b. /\ Patching \in BOOLEAN /\ Patching' \in BOOLEAN
        /\ Released \in BOOLEAN /\ Released' \in BOOLEAN
    BY DEF Patching, Released
  <2>a. Asked' = Asked
    BY DEF Asked, Next, Install, Die, Parse, Create, Open, NoProcess, AllocFails, Push, Spawn,
       SpawnFails, Wait, Snapshot, SnapshotFails, Visit, VisitFails, Exit, Loaded,
       RemoteThread, LoadLibrary, LoadLibraryFails, RunsZeroes, ConfigureStep, Configured,
       ExportReturns, Remote, TargetStep, vars, installVars, requestVars
  <2>c. target \in {"none", "running", "dead"} /\ (installer = "resume" => target # "none")
    BY DEF AttachTypeOK, InstallInv
  \* The code is left alone for good.
  <2>1. Patching' => Patching
    BY DEF Patching, Next, Install, Die, Parse, Create, Open, NoProcess, AllocFails, Push,
       Spawn, SpawnFails, Wait, Snapshot, SnapshotFails, Visit, VisitFails, Exit, Loaded,
       RemoteThread, LoadLibrary, LoadLibraryFails, RunsZeroes, ConfigureStep, Configured,
       ExportReturns, Remote, TargetStep, vars, installVars, processVars, AttachTypeOK,
       InstallInv
  <2>2. CASE \E t \in Threads \cup Others : Visit(t)
    <3>1. /\ installer = "resume" /\ UNCHANGED <<installer, target, remote>>
          /\ request.action = "static"
      BY <2>2 DEF Visit, InstallInv
    <3>2. ~Patching /\ ~Patching'
      <4>1. target = "running" => remote \in {"none", "ended"}
        BY <3>1 DEF HeldInv
      <4>2. target \in {"none", "running", "dead"} /\ target # "none"
        BY <2>c, <3>1
      <4>3. ~Patching
        BY <3>1, <4>1, <4>2 DEF Patching
      <4>4. Patching' = Patching
        BY <3>1 DEF Patching
      <4> QED
        BY <4>3, <4>4
    <3>3. Released => Released'
      <4>1. \A t \in Threads : suspend[t] = 0 => suspend'[t] = 0
        <5>1. suspend \in [Threads \cup Others -> {0, 1}]
          BY DEF AttachTypeOK
        <5> QED
          BY <2>2, <5>1 DEF Visit
      <4> QED
        BY <2>a, <3>1, <4>1 DEF Released
    <3> QED
      BY <3>2, <3>3, <2>b DEF Promise!Release
  <2>3. CASE ~\E t \in Threads \cup Others : Visit(t)
    <3>1. Released' = Released
      <4>1. CASE Create
        <5>1. target = "none" /\ \A t \in Threads : suspend'[t] = 1
          BY <4>1 DEF Create, InstallInv
        <5> QED
          BY <5>1, <2>a DEF Released
      <4>2. CASE Open
        <5>1. Asked.action = "dynamic"
          BY <4>2 DEF Open, InstallInv, Asked
        <5> QED
          BY <5>1, <2>a DEF Released
      <4>3. CASE ~Create /\ ~Open
        <5>1. suspend' = suspend /\ (target' = "none" <=> target = "none")
          BY <2>3, <4>3 DEF Next, Install, Die, Parse, NoProcess, AllocFails, Push, Spawn,
             SpawnFails, Wait, Snapshot, SnapshotFails, VisitFails, Exit,
             RemoteThread, LoadLibrary, LoadLibraryFails, RunsZeroes, ConfigureStep,
             Configured, ExportReturns, Remote, TargetStep, vars, installVars, processVars
        <5> QED
          BY <5>1, <2>a DEF Released
      <4> QED
        BY <4>1, <4>2, <4>3
    <3> QED
      BY <3>1, <2>1, <2>b DEF Promise!Finish, Patching
  <2> QED
    BY <2>2, <2>3
<1> QED
  BY AttachInvariant, <1>1, <1>2, PTL DEF Spec, ImplementsLaunch, Promise!LaunchSpec

-----------------------------------------------------------------------------
(***************************************************************************)
(* The command line: parse_arg on lines of documented options.              *)
(***************************************************************************)
Token == [word : STRING, dash : BOOLEAN]

OptionNames == {"s", "d", "a", "p", "help"}

\* The options of a line are sequences of tokens, and none of their values is
\* called like an option: parse_arg would take it for one, dash or not.
Readable(l) ==
  /\ DOMAIN l = 1 .. 3 /\ \A k \in 1 .. 3 : l[k] \in Seq(Token)
  /\ \A k \in 1 .. 3 : \A j \in 2 .. Len(l[k]) : l[k][j].word \notin OptionNames

\* A line that DocumentedLineAccepted is about.
Proper(l) ==
  /\ \A k \in 1 .. 3 : l[k] = <<>> \/ Documented(l[k])
  /\ \A j, k \in 1 .. 3 : j # k /\ l[j] # <<>> /\ l[k] # <<>> => l[j][1] # l[k][1]

OptionsOf(l) == {l[i] : i \in DOMAIN l} \ {<<>>}

\* What argv has before the k-th option.
Before(l, k) == IF k = 1 THEN 0 ELSE IF k = 2 THEN Len(l[1]) ELSE Len(l[1]) + Len(l[2])

\* Lemma: where the tokens of three sequences are in what they make together.
LEMMA ThreeParts ==
  ASSUME NEW x \in Seq(Token), NEW y \in Seq(Token), NEW z \in Seq(Token)
  PROVE  /\ x \o y \o z \in Seq(Token)
         /\ Len(x \o y \o z) = Len(x) + Len(y) + Len(z)
         /\ \A j \in 1 .. Len(x) : (x \o y \o z)[j] = x[j]
         /\ \A j \in 1 .. Len(y) : (x \o y \o z)[Len(x) + j] = y[j]
         /\ \A j \in 1 .. Len(z) : (x \o y \o z)[Len(x) + Len(y) + j] = z[j]
<1> DEFINE xy == x \o y
           xyz == xy \o z
<1>1. Len(x) \in Nat /\ Len(y) \in Nat /\ Len(z) \in Nat
  OBVIOUS
<1>2. /\ xy \in Seq(Token) /\ Len(xy) = Len(x) + Len(y)
      /\ \A i \in 1 .. Len(x) + Len(y) : xy[i] = IF i <= Len(x) THEN x[i] ELSE y[i - Len(x)]
  BY ConcatProperties
<1>3. \A u \in Seq(Token) :
        /\ u \o z \in Seq(Token) /\ Len(u \o z) = Len(u) + Len(z)
        /\ \A i \in 1 .. Len(u) + Len(z) :
             (u \o z)[i] = IF i <= Len(u) THEN u[i] ELSE z[i - Len(u)]
  BY ConcatProperties
<1> HIDE DEF xy
<1>4. /\ xyz \in Seq(Token) /\ Len(xyz) = Len(xy) + Len(z)
      /\ \A i \in 1 .. Len(xy) + Len(z) : xyz[i] = IF i <= Len(xy) THEN xy[i] ELSE z[i - Len(xy)]
  BY <1>2, <1>3
<1> HIDE DEF xyz
<1>5. Len(xyz) = Len(x) + Len(y) + Len(z)
  BY <1>2, <1>4
<1>6. \A j \in 1 .. Len(x) : xyz[j] = x[j]
  BY <1>1, <1>2, <1>4
<1>7. \A j \in 1 .. Len(y) : xyz[Len(x) + j] = y[j]
  BY <1>1, <1>2, <1>4
<1>8. ASSUME NEW j \in 1 .. Len(z) PROVE xyz[Len(x) + Len(y) + j] = z[j]
  <2> DEFINE i == Len(x) + Len(y) + j
  <2>1. i \in 1 .. Len(xy) + Len(z) /\ ~(i <= Len(xy)) /\ i - Len(xy) = j
    BY <1>1, <1>2
  <2> HIDE DEF i
  <2>2. xyz[i] = z[j]
    BY <1>4, <2>1
  <2> QED BY <2>2 DEF i
<1> QED BY <1>4, <1>5, <1>6, <1>7, <1>8 DEF xy, xyz

\* Lemma: where the tokens of the options are in argv.
LEMMA ArgvTokens ==
  ASSUME NEW l, Readable(l)
  PROVE  /\ Argv(l) \in Seq(Token)
         /\ \A k \in 1 .. 3 : Len(l[k]) \in Nat /\ Before(l, k) \in Nat
         /\ \A k \in 1 .. 3 : \A j \in 1 .. Len(l[k]) :
              /\ Before(l, k) + j \in 1 .. Len(Argv(l))
              /\ Argv(l)[Before(l, k) + j] = l[k][j]
         /\ \A i \in 1 .. Len(Argv(l)) :
              \E k \in 1 .. 3 : \E j \in 1 .. Len(l[k]) : i = Before(l, k) + j
<1> DEFINE argv == Argv(l)
           x == l[1]
           y == l[2]
           z == l[3]
<1>1. x \in Seq(Token) /\ y \in Seq(Token) /\ z \in Seq(Token)
  BY DEF Readable
<1>2. argv = x \o y \o z
  BY DEF Argv
<1>3. /\ Before(l, 1) = 0 /\ Before(l, 2) = Len(x) /\ Before(l, 3) = Len(x) + Len(y)
      /\ l[1] = x /\ l[2] = y /\ l[3] = z
  BY DEF Before
<1> HIDE DEF argv, x, y, z
<1>4. /\ argv \in Seq(Token) /\ Len(argv) = Len(x) + Len(y) + Len(z)
      /\ \A j \in 1 .. Len(x) : argv[j] = x[j]
      /\ \A j \in 1 .. Len(y) : argv[Len(x) + j] = y[j]
      /\ \A j \in 1 .. Len(z) : argv[Len(x) + Len(y) + j] = z[j]
  <2>1. /\ x \o y \o z \in Seq(Token)
        /\ Len(x \o y \o z) = Len(x) + Len(y) + Len(z)
        /\ \A j \in 1 .. Len(x) : (x \o y \o z)[j] = x[j]
        /\ \A j \in 1 .. Len(y) : (x \o y \o z)[Len(x) + j] = y[j]
        /\ \A j \in 1 .. Len(z) : (x \o y \o z)[Len(x) + Len(y) + j] = z[j]
    BY <1>1, ThreeParts, Zenon
  <2> QED BY <1>2, <2>1, Zenon
<1>5. Len(x) \in Nat /\ Len(y) \in Nat /\ Len(z) \in Nat
  BY <1>1
<1>6. \A k \in 1 .. 3 : k = 1 \/ k = 2 \/ k = 3
  OBVIOUS
<1>7. ASSUME NEW k \in 1 .. 3 PROVE Len(l[k]) \in Nat /\ Before(l, k) \in Nat
  <2>1. CASE k = 1
    <3>1. Before(l, k) = 0 /\ l[k] = x
      BY <1>3, <2>1
    <3> QED BY <1>5, <3>1
  <2>2. CASE k = 2
    <3>1. Before(l, k) = Len(x) /\ l[k] = y
      BY <1>3, <2>2
    <3> QED BY <1>5, <3>1
  <2>3. CASE k = 3
    <3>1. Before(l, k) = Len(x) + Len(y) /\ l[k] = z
      BY <1>3, <2>3
    <3> QED BY <1>5, <3>1
  <2> QED BY <1>6, <2>1, <2>2, <2>3
<1>8. /\ \A j \in 1 .. Len(x) : 0 + j \in 1 .. Len(argv) /\ argv[0 + j] = x[j]
      /\ \A j \in 1 .. Len(y) : Len(x) + j \in 1 .. Len(argv) /\ argv[Len(x) + j] = y[j]
      /\ \A j \in 1 .. Len(z) : /\ Len(x) + Len(y) + j \in 1 .. Len(argv)
                                /\ argv[Len(x) + Len(y) + j] = z[j]
  BY <1>4, <1>5
<1>9. ASSUME NEW k \in 1 .. 3, NEW j \in 1 .. Len(l[k])
      PROVE  Before(l, k) + j \in 1 .. Len(argv) /\ argv[Before(l, k) + j] = l[k][j]
  <2>1. CASE k = 1
    <3>1. Before(l, k) = 0 /\ l[k] = x
      BY <1>3, <2>1
    <3> QED BY <1>8, <3>1
  <2>2. CASE k = 2
    <3>1. Before(l, k) = Len(x) /\ l[k] = y
      BY <1>3, <2>2
    <3> QED BY <1>8, <3>1
  <2>3. CASE k = 3
    <3>1. Before(l, k) = Len(x) + Len(y) /\ l[k] = z
      BY <1>3, <2>3
    <3> QED BY <1>8, <3>1
  <2> QED BY <1>6, <2>1, <2>2, <2>3
<1>10. ASSUME NEW i \in 1 .. Len(argv)
       PROVE  \E k \in 1 .. 3 : \E j \in 1 .. Len(l[k]) : i = Before(l, k) + j
  <2>1. CASE i \in 1 .. Len(x)
    <3>1. i = 0 + i
      OBVIOUS
    <3>2. \E j \in 1 .. Len(l[1]) : i = Before(l, 1) + j
      BY <1>3, <2>1, <3>1
    <3> QED BY <3>2
  <2>2. CASE i - Len(x) \in 1 .. Len(y)
    <3>1. i = Len(x) + (i - Len(x))
      BY <1>5
    <3>2. \E j \in 1 .. Len(l[2]) : i = Before(l, 2) + j
      BY <1>3, <2>2, <3>1
    <3> QED BY <3>2
  <2>3. CASE i - (Len(x) + Len(y)) \in 1 .. Len(z)
    <3>1. i = Len(x) + Len(y) + (i - (Len(x) + Len(y)))
      BY <1>5
    <3>2. \E j \in 1 .. Len(l[3]) : i = Before(l, 3) + j
      BY <1>3, <2>3, <3>1
    <3> QED BY <3>2
  <2> QED BY <1>4, <1>5, <2>1, <2>2, <2>3
<1> QED BY <1>4, <1>7, <1>9, <1>10 DEF argv

\* Lemma: the tokens that have an option's name are the options themselves.
LEMMA NamesAreOptions ==
  ASSUME NEW l, Readable(l), Proper(l), NEW name \in OptionNames,
         NEW i \in 1 .. Len(Argv(l))
  PROVE  (Argv(l)[i].word = name) <=>
         (\E k \in 1 .. 3 : l[k] # <<>> /\ l[k][1] = Option(name) /\ i = Before(l, k) + 1)
<1>1. ASSUME NEW k \in 1 .. 3, l[k] # <<>>, l[k][1] = Option(name), i = Before(l, k) + 1
      PROVE  Argv(l)[i].word = name
  <2>1. 1 \in 1 .. Len(l[k])
    BY <1>1 DEF Readable
  <2>2. Argv(l)[Before(l, k) + 1] = l[k][1]
    BY <2>1, ArgvTokens
  <2> QED BY <1>1, <2>2 DEF Option
<1>2. ASSUME Argv(l)[i].word = name
      PROVE  \E k \in 1 .. 3 : l[k] # <<>> /\ l[k][1] = Option(name) /\ i = Before(l, k) + 1
  <2>0. PICK k \in 1 .. 3 : \E j \in 1 .. Len(l[k]) : i = Before(l, k) + j
    BY ArgvTokens
  <2>1. PICK j \in 1 .. Len(l[k]) : i = Before(l, k) + j
    BY <2>0
  <2>2. Argv(l)[i] = l[k][j] /\ Len(l[k]) \in Nat
    BY <2>1, ArgvTokens
  <2>3. j = 1
    BY <1>2, <2>2 DEF Readable
  <2>4. l[k] # <<>>
    BY <2>1, <2>2
  <2>5. l[k][1] \in {Option(n) : n \in {"s", "d", "a", "p"}}
    BY <2>4 DEF Proper, Documented
  <2>6. PICK n \in {"s", "d", "a", "p"} : l[k][1] = Option(n)
    BY <2>5
  <2>7. l[k][1].word = name
    BY <1>2, <2>2, <2>3
  <2>8. n = name
    BY <2>6, <2>7 DEF Option
  <2>9. l[k][1] = Option(name)
    BY <2>6, <2>8
  <2> QED BY <2>1, <2>3, <2>4, <2>9
<1> QED BY <1>1, <1>2

\* Lemma: parse_arg reads a documented option with all its values ...
LEMMA ReadsOption ==
  ASSUME NEW l, Readable(l), Proper(l), NEW k \in 1 .. 3, l[k] # <<>>,
         NEW name \in OptionNames, l[k][1] = Option(name),
         NEW size \in Nat, Len(l[k]) = size + 1, NEW required \in 0 .. size
  PROVE  ParseArg(Argv(l), name, size, required) =
           [given |-> TRUE, values |-> SubSeq(l[k], 2, Len(l[k]))]
<1> DEFINE argv == Argv(l)
           b == Before(l, k)
           hits == {i \in DOMAIN argv : argv[i].word = name}
           stops == {n \in 0 .. size : n = size \/ argv[b + 1 + n + 1].dash}
<1>1. /\ argv \in Seq(Token) /\ DOMAIN argv = 1 .. Len(argv) /\ Len(argv) \in Nat /\ b \in Nat
      /\ l[k] \in Seq(Token)
      /\ \A j \in 1 .. size + 1 : b + j \in 1 .. Len(argv) /\ argv[b + j] = l[k][j]
  <2>1. argv \in Seq(Token) /\ b \in Nat /\ l[k] \in Seq(Token)
    <3>1. Argv(l) \in Seq(Token) /\ Before(l, k) \in Nat
      BY ArgvTokens
    <3>2. l[k] \in Seq(Token)
      BY DEF Readable
    <3> QED BY <3>1, <3>2
  <2>2. \A j \in 1 .. Len(l[k]) : b + j \in 1 .. Len(argv) /\ argv[b + j] = l[k][j]
    BY ArgvTokens
  <2> HIDE DEF argv, b
  <2>3. DOMAIN argv = 1 .. Len(argv) /\ Len(argv) \in Nat
    BY <2>1
  <2> QED BY <2>1, <2>2, <2>3
<1>2. \A i \in 1 .. Len(argv) : (argv[i].word = name) <=> (i = b + 1)
  <2>1. \A j \in 1 .. 3 : l[j] # <<>> /\ l[j][1] = Option(name) => j = k
    BY DEF Proper
  <2> QED BY <2>1, NamesAreOptions
<1> HIDE DEF argv, b
<1>3. hits = {b + 1}
  BY <1>1, <1>2
<1>4. Min(hits) = b + 1 /\ hits # {}
  BY <1>1, <1>3 DEF Min
<1>5. Room(argv, b + 1, size)
  BY <1>1 DEF Room
<1>6. stops = {size}
  <2>1. ASSUME NEW n \in 0 .. size, n # size PROVE ~argv[b + 1 + n + 1].dash
    <3>1. n + 2 \in 2 .. Len(l[k]) /\ b + 1 + n + 1 = b + (n + 2) /\ n + 2 \in 1 .. size + 1
      BY <1>1, <2>1
    <3>2. ~l[k][n + 2].dash
      BY <3>1 DEF Proper, Documented
    <3>3. argv[b + (n + 2)] = l[k][n + 2]
      BY <1>1, <3>1
    <3> QED BY <3>1, <3>2, <3>3
  <2> QED BY <2>1
<1>7. Min(stops) = size
  BY <1>6 DEF Min
<1>8. SubSeq(argv, b + 1 + 1, b + 1 + size) = SubSeq(l[k], 2, Len(l[k]))
  <2> DEFINE left == SubSeq(argv, b + 2, b + 1 + size)
             right == SubSeq(l[k], 2, size + 1)
  <2>1. /\ left \in Seq(Token) /\ Len(left) = size
        /\ \A i \in 1 .. size : left[i] = argv[b + 2 + i - 1]
    <3>1. ASSUME NEW i \in b + 2 .. b + 1 + size PROVE argv[i] \in Token
      <4>1. i - b \in 1 .. size + 1 /\ i = b + (i - b)
        BY <1>1
      <4>2. i \in 1 .. Len(argv)
        BY <1>1, <4>1
      <4> QED BY <1>1, <4>2
    <3>2. /\ left \in Seq(Token)
          /\ Len(left) = IF b + 2 <= b + 1 + size THEN b + 1 + size - (b + 2) + 1 ELSE 0
          /\ \A i \in 1 .. b + 1 + size - (b + 2) + 1 : left[i] = argv[b + 2 + i - 1]
      BY <1>1, <3>1, SubSeqProperties
    <3> HIDE DEF left
    <3> QED BY <1>1, <3>2
  <2>2. /\ right \in Seq(Token) /\ Len(right) = size
        /\ \A i \in 1 .. size : right[i] = l[k][2 + i - 1]
    <3>1. \A i \in 2 .. size + 1 : l[k][i] \in Token
      BY <1>1
    <3>2. /\ right \in Seq(Token)
          /\ Len(right) = IF 2 <= size + 1 THEN size + 1 - 2 + 1 ELSE 0
          /\ \A i \in 1 .. size + 1 - 2 + 1 : right[i] = l[k][2 + i - 1]
      BY <1>1, <3>1, SubSeqProperties
    <3> HIDE DEF right
    <3> QED BY <1>1, <3>2
  <2>3. ASSUME NEW i \in 1 .. size PROVE left[i] = right[i]
    <3>1. i + 1 \in 1 .. size + 1 /\ b + 2 + i - 1 = b + (i + 1) /\ 2 + i - 1 = i + 1
      BY <1>1
    <3>2. argv[b + (i + 1)] = l[k][i + 1]
      BY <1>1, <3>1
    <3> HIDE DEF left, right
    <3> QED BY <2>1, <2>2, <3>1, <3>2
  <2>4. left = right
    <3> HIDE DEF left, right
    <3> QED BY <2>1, <2>2, <2>3, SeqEqual
  <2>5. b + 1 + 1 = b + 2
    BY <1>1
  <2> QED BY <2>4, <2>5
<1>9. ~(size < required)
  OBVIOUS
<1>10. ParseArg(argv, name, size, required) =
         IF hits = {} \/ ~Room(argv, Min(hits), size)
            \/ Min({n \in 0 .. size : n = size \/ argv[Min(hits) + n + 1].dash}) < required
         THEN [given |-> FALSE, values |-> <<>>]
         ELSE [given |-> TRUE, values |-> SubSeq(argv, Min(hits) + 1, Min(hits) +
                 Min({n \in 0 .. size : n = size \/ argv[Min(hits) + n + 1].dash}))]
  BY DEF ParseArg
<1> HIDE DEF hits
<1>11. ParseArg(argv, name, size, required) =
         [given |-> TRUE, values |-> SubSeq(argv, b + 1 + 1, b + 1 + size)]
  BY <1>4, <1>5, <1>7, <1>9, <1>10
<1> QED BY <1>8, <1>11 DEF argv

\* ... and none that is not on the line.
LEMMA ReadsNothing ==
  ASSUME NEW l, Readable(l), Proper(l), NEW name \in OptionNames, NEW size, NEW required,
         \A k \in 1 .. 3 : l[k] # <<>> => l[k][1] # Option(name)
  PROVE  ParseArg(Argv(l), name, size, required) = [given |-> FALSE, values |-> <<>>]
<1>1. {i \in DOMAIN Argv(l) : Argv(l)[i].word = name} = {}
  BY ArgvTokens, NamesAreOptions
<1> QED BY <1>1 DEF ParseArg

\* What main makes of the option is what Given says of the line.
Gets(l, name, size, required, otherwise) ==
  LET r == ParseArg(Argv(l), name, size, required) IN
  \/ /\ r.given = TRUE /\ r.values \in Seq(Token) /\ Len(r.values) = size
     /\ Given(OptionsOf(l), name, otherwise) = {r.values}
  \/ /\ r.given = FALSE /\ r.values = <<>>
     /\ Given(OptionsOf(l), name, otherwise) = {otherwise}

\* Lemma: for each option main gets the values that stand behind it.
LEMMA ReadsWhatIsGiven ==
  ASSUME NEW l, Readable(l), Proper(l), NEW name \in {"s", "d", "a", "p"},
         NEW size \in Nat, size = (IF name \in {"s", "p"} THEN 2 ELSE 1),
         NEW required \in 0 .. size, NEW otherwise
  PROVE  Gets(l, name, size, required, otherwise)
<1> DEFINE r == ParseArg(Argv(l), name, size, required)
           mine == {o \in OptionsOf(l) : o[1] = Option(name)}
<1>1. Given(OptionsOf(l), name, otherwise) =
        IF mine = {} THEN {otherwise} ELSE {SubSeq(o, 2, Len(o)) : o \in mine}
  BY DEF Given
<1>2. OptionsOf(l) = {l[k] : k \in 1 .. 3} \ {<<>>}
  BY DEF OptionsOf, Readable
<1>3. name \in OptionNames
  BY DEF OptionNames
<1>4. CASE \E k \in 1 .. 3 : l[k] # <<>> /\ l[k][1] = Option(name)
  <2>1. PICK k \in 1 .. 3 : l[k] # <<>> /\ l[k][1] = Option(name)
    BY <1>4
  <2>2. mine = {l[k]}
    BY <1>2, <2>1 DEF Proper
  <2>3. Len(l[k]) = size + 1 /\ l[k] \in Seq(Token)
    <3>1. Documented(l[k]) /\ l[k] \in Seq(Token)
      BY <2>1 DEF Proper, Readable
    <3>2. l[k][1].word = name
      BY <2>1 DEF Option
    <3> QED BY <3>1, <3>2 DEF Documented
  <2> DEFINE v == SubSeq(l[k], 2, Len(l[k]))
  <2>4. r = [given |-> TRUE, values |-> v]
    BY <1>3, <2>1, <2>3, ReadsOption
  <2>5. v \in Seq(Token) /\ Len(v) = size
    <3>1. \A i \in 2 .. size + 1 : l[k][i] \in Token
      BY <2>3
    <3>2. v \in Seq(Token) /\ Len(v) = IF 2 <= size + 1 THEN size + 1 - 2 + 1 ELSE 0
      BY <2>3, <3>1, SubSeqProperties
    <3> HIDE DEF v
    <3> QED BY <3>2
  <2> HIDE DEF r
  <2>6. Given(OptionsOf(l), name, otherwise) = {v}
    BY <1>1, <2>2
  <2> HIDE DEF v
  <2>7. /\ r.given = TRUE /\ r.values \in Seq(Token) /\ Len(r.values) = size
        /\ Given(OptionsOf(l), name, otherwise) = {r.values}
    BY <2>4, <2>5, <2>6
  <2> QED BY <2>7 DEF Gets, r
<1>5. CASE ~ \E k \in 1 .. 3 : l[k] # <<>> /\ l[k][1] = Option(name)
  <2>1. mine = {}
    BY <1>2, <1>5
  <2>2. r = [given |-> FALSE, values |-> <<>>]
    BY <1>3, <1>5, ReadsNothing
  <2> QED BY <1>1, <2>1, <2>2 DEF Gets
<1> QED BY <1>4, <1>5

\* Lemma: main asks for what the line says.
LEMMA DocumentedLine ==
  ASSUME NEW l, Readable(l), Proper(l),
         (Given(OptionsOf(l), "s", <<>>) = {<<>>}) # (Given(OptionsOf(l), "d", <<>>) = {<<>>})
  PROVE  LET r == Request(Argv(l))
             started == Given(OptionsOf(l), "s", <<>>)
             running == Given(OptionsOf(l), "d", <<>>)
         IN  /\ r.action = (IF running = {<<>>} THEN "static" ELSE "dynamic")
             /\ {r.target} = IF running = {<<>>} THEN started ELSE running
             /\ {r.parameters} = Given(OptionsOf(l), "p", <<>>)
             /\ {<<r.agent>>} = Given(OptionsOf(l), "a", <<DefaultAgent>>)
<1> DEFINE s == ParseArg(Argv(l), "s", 2, 1)
           d == ParseArg(Argv(l), "d", 1, 1)
           a == ParseArg(Argv(l), "a", 1, 1)
           p == ParseArg(Argv(l), "p", 2, 2)
           G(name, otherwise) == Given(OptionsOf(l), name, otherwise)
<1>0. /\ Gets(l, "s", 2, 1, <<>>) /\ Gets(l, "d", 1, 1, <<>>)
      /\ Gets(l, "p", 2, 2, <<>>) /\ Gets(l, "a", 1, 1, <<DefaultAgent>>)
  BY ReadsWhatIsGiven
<1>1. \/ s.given = TRUE /\ G("s", <<>>) = {s.values} /\ Len(s.values) = 2
      \/ s.given = FALSE /\ G("s", <<>>) = {<<>>}
  BY <1>0 DEF Gets
<1>2. \/ d.given = TRUE /\ G("d", <<>>) = {d.values} /\ Len(d.values) = 1
      \/ d.given = FALSE /\ G("d", <<>>) = {<<>>}
  BY <1>0 DEF Gets
<1>3. \/ G("p", <<>>) = {p.values}
      \/ p.values = <<>> /\ G("p", <<>>) = {<<>>}
  BY <1>0 DEF Gets
<1>4. \/ /\ a.given = TRUE /\ a.values \in Seq(Token) /\ Len(a.values) = 1
         /\ G("a", <<DefaultAgent>>) = {a.values}
      \/ a.given = FALSE /\ G("a", <<DefaultAgent>>) = {<<DefaultAgent>>}
  BY <1>0 DEF Gets
<1>5. ParseArg(Argv(l), "help", 0, 0).given = FALSE
  <2>1. \A k \in 1 .. 3 : l[k] # <<>> => l[k][1] # Option("help")
    BY DEF Proper, Documented, Option
  <2> QED BY <2>1, ReadsNothing DEF OptionNames
<1>6. Len(<<>>) = 0
  OBVIOUS
<1>7. /\ (s.given = TRUE) <=> (G("s", <<>>) # {<<>>})
      /\ (d.given = TRUE) <=> (G("d", <<>>) # {<<>>})
      /\ s.given \in BOOLEAN /\ d.given \in BOOLEAN
  <2> HIDE DEF s, d, G
  <2>1. ((s.given = TRUE) <=> (G("s", <<>>) # {<<>>})) /\ s.given \in BOOLEAN
    <3>1. CASE s.given = TRUE /\ G("s", <<>>) = {s.values} /\ Len(s.values) = 2
      <4>1. s.values # <<>>
        BY <1>6, <3>1
      <4>2. G("s", <<>>) # {<<>>}
        BY <3>1, <4>1
      <4> QED BY <3>1, <4>2
    <3>2. CASE s.given = FALSE /\ G("s", <<>>) = {<<>>}
      BY <3>2
    <3> QED BY <1>1, <3>1, <3>2
  <2>2. ((d.given = TRUE) <=> (G("d", <<>>) # {<<>>})) /\ d.given \in BOOLEAN
    <3>1. CASE d.given = TRUE /\ G("d", <<>>) = {d.values} /\ Len(d.values) = 1
      <4>1. d.values # <<>>
        BY <1>6, <3>1
      <4>2. G("d", <<>>) # {<<>>}
        BY <3>1, <4>1
      <4> QED BY <3>1, <4>2
    <3>2. CASE d.given = FALSE /\ G("d", <<>>) = {<<>>}
      BY <3>2
    <3> QED BY <1>2, <3>1, <3>2
  <2> QED BY <2>1, <2>2
<1>8. Request(Argv(l)) =
        IF ParseArg(Argv(l), "help", 0, 0).given \/ s.given = d.given
        THEN Usage
        ELSE [action |-> IF s.given THEN "static" ELSE "dynamic",
              target |-> IF s.given THEN s.values ELSE d.values,
              agent |-> IF a.given THEN a.values[1] ELSE DefaultAgent,
              parameters |-> p.values]
  BY DEF Request
<1>9. <<IF a.given THEN a.values[1] ELSE DefaultAgent>> =
        IF a.given THEN a.values ELSE <<DefaultAgent>>
  <2> HIDE DEF a
  <2>1. ASSUME NEW v \in Seq(Token), Len(v) = 1 PROVE <<v[1]>> = v
    BY <2>1
  <2> QED BY <1>4, <2>1
<1>10. (G("s", <<>>) = {<<>>}) # (G("d", <<>>) = {<<>>})
  OBVIOUS
<1> DEFINE r == Request(Argv(l))
<1>11. /\ r.action = (IF G("d", <<>>) = {<<>>} THEN "static" ELSE "dynamic")
       /\ {r.target} = IF G("d", <<>>) = {<<>>} THEN G("s", <<>>) ELSE G("d", <<>>)
       /\ {r.parameters} = G("p", <<>>)
       /\ {<<r.agent>>} = G("a", <<DefaultAgent>>)
  <2> HIDE DEF s, d, a, p, G
  <2>1. (s.given = TRUE) # (d.given = TRUE)
    BY <1>7, <1>10
  <2>2. r = [action |-> IF s.given THEN "static" ELSE "dynamic",
             target |-> IF s.given THEN s.values ELSE d.values,
             agent |-> IF a.given THEN a.values[1] ELSE DefaultAgent,
             parameters |-> p.values]
    BY <1>5, <1>7, <1>8, <2>1
  <2> HIDE DEF r
  <2> QED BY <1>1, <1>2, <1>3, <1>4, <1>7, <1>9, <2>1, <2>2
<1> QED BY <1>11

\* Theorem: a line of documented options, in any order and with any values but
\* names of options, asks main for what it says.  As no option comes twice and only
\* one of -s and -d, there are never more than three.
THEOREM DocumentedLinesAccepted ==
  ASSUME \A l \in Lines : Readable(l)
  PROVE  Spec => []DocumentedLineAccepted
<1> DEFINE LineInv == installer = "main" => line \in Lines
<1>1. AttachInit => LineInv
  BY DEF AttachInit
<1>2. LineInv => DocumentedLineAccepted
  <2> SUFFICES ASSUME line \in Lines,
                      installer = "main",
                      \A o \in OptionsOf(line) : Documented(o),
                      ~ \E i, j \in DOMAIN line :
                          i # j /\ line[i] # <<>> /\ line[j] # <<>> /\ line[i][1] = line[j][1],
                      (Given(OptionsOf(line), "s", <<>>) = {<<>>})
                        # (Given(OptionsOf(line), "d", <<>>) = {<<>>})
               PROVE  LET r == Request(Argv(line))
                          started == Given(OptionsOf(line), "s", <<>>)
                          running == Given(OptionsOf(line), "d", <<>>)
                      IN  /\ r.action = (IF running = {<<>>} THEN "static" ELSE "dynamic")
                          /\ {r.target} = IF running = {<<>>} THEN started ELSE running
                          /\ {r.parameters} = Given(OptionsOf(line), "p", <<>>)
                          /\ {<<r.agent>>} = Given(OptionsOf(line), "a", <<DefaultAgent>>)
    BY DEF DocumentedLineAccepted, OptionsOf
  <2>1. Readable(line)
    OBVIOUS
  <2>2. Proper(line)
    BY <2>1 DEF Proper, Readable, OptionsOf
  <2> QED BY <2>1, <2>2, DocumentedLine
<1>3. LineInv /\ [Next]_vars => LineInv'
  <2> SUFFICES ASSUME LineInv, [Next]_vars PROVE LineInv'
    OBVIOUS
  <2>1. CASE Install
    <3>1. installer' # "main" \/ UNCHANGED <<installer, line>>
      BY <2>1 DEF Install, Parse, Create, Open, NoProcess, AllocFails, Push, Spawn,
                  SpawnFails, Wait, Loaded, Snapshot, SnapshotFails, Exit, Visit, VisitFails,
                  requestVars
    <3> QED BY <3>1
  <2>2. CASE RemoteThread \/ Die \/ (\E t \in Threads : TargetStep(t)) \/ UNCHANGED vars
    <3>1. UNCHANGED <<installer, line>>
      BY <2>2 DEF RemoteThread, LoadLibrary, LoadLibraryFails, RunsZeroes, ConfigureStep,
                  Configured, ExportReturns, Remote, Die, TargetStep, installVars, requestVars,
                  vars
    <3> QED BY <3>1
  <2> QED BY <2>1, <2>2 DEF Next
<1> QED BY <1>1, <1>2, <1>3, PTL DEF Spec
=============================================================================
