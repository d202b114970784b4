------------------------------ MODULE Discovery ------------------------------
(***************************************************************************)
(* What configure() learns of the program before it places a breakpoint:    *)
(* the functions (function_finder) and the tables of function pointers with *)
(* the types they belong to (rtti).  One thread works on one image.         *)
(*                                                                         *)
(* An image is what the PE headers and the disassembler tell of it: code    *)
(* maps the addresses where an instruction decodes to its length and to the *)
(* address operand_as_address gives for a CALL, word the slots of .rdata to *)
(* their contents, locator the addresses that hold a CompleteObjectLocator. *)
(***************************************************************************)
EXTENDS MemoryBlock, FiniteSetsExt

CONSTANT Images

Seqs == INSTANCE SequencesExt

WordSize == 8
MinimumTable == 2
DescriptorSize == 24     \* sizeof(TypeDescriptor)
Null == 0
NoSection == Block(0, 0)

\* The entries of .pdata are functions, or parts of one, apart from each other; a
\* section ends where it starts or behind.
ASSUME ImagesAssumption == \A m \in Images :
  /\ m.module \in [start : Nat, end : Nat]
  /\ m.pdata \in Seq([start : Nat, end : Nat \ {0}])
  /\ \A i \in DOMAIN m.pdata : m.pdata[i].start < m.pdata[i].end
  /\ \A i, j \in DOMAIN m.pdata :
       i # j => m.pdata[i].end <= m.pdata[j].start \/ m.pdata[j].end <= m.pdata[i].start
  /\ m.rdata \in [start : Nat, end : Nat] /\ m.rdata.start <= m.rdata.end
  /\ m.code \in [DOMAIN m.code -> [length : Nat \ {0}, call : Nat]]
  /\ DOMAIN m.code \subseteq Nat

VARIABLES
  image,
  stage,       \* the loop find_functions or find_rtti is in
  functions,   \* g_functions
  leaves,      \* leaf_functions
  pos, offset, \* the entry the loop is at, how far the disassembler is in it
  addr,        \* how far the scan for tables is, or the walk over them
  tables,      \* the dispatch tables found
  types        \* global_typelist, without the uses

listVars == <<functions, leaves>>
tableVars == <<addr, tables, types>>
discoveryVars == <<image, stage, listVars, pos, offset, tableVars>>

\* (slip) a leaf function ends where it starts.
EmptyLeaf(a) ==
  [start |-> a, end |-> a, kind |-> "LEAF", second |-> Null, dynamic |-> FALSE]

Leaf(a) ==
  [start |-> a, end |-> Null, kind |-> "LEAF", second |-> Null, dynamic |-> FALSE]

\* rebase_rtfunction
Frame(entry) ==
  [start |-> image.module.start + entry.start, end |-> image.module.start + entry.end,
   kind |-> "FRAME", second |-> Null, dynamic |-> FALSE]

\* find_function: the first entry with that start, or none.
FindFunction(start) ==
  LET hits == {i \in DOMAIN functions : functions[i].start = start}
  IN  IF hits = {} THEN Null ELSE Min(hits)

DiscoveryInit ==
  /\ image \in Images /\ stage = "pdata"
  /\ functions = <<>> /\ leaves = <<>>
  /\ pos = 1 /\ offset = 0
  /\ addr = 0 /\ tables = {} /\ types = <<>>

-----------------------------------------------------------------------------
(***************************************************************************)
(* find_functions.                                                          *)
(***************************************************************************)
Begin(loop) == stage' = loop /\ pos' = 1 /\ offset' = 0

\* find_functions_pdata
Pdata ==
  /\ stage = "pdata" /\ Begin("sweep")
  /\ functions' = [i \in DOMAIN image.pdata |-> Frame(image.pdata[i])]
  /\ UNCHANGED <<image, leaves, tableVars>>

\* FunctionDisassembler::step, which is bounded where the end is known.
Steps(ip, end) ==
  ip \in DOMAIN image.code /\ (end # Null => ip + image.code[ip].length <= end)

At(loop) == stage = loop /\ pos <= Len(functions)

Ip == functions[pos].start + offset

NewTarget(target) ==
  /\ target # Null
  /\ \A i \in DOMAIN functions : functions[i].start # target
  /\ \A i \in DOMAIN leaves : leaves[i].start # target

\* An instruction of a frame function; a CALL may show a function not seen yet.
Sweep ==
  /\ At("sweep") /\ Steps(Ip, functions[pos].end)
  /\ LET target == image.code[Ip].call IN
       leaves' = IF NewTarget(target) THEN Append(leaves, Leaf(target)) ELSE leaves
  /\ offset' = offset + image.code[Ip].length
  /\ UNCHANGED <<image, stage, functions, pos, tableVars>>

SweepNext ==
  /\ At("sweep") /\ ~Steps(Ip, functions[pos].end)
  /\ pos' = pos + 1 /\ offset' = 0
  /\ UNCHANGED <<image, stage, listVars, tableVars>>

SweepEnd ==
  /\ stage = "sweep" /\ pos > Len(functions) /\ Begin("merge")
  /\ UNCHANGED <<image, listVars, tableVars>>

\* (slip) a leaf is merged wherever it lies.
Anywhere(leaf) == FALSE

InsideKnown(leaf) ==
  \E i \in DOMAIN functions :
    functions[i].end # Null /\ Contains(functions[i], leaf.start)

Merge ==
  /\ stage = "merge" /\ pos <= Len(leaves)
  /\ functions' = IF InsideKnown(leaves[pos]) THEN functions ELSE Append(functions, leaves[pos])
  /\ pos' = pos + 1
  /\ UNCHANGED <<image, stage, leaves, offset, tableVars>>

MergeEnd ==
  /\ stage = "merge" /\ pos > Len(leaves) /\ Begin("process")
  /\ UNCHANGED <<image, listVars, tableVars>>

\* process_functions
Process ==
  /\ At("process") /\ Steps(Ip, functions[pos].end)
  /\ functions' = [functions EXCEPT ![pos].second = Ip + image.code[Ip].length]
  /\ pos' = pos + 1
  /\ UNCHANGED <<image, stage, leaves, offset, tableVars>>

Erase ==
  /\ At("process") /\ ~Steps(Ip, functions[pos].end)
  /\ functions' = Seqs!RemoveAt(functions, pos)
  /\ UNCHANGED <<image, stage, leaves, pos, offset, tableVars>>

\* find_rtti follows; without both sections it returns.
ProcessEnd ==
  /\ stage = "process" /\ pos > Len(functions)
  /\ Begin(IF NoSection \in {image.text, image.rdata} THEN "done" ELSE "tables")
  /\ addr' = image.rdata.start
  /\ UNCHANGED <<image, listVars, tables, types>>

FindFunctions ==
  \/ Pdata \/ Sweep \/ SweepNext \/ SweepEnd \/ Merge \/ MergeEnd
  \/ Process \/ Erase \/ ProcessEnd

-----------------------------------------------------------------------------
(***************************************************************************)
(* find_rtti.                                                               *)
(***************************************************************************)
Slots == {image.rdata.start + WordSize * k : k \in 0 .. (image.rdata.end - image.rdata.start) \div WordSize}

\* The last slot of a section whose size is a multiple of eight is not looked at.
Scanned(slot) == slot + WordSize < image.rdata.end

IntoText(slot) == Scanned(slot) /\ Contains(image.text, image.word[slot])

\* Behind the pointers from a slot on.
Inside(slot) == Min({s \in Slots : s >= slot /\ ~IntoText(s)})

IsTable(from) == Inside(from) - from >= MinimumTable * WordSize

\* (slip) the scan goes on within the table.
AddTableSlotwise ==
  /\ stage = "tables" /\ Scanned(addr) /\ IsTable(addr)
  /\ tables' = tables \cup {Block(addr, Inside(addr))}
  /\ addr' = addr + WordSize
  /\ UNCHANGED <<image, stage, listVars, pos, offset, types>>

\* find_pointer_tables: "skip what we just found".
AddTable ==
  /\ stage = "tables" /\ Scanned(addr) /\ IsTable(addr)
  /\ tables' = tables \cup {Block(addr, Inside(addr))}
  /\ addr' = Inside(addr)
  /\ UNCHANGED <<image, stage, listVars, pos, offset, types>>

SkipSlot ==
  /\ stage = "tables" /\ Scanned(addr) /\ ~IsTable(addr)
  /\ addr' = addr + WordSize
  /\ UNCHANGED <<image, stage, listVars, pos, offset, tables, types>>

TablesEnd ==
  /\ stage = "tables" /\ ~Scanned(addr) /\ Begin("types")
  /\ addr' = 0
  /\ UNCHANGED <<image, listVars, tables, types>>

\* The slot before a table leads to a locator for this architecture whose type
\* descriptor lies within the module.
HasLocator(table) ==
  LET slot == table.start - WordSize
      col == image.word[slot]
  IN  /\ Contains(image.rdata, slot)
      /\ Contains(image.rdata, col) /\ col \in DOMAIN image.locator
      /\ image.locator[col].signature = "X64"
      /\ image.module.start + image.locator[col].descriptor + DescriptorSize <= image.module.end

\* discover_rtti or discover_vtable
TypeOf(table) ==
  LET col == image.word[table.start - WordSize] IN
  IF HasLocator(table)
  THEN [vtable |-> table, rtti |-> TRUE, name |-> image.locator[col].name]
  ELSE [vtable |-> table, rtti |-> FALSE, name |-> ""]

EntriesOf(table) == {image.word[slot] : slot \in {s \in Slots : Contains(table, s)}}

Ahead == {t \in tables : t.start >= addr}

\* The tables in the order of their addresses.
AddType ==
  /\ stage = "types" /\ Ahead # {}
  /\ LET table == CHOOSE t \in Ahead : \A u \in Ahead : t.start <= u.start
         found == {FindFunction(e) : e \in EntriesOf(table)}
     IN  /\ types' = Append(types, TypeOf(table))
         /\ functions' = [i \in DOMAIN functions |->
                            [functions[i] EXCEPT !.dynamic = @ \/ i \in found]]
         /\ addr' = table.start + 1
  /\ UNCHANGED <<image, stage, leaves, pos, offset, tables>>

TypesEnd ==
  /\ stage = "types" /\ Ahead = {} /\ Begin("done")
  /\ UNCHANGED <<image, listVars, tableVars>>

FindRtti == AddTable \/ SkipSlot \/ TablesEnd \/ AddType \/ TypesEnd

Discover == FindFunctions \/ FindRtti

-----------------------------------------------------------------------------
Function ==
  [start : Nat, end : Nat, kind : {"FRAME", "LEAF"}, second : Nat, dynamic : BOOLEAN]

DiscoveryTypeOK ==
  /\ image \in Images
  /\ stage \in {"pdata", "sweep", "merge", "process", "tables", "types", "done"}
  /\ functions \in Seq(Function) /\ leaves \in Seq(Function)
  /\ \A i \in DOMAIN functions : functions[i].end # Null => functions[i].start < functions[i].end
  /\ pos \in Nat \ {0} /\ offset \in Nat

\* No function is listed twice or starts within another one whose end is known:
\* a breakpoint there would save the INT3 of the first as the original byte, or
\* break an instruction apart.
FunctionsApart ==
  \A i, j \in DOMAIN functions : i # j =>
    /\ functions[i].start # functions[j].start
    /\ functions[j].end # Null => ~Contains(functions[j], functions[i].start)

\* A slot that lies in .rdata and points into .text.
Pointer(slot) ==
  slot + WordSize <= image.rdata.end /\ Contains(image.text, image.word[slot])

\* A longest sequence of at least two pointers into .text.
Longest(table) ==
  /\ table.start + MinimumTable * WordSize <= table.end
  /\ \A s \in Slots : Contains(table, s) => Pointer(s)
  /\ ~Pointer(table.end)
  /\ \A s \in Slots : s + WordSize = table.start => ~Pointer(s)

LongestTables == {t \in {Block(s, e) : s, e \in Slots} : Longest(t)}

\* What is found of a table: all of it, but for an entry that ends with .rdata.
Stored(table) ==
  IF table.end = image.rdata.end THEN [table EXCEPT !.end = @ - WordSize] ELSE table

\* When find_rtti ends there is one type for each of the longest sequences of
\* pointers into .text, in their order, without the slot that ends with the
\* section if the sequence reaches it, and unless only one pointer is left of it
\* then.  A function is dynamic if and only if a slot of such a type names it.
TypesExact ==
  stage = "types" /\ Ahead = {} =>
    /\ {types[k].vtable : k \in DOMAIN types} =
         {u \in {Stored(t) : t \in LongestTables} : u.start + MinimumTable * WordSize <= u.end}
    /\ \A j, k \in DOMAIN types : j < k => types[j].vtable.end <= types[k].vtable.start
    /\ \A i \in DOMAIN functions :
         functions[i].dynamic <=>
           \E k \in DOMAIN types : functions[i].start \in EntriesOf(types[k].vtable)

\* "Finds aligned pointer-tables in |containing_section|": all of them, to their
\* ends, so that a function is dynamic if it is "present in any dispatch table".
TablesComplete ==
  stage = "types" /\ Ahead = {} =>
    /\ {types[k].vtable : k \in DOMAIN types} = LongestTables
    /\ \A i \in DOMAIN functions :
         functions[i].dynamic <=>
           \E t \in LongestTables : functions[i].start \in EntriesOf(t)
=============================================================================
