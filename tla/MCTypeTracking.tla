---------------------------- MODULE MCTypeTracking ----------------------------
(***************************************************************************)
(* An instance of TypeTracking: small programs of the shapes that matter to *)
(* the function finder and the search for tables, and an object whose words *)
(* are vtables or not.                                                      *)
(***************************************************************************)
EXTENDS TypeTracking

Instr(length, call) == [length |-> length, call |-> call]

\* Three functions in .pdata; calls to a leaf function from two of them, into
\* a function, to what does not decode, and through a pointer in .rdata.
MCCode ==
  [a \in {16, 20, 24, 28, 32, 40, 48, 120} |->
     CASE a = 16 -> Instr(4, 40)  [] a = 20 -> Instr(4, 32)
       [] a = 24 -> Instr(4, 28)  [] a = 28 -> Instr(4, 120)
       [] a = 32 -> Instr(4, 40)  [] a = 40 -> Instr(6, 0)
       [] a = 48 -> Instr(9, 56)  [] a = 120 -> Instr(2, 0)]

MCPdata == <<Block(8, 16), Block(16, 24), Block(24, 32), Block(40, 48)>>

Locator(signature, descriptor, name) ==
  [signature |-> signature, descriptor |-> descriptor, name |-> name]

\* .rdata: a locator and two functions, a single one, a locator and three functions.
MCWord == [slot \in {64 + 8 * k : k \in 0 .. 9} |->
  CASE slot = 64 -> 104 [] slot = 112 -> 108 [] slot \in {72, 96, 120} -> 16
    [] slot \in {80, 128} -> 40 [] slot = 136 -> 24 [] OTHER -> 1]

Program(pdata, rdata, first, second) ==
  [module |-> Block(8, 184), pdata |-> pdata, code |-> MCCode, text |-> Block(16, 64),
   rdata |-> rdata, word |-> MCWord,
   locator |-> [a \in {104, 108} |-> IF a = 104 THEN first ELSE second]]

Good == Locator("X64", 100, "short")

MCImages == {
  \* the second locator is of the other architecture
  Program(MCPdata, Block(64, 147), Good, Locator("X86", 100, "short")),
  \* the last table ends with the section
  Program(MCPdata, Block(64, 144), Good, Good),
  \* a name is too long to print; a type descriptor is outside of the module
  Program(<<Block(16, 24)>>, Block(64, 147), Locator("X64", 100, "long"),
          Locator("X64", 160, "short")),
  \* .rdata begins with a table, and there is no .pdata
  Program(<<>>, Block(72, 147), Good, Good),
  \* no .rdata, and one function that does not decode
  Program(<<Block(40, 48)>>, NoSection, Good, Good) }

\* One object of two bases, each with its vtable pointer.
MCAllocations == {Block(200, 202)}

MCWords == {Null, 72}

MCRegisters == {
  [p \in Params |-> IF p > 1 THEN 200 ELSE 5],
  [p \in Params |-> IF p = 1 THEN 201 ELSE 5] }

MCCallers == {17, 25}

\* A dynamic function, and one that is not where the last slot is missed.
MCCalled == {16, 24}
=============================================================================
