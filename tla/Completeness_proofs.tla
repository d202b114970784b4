-------------------------- MODULE Completeness_proofs --------------------------
(***************************************************************************)
(* Nothing that is there is missing.  find_rtti finds every type, for any   *)
(* image; and of what the callbacks saw all is in the log but for lists on  *)
(* which two threads worked at once, for any number of threads and calls.   *)
(***************************************************************************)
EXTENDS TypeTracking_proofs

-----------------------------------------------------------------------------
(***************************************************************************)
(* find_rtti.                                                               *)
(***************************************************************************)
\* Lemma: the slots lie eight bytes apart, and the last one is not scanned.
LEMMA SlotFacts ==
  ASSUME image \in Images
  PROVE  /\ Slots \subseteq Nat /\ image.rdata.start \in Slots
         /\ \A s \in Slots : image.rdata.start <= s /\ (s + WordSize <= image.rdata.end => s + WordSize \in Slots)
         /\ \A s, u \in Slots : s < u => s + WordSize <= u /\ u - WordSize \in Slots
         /\ \E last \in Slots : ~Scanned(last) /\ \A s \in Slots : s <= last
<1> DEFINE a == image.rdata.start  e == image.rdata.end  n == (e - a) \div 8
<1>1. a \in Nat /\ e \in Nat /\ a <= e
  BY ImagesAssumption
<1>2. Slots = {a + 8 * k : k \in 0 .. n} /\ \A s : Scanned(s) <=> s + 8 < e
  BY DEF Slots, Scanned, WordSize
<1> HIDE DEF a, e
<1>3. n \in Nat /\ 8 * n <= e - a /\ e - a < 8 * n + 8
  BY <1>1
<1> HIDE DEF n
<1>4. \A s \in Slots : \E k \in 0 .. n : s = a + 8 * k
  BY <1>2
<1>5. \A k \in 0 .. n : a + 8 * k \in Slots
  BY <1>2
<1>6. Slots \subseteq Nat /\ a \in Slots /\ \A s \in Slots : a <= s
  <2>1. a + 8 * 0 = a /\ 0 \in 0 .. n
    BY <1>1, <1>3
  <2> QED BY <2>1, <1>1, <1>3, <1>4, <1>5
<1>7. ASSUME NEW s \in Slots, s + 8 <= e PROVE s + 8 \in Slots
  <2>1. PICK k \in 0 .. n : s = a + 8 * k
    BY <1>4
  <2>2. k + 1 \in 0 .. n /\ s + 8 = a + 8 * (k + 1)
    BY <2>1, <1>1, <1>2, <1>3, <1>7
  <2> QED BY <2>2, <1>5
<1>8. ASSUME NEW s \in Slots, NEW u \in Slots, s < u PROVE s + 8 <= u /\ u - 8 \in Slots
  <2>1. PICK k \in 0 .. n : s = a + 8 * k
    BY <1>4
  <2>2. PICK m \in 0 .. n : u = a + 8 * m
    BY <1>4
  <2>3. k < m
    BY <2>1, <2>2, <1>1, <1>3, <1>8
  <2>4. m - 1 \in 0 .. n /\ u - 8 = a + 8 * (m - 1)
    BY <2>2, <2>3, <1>1, <1>3
  <2>5. s + 8 <= u
    BY <2>1, <2>2, <2>3, <1>1, <1>3
  <2> QED BY <2>4, <2>5, <1>5
<1>9. /\ a + 8 * n \in Slots /\ ~Scanned(a + 8 * n)
      /\ \A s \in Slots : s <= a + 8 * n
  <2>1. n \in 0 .. n
    BY <1>3
  <2> QED BY <2>1, <1>1, <1>2, <1>3, <1>4, <1>5
<1> QED BY <1>6, <1>7, <1>8, <1>9 DEF a, e, WordSize

\* Lemma: where the pointers from a slot on end.
LEMMA InsideFacts ==
  ASSUME image \in Images, NEW slot \in Slots
  PROVE  /\ Inside(slot) \in Slots /\ slot <= Inside(slot) /\ ~IntoText(Inside(slot))
         /\ \A s \in Slots : slot <= s /\ s < Inside(slot) => IntoText(s)
<1> DEFINE S == {s \in Slots : s >= slot /\ ~IntoText(s)}
<1>1. Inside(slot) = Min(S)
  BY DEF Inside
<1>2. S \subseteq Nat /\ S # {}
  BY SlotFacts DEF IntoText
<1>3. Min(S) \in S /\ \A n \in S : Min(S) <= n
  <2> HIDE DEF S
  <2> QED BY <1>2, MinIn
<1>4. \A s \in S : s \in Slots /\ s \in Nat /\ slot <= s /\ ~IntoText(s)
  BY SlotFacts
<1>5. \A s \in Slots : slot <= s /\ s < Min(S) => s \notin S
  <2> HIDE DEF S
  <2> QED BY <1>3, <1>4, SlotFacts
<1> DEFINE m == Min(S)
<1>6. m \in S /\ m \in Slots /\ slot <= m /\ ~IntoText(m)
  BY <1>3, <1>4
<1>7. \A s \in Slots : slot <= s /\ s < m => IntoText(s)
  BY <1>5, SlotFacts
<1> QED BY <1>1, <1>6, <1>7

\* A longest sequence of pointers into .text among the slots the scan looks at.
Run(table) ==
  /\ table.start + MinimumTable * WordSize <= table.end
  /\ \A s \in Slots : Contains(table, s) => IntoText(s)
  /\ ~IntoText(table.end)
  /\ \A s \in Slots : s + WordSize = table.start => ~IntoText(s)

AllTables == {t \in {Block(s, e) : s, e \in Slots} : Run(t)}

\* Lemma: what a longest sequence is.
LEMMA TableFacts ==
  ASSUME image \in Images, NEW t \in AllTables
  PROVE  /\ t.start \in Slots /\ t.end \in Slots /\ t = Block(t.start, t.end)
         /\ t.start \in Nat /\ t.end \in Nat /\ t.start + 16 <= t.end
         /\ \A s \in Slots : t.start <= s /\ s < t.end => IntoText(s)
         /\ ~IntoText(t.end)
         /\ \A s \in Slots : s + 8 = t.start => ~IntoText(s)
<1>1. PICK s \in Slots, e \in Slots : t = Block(s, e)
  BY DEF AllTables
<1>2. Run(t)
  BY DEF AllTables
<1>3. t.start = s /\ t.end = e
  BY <1>1 DEF Block
<1> QED BY <1>1, <1>2, <1>3, SlotFacts DEF Run, Contains, MinimumTable, WordSize

\* Lemma: of two of them one lies behind the other.
LEMMA TablesApart ==
  ASSUME image \in Images, NEW t \in AllTables, NEW u \in AllTables
  PROVE  /\ t.start = u.start => t = u
         /\ t.start < u.start => t.end <= u.start
<1>1. ASSUME t.start = u.start PROVE t.end = u.end
  BY <1>1, TableFacts, SlotFacts
<1>2. ASSUME t.start < u.start, u.start < t.end PROVE FALSE
  <2>1. u.start - 8 \in Slots /\ t.start <= u.start - 8
    BY <1>2, TableFacts, SlotFacts DEF WordSize
  <2> QED BY <2>1, <1>2, TableFacts
<1> QED BY <1>1, <1>2, TableFacts

\* Lemma: the sequence the scan finds is a longest one.
LEMMA TableFound ==
  ASSUME image \in Images, NEW slot \in Slots, IsTable(slot),
         \A s \in Slots : s + 8 = slot => ~(IntoText(s) /\ IntoText(slot))
  PROVE  Block(slot, Inside(slot)) \in AllTables
<1> DEFINE t == Block(slot, Inside(slot))
<1>1. t.start = slot /\ t.end = Inside(slot)
  BY DEF Block
<1>2. /\ Inside(slot) \in Slots /\ slot <= Inside(slot) /\ ~IntoText(Inside(slot))
      /\ \A s \in Slots : slot <= s /\ s < Inside(slot) => IntoText(s)
  BY InsideFacts
<1>3. slot + 16 <= Inside(slot) /\ slot \in Nat /\ Inside(slot) \in Nat
  BY <1>2, SlotFacts DEF IsTable, MinimumTable, WordSize
<1>4. IntoText(slot)
  BY <1>2, <1>3
<1>5. Run(t)
  BY <1>1, <1>2, <1>3, <1>4, SlotFacts DEF Run, Contains, MinimumTable, WordSize
<1> QED BY <1>2, <1>5 DEF AllTables

\* Lemma: one that starts at a slot is found there.
LEMMA TableAt ==
  ASSUME image \in Images, NEW t \in AllTables
  PROVE  IsTable(t.start) /\ t.end = Inside(t.start)
<1>1. /\ Inside(t.start) \in Slots /\ t.start <= Inside(t.start)
      /\ ~IntoText(Inside(t.start))
      /\ \A s \in Slots : t.start <= s /\ s < Inside(t.start) => IntoText(s)
  BY TableFacts, InsideFacts
<1>2. t.end = Inside(t.start)
  BY <1>1, TableFacts, SlotFacts
<1> QED BY <1>2, TableFacts DEF IsTable, MinimumTable, WordSize

\* Lemma: the scan looks at all slots of .rdata but one that ends with it.
LEMMA ScannedSlots ==
  ASSUME image \in Images, NEW slot \in Slots
  PROVE  /\ slot \in Nat /\ image.rdata.end \in Nat
         /\ IntoText(slot) <=> Pointer(slot) /\ slot + 8 < image.rdata.end
         /\ Pointer(slot) => slot + 8 <= image.rdata.end /\ slot + 8 \in Slots
<1>1. slot \in Nat /\ image.rdata.end \in Nat
  BY SlotFacts, ImagesAssumption
<1> QED BY <1>1, SlotFacts DEF IntoText, Scanned, Pointer, WordSize

\* Lemma: what a longest sequence in all of .rdata is.
LEMMA LongestFacts ==
  ASSUME image \in Images, NEW t \in LongestTables
  PROVE  /\ t.start \in Slots /\ t.end \in Slots /\ t = Block(t.start, t.end)
         /\ t.start \in Nat /\ t.end \in Nat /\ t.start + 16 <= t.end
         /\ \A s \in Slots : t.start <= s /\ s < t.end => Pointer(s)
         /\ ~Pointer(t.end)
         /\ \A s \in Slots : s + 8 = t.start => ~Pointer(s)
<1>1. PICK s \in Slots, e \in Slots : t = Block(s, e)
  BY DEF LongestTables
<1>2. Longest(t)
  BY DEF LongestTables
<1>3. t.start = s /\ t.end = e
  BY <1>1 DEF Block
<1> QED BY <1>1, <1>2, <1>3, SlotFacts DEF Longest, Contains, MinimumTable, WordSize

\* Lemma: what is stored of a longest sequence is one for the scan.
LEMMA StoredIsRun ==
  ASSUME image \in Images, NEW t \in LongestTables,
         Stored(t).start + MinimumTable * WordSize <= Stored(t).end
  PROVE  Stored(t) \in AllTables
<1> DEFINE last == IF t.end = image.rdata.end THEN t.end - 8 ELSE t.end  u == Block(t.start, last)
<1>1. Stored(t) = u /\ u.start = t.start /\ u.end = last
  BY LongestFacts DEF Stored, Block, WordSize
<1>2. t.end - 8 \in Slots /\ t.start <= t.end - 8 /\ t.end <= image.rdata.end
  <2>1. t.end - 8 \in Slots /\ t.start <= t.end - 8
    BY LongestFacts, SlotFacts DEF WordSize
  <2>2. Pointer(t.end - 8)
    BY <2>1, LongestFacts
  <2> QED BY <2>1, <2>2, ScannedSlots, LongestFacts
<1>3. last \in Slots /\ last \in Nat /\ last <= t.end /\ last < image.rdata.end
      /\ t.start + 16 <= last
  BY <1>1, <1>2, LongestFacts, SlotFacts, ScannedSlots DEF MinimumTable, WordSize
<1>4. ASSUME NEW s \in Slots, t.start <= s, s < last PROVE IntoText(s)
  <2>1. s + 8 <= last
    BY <1>3, <1>4, SlotFacts DEF WordSize
  <2> QED BY <2>1, <1>3, <1>4, LongestFacts, ScannedSlots
<1>5. ~IntoText(last)
  <2>1. CASE t.end = image.rdata.end
    BY <2>1, <1>3, LongestFacts, ScannedSlots
  <2>2. CASE t.end # image.rdata.end
    BY <2>2, <1>3, LongestFacts, ScannedSlots
  <2> QED BY <2>1, <2>2
<1>6. \A s \in Slots : s + 8 = t.start => ~IntoText(s)
  BY LongestFacts, ScannedSlots
<1> HIDE DEF last
<1>7. Run(u)
  BY <1>1, <1>3, <1>4, <1>5, <1>6, LongestFacts, SlotFacts
  DEF Run, Contains, MinimumTable, WordSize
<1> QED BY <1>1, <1>3, <1>7, LongestFacts DEF AllTables

\* Lemma: and one for the scan is what is stored of a longest sequence, which goes
\* on for one slot if that ends with the section.
LEMMA RunIsStored ==
  ASSUME image \in Images, NEW u \in AllTables
  PROVE  \E t \in LongestTables : u = Stored(t)
<1>1. u.end - 8 \in Slots /\ u.start <= u.end - 8 /\ u.end < image.rdata.end
  <2>1. u.end - 8 \in Slots /\ u.start <= u.end - 8
    BY TableFacts, SlotFacts DEF WordSize
  <2>2. IntoText(u.end - 8)
    BY <2>1, TableFacts
  <2> QED BY <2>1, <2>2, ScannedSlots, TableFacts
<1>2. \A s \in Slots : s + 8 = u.start => ~Pointer(s)
  BY <1>1, TableFacts, ScannedSlots
<1>3. \A s \in Slots : u.start <= s /\ s < u.end => Pointer(s)
  BY TableFacts, ScannedSlots
<1>4. CASE ~Pointer(u.end)
  <2>1. Longest(u)
    BY <1>2, <1>3, <1>4, TableFacts DEF Longest, Contains, MinimumTable, WordSize
  <2>2. u \in LongestTables
    BY <2>1, TableFacts DEF LongestTables
  <2>3. Stored(u) = u
    BY <1>1, TableFacts, ScannedSlots DEF Stored
  <2> QED BY <2>2, <2>3
<1>5. CASE Pointer(u.end)
  <2> DEFINE t == Block(u.start, u.end + 8)
  <2>1. u.end + 8 = image.rdata.end /\ u.end + 8 \in Slots
    BY <1>5, TableFacts, ScannedSlots
  <2>2. t.start = u.start /\ t.end = u.end + 8
    BY DEF Block
  <2>3. ASSUME NEW s \in Slots, u.start <= s, s < u.end + 8 PROVE Pointer(s)
    <3>1. s < u.end \/ s = u.end
      BY <2>1, <2>3, TableFacts, SlotFacts DEF WordSize
    <3> QED BY <3>1, <2>3, <1>3, <1>5
  <2>4. ~Pointer(u.end + 8)
    BY <2>1, ScannedSlots
  <2> HIDE DEF t
  <2>5. Longest(t)
    BY <1>2, <2>2, <2>3, <2>4, TableFacts, SlotFacts DEF Longest, Contains, MinimumTable, WordSize
  <2>6. t \in LongestTables
    BY <2>1, <2>5, TableFacts DEF LongestTables, t
  <2>7. Stored(t) = u
    BY <2>1, TableFacts DEF Stored, Block, WordSize, t
  <2> QED BY <2>6, <2>7
<1> QED BY <1>4, <1>5

\* Lemma: so the scan's sequences are those that are stored and long enough.
LEMMA RunsAreStored ==
  ASSUME image \in Images
  PROVE  AllTables = {u \in {Stored(t) : t \in LongestTables} :
                        u.start + MinimumTable * WordSize <= u.end}
<1>1. \A u \in AllTables : u.start + MinimumTable * WordSize <= u.end
  BY DEF AllTables, Run
<1> QED BY <1>1, RunIsStored, StoredIsRun

-----------------------------------------------------------------------------
FoundTypes == {TypeOf(t) : t \in AllTables}

\* No function is dynamic before the tables are known.
NoneDynamic ==
  /\ stage \notin {"types", "done"} =>
       types = <<>> /\ \A i \in DOMAIN functions : ~functions[i].dynamic
  /\ \A i \in DOMAIN leaves : ~leaves[i].dynamic
  /\ stage \in {"pdata", "sweep", "merge", "process"} => tables = {}

\* How far the scan has come.
ScanInv ==
  stage = "tables" =>
    /\ addr \in Slots /\ tables = {t \in AllTables : t.start < addr}
    /\ \A s \in Slots : s + 8 = addr => ~(IntoText(s) /\ IntoText(addr))

Dynamic(f) == \E k \in DOMAIN types : f.start \in EntriesOf(types[k].vtable)

\* How far the walk over the tables has come.
NamedInv ==
  stage = "types" =>
    /\ addr \in Nat /\ tables = AllTables /\ types \in Seq(FoundTypes)
    /\ \A t \in AllTables : t.start < addr <=> \E k \in DOMAIN types : types[k].vtable = t
    /\ \A j, k \in DOMAIN types : j < k => types[j].vtable.end <= types[k].vtable.start
    /\ \A i \in DOMAIN functions : functions[i].dynamic <=> Dynamic(functions[i])

TablesInv == DiscoveryInv /\ NoneDynamic /\ ScanInv /\ NamedInv

\* Lemma: the image decides what its longest sequences are.
LEMMA SameImage ==
  ASSUME image' = image
  PROVE  /\ Slots' = Slots /\ AllTables' = AllTables /\ FoundTypes' = FoundTypes
         /\ \A s : IntoText(s)' <=> IntoText(s)
         /\ \A t : EntriesOf(t)' = EntriesOf(t)
BY DEF Slots, AllTables, Run, IntoText, Scanned, EntriesOf, FoundTypes, TypeOf, HasLocator

\* Lemma: the type of a table is the type of that table.
LEMMA TypeOfTable == \A t : TypeOf(t).vtable = t
BY DEF TypeOf

\* Lemma: a function is found by its start.
LEMMA FoundByStart ==
  ASSUME DiscoveryInv, NEW i \in DOMAIN functions, NEW start
  PROVE  FindFunction(start) = i <=> functions[i].start = start
<1> DEFINE matching == {k \in DOMAIN functions : functions[k].start = start}
<1>1. FindFunction(start) = IF matching = {} THEN Null ELSE Min(matching)
  BY DEF FindFunction
<1>2. DOMAIN functions \subseteq Nat /\ Null \notin DOMAIN functions
  BY DEF DiscoveryInv, DiscoveryTypeOK, Null
<1>3. \A k, m \in matching : k = m
  BY DEF DiscoveryInv, FunctionsApart
<1>4. matching # {} => Min(matching) \in matching
  <2>1. matching \subseteq Nat
    BY <1>2
  <2> HIDE DEF matching
  <2> QED BY <2>1, MinIn
<1>5. i \in matching <=> functions[i].start = start
  OBVIOUS
<1>6. Min(matching) \in matching => Min(matching) \in DOMAIN functions
  OBVIOUS
<1> HIDE DEF matching
<1>7. CASE matching = {}
  BY <1>1, <1>2, <1>5, <1>7
<1>8. CASE matching # {}
  BY <1>1, <1>3, <1>4, <1>5, <1>8
<1> QED BY <1>7, <1>8

-----------------------------------------------------------------------------
\* Lemma: find_functions marks none.
LEMMA FindFunctionsStep ==
  ASSUME TablesInv, FindFunctions
  PROVE  NoneDynamic' /\ ScanInv' /\ NamedInv'
<1>1. /\ image' = image /\ tables' = tables /\ types' = types
      /\ stage \in {"pdata", "sweep", "merge", "process"}
      /\ types = <<>> /\ tables = {} /\ image \in Images
      /\ \A i \in DOMAIN functions : ~functions[i].dynamic
      /\ \A i \in DOMAIN leaves : ~leaves[i].dynamic
  BY DEF FindFunctions, Pdata, Sweep, SweepNext, SweepEnd, Merge, MergeEnd, Process, Erase,
     ProcessEnd, At, tableVars, TablesInv, NoneDynamic, DiscoveryInv, DiscoveryTypeOK
<1>2. functions \in Seq(Function) /\ leaves \in Seq(Function) /\ pos \in Nat \ {0}
  BY DEF TablesInv, DiscoveryInv, DiscoveryTypeOK
<1>3. /\ \A i \in DOMAIN functions' : ~functions'[i].dynamic
      /\ \A i \in DOMAIN leaves' : ~leaves'[i].dynamic
  <2>1. CASE Pdata
    BY <2>1, <1>1 DEF Pdata, Frame
  <2>2. CASE Sweep
    <3>1. /\ functions' = functions
          /\ leaves' = leaves \/ \E a : leaves' = Append(leaves, Leaf(a))
      BY <2>2 DEF Sweep
    <3>2. ASSUME NEW a, leaves' = Append(leaves, Leaf(a)), NEW i \in DOMAIN leaves'
          PROVE  leaves'[i] = Leaf(a) \/ (i \in DOMAIN leaves /\ leaves'[i] = leaves[i])
      BY <3>2, <1>2
    <3>3. \A a : ~Leaf(a).dynamic
      BY DEF Leaf
    <3> QED BY <3>1, <3>2, <3>3, <1>1
  <2>3. CASE Merge
    <3>1. /\ leaves' = leaves /\ pos \in DOMAIN leaves
          /\ functions' = functions \/ functions' = Append(functions, leaves[pos])
      BY <2>3, <1>2 DEF Merge
    <3>2. ASSUME functions' = Append(functions, leaves[pos]), NEW i \in DOMAIN functions'
          PROVE  \/ functions'[i] = leaves[pos]
                 \/ i \in DOMAIN functions /\ functions'[i] = functions[i]
      BY <3>2, <1>2
    <3> QED BY <3>1, <3>2, <1>1
  <2>4. CASE Process
    <3>1. ASSUME NEW i \in DOMAIN functions PROVE functions[i] \in Function
      BY <1>2
    <3> QED BY <2>4, <3>1, <1>1 DEF Process, Function
  <2>5. CASE Erase
    <3>1. pos \in 1 .. Len(functions)
      BY <2>5, <1>2 DEF Erase, At
    <3>2. ASSUME NEW i \in DOMAIN functions'
          PROVE  \E k \in DOMAIN functions : functions'[i] = functions[k]
      <4>1. /\ functions' \in Seq(Function) /\ Len(functions') = Len(functions) - 1
            /\ \A k \in 1 .. Len(functions) - 1 :
                 functions'[k] = functions[IF k < pos THEN k ELSE k + 1]
        <5>1. functions' = Seqs!RemoveAt(functions, pos)
          BY <2>5 DEF Erase
        <5> QED BY <5>1, <3>1, <1>2, RemoveAtProperties
      <4>2. i \in 1 .. Len(functions) - 1
        BY <3>2, <4>1
      <4>3. (IF i < pos THEN i ELSE i + 1) \in DOMAIN functions
        BY <3>1, <4>2, <1>2
      <4> QED BY <4>1, <4>2, <4>3
    <3> QED BY <2>5, <3>2, <1>1 DEF Erase
  <2>6. CASE SweepNext \/ SweepEnd \/ MergeEnd \/ ProcessEnd
    BY <2>6, <1>1 DEF SweepNext, SweepEnd, MergeEnd, ProcessEnd, listVars
  <2> QED BY <2>1, <2>2, <2>3, <2>4, <2>5, <2>6 DEF FindFunctions
<1>4. NoneDynamic'
  BY <1>1, <1>3 DEF NoneDynamic
<1>5. stage' # "types" /\ (stage' = "tables" => addr' = image.rdata.start)
  BY <1>1 DEF FindFunctions, Pdata, Sweep, SweepNext, SweepEnd, Merge, MergeEnd, Process, Erase,
     ProcessEnd, Begin
<1>6. ScanInv'
  <2>1. ASSUME addr' = image.rdata.start
        PROVE  /\ addr' \in Slots /\ \A t \in AllTables : ~(t.start < addr')
               /\ \A s \in Slots : s + 8 # addr'
    BY <2>1, <1>1, SlotFacts, TableFacts DEF WordSize
  <2> QED BY <2>1, <1>1, <1>5, SameImage DEF ScanInv
<1>7. NamedInv'
  BY <1>5 DEF NamedInv
<1> QED BY <1>4, <1>6, <1>7

\* Lemma: find_pointer_tables finds the longest sequences up to where it is.
LEMMA ScanStep ==
  ASSUME TablesInv, AddTable \/ SkipSlot
  PROVE  NoneDynamic' /\ ScanInv' /\ NamedInv'
<1>1. /\ image' = image /\ functions' = functions /\ leaves' = leaves /\ types' = types
      /\ stage = "tables" /\ stage' = "tables" /\ image \in Images /\ Scanned(addr)
  BY DEF AddTable, SkipSlot, listVars, TablesInv, DiscoveryInv, DiscoveryTypeOK
<1>2. NoneDynamic' /\ NamedInv'
  BY <1>1 DEF TablesInv, NoneDynamic, NamedInv
<1>3. /\ addr \in Slots /\ tables = {t \in AllTables : t.start < addr}
      /\ \A s \in Slots : s + 8 = addr => ~(IntoText(s) /\ IntoText(addr))
  BY <1>1 DEF TablesInv, ScanInv
<1> DEFINE behind == Inside(addr)
<1>4. /\ behind \in Slots /\ addr <= behind /\ ~IntoText(behind)
      /\ \A s \in Slots : addr <= s /\ s < behind => IntoText(s)
  BY <1>1, <1>3, InsideFacts
<1>5. IsTable(addr) <=> behind - addr >= 16
  BY DEF IsTable, MinimumTable, WordSize
<1> HIDE DEF behind
<1>6. addr \in Nat /\ behind \in Nat /\ Slots \subseteq Nat
  BY <1>1, <1>3, <1>4, SlotFacts
<1>7. CASE AddTable
  <2>1. tables' = tables \cup {Block(addr, behind)} /\ addr' = behind /\ IsTable(addr)
    BY <1>7 DEF AddTable, behind
  <2>2. Block(addr, behind) \in AllTables /\ Block(addr, behind).start = addr
    BY <2>1, <1>1, <1>3, TableFound DEF behind, Block
  <2>3. ASSUME NEW t \in AllTables, addr <= t.start, t.start < behind
        PROVE  t = Block(addr, behind)
    <3>1. CASE t.start = addr
      BY <3>1, <2>2, <1>1, TablesApart
    <3>2. CASE addr < t.start
      <4>1. t.start \in Slots /\ t.start \in Nat
        BY <1>1, TableFacts
      <4>2. t.start - 8 \in Slots /\ addr <= t.start - 8
        BY <3>2, <4>1, <1>1, <1>3, SlotFacts, <1>6 DEF WordSize
      <4>3. IntoText(t.start - 8)
        BY <2>3, <4>1, <4>2, <1>4, <1>6
      <4> QED BY <4>1, <4>2, <4>3, <1>1, TableFacts
    <3> QED BY <2>3, <3>1, <3>2, <1>1, <1>6, TableFacts
  <2>4. \A t \in AllTables : t.start < behind <=> t.start < addr \/ t = Block(addr, behind)
    <3>1. \A t \in AllTables : t.start \in Nat
      BY <1>1, TableFacts
    <3>2. addr < behind
      BY <2>1, <1>5, <1>6
    <3> QED BY <2>2, <2>3, <3>1, <3>2, <1>6
  <2>5. tables' = {t \in AllTables : t.start < behind}
    BY <2>1, <2>2, <2>4, <1>3
  <2> QED BY <2>1, <2>5, <1>1, <1>2, <1>4, SameImage DEF ScanInv
<1>8. CASE SkipSlot
  <2>1. tables' = tables /\ addr' = addr + 8 /\ ~IsTable(addr)
    BY <1>8 DEF SkipSlot, WordSize
  <2>2. addr + 8 \in Slots
    <3>1. addr \in Nat /\ image.rdata.end \in Nat
      BY <1>1, <1>3, ScannedSlots
    <3>2. addr + 8 <= image.rdata.end
      BY <1>1, <3>1 DEF Scanned, WordSize
    <3> QED BY <1>1, <1>3, <3>2, SlotFacts DEF WordSize
  <2>3. behind = addr \/ behind = addr + 8
    <3>1. behind < addr + 16
      BY <2>1, <1>5, <1>6
    <3>2. addr < behind => addr + 8 <= behind
      BY <1>1, <1>3, <1>4, SlotFacts DEF WordSize
    <3>3. addr + 8 < behind => addr + 16 <= behind
      BY <2>2, <1>1, <1>4, <1>6, SlotFacts DEF WordSize
    <3> QED BY <3>1, <3>2, <3>3, <1>4, <1>6
  <2>4. \A s \in Slots : s + 8 = addr + 8 => ~(IntoText(s) /\ IntoText(addr + 8))
    <3>1. \A s \in Slots : s + 8 = addr + 8 => s = addr
      BY <1>6
    <3> QED BY <2>3, <3>1, <1>4
  <2>5. ASSUME NEW t \in AllTables PROVE t.start < addr + 8 <=> t.start < addr
    <3>1. t.start \in Slots /\ t.start \in Nat /\ IsTable(t.start)
      BY <1>1, TableFacts, TableAt
    <3>2. t.start # addr
      BY <3>1, <2>1
    <3>3. addr < t.start => addr + 8 <= t.start
      BY <3>1, <1>1, <1>3, SlotFacts DEF WordSize
    <3> QED BY <3>1, <3>2, <3>3, <1>6
  <2>6. tables' = {t \in AllTables : t.start < addr + 8}
    BY <2>1, <2>5, <1>3
  <2> QED BY <2>1, <2>2, <2>4, <2>6, <1>1, <1>2, SameImage DEF ScanInv
<1> QED BY <1>7, <1>8

\* Lemma: when the scan is over all of them are found.
LEMMA ScanEnds ==
  ASSUME TablesInv, TablesEnd
  PROVE  NoneDynamic' /\ ScanInv' /\ NamedInv'
<1>1. /\ image' = image /\ functions' = functions /\ leaves' = leaves /\ types' = types
      /\ tables' = tables /\ addr' = 0 /\ types = <<>>
      /\ stage = "tables" /\ stage' = "types" /\ image \in Images /\ ~Scanned(addr)
      /\ \A i \in DOMAIN functions : ~functions[i].dynamic
  BY DEF TablesEnd, Begin, listVars, TablesInv, DiscoveryInv, DiscoveryTypeOK, NoneDynamic
<1>2. addr \in Slots /\ tables = {t \in AllTables : t.start < addr}
  BY <1>1 DEF TablesInv, ScanInv
<1>3. ASSUME NEW t \in AllTables PROVE t.start < addr /\ t.start \in Nat
  <2>1. t.start \in Slots /\ t.start \in Nat /\ addr \in Nat /\ t.start < t.end /\ t.end \in Nat
    BY <1>1, <1>2, TableFacts, SlotFacts
  <2>2. Scanned(t.start)
    BY <1>1, <2>1, TableFacts DEF IntoText
  <2>3. image.rdata.end \in Nat
    BY <1>1, ImagesAssumption
  <2> QED BY <1>1, <2>1, <2>2, <2>3 DEF Scanned, WordSize
<1>4. tables' = AllTables
  BY <1>1, <1>2, <1>3
<1>5. NoneDynamic' /\ ScanInv'
  BY <1>1 DEF TablesInv, NoneDynamic, ScanInv
<1>6. NamedInv'
  BY <1>1, <1>3, <1>4, SameImage DEF NamedInv, Dynamic
<1> QED BY <1>5, <1>6

\* Lemma: a table is given its type, and the functions in it are marked.
LEMMA NameStep ==
  ASSUME TablesInv, AddType
  PROVE  NoneDynamic' /\ ScanInv' /\ NamedInv'
<1>1. /\ image' = image /\ leaves' = leaves /\ tables' = tables
      /\ stage = "types" /\ stage' = "types" /\ image \in Images /\ Ahead # {}
  BY DEF AddType, TablesInv, DiscoveryInv, DiscoveryTypeOK
<1>2. /\ addr \in Nat /\ tables = AllTables /\ types \in Seq(FoundTypes)
      /\ \A t \in AllTables : t.start < addr <=> \E k \in DOMAIN types : types[k].vtable = t
      /\ \A j, k \in DOMAIN types : j < k => types[j].vtable.end <= types[k].vtable.start
      /\ \A i \in DOMAIN functions : functions[i].dynamic <=> Dynamic(functions[i])
  BY <1>1 DEF TablesInv, NamedInv
<1> DEFINE table == CHOOSE t \in Ahead : \A u \in Ahead : t.start <= u.start
           found == {FindFunction(e) : e \in EntriesOf(table)}
<1>3. /\ types' = Append(types, TypeOf(table)) /\ addr' = table.start + 1
      /\ functions' = [i \in DOMAIN functions |->
                         [functions[i] EXCEPT !.dynamic = @ \/ i \in found]]
  BY DEF AddType
<1>4. \A t \in Ahead : t \in AllTables /\ t.start \in Nat /\ t.start >= addr
  BY <1>1, <1>2, TableFacts DEF Ahead
<1>5. table \in Ahead /\ \A u \in Ahead : table.start <= u.start
  <2> DEFINE S == {t.start : t \in Ahead}
  <2>1. S \subseteq Nat /\ S # {}
    BY <1>1, <1>4
  <2>2. \E x \in S : \A y \in S : x <= y
    <3> HIDE DEF S
    <3> QED BY <2>1, MinIn
  <2>3. \E t \in Ahead : \A u \in Ahead : t.start <= u.start
    BY <2>2
  <2> QED BY <2>3
<1>6. \A i \in DOMAIN functions : i \in found <=> functions[i].start \in EntriesOf(table)
  BY FoundByStart DEF TablesInv
<1> HIDE DEF table, found
<1>7. table \in AllTables /\ table.start \in Nat /\ table.start >= addr
  BY <1>4, <1>5
<1>8. ASSUME NEW t \in AllTables
      PROVE  t.start < table.start + 1 <=> t.start < addr \/ t = table
  <2>1. t.start \in Nat /\ (t.start = table.start => t = table)
    BY <1>1, <1>7, TableFacts, TablesApart
  <2>2. t.start >= addr => table.start <= t.start
    BY <1>2, <1>5 DEF Ahead
  <2> QED BY <2>1, <2>2, <1>2, <1>7
<1>9. /\ types' \in Seq(FoundTypes) /\ Len(types') = Len(types) + 1
      /\ types'[Len(types) + 1].vtable = table
      /\ \A k \in DOMAIN types : k \in DOMAIN types' /\ types'[k] = types[k] /\ k < Len(types) + 1
      /\ \A k \in DOMAIN types' : k \in DOMAIN types \/ k = Len(types) + 1
      /\ Len(types) + 1 \in DOMAIN types'
  <2>1. TypeOf(table) \in FoundTypes
    BY <1>7 DEF FoundTypes
  <2>2. TypeOf(table).vtable = table
    BY TypeOfTable
  <2> DEFINE new == TypeOf(table)
  <2> HIDE DEF new
  <2>3. /\ types' \in Seq(FoundTypes) /\ Len(types') = Len(types) + 1
        /\ types'[Len(types) + 1] = new /\ Len(types) \in Nat
        /\ DOMAIN types' = 1 .. Len(types) + 1 /\ DOMAIN types = 1 .. Len(types)
        /\ \A k \in 1 .. Len(types) : types'[k] = types[k]
    BY <2>1, <1>2, <1>3 DEF new
  <2> QED BY <2>2, <2>3 DEF new
<1>10. \A k \in DOMAIN types : types[k].vtable \in AllTables
  <2>1. \A k \in DOMAIN types : types[k] \in FoundTypes
    BY <1>2
  <2> QED BY <2>1, TypeOfTable DEF FoundTypes
<1>11. \A t \in AllTables : t.start < addr' <=> \E k \in DOMAIN types' : types'[k].vtable = t
  BY <1>2, <1>3, <1>8, <1>9
<1>12. ASSUME NEW j \in DOMAIN types', NEW k \in DOMAIN types', j < k
       PROVE  types'[j].vtable.end <= types'[k].vtable.start
  <2>1. CASE k \in DOMAIN types /\ j \in DOMAIN types
    BY <2>1, <1>2, <1>9, <1>12
  <2>2. CASE k = Len(types) + 1
    <3>1. j \in DOMAIN types
      BY <2>2, <1>9, <1>12
    <3>2. types[j].vtable \in AllTables /\ types[j].vtable.start < addr
      BY <3>1, <1>2, <1>10
    <3>3. types[j].vtable.start < table.start
      BY <3>2, <1>1, <1>2, <1>7, TableFacts
    <3> QED BY <2>2, <3>1, <3>2, <3>3, <1>1, <1>7, <1>9, TablesApart
  <2>3. CASE k \in DOMAIN types /\ j = Len(types) + 1
    BY <2>3, <1>2, <1>9, <1>12
  <2> QED BY <2>1, <2>2, <2>3, <1>9
<1>13. ASSUME NEW i \in DOMAIN functions'
       PROVE  functions'[i].dynamic <=> Dynamic(functions[i])'
  <2>1. /\ i \in DOMAIN functions
        /\ functions'[i] = [functions[i] EXCEPT !.dynamic = functions[i].dynamic \/ i \in found]
    BY <1>3, <1>13
  <2>2. functions[i] \in Function
    BY <2>1 DEF TablesInv, DiscoveryInv, DiscoveryTypeOK
  <2>3. /\ functions'[i].start = functions[i].start
        /\ functions'[i].dynamic <=> functions[i].dynamic \/ i \in found
    BY <2>1, <2>2 DEF Function
  <2>4. functions'[i].dynamic <=>
          Dynamic(functions[i]) \/ functions[i].start \in EntriesOf(table)
    BY <2>1, <2>3, <1>2, <1>6
  <2>5. (\E k \in DOMAIN types' : functions[i].start \in EntriesOf(types'[k].vtable)) <=>
          Dynamic(functions[i]) \/ functions[i].start \in EntriesOf(table)
    BY <1>9 DEF Dynamic
  <2>6. Dynamic(functions[i])' <=>
          \E k \in DOMAIN types' : functions'[i].start \in EntriesOf(types'[k].vtable)
    BY <1>1, SameImage DEF Dynamic
  <2> QED BY <2>3, <2>4, <2>5, <2>6
<1>14. NoneDynamic' /\ ScanInv'
  BY <1>1 DEF TablesInv, NoneDynamic, ScanInv
<1>15. NamedInv'
  <2>1. addr' \in Nat /\ tables' = AllTables
    BY <1>1, <1>2, <1>3, <1>7
  <2> QED BY <2>1, <1>1, <1>9, <1>11, <1>12, <1>13, SameImage DEF NamedInv
<1> QED BY <1>14, <1>15

\* Lemma: configure() keeps all of this; so do the steps of the target.
LEMMA TablesStep == TablesInv /\ [Discover]_discoveryVars => TablesInv'
<1> SUFFICES ASSUME TablesInv, [Discover]_discoveryVars PROVE TablesInv'
  OBVIOUS
<1>1. DiscoveryInv'
  BY DiscoveryStep DEF TablesInv
<1>2. CASE UNCHANGED discoveryVars
  <2>1. NoneDynamic' /\ ScanInv'
    BY <1>2, SameImage DEF discoveryVars, listVars, tableVars, TablesInv, NoneDynamic, ScanInv
  <2>2. NamedInv'
    BY <1>2, SameImage
    DEF discoveryVars, listVars, tableVars, TablesInv, NamedInv, Dynamic
  <2> QED BY <1>1, <2>1, <2>2 DEF TablesInv
<1>3. CASE TypesEnd
  BY <1>1, <1>3 DEF TypesEnd, Begin, listVars, tableVars, TablesInv, NoneDynamic, ScanInv,
     NamedInv
<1> QED
  BY <1>1, <1>2, <1>3, FindFunctionsStep, ScanStep, ScanEnds, NameStep
  DEF Discover, FindRtti, TablesInv

\* Theorem: find_rtti finds a type for each of the longest sequences of pointers into
\* .text and for nothing else, in their order, and marks the functions they name;
\* all it misses is a slot that ends with .rdata, and a pair of pointers of which
\* that slot is one.
THEOREM TypesFoundExactly == Spec => []TypesExact
<1>1. Init => TablesInv
  <2> SUFFICES ASSUME Init PROVE TablesInv
    OBVIOUS
  <2>1. DiscoveryInit
    BY DEF Init
  <2> QED BY <2>1, DiscoveryInitInv
      DEF DiscoveryInit, TablesInv, NoneDynamic, ScanInv, NamedInv
<1>2. TablesInv /\ [Next]_vars => TablesInv'
  BY StepsDiscover, TablesStep
<1>3. ASSUME TablesInv PROVE TypesExact
  <2> SUFFICES ASSUME stage = "types", Ahead = {} PROVE
        /\ {types[k].vtable : k \in DOMAIN types} = AllTables
        /\ \A j, k \in DOMAIN types : j < k => types[j].vtable.end <= types[k].vtable.start
        /\ \A i \in DOMAIN functions : functions[i].dynamic <=> Dynamic(functions[i])
    <3>1. image \in Images
      BY <1>3 DEF TablesInv, DiscoveryInv, DiscoveryTypeOK
    <3> QED BY <3>1, RunsAreStored DEF TypesExact, Dynamic
  <2>1. NamedInv /\ image \in Images
    BY <1>3 DEF TablesInv, DiscoveryInv, DiscoveryTypeOK
  <2>2. \A k \in DOMAIN types : types[k].vtable \in AllTables
    <3>1. types \in Seq(FoundTypes)
      BY <2>1 DEF NamedInv
    <3>2. \A k \in DOMAIN types : types[k] \in FoundTypes
      BY <3>1
    <3> QED BY <3>2, TypeOfTable DEF FoundTypes
  <2>3. \A t \in AllTables : t.start < addr
    BY <2>1, TableFacts DEF NamedInv, Ahead
  <2> QED BY <2>1, <2>2, <2>3 DEF NamedInv
<1> QED BY <1>1, <1>2, <1>3, PTL DEF Spec

-----------------------------------------------------------------------------
(***************************************************************************)
(* The lists of callers and uses.                                           *)
(***************************************************************************)
\* Of two threads at one list, the second was noticed.
OneAtList ==
  \A t, u \in Threads : t # u =>
    /\ Inserting(t) /\ Inserting(u) /\ local[t].fn = local[u].fn => local[t].fn \in raced
    /\ Marking(t) /\ Marking(u) /\ local[t].vtable = local[u].vtable
         => local[t].vtable \in raced

CallersOf(f) == {c \in calledFrom : c[1] = f}

\* What a thread read of a list it is alone with is what the list has.
WholeCopy(t) ==
  LET l == local[t] IN
  /\ Inserting(t) => \A c \in l.callers : c[1] = l.fn
  /\ Inserting(t) /\ l.fn \notin raced => l.callers = CallersOf(l.fn)
  /\ pc[t] = "link" /\ l.vtable \notin raced
       => l.list = usage[l.vtable] /\ l.param \in nodes[l.node].bits
  /\ pc[t] \in {"read", "or"} /\ l.vtable \notin raced => l.node \in Listed(l.vtable)
  /\ pc[t] = "or" /\ l.vtable \notin raced => l.bits = nodes[l.node].bits

Accounted(o) == o[1] \in raced \/ Unfinished(o) \/ o \in Uses \cup calledFrom

CopiesInv ==
  /\ OneAtList
  /\ \A t \in Threads : WholeCopy(t)
  /\ \A o \in observed : Accounted(o)

LogInv == ended = "written" => log = Uses \cup calledFrom

-----------------------------------------------------------------------------
\* A step of t changes only the lists that t works on.
Apart(t) ==
  /\ \A u \in Threads : u # t => pc'[u] = pc[u] /\ local'[u] = local[u]
  /\ raced \subseteq raced'
  /\ \A f \in Nat : ~(Inserting(t) /\ f = local[t].fn) => CallersOf(f)' = CallersOf(f)
  /\ \A v \in Words : ~(Marking(t) /\ v = local[t].vtable) => usage'[v] = usage[v]
  /\ \A n \in DOMAIN nodes :
       /\ n \in DOMAIN nodes'
       /\ nodes'[n].vtable = nodes[n].vtable /\ nodes'[n].fn = nodes[n].fn
       /\ ~(Marking(t) /\ nodes[n].vtable = local[t].vtable) => nodes'[n] = nodes[n]

\* Lemma: so the others' copies are as good as before.
LEMMA CopiesKept ==
  ASSUME MonitorType, RecordsInv, OneAtList, NEW t \in Threads, NEW u \in Threads, u # t,
         WholeCopy(u), Apart(t)
  PROVE  WholeCopy(u)'
<1> DEFINE l == local[u]
<1>1. pc'[u] = pc[u] /\ local'[u] = l /\ raced \subseteq raced' /\ l \in Local
  BY DEF Apart, MonitorType
<1>2. l.fn \in Nat /\ l.vtable \in Words
  BY <1>1, LocalFields
<1>3. Inserting(u) /\ l.fn \notin raced => CallersOf(l.fn)' = CallersOf(l.fn)
  BY <1>2 DEF Apart, OneAtList
<1>4. Marking(u) /\ l.vtable \notin raced => usage'[l.vtable] = usage[l.vtable]
  BY <1>2 DEF Apart, OneAtList
<1>5. pc[u] \in {"link", "read", "or"} /\ l.vtable \notin raced
        => nodes'[l.node] = nodes[l.node]
  <2>1. pc[u] \in {"link", "read", "or"} => l.node \in DOMAIN nodes /\ nodes[l.node].vtable = l.vtable
    BY DEF RecordsInv, LocalTrue
  <2> QED BY <2>1 DEF Apart, OneAtList, Marking
<1> HIDE DEF l
<1> QED BY <1>1, <1>3, <1>4, <1>5 DEF WholeCopy, Inserting, Marking, Listed, l, CallersOf

\* t goes on with the list it was at, or leaves it.
Stays(t) ==
  /\ Inserting(t)' => Inserting(t) /\ local'[t].fn = local[t].fn
  /\ Marking(t)' => Marking(t) /\ local'[t].vtable = local[t].vtable

\* Lemma: then nobody comes to a list where another one is.
LEMMA OneAtListKept ==
  ASSUME OneAtList, NEW t \in Threads, Apart(t), Stays(t)
  PROVE  OneAtList'
BY DEF OneAtList, Apart, Stays, Inserting, Marking

\* What a thread that is in the middle of an entry has yet to write, or writes again.
AtStake(t, o) ==
  \/ Inserting(t) /\ (o = <<local[t].fn, local[t].from>> \/ o \in CallersOf(local[t].fn))
  \/ Marking(t) /\ \/ o = <<local[t].vtable, local[t].fn, local[t].param>>
                   \/ o \in UsesOf(local[t].vtable)

\* Lemma: all else stays accounted for.
LEMMA AccountedKept ==
  ASSUME MonitorType, RecordsInv, NEW t \in Threads, Apart(t),
         NEW o \in observed, Accounted(o), ~AtStake(t, o)
  PROVE  Accounted(o)'
<1>1. CASE o[1] \in raced
  BY <1>1 DEF Apart, Accounted
<1>2. CASE Unfinished(o)
  <2>1. PICK u \in Threads :
          \/ Inserting(u) /\ o = <<local[u].fn, local[u].from>>
          \/ Marking(u) /\ o = <<local[u].vtable, local[u].fn, local[u].param>>
    BY <1>2 DEF Unfinished
  <2>2. u # t
    BY <2>1 DEF AtStake
  <2>3. Unfinished(o)'
    BY <2>1, <2>2 DEF Apart, Unfinished, Inserting, Marking
  <2> QED BY <2>3 DEF Accounted
<1>3. CASE o \in calledFrom
  <2>1. o[1] \in Nat /\ o \in CallersOf(o[1])
    BY <1>3 DEF MonitorType, CallersOf
  <2>2. o \in CallersOf(o[1])'
    BY <2>1 DEF Apart, AtStake
  <2> QED BY <2>2 DEF Accounted, CallersOf
<1>4. CASE o \in Uses
  <2>1. PICK v \in Words : o \in UsesOf(v)
    BY <1>4 DEF Uses
  <2>2. PICK n \in Listed(v) : \E p \in nodes[n].bits : o = <<v, nodes[n].fn, p>>
    BY <2>1 DEF UsesOf
  <2>3. n \in DOMAIN nodes /\ nodes[n].vtable = v
    BY <2>2 DEF RecordsInv, OfType, Listed
  <2>4. ~(Marking(t) /\ v = local[t].vtable)
    BY <2>1 DEF AtStake
  <2>5. usage'[v] = usage[v] /\ nodes'[n] = nodes[n]
    BY <2>3, <2>4 DEF Apart
  <2>6. n \in Listed(v)'
    BY <2>2, <2>5 DEF Listed
  <2>7. o \in UsesOf(v)'
    BY <2>2, <2>5, <2>6 DEF UsesOf
  <2>8. o \in Uses'
    BY <2>7 DEF Uses
  <2> QED BY <2>8 DEF Accounted
<1> QED BY <1>1, <1>2, <1>3, <1>4 DEF Accounted

-----------------------------------------------------------------------------
(***************************************************************************)
(* The steps of a callback.                                                 *)
(***************************************************************************)
\* Lemma: a step that changes none of the records and begins no entry.
LEMMA QuietCopies ==
  ASSUME MonitorType, RecordsInv, CopiesInv, NEW t \in Threads, NEW where, NEW new,
         Go(t, where, new), UNCHANGED <<recordVars, historyVars>>,
         where \in {"out", "dispatch", "params", "faulting"},
         \A o \in observed : AtStake(t, o) => o[1] \in raced \/ o \in Uses \cup calledFrom
  PROVE  CopiesInv'
<1>1. /\ pc'[t] = where /\ Apart(t)
      /\ nodes' = nodes /\ usage' = usage /\ calledFrom' = calledFrom
      /\ observed' = observed /\ raced' = raced
  BY GoLeaves DEF Apart, recordVars, historyVars, CallersOf
<1>2. ~Inserting(t)' /\ ~Marking(t)' /\ pc'[t] \notin {"link", "read", "or"}
  BY <1>1 DEF Inserting, Marking
<1>3. OneAtList'
  BY <1>1, <1>2, OneAtListKept DEF CopiesInv, Stays
<1>4. WholeCopy(t)'
  BY <1>2 DEF WholeCopy
<1>5. \A u \in Threads : WholeCopy(u)'
  BY <1>1, <1>4, CopiesKept DEF CopiesInv
<1>6. ASSUME NEW o \in observed PROVE Accounted(o)'
  <2>1. CASE AtStake(t, o)
    BY <2>1, <1>1 DEF Accounted, Uses, UsesOf, Listed
  <2>2. CASE ~AtStake(t, o)
    BY <2>2, <1>1, AccountedKept DEF CopiesInv
  <2> QED BY <2>1, <2>2
<1> QED BY <1>1, <1>3, <1>5, <1>6 DEF CopiesInv

\* Lemma: what is left to show of the other steps.
LEMMA CopiesStep ==
  ASSUME MonitorType, RecordsInv, CopiesInv, NEW t \in Threads, Apart(t), OneAtList',
         WholeCopy(t)',
         \A o \in observed' : o \in observed \/ Accounted(o)',
         \A o \in observed : AtStake(t, o) /\ Accounted(o) => Accounted(o)'
  PROVE  CopiesInv'
<1>1. \A u \in Threads : WholeCopy(u)'
  BY CopiesKept DEF CopiesInv
<1>2. \A o \in observed : Accounted(o)'
  BY AccountedKept DEF CopiesInv
<1> QED BY <1>1, <1>2 DEF CopiesInv

\* Lemma: the search of called_from.
LEMMA DispatchCopies ==
  ASSUME MonitorType, RecordsInv, CopiesInv, NEW t \in Threads, Dispatch(t)
  PROVE  CopiesInv'
<1> DEFINE l == local[t]  c == CallersOf(l.fn)
<1>1. /\ pc[t] = "dispatch" /\ Go(t, "insert", [l EXCEPT !.callers = c])
      /\ nodes' = nodes /\ usage' = usage /\ calledFrom' = calledFrom
      /\ observed' = observed \cup {<<l.fn, l.from>>}
      /\ raced' = raced \cup Contended(t, l.fn)
  BY DEF Dispatch, Running, recordVars, CallersOf
<1>2. l \in Local
  BY DEF MonitorType
<1>3. /\ pc'[t] = "insert" /\ local'[t] = [l EXCEPT !.callers = c]
      /\ \A u \in Threads : u # t => pc'[u] = pc[u] /\ local'[u] = local[u]
  BY <1>1, GoLeaves
<1>4. local'[t].fn = l.fn /\ local'[t].from = l.from /\ local'[t].callers = c
  BY <1>2, <1>3 DEF Local
<1> HIDE DEF l
<1>5. Apart(t)
  BY <1>1, <1>3 DEF Apart, CallersOf
<1>6. OneAtList'
  <2>1. ASSUME NEW u \in Threads, u # t, Inserting(u), local[u].fn = l.fn
        PROVE  l.fn \in raced'
    BY <2>1, <1>1 DEF Contended
  <2>2. \A u, w \in Threads : u # w /\ u # t /\ w # t =>
          /\ Inserting(u) /\ Inserting(w) /\ local[u].fn = local[w].fn => local[u].fn \in raced
          /\ Marking(u) /\ Marking(w) /\ local[u].vtable = local[w].vtable
               => local[u].vtable \in raced
    BY DEF OneAtList, CopiesInv
  <2> SUFFICES ASSUME NEW a \in Threads, NEW b \in Threads, a # b
               PROVE  /\ Inserting(a)' /\ Inserting(b)' /\ local'[a].fn = local'[b].fn
                           => local'[a].fn \in raced'
                      /\ Marking(a)' /\ Marking(b)' /\ local'[a].vtable = local'[b].vtable
                           => local'[a].vtable \in raced'
    BY DEF OneAtList
  <2>3. CASE a = t
    BY <2>1, <2>3, <1>3, <1>4 DEF Inserting, Marking
  <2>4. CASE b = t
    BY <2>1, <2>4, <1>3, <1>4 DEF Inserting, Marking
  <2>5. CASE a # t /\ b # t
    BY <2>2, <2>5, <1>1, <1>3, <1>4 DEF Inserting, Marking
  <2> QED BY <2>3, <2>4, <2>5
<1>7. WholeCopy(t)'
  BY <1>1, <1>3, <1>4 DEF WholeCopy, Inserting, CallersOf
<1>8. ASSUME NEW o, o = <<l.fn, l.from>> PROVE Accounted(o)'
  BY <1>8, <1>3, <1>4 DEF Accounted, Unfinished, Inserting
<1>9. \A o : ~AtStake(t, o)
  BY <1>1 DEF AtStake, Inserting, Marking
<1> QED BY <1>1, <1>5, <1>6, <1>7, <1>8, <1>9, CopiesStep

\* Lemma: the caller is inserted.
LEMMA InsertCopies ==
  ASSUME MonitorType, RecordsInv, CopiesInv, NEW t \in Threads, Insert(t)
  PROVE  CopiesInv'
<1> DEFINE l == local[t]
<1>1. /\ pc[t] = "insert" /\ Go(t, "params", [l EXCEPT !.callers = {}])
      /\ calledFrom' = {c \in calledFrom : c[1] # l.fn} \cup l.callers \cup {<<l.fn, l.from>>}
      /\ nodes' = nodes /\ usage' = usage /\ observed' = observed /\ raced' = raced
  BY DEF Insert, Running, historyVars
<1>2. /\ pc'[t] = "params"
      /\ \A u \in Threads : u # t => pc'[u] = pc[u] /\ local'[u] = local[u]
  BY <1>1, GoLeaves
<1>3. Inserting(t) /\ ~Marking(t) /\ ~Inserting(t)' /\ ~Marking(t)'
  BY <1>1, <1>2 DEF Inserting, Marking
<1>4. /\ \A c \in l.callers : c[1] = l.fn
      /\ l.fn \notin raced => l.callers = CallersOf(l.fn)
  BY <1>3 DEF CopiesInv, WholeCopy
<1> HIDE DEF l
<1>5. Apart(t)
  <2>1. ASSUME NEW f \in Nat, f # l.fn PROVE CallersOf(f)' = CallersOf(f)
    BY <2>1, <1>1, <1>4 DEF CallersOf
  <2> QED BY <2>1, <1>1, <1>2, <1>3 DEF Apart, l
<1>6. OneAtList'
  BY <1>3, <1>5, OneAtListKept DEF CopiesInv, Stays
<1>7. WholeCopy(t)'
  BY <1>2 DEF WholeCopy, Inserting
<1>8. ASSUME NEW o \in observed, AtStake(t, o) PROVE Accounted(o)'
  <2>1. o = <<l.fn, l.from>> \/ o \in CallersOf(l.fn)
    BY <1>3, <1>8 DEF AtStake, l
  <2>2. CASE l.fn \in raced
    BY <2>1, <2>2, <1>1 DEF Accounted, CallersOf
  <2>3. CASE l.fn \notin raced
    BY <2>1, <2>3, <1>1, <1>4 DEF Accounted
  <2> QED BY <2>2, <2>3
<1> QED BY <1>1, <1>5, <1>6, <1>7, <1>8, CopiesStep

\* Lemma: a word is a vtable.
LEMMA MatchCopies ==
  ASSUME MonitorType, RecordsInv, CopiesInv, NEW t \in Threads, Match(t)
  PROVE  CopiesInv'
<1> DEFINE l == local[t]  v == heap[Arg(t)]  node == FindUse(v, l.fn)
           where == IF node = 0 THEN "emplace" ELSE "read"
<1>1. /\ pc[t] = "params" /\ AtParam(t) /\ Known(Arg(t))
      /\ Go(t, where, [l EXCEPT !.vtable = v, !.node = node])
      /\ nodes' = nodes /\ usage' = usage /\ calledFrom' = calledFrom
      /\ observed' = observed \cup {<<v, l.fn, l.param>>}
      /\ raced' = raced \cup Contended(t, v)
  BY DEF Match, AtParam, Running, recordVars
<1>2. l \in Local
  BY DEF MonitorType
<1>3. v \in Words
  BY <1>1, ArgType, KnownIsHeap DEF AtParam, MonitorType
<1>4. node # 0 => node \in Listed(v)
  BY <1>3, FindUseNode
<1>5. where = (IF node = 0 THEN "emplace" ELSE "read")
  OBVIOUS
<1>6. /\ pc'[t] = where /\ local'[t] = [l EXCEPT !.vtable = v, !.node = node]
      /\ \A u \in Threads : u # t => pc'[u] = pc[u] /\ local'[u] = local[u]
  BY <1>1, GoLeaves
<1> HIDE DEF v, node, where
<1>7. /\ local'[t].fn = l.fn /\ local'[t].param = l.param
      /\ local'[t].vtable = v /\ local'[t].node = node
  BY <1>6, <1>2 DEF Local
<1> HIDE DEF l
<1>8. Apart(t)
  BY <1>1, <1>6 DEF Apart, CallersOf
<1>9. OneAtList'
  <2>1. ASSUME NEW u \in Threads, u # t, Marking(u), local[u].vtable = v
        PROVE  v \in raced'
    BY <2>1, <1>1 DEF Contended
  <2>2. \A u, w \in Threads : u # w /\ u # t /\ w # t =>
          /\ Inserting(u) /\ Inserting(w) /\ local[u].fn = local[w].fn => local[u].fn \in raced
          /\ Marking(u) /\ Marking(w) /\ local[u].vtable = local[w].vtable
               => local[u].vtable \in raced
    BY DEF OneAtList, CopiesInv
  <2> SUFFICES ASSUME NEW a \in Threads, NEW b \in Threads, a # b
               PROVE  /\ Inserting(a)' /\ Inserting(b)' /\ local'[a].fn = local'[b].fn
                           => local'[a].fn \in raced'
                      /\ Marking(a)' /\ Marking(b)' /\ local'[a].vtable = local'[b].vtable
                           => local'[a].vtable \in raced'
    BY DEF OneAtList
  <2>3. CASE a = t
    BY <2>1, <2>3, <1>5, <1>6, <1>7 DEF Inserting, Marking
  <2>4. CASE b = t
    BY <2>1, <2>4, <1>5, <1>6, <1>7 DEF Inserting, Marking
  <2>5. CASE a # t /\ b # t
    BY <2>2, <2>5, <1>1, <1>5, <1>6, <1>7 DEF Inserting, Marking
  <2> QED BY <2>3, <2>4, <2>5
<1>10. WholeCopy(t)'
  BY <1>1, <1>4, <1>5, <1>6, <1>7 DEF WholeCopy, Inserting, Listed
<1>11. ASSUME NEW o, o = <<v, l.fn, l.param>> PROVE Accounted(o)'
  BY <1>11, <1>5, <1>6, <1>7 DEF Accounted, Unfinished, Marking
<1>12. \A o : ~AtStake(t, o)
  BY <1>1 DEF AtStake, Inserting, Marking
<1> QED BY <1>1, <1>8, <1>9, <1>10, <1>11, <1>12, CopiesStep

\* Lemma: a use that is still in the middle of its entry.
LEMMA StillMarking ==
  ASSUME MonitorType, RecordsInv, NEW t \in Threads, Marking(t), Marking(t)',
         UNCHANGED <<usage, calledFrom, raced>>,
         \A n \in DOMAIN nodes : nodes'[n] = nodes[n],
         local'[t].vtable = local[t].vtable, local'[t].fn = local[t].fn,
         local'[t].param = local[t].param,
         NEW o \in observed, AtStake(t, o)
  PROVE  Accounted(o)'
<1>1. CASE o = <<local[t].vtable, local[t].fn, local[t].param>>
  BY <1>1 DEF Accounted, Unfinished
<1>2. CASE o \in UsesOf(local[t].vtable)
  <2> DEFINE v == local[t].vtable
  <2>1. v \in Words
    BY LocalFields DEF MonitorType
  <2>2. PICK n \in Listed(v) : \E p \in nodes[n].bits : o = <<v, nodes[n].fn, p>>
    BY <1>2 DEF UsesOf
  <2>3. n \in DOMAIN nodes
    BY <2>1, <2>2 DEF RecordsInv, OfType, Listed
  <2>4. n \in Listed(v)' /\ \E p \in nodes'[n].bits : o = <<v, nodes'[n].fn, p>>
    BY <2>2, <2>3 DEF Listed
  <2> HIDE DEF v
  <2>5. ASSUME NEW w \in Words, w = v PROVE o \in UsesOf(w)'
    BY <2>4, <2>5 DEF UsesOf, Listed
  <2>6. o \in Uses'
    BY <2>1, <2>5 DEF Uses
  <2> QED BY <2>6 DEF Accounted
<1> QED BY <1>1, <1>2 DEF AtStake, Inserting, Marking

\* Lemma: the node is made.
LEMMA EmplaceCopies ==
  ASSUME MonitorType, RecordsInv, CopiesInv, NEW t \in Threads, Emplace(t)
  PROVE  CopiesInv'
<1> DEFINE l == local[t]
           n == [vtable |-> l.vtable, fn |-> l.fn, bits |-> {l.param}]
           new == [l EXCEPT !.node = Len(nodes) + 1, !.list = usage[l.vtable]]
<1>1. /\ pc[t] = "emplace" /\ Go(t, "link", new) /\ nodes' = Append(nodes, n)
      /\ usage' = usage /\ calledFrom' = calledFrom /\ observed' = observed /\ raced' = raced
  BY DEF Emplace, Running, historyVars
<1>2. l \in Local /\ nodes \in Seq(Node)
  BY DEF MonitorType
<1>3. /\ pc'[t] = "link" /\ local'[t] = new
      /\ \A u \in Threads : u # t => pc'[u] = pc[u] /\ local'[u] = local[u]
  BY <1>1, GoLeaves
<1>4. /\ local'[t].fn = l.fn /\ local'[t].param = l.param /\ local'[t].vtable = l.vtable
      /\ local'[t].node = Len(nodes) + 1 /\ local'[t].list = usage[l.vtable]
  BY <1>2, <1>3 DEF Local
<1>5. n.bits = {l.param}
  OBVIOUS
<1> HIDE DEF l, n, new
<1>6. /\ \A k \in DOMAIN nodes : k \in DOMAIN nodes' /\ nodes'[k] = nodes[k]
      /\ nodes'[Len(nodes) + 1] = n
  BY <1>1, <1>2
<1>7. Apart(t)
  BY <1>1, <1>3, <1>6 DEF Apart, CallersOf
<1>8. Marking(t) /\ Marking(t)' /\ ~Inserting(t)'
  BY <1>1, <1>3 DEF Marking, Inserting
<1>9. OneAtList'
  BY <1>4, <1>7, <1>8, OneAtListKept DEF CopiesInv, Stays, l
<1>10. WholeCopy(t)'
  BY <1>1, <1>3, <1>4, <1>5, <1>6, <1>8 DEF WholeCopy, Inserting
<1>11. ASSUME NEW o \in observed, AtStake(t, o) PROVE Accounted(o)'
  BY <1>1, <1>4, <1>6, <1>8, <1>11, StillMarking DEF l
<1> QED BY <1>1, <1>7, <1>9, <1>10, <1>11, CopiesStep

\* Lemma: the bits are read.
LEMMA ReadBitsCopies ==
  ASSUME MonitorType, RecordsInv, CopiesInv, NEW t \in Threads, ReadBits(t)
  PROVE  CopiesInv'
<1> DEFINE l == local[t]  b == nodes[l.node].bits
<1>1. /\ pc[t] = "read" /\ Go(t, "or", [l EXCEPT !.bits = b])
      /\ nodes' = nodes /\ usage' = usage /\ calledFrom' = calledFrom
      /\ observed' = observed /\ raced' = raced
  BY DEF ReadBits, Running, historyVars, recordVars
<1>2. l \in Local
  BY DEF MonitorType
<1>3. /\ pc'[t] = "or" /\ local'[t] = [l EXCEPT !.bits = b]
      /\ \A u \in Threads : u # t => pc'[u] = pc[u] /\ local'[u] = local[u]
  BY <1>1, GoLeaves
<1>4. /\ local'[t].fn = l.fn /\ local'[t].param = l.param /\ local'[t].vtable = l.vtable
      /\ local'[t].node = l.node /\ local'[t].bits = b
  BY <1>2, <1>3 DEF Local
<1>5. l.vtable \notin raced => l.node \in Listed(l.vtable)
  BY <1>1 DEF CopiesInv, WholeCopy
<1>6. Apart(t)
  BY <1>1, <1>3 DEF Apart, CallersOf
<1>7. Marking(t) /\ Marking(t)' /\ ~Inserting(t)'
  BY <1>1, <1>3 DEF Marking, Inserting
<1>8. OneAtList'
  BY <1>4, <1>6, <1>7, OneAtListKept DEF CopiesInv, Stays
<1> HIDE DEF l
<1>9. WholeCopy(t)'
  BY <1>1, <1>3, <1>4, <1>5, <1>7 DEF WholeCopy, Inserting, Listed
<1>10. ASSUME NEW o \in observed, AtStake(t, o) PROVE Accounted(o)'
  BY <1>1, <1>4, <1>7, <1>10, StillMarking DEF l
<1> QED BY <1>1, <1>6, <1>8, <1>9, <1>10, CopiesStep

\* Lemma: the node is linked.
LEMMA LinkCopies ==
  ASSUME MonitorType, RecordsInv, CopiesInv, NEW t \in Threads, Link(t)
  PROVE  CopiesInv'
<1> DEFINE l == local[t]  v == l.vtable  new == Append(l.list, l.node)
<1>1. /\ pc[t] = "link" /\ Go(t, "params", Next4(l))
      /\ usage' = [usage EXCEPT ![v] = new]
      /\ nodes' = nodes /\ calledFrom' = calledFrom /\ observed' = observed /\ raced' = raced
  BY DEF Link, Running, NextParam, Next4, historyVars
<1>2. /\ pc'[t] = "params"
      /\ \A u \in Threads : u # t => pc'[u] = pc[u] /\ local'[u] = local[u]
  BY <1>1, GoLeaves
<1>3. Marking(t) /\ ~Inserting(t) /\ ~Inserting(t)' /\ ~Marking(t)'
  BY <1>1, <1>2 DEF Inserting, Marking
<1>4. /\ l.list \in Seq(Nat) /\ l.node \in Nat /\ v \in Words /\ usage \in [Words -> Seq(Nat)]
  BY LocalFields DEF MonitorType
<1>5. v \notin raced => l.list = usage[v] /\ l.param \in nodes[l.node].bits
  BY <1>1 DEF CopiesInv, WholeCopy
<1>6. nodes[l.node].fn = l.fn
  BY <1>1 DEF RecordsInv, LocalTrue
<1>7. usage'[v] = new /\ \A w \in Words : w # v => usage'[w] = usage[w]
  BY <1>1, <1>4
<1>8. /\ \A i \in DOMAIN l.list : i \in DOMAIN new /\ new[i] = l.list[i]
      /\ \E i \in DOMAIN new : new[i] = l.node
  <2>1. Len(new) = Len(l.list) + 1 /\ new[Len(l.list) + 1] = l.node
        /\ \A i \in 1 .. Len(l.list) : new[i] = l.list[i]
    BY <1>4
  <2>2. DOMAIN new = 1 .. Len(l.list) + 1 /\ DOMAIN l.list = 1 .. Len(l.list)
        /\ Len(l.list) \in Nat
    BY <1>4
  <2> HIDE DEF new, l
  <2> QED BY <2>1, <2>2
<1>9. Apart(t)
  BY <1>1, <1>2, <1>3, <1>7 DEF Apart, CallersOf
<1>10. OneAtList'
  BY <1>3, <1>9, OneAtListKept DEF CopiesInv, Stays
<1>11. WholeCopy(t)'
  BY <1>2, <1>3 DEF WholeCopy
<1> HIDE DEF new, v, l
<1>12. ASSUME NEW o \in observed, AtStake(t, o) PROVE Accounted(o)'
  <2>1. CASE v \in raced
    BY <2>1, <1>1, <1>3, <1>12 DEF AtStake, Accounted, UsesOf, l, v
  <2>2. CASE v \notin raced
    <3>1. \A n : n = l.node \/ n \in Listed(v) => n \in {usage'[v][i] : i \in DOMAIN usage'[v]}
      BY <2>2, <1>5, <1>7, <1>8 DEF Listed
    <3>2. \/ o = <<v, l.fn, l.param>>
          \/ \E n \in Listed(v) : \E p \in nodes[n].bits : o = <<v, nodes[n].fn, p>>
      BY <1>3, <1>12 DEF AtStake, UsesOf, l, v
    <3>3. PICK n : /\ n = l.node \/ n \in Listed(v)
                   /\ \E p \in nodes[n].bits : o = <<v, nodes[n].fn, p>>
      BY <3>2, <2>2, <1>5, <1>6
    <3>4. ASSUME NEW w \in Words, w = v PROVE o \in UsesOf(w)'
      BY <3>1, <3>3, <3>4, <1>1 DEF UsesOf, Listed
    <3>5. o \in Uses'
      BY <3>4, <1>4 DEF Uses
    <3> QED BY <3>5 DEF Accounted
  <2> QED BY <2>1, <2>2
<1> QED BY <1>1, <1>9, <1>10, <1>11, <1>12, CopiesStep

\* Lemma: the bit is set.
LEMMA OrBitCopies ==
  ASSUME MonitorType, RecordsInv, CopiesInv, NEW t \in Threads, OrBit(t)
  PROVE  CopiesInv'
<1> DEFINE l == local[t]  v == l.vtable  b == l.bits \cup {l.param}
<1>1. /\ pc[t] = "or" /\ Go(t, "params", Next4(l))
      /\ nodes' = [nodes EXCEPT ![l.node].bits = b]
      /\ usage' = usage /\ calledFrom' = calledFrom /\ observed' = observed /\ raced' = raced
  BY DEF OrBit, Running, NextParam, Next4, historyVars
<1>2. /\ pc'[t] = "params"
      /\ \A u \in Threads : u # t => pc'[u] = pc[u] /\ local'[u] = local[u]
  BY <1>1, GoLeaves
<1>3. Marking(t) /\ ~Inserting(t) /\ ~Inserting(t)' /\ ~Marking(t)'
  BY <1>1, <1>2 DEF Inserting, Marking
<1>4. v \in Words /\ nodes \in Seq(Node)
  BY LocalFields DEF MonitorType
<1>5. v \notin raced => l.node \in Listed(v) /\ l.bits = nodes[l.node].bits
  BY <1>1 DEF CopiesInv, WholeCopy
<1>6. nodes[l.node].fn = l.fn /\ nodes[l.node].vtable = v
  BY <1>1 DEF RecordsInv, LocalTrue
<1> HIDE DEF b, v
<1>7. ASSUME NEW k \in DOMAIN nodes
      PROVE  /\ k \in DOMAIN nodes'
             /\ nodes'[k].vtable = nodes[k].vtable /\ nodes'[k].fn = nodes[k].fn
             /\ nodes'[k].bits = IF k = l.node THEN b ELSE nodes[k].bits
             /\ k # l.node => nodes'[k] = nodes[k]
  <2>1. nodes[k] \in Node
    BY <1>4
  <2>2. nodes'[k] = IF k = l.node THEN [nodes[k] EXCEPT !.bits = b] ELSE nodes[k]
    BY <1>1
  <2> QED BY <1>1, <2>1, <2>2 DEF Node
<1>8. Apart(t)
  BY <1>1, <1>2, <1>3, <1>6, <1>7 DEF Apart, CallersOf, v
<1>9. OneAtList'
  BY <1>3, <1>8, OneAtListKept DEF CopiesInv, Stays
<1>10. WholeCopy(t)'
  BY <1>2, <1>3 DEF WholeCopy
<1>11. ASSUME NEW o \in observed, AtStake(t, o) PROVE Accounted(o)'
  <2>1. CASE v \in raced
    BY <2>1, <1>1, <1>3, <1>11 DEF AtStake, Accounted, UsesOf, v
  <2>2. CASE v \notin raced
    <3>1. PICK n \in Listed(v) : \/ n = l.node /\ o = <<v, l.fn, l.param>>
                                 \/ \E p \in nodes[n].bits : o = <<v, nodes[n].fn, p>>
      BY <2>2, <1>3, <1>5, <1>11 DEF AtStake, UsesOf, v
    <3>2. n \in DOMAIN nodes
      BY <1>4, <3>1 DEF RecordsInv, OfType, Listed
    <3>3. \E p \in nodes'[n].bits : o = <<v, nodes'[n].fn, p>>
      BY <2>2, <3>1, <3>2, <1>5, <1>6, <1>7 DEF b
    <3>4. ASSUME NEW w \in Words, w = v PROVE o \in UsesOf(w)'
      BY <3>1, <3>3, <3>4, <1>1 DEF UsesOf, Listed
    <3>5. o \in Uses'
      BY <3>4, <1>4 DEF Uses
    <3> QED BY <3>5 DEF Accounted
  <2> QED BY <2>1, <2>2
<1> QED BY <1>1, <1>8, <1>9, <1>10, <1>11, CopiesStep

\* Lemma: whatever a callback does.
LEMMA CallbackCopies ==
  ASSUME MonitorType, RecordsInv, CopiesInv, NEW t \in Threads, Callback(t)
  PROVE  CopiesInv'
<1>1. ASSUME pc[t] \in {"out", "params"} PROVE \A o : ~AtStake(t, o)
  BY <1>1 DEF AtStake, Inserting, Marking
<1>2. ASSUME NEW i \in DOMAIN functions, NEW r \in Registers, NEW from \in Callers,
             Hit(t, i, r, from)
      PROVE  CopiesInv'
  <2>1. \E where \in {"dispatch", "params"} : \E new : Go(t, where, new)
    BY <1>2 DEF Hit
  <2>2. pc[t] = "out" /\ UNCHANGED <<recordVars, historyVars>>
    BY <1>2 DEF Hit, Running
  <2> QED BY <2>1, <2>2, <1>1, QuietCopies
<1>3. CASE SkipParam(t) \/ ReadFaults(t) \/ Return(t)
  <2>1. \E where \in {"out", "params", "faulting"} : \E new : Go(t, where, new)
    BY <1>3 DEF SkipParam, ReadFaults, Return, NextParam
  <2>2. pc[t] = "params" /\ UNCHANGED <<recordVars, historyVars>>
    BY <1>3 DEF SkipParam, ReadFaults, Return, AtParam, Running
  <2> QED BY <2>1, <2>2, <1>1, QuietCopies
<1>4. CASE AddLost(t)
  <2>1. \E new : Go(t, "params", new)
    BY <1>4 DEF AddLost, NextParam
  <2>2. UNCHANGED <<recordVars, historyVars>>
    BY <1>4 DEF AddLost
  <2>3. \A o : AtStake(t, o) => o[1] \in raced
    BY <1>4 DEF AddLost, Running, AtStake, Inserting, Marking, CallersOf, UsesOf
  <2> QED BY <2>1, <2>2, <2>3, QuietCopies
<1> QED
  BY <1>2, <1>3, <1>4, DispatchCopies, InsertCopies, MatchCopies, EmplaceCopies, LinkCopies,
     ReadBitsCopies, OrBitCopies DEF Callback

-----------------------------------------------------------------------------
\* Lemma: what the log holds when it was written is what is recorded for good.
LEMMA LogStep == LogInv /\ [Next]_vars => LogInv'
<1> SUFFICES ASSUME LogInv, [Next]_vars PROVE LogInv'
  OBVIOUS
<1>1. ASSUME UNCHANGED <<nodes, usage, calledFrom, log, ended>> PROVE LogInv'
  BY <1>1 DEF LogInv, Uses, UsesOf, Listed
<1>2. ASSUME NEW t \in Threads, Callback(t) PROVE LogInv'
  BY <1>2 DEF Callback, Hit, Dispatch, Insert, SkipParam, ReadFaults, Match, Emplace, Link,
     AddLost, ReadBits, OrBit, Return, AtParam, Running, logVars, LogInv
<1>3. ASSUME NEW a \in HeapAddresses, NEW w \in Words, Write(a, w) PROVE LogInv'
  BY <1>1, <1>3 DEF Write, recordVars, logVars
<1>4. CASE Detach
  BY <1>4 DEF Detach, LogInv, recordVars, Uses, UsesOf, Listed
<1>5. CASE DetachFails
  BY <1>5 DEF DetachFails, LogInv
<1>6. CASE Discover /\ UNCHANGED monitorVars
  BY <1>1, <1>6 DEF monitorVars, recordVars, logVars
<1>7. CASE UNCHANGED vars
  BY <1>1, <1>7 DEF vars, monitorVars, recordVars, logVars
<1> QED BY <1>2, <1>3, <1>4, <1>5, <1>6, <1>7 DEF Next

CompleteInv == MonitorInv /\ CopiesInv /\ LogInv

\* Lemma: nothing is seen, recorded or written in the beginning.
LEMMA CompleteInit == Init => CompleteInv
<1> SUFFICES ASSUME Init PROVE CompleteInv
  OBVIOUS
<1>1. MonitorInv
  BY MonitorInit
<1>2. \A t \in Threads : ~Inserting(t) /\ ~Marking(t) /\ pc[t] \notin {"link", "read", "or"}
  BY DEF Init, Inserting, Marking
<1>3. CopiesInv
  BY <1>2 DEF CopiesInv, OneAtList, WholeCopy, Init
<1>4. LogInv
  BY DEF LogInv, Init
<1> QED BY <1>1, <1>3, <1>4 DEF CompleteInv

\* Lemma: every step keeps the copies whole and what was seen accounted for.
LEMMA CompleteStep == CompleteInv /\ [Next]_vars => CompleteInv'
<1> SUFFICES ASSUME CompleteInv, [Next]_vars PROVE CompleteInv'
  OBVIOUS
<1>1. MonitorInv' /\ LogInv'
  BY MonitorStep, LogStep DEF CompleteInv
<1>2. ASSUME UNCHANGED <<pc, local, recordVars, historyVars>> PROVE CopiesInv'
  BY <1>2 DEF recordVars, historyVars, CompleteInv, CopiesInv, OneAtList, WholeCopy, Accounted,
     Unfinished, Inserting, Marking, CallersOf, Uses, UsesOf, Listed
<1>3. ASSUME NEW t \in Threads, Callback(t) PROVE CopiesInv'
  BY <1>3, CallbackCopies DEF CompleteInv, MonitorInv
<1>4. ASSUME \/ Discover /\ UNCHANGED monitorVars
             \/ \E a \in HeapAddresses, w \in Words : Write(a, w)
             \/ Detach \/ DetachFails \/ UNCHANGED vars
      PROVE  CopiesInv'
  BY <1>2, <1>4 DEF vars, monitorVars, Write, Detach, DetachFails
<1> QED BY <1>1, <1>3, <1>4 DEF Next, CompleteInv

\* Theorem: what a thread read of a list it is alone with is what the list has, so
\* that its entry takes nothing away: the invariant behind the next theorem.
THEOREM RecordsKeptWhole == Spec => []CompleteInv
BY CompleteInit, CompleteStep, PTL DEF Spec

\* Theorem: the log has all that was seen of a type or of a function's callers
\* unless two threads worked on that very list at once (track_dynamic_dispatch,
\* mark_used, exfiltrate_all).
THEOREM NothingSeenIsMissing == Spec => []LogComplete
<1>1. CompleteInv => LogComplete
  BY DEF CompleteInv, CopiesInv, LogInv, Accounted, LogComplete
<1> QED BY <1>1, RecordsKeptWhole, PTL
=============================================================================
