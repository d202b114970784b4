-------------------------- MODULE TypeTracking_proofs --------------------------
(***************************************************************************)
(* Invariants of the function finder and of what the callbacks record, for  *)
(* any image, any number of threads and calls.                              *)
(***************************************************************************)
EXTENDS TypeTracking, SequenceTheorems, WellFoundedInduction, TLAPS

\* Lemma: a non-empty set of numbers has a least one.
LEMMA MinIn ==
  ASSUME NEW S, S \subseteq Nat, S # {}
  PROVE  Min(S) \in S /\ \A n \in S : Min(S) <= n
<1>1. PICK x \in S : \A y \in S : ~(<<y, x>> \in OpToRel(<, Nat))
  <2> HIDE DEF OpToRel
  <2> QED BY NatLessThanWellFounded, WFMin
<1>2. \A y \in S : x <= y
  <2> SUFFICES ASSUME NEW y \in S, y < x PROVE FALSE
    OBVIOUS
  <2>1. <<y, x>> \in Nat \X Nat /\ <<y, x>>[1] < <<y, x>>[2]
    OBVIOUS
  <2>2. <<y, x>> \in OpToRel(<, Nat)
    BY <2>1 DEF OpToRel
  <2> QED BY <2>2, <1>1
<1> QED BY <1>2 DEF Min

\* Lemma: what is left of a sequence without one of its elements.
LEMMA RemoveAtProperties ==
  ASSUME NEW S, NEW s \in Seq(S), NEW i \in 1 .. Len(s)
  PROVE  /\ Seqs!RemoveAt(s, i) \in Seq(S)
         /\ Len(Seqs!RemoveAt(s, i)) = Len(s) - 1
         /\ \A k \in 1 .. Len(s) - 1 :
              Seqs!RemoveAt(s, i)[k] = s[IF k < i THEN k ELSE k + 1]
<1> DEFINE front == SubSeq(s, 1, i - 1)  back == SubSeq(s, i + 1, Len(s))
<1>1. front \in Seq(S) /\ Len(front) = i - 1 /\ \A k \in 1 .. i - 1 : front[k] = s[k]
  BY SubSeqProperties
<1>2. back \in Seq(S) /\ Len(back) = Len(s) - i /\ \A k \in 1 .. Len(s) - i : back[k] = s[i + k]
  BY SubSeqProperties
<1> HIDE DEF front, back
<1>3. /\ front \o back \in Seq(S) /\ Len(front \o back) = Len(s) - 1
      /\ \A k \in 1 .. Len(s) - 1 :
           (front \o back)[k] = IF k <= i - 1 THEN front[k] ELSE back[k - (i - 1)]
  BY <1>1, <1>2, ConcatProperties
<1>4. Seqs!RemoveAt(s, i) = front \o back
  BY DEF Seqs!RemoveAt, front, back
<1>5. ASSUME NEW k \in 1 .. Len(s) - 1
      PROVE  (front \o back)[k] = s[IF k < i THEN k ELSE k + 1]
  <2>1. CASE k < i
    BY <2>1, <1>1, <1>3
  <2>2. CASE ~(k < i)
    <3>1. k - (i - 1) \in 1 .. Len(s) - i /\ i + (k - (i - 1)) = k + 1
      BY <2>2
    <3> QED BY <2>2, <3>1, <1>2, <1>3
  <2> QED BY <2>1, <2>2
<1> QED BY <1>3, <1>4, <1>5

-----------------------------------------------------------------------------
(***************************************************************************)
(* find_functions and find_rtti.                                            *)
(***************************************************************************)
\* No leaf function is listed twice, and those not merged yet are not in the list.
LeavesApart ==
  /\ \A i \in DOMAIN leaves : leaves[i].end = Null
  /\ \A i, j \in DOMAIN leaves : i # j => leaves[i].start # leaves[j].start
  /\ stage \in {"sweep", "merge"} =>
       \A i \in DOMAIN leaves, j \in DOMAIN functions :
         i >= pos \/ stage = "sweep" => leaves[i].start # functions[j].start

NothingYet == stage = "pdata" => functions = <<>> /\ leaves = <<>>

DiscoveryInv == DiscoveryTypeOK /\ FunctionsApart /\ LeavesApart /\ NothingYet

Decoded == [length : Nat \ {0}, call : Nat]

\* Lemma: the image is one of the constant's.
LEMMA ImageFacts ==
  ASSUME image \in Images
  PROVE  /\ image.module \in [start : Nat, end : Nat]
         /\ image.pdata \in Seq([start : Nat, end : Nat \ {0}])
         /\ \A i \in DOMAIN image.pdata : image.pdata[i].start < image.pdata[i].end
         /\ \A i, j \in DOMAIN image.pdata : i # j =>
              \/ image.pdata[i].end <= image.pdata[j].start
              \/ image.pdata[j].end <= image.pdata[i].start
         /\ \A a \in DOMAIN image.code : image.code[a] \in Decoded
BY ImagesAssumption DEF Decoded

\* Lemma: a leaf function is a function.
LEMMA LeafType ==
  ASSUME NEW a \in Nat
  PROVE  Leaf(a) \in Function /\ Leaf(a).start = a /\ Leaf(a).end = Null
BY DEF Leaf, Function, Null

\* Lemma: nothing is found in the beginning.
LEMMA DiscoveryInitInv == DiscoveryInit => DiscoveryInv
<1> SUFFICES ASSUME DiscoveryInit PROVE DiscoveryInv
  OBVIOUS
<1>1. functions \in Seq(Function) /\ leaves \in Seq(Function) /\ DOMAIN functions = {}
      /\ DOMAIN leaves = {}
  BY DEF DiscoveryInit
<1>2. DiscoveryTypeOK
  BY <1>1 DEF DiscoveryInit, DiscoveryTypeOK
<1>3. FunctionsApart /\ LeavesApart /\ NothingYet
  BY <1>1 DEF DiscoveryInit, FunctionsApart, LeavesApart, NothingYet
<1> QED BY <1>2, <1>3 DEF DiscoveryInv

\* Lemma: the functions of .pdata lie apart.
LEMMA PdataInv == DiscoveryInv /\ Pdata => DiscoveryInv'
<1> SUFFICES ASSUME DiscoveryInv, Pdata PROVE DiscoveryInv'
  OBVIOUS
<1>1. /\ image \in Images /\ image' = image
      /\ leaves' = <<>> /\ pos' = 1 /\ offset' = 0 /\ stage' = "sweep"
  BY DEF DiscoveryInv, DiscoveryTypeOK, NothingYet, Pdata, Begin
<1> DEFINE Entry == [start : Nat, end : Nat \ {0}]  m == image.module.start  p == image.pdata
<1>2. /\ m \in Nat /\ p \in Seq(Entry)
      /\ \A i \in DOMAIN p : p[i].start < p[i].end
      /\ \A i, j \in DOMAIN p : i # j => p[i].end <= p[j].start \/ p[j].end <= p[i].start
  BY <1>1, ImageFacts
<1>3. functions' = [i \in DOMAIN p |-> Frame(p[i])]
  BY DEF Pdata
<1>4. \A e : Frame(e) = [start |-> m + e.start, end |-> m + e.end, kind |-> "FRAME",
                        second |-> Null, dynamic |-> FALSE]
  BY DEF Frame
<1> HIDE DEF m, p
<1>5. ASSUME NEW e \in Entry, e.start < e.end
      PROVE  /\ Frame(e) \in Function /\ Frame(e).start < Frame(e).end
             /\ Frame(e).start = m + e.start /\ Frame(e).end = m + e.end
             /\ e.start \in Nat /\ e.end \in Nat
  <2>1. m + e.start \in Nat /\ m + e.end \in Nat /\ m + e.start < m + e.end
    BY <1>2, <1>5
  <2> QED BY <2>1, <1>4 DEF Function, Null
<1>6. ASSUME NEW i \in DOMAIN p
      PROVE  /\ functions'[i] \in Function /\ functions'[i].start < functions'[i].end
             /\ functions'[i].start = m + p[i].start /\ functions'[i].end = m + p[i].end
             /\ p[i].start \in Nat /\ p[i].end \in Nat /\ p[i].start < p[i].end
  <2> HIDE DEF Entry
  <2>1. p[i] \in Entry /\ p[i].start < p[i].end
    BY <1>2
  <2> QED BY <2>1, <1>3, <1>5
<1>7. DiscoveryTypeOK'
  <2>1. functions' \in Seq(Function)
    <3>1. DOMAIN p = 1 .. Len(p) /\ Len(p) \in Nat
      BY <1>2
    <3>2. \A i \in 1 .. Len(p) : functions'[i] \in Function
      BY <1>6, <3>1
    <3>3. functions' = [i \in 1 .. Len(p) |-> functions'[i]]
      BY <1>3, <3>1
    <3> QED BY <3>1, <3>2, <3>3
  <2>2. \A i \in DOMAIN functions' : functions'[i].start < functions'[i].end
    BY <1>3, <1>6
  <2>3. leaves' \in Seq(Function)
    BY <1>1
  <2> QED BY <1>1, <2>1, <2>2, <2>3 DEF DiscoveryTypeOK
<1>8. FunctionsApart'
  <2> SUFFICES ASSUME NEW i \in DOMAIN p, NEW j \in DOMAIN p, i # j
               PROVE  /\ functions'[i].start # functions'[j].start
                      /\ ~Contains(functions'[j], functions'[i].start)
    BY <1>3 DEF FunctionsApart
  <2>1. p[i].end <= p[j].start \/ p[j].end <= p[i].start
    BY <1>2
  <2>2. /\ m \in Nat /\ p[i].start \in Nat /\ p[j].start \in Nat
        /\ p[i].end \in Nat /\ p[j].end \in Nat
        /\ p[i].start < p[i].end /\ p[j].start < p[j].end
    BY <1>2, <1>6
  <2>3. /\ functions'[i].start = m + p[i].start
        /\ functions'[j].start = m + p[j].start /\ functions'[j].end = m + p[j].end
    BY <1>6
  <2> QED BY <2>1, <2>2, <2>3 DEF Contains
<1>9. LeavesApart' /\ NothingYet'
  BY <1>1 DEF LeavesApart, NothingYet
<1> QED BY <1>7, <1>8, <1>9 DEF DiscoveryInv

\* Lemma: a step that changes neither list keeps them apart.
LEMMA SameLists ==
  ASSUME DiscoveryInv, UNCHANGED listVars, UNCHANGED image,
         stage' = "sweep" => stage = "sweep",
         stage' = "merge" => stage = "sweep" \/ (stage = "merge" /\ pos' >= pos),
         stage' \in {"sweep", "merge", "process", "tables", "types", "done"},
         pos' \in Nat \ {0}, offset' \in Nat
  PROVE  DiscoveryInv'
<1>1. pos \in Nat /\ DOMAIN leaves = 1 .. Len(leaves) /\ Len(leaves) \in Nat
  BY DEF DiscoveryInv, DiscoveryTypeOK
<1>2. functions' = functions /\ leaves' = leaves /\ image' = image
  BY DEF listVars
<1>3. DiscoveryTypeOK'
  BY <1>2 DEF DiscoveryInv, DiscoveryTypeOK
<1>4. FunctionsApart' /\ NothingYet'
  BY <1>2 DEF DiscoveryInv, FunctionsApart, NothingYet
<1>5. LeavesApart'
  BY <1>1, <1>2 DEF DiscoveryInv, LeavesApart
<1> QED BY <1>3, <1>4, <1>5 DEF DiscoveryInv

\* Lemma: a leaf function is appended once, and only if it is no frame function.
LEMMA SweepInv == DiscoveryInv /\ Sweep => DiscoveryInv'
<1> SUFFICES ASSUME DiscoveryInv, Sweep PROVE DiscoveryInv'
  OBVIOUS
<1> DEFINE target == image.code[Ip].call
<1>1. /\ image \in Images /\ image' = image /\ functions' = functions /\ pos' = pos
      /\ stage = "sweep" /\ stage' = "sweep" /\ Ip \in DOMAIN image.code
      /\ leaves \in Seq(Function) /\ functions \in Seq(Function)
      /\ pos \in Nat \ {0} /\ offset \in Nat
  BY DEF DiscoveryInv, DiscoveryTypeOK, Sweep, At, Steps
<1>2. image.code[Ip] \in Decoded
  BY <1>1, ImageFacts
<1>3. target \in Nat /\ offset' \in Nat
  BY <1>1, <1>2 DEF Decoded, Sweep
<1>4. leaves' = IF NewTarget(target) THEN Append(leaves, Leaf(target)) ELSE leaves
  BY DEF Sweep
<1>5. Leaf(target) \in Function /\ Leaf(target).start = target /\ Leaf(target).end = Null
  BY <1>3, LeafType
<1> HIDE DEF target
<1>6. CASE ~NewTarget(target)
  <2>1. leaves' = leaves
    BY <1>4, <1>6
  <2>2. UNCHANGED listVars /\ UNCHANGED image
    BY <2>1, <1>1 DEF listVars
  <2>3. pos' >= pos
    BY <1>1
  <2> QED BY <2>2, <2>3, <1>1, <1>3, SameLists
<1>7. CASE NewTarget(target)
  <2>1. leaves' = Append(leaves, Leaf(target))
    BY <1>4, <1>7
  <2>2. /\ leaves' \in Seq(Function) /\ Len(leaves') = Len(leaves) + 1
        /\ leaves'[Len(leaves) + 1] = Leaf(target)
        /\ \A i \in 1 .. Len(leaves) : leaves'[i] = leaves[i]
        /\ Len(leaves) \in Nat
    BY <2>1, <1>1, <1>5
  <2>3. DOMAIN leaves' = 1 .. Len(leaves) + 1 /\ DOMAIN leaves = 1 .. Len(leaves)
    BY <2>2, <1>1
  <2>4. /\ \A i \in 1 .. Len(leaves) : leaves[i].start # target /\ leaves[i].end = Null
        /\ \A i \in DOMAIN functions : functions[i].start # target
    BY <1>7, <2>3 DEF NewTarget, DiscoveryInv, LeavesApart
  <2>5. DiscoveryTypeOK'
    BY <1>1, <1>3, <2>2 DEF DiscoveryInv, DiscoveryTypeOK
  <2>6. FunctionsApart' /\ NothingYet'
    BY <1>1 DEF DiscoveryInv, FunctionsApart, NothingYet
  <2>7. \A i, j \in DOMAIN leaves' : i # j => leaves'[i].start # leaves'[j].start
    <3>1. \A i, j \in 1 .. Len(leaves) : i # j => leaves[i].start # leaves[j].start
      BY <2>3 DEF DiscoveryInv, LeavesApart
    <3> QED BY <3>1, <2>2, <2>3, <2>4, <1>5
  <2>8. \A i \in DOMAIN leaves' : leaves'[i].end = Null
    BY <2>2, <2>3, <2>4, <1>5
  <2>9. \A i \in DOMAIN leaves', j \in DOMAIN functions : leaves'[i].start # functions[j].start
    <3>1. \A i \in 1 .. Len(leaves), j \in DOMAIN functions :
            leaves[i].start # functions[j].start
      BY <2>3, <1>1 DEF DiscoveryInv, LeavesApart
    <3> QED BY <3>1, <2>2, <2>3, <2>4, <1>5
  <2>10. LeavesApart'
    BY <2>7, <2>8, <2>9, <1>1 DEF LeavesApart
  <2> QED BY <2>5, <2>6, <2>10 DEF DiscoveryInv
<1> QED BY <1>6, <1>7

\* Lemma: what is merged starts in none of the functions whose end is known.
LEMMA MergeInv == DiscoveryInv /\ Merge => DiscoveryInv'
<1> SUFFICES ASSUME DiscoveryInv, Merge PROVE DiscoveryInv'
  OBVIOUS
<1>1. /\ image' = image /\ leaves' = leaves /\ offset' = offset /\ pos' = pos + 1
      /\ stage = "merge" /\ stage' = "merge"
      /\ leaves \in Seq(Function) /\ functions \in Seq(Function)
      /\ pos \in Nat \ {0} /\ offset \in Nat /\ pos \in DOMAIN leaves
  BY DEF DiscoveryInv, DiscoveryTypeOK, Merge
<1> DEFINE leaf == leaves[pos]
<1>2. leaf \in Function /\ leaf.end = Null
  BY <1>1 DEF DiscoveryInv, LeavesApart
<1>3. functions' = IF InsideKnown(leaf) THEN functions ELSE Append(functions, leaf)
  BY DEF Merge
<1>4. \A j \in DOMAIN functions : leaf.start # functions[j].start
  BY <1>1 DEF DiscoveryInv, LeavesApart
<1>5. \A i \in DOMAIN leaves : i # pos => leaf.start # leaves[i].start
  BY <1>1 DEF DiscoveryInv, LeavesApart
<1> HIDE DEF leaf
<1>6. CASE InsideKnown(leaf)
  <2>1. UNCHANGED listVars /\ UNCHANGED image
    BY <1>1, <1>3, <1>6 DEF listVars
  <2>2. pos' \in Nat \ {0} /\ pos' >= pos
    BY <1>1
  <2> QED BY <2>1, <2>2, <1>1, SameLists
<1>7. CASE ~InsideKnown(leaf)
  <2>1. functions' = Append(functions, leaf)
    BY <1>3, <1>7
  <2> DEFINE n == Len(functions) + 1
  <2>2. /\ functions' \in Seq(Function) /\ n \in Nat /\ DOMAIN functions' = 1 .. n
        /\ functions'[n] = leaf
        /\ \A i \in 1 .. n - 1 : functions'[i] = functions[i]
        /\ DOMAIN functions = 1 .. n - 1
    BY <2>1, <1>1, <1>2
  <2>3. \A j \in 1 .. n - 1 : functions[j].end # Null => ~Contains(functions[j], leaf.start)
    BY <1>7, <2>2 DEF InsideKnown
  <2>4. /\ \A i \in 1 .. n - 1 : functions[i].end # Null => functions[i].start < functions[i].end
        /\ \A i, j \in 1 .. n - 1 : i # j =>
             /\ functions[i].start # functions[j].start
             /\ functions[j].end # Null => ~Contains(functions[j], functions[i].start)
    BY <2>2 DEF DiscoveryInv, DiscoveryTypeOK, FunctionsApart
  <2> HIDE DEF n
  <2>5. DiscoveryTypeOK'
    <3>1. \A i \in DOMAIN functions' :
            functions'[i].end # Null => functions'[i].start < functions'[i].end
      BY <2>2, <2>4, <1>2
    <3>2. pos' \in Nat \ {0} /\ offset' \in Nat
      BY <1>1
    <3> QED BY <3>1, <3>2, <2>2, <1>1 DEF DiscoveryInv, DiscoveryTypeOK
  <2>6. FunctionsApart'
    <3> SUFFICES ASSUME NEW i \in 1 .. n, NEW j \in 1 .. n, i # j
                 PROVE  /\ functions'[i].start # functions'[j].start
                        /\ functions'[j].end # Null =>
                             ~Contains(functions'[j], functions'[i].start)
      BY <2>2 DEF FunctionsApart
    <3>1. CASE i = n
      <4>1. j \in 1 .. n - 1
        BY <3>1, <2>2
      <4> QED BY <3>1, <4>1, <2>2, <2>3, <1>4
    <3>2. CASE j = n
      <4>1. i \in 1 .. n - 1
        BY <3>2, <2>2
      <4> QED BY <3>2, <4>1, <2>2, <1>2, <1>4
    <3>3. CASE i # n /\ j # n
      <4>1. i \in 1 .. n - 1 /\ j \in 1 .. n - 1
        BY <3>3, <2>2
      <4> QED BY <4>1, <2>2, <2>4
    <3> QED BY <3>1, <3>2, <3>3
  <2>7. LeavesApart'
    <3>1. ASSUME NEW i \in DOMAIN leaves, NEW j \in 1 .. n, i >= pos'
          PROVE  leaves[i].start # functions'[j].start
      <4>1. i >= pos /\ i # pos
        BY <3>1, <1>1
      <4>2. CASE j = n
        BY <4>1, <4>2, <1>5, <2>2
      <4>3. CASE j # n
        <5>1. j \in DOMAIN functions /\ functions'[j] = functions[j]
          BY <4>3, <2>2
        <5> QED BY <5>1, <4>1, <1>1 DEF DiscoveryInv, LeavesApart
      <4> QED BY <4>2, <4>3
    <3>2. /\ \A i \in DOMAIN leaves : leaves[i].end = Null
          /\ \A i, j \in DOMAIN leaves : i # j => leaves[i].start # leaves[j].start
      BY DEF DiscoveryInv, LeavesApart
    <3> QED BY <3>1, <3>2, <2>2, <1>1 DEF LeavesApart
  <2>8. NothingYet'
    BY <1>1 DEF NothingYet
  <2> QED BY <2>5, <2>6, <2>7, <2>8 DEF DiscoveryInv
<1> QED BY <1>6, <1>7

\* Lemma: the list stays apart when its functions keep their bounds, or one goes.
LEMMA FewerFunctions ==
  ASSUME DiscoveryInv, functions' \in Seq(Function), Len(functions') <= Len(functions),
         NEW from \in [DOMAIN functions' -> DOMAIN functions],
         \A i, j \in DOMAIN functions' : i # j => from[i] # from[j],
         \A i \in DOMAIN functions' : /\ functions'[i].start = functions[from[i]].start
                                      /\ functions'[i].end = functions[from[i]].end,
         UNCHANGED image, UNCHANGED leaves,
         stage' \in {"process", "types"}, pos' \in Nat \ {0}, offset' \in Nat
  PROVE  DiscoveryInv'
<1>1. /\ \A i \in DOMAIN functions : functions[i].end # Null => functions[i].start < functions[i].end
      /\ \A i, j \in DOMAIN functions : i # j =>
           /\ functions[i].start # functions[j].start
           /\ functions[j].end # Null => ~Contains(functions[j], functions[i].start)
  BY DEF DiscoveryInv, DiscoveryTypeOK, FunctionsApart
<1>2. \A i \in DOMAIN functions' : from[i] \in DOMAIN functions
  OBVIOUS
<1>3. \A i \in DOMAIN functions' :
        functions'[i].end # Null => functions'[i].start < functions'[i].end
  BY <1>1, <1>2
<1>4. DiscoveryTypeOK'
  BY <1>3 DEF DiscoveryInv, DiscoveryTypeOK
<1>5. FunctionsApart'
  BY <1>1, <1>2 DEF FunctionsApart, Contains
<1>6. LeavesApart' /\ NothingYet'
  BY DEF DiscoveryInv, LeavesApart, NothingYet
<1> QED BY <1>4, <1>5, <1>6 DEF DiscoveryInv

\* Lemma: the second instruction is noted.
LEMMA ProcessInv == DiscoveryInv /\ Process => DiscoveryInv'
<1> SUFFICES ASSUME DiscoveryInv, Process PROVE DiscoveryInv'
  OBVIOUS
<1>1. /\ image \in Images /\ image' = image /\ leaves' = leaves /\ offset' = offset
      /\ stage' = "process" /\ pos' = pos + 1 /\ offset \in Nat
      /\ functions \in Seq(Function) /\ pos \in Nat \ {0} /\ pos \in DOMAIN functions
      /\ Ip \in DOMAIN image.code
  BY DEF DiscoveryInv, DiscoveryTypeOK, Process, At, Steps
<1>2. image.code[Ip] \in Decoded /\ functions[pos] \in Function
  BY <1>1, ImageFacts
<1> DEFINE second == Ip + image.code[Ip].length
<1>3. second \in Nat
  BY <1>1, <1>2 DEF Decoded, Ip, Function
<1>4. functions' = [functions EXCEPT ![pos].second = second]
  BY DEF Process
<1> HIDE DEF second
<1>5. /\ DOMAIN functions' = DOMAIN functions
      /\ \A i \in DOMAIN functions :
           /\ functions'[i] \in Function
           /\ functions'[i].start = functions[i].start /\ functions'[i].end = functions[i].end
  <2> SUFFICES ASSUME NEW i \in DOMAIN functions
               PROVE  /\ functions'[i] \in Function
                      /\ functions'[i].start = functions[i].start
                      /\ functions'[i].end = functions[i].end
    BY <1>4
  <2>1. functions[i] \in Function
    BY <1>1
  <2>2. functions'[i] = IF i = pos THEN [functions[i] EXCEPT !.second = second] ELSE functions[i]
    BY <1>1, <1>4
  <2> QED BY <2>1, <2>2, <1>3 DEF Function
<1>6. functions' \in Seq(Function) /\ Len(functions') <= Len(functions)
  <2>1. DOMAIN functions = 1 .. Len(functions) /\ Len(functions) \in Nat
    BY <1>1
  <2>2. functions' = [i \in 1 .. Len(functions) |-> functions'[i]]
    BY <1>4, <1>5, <2>1
  <2> QED BY <1>5, <2>1, <2>2
<1> DEFINE from == [i \in DOMAIN functions' |-> i]
<1>7. /\ from \in [DOMAIN functions' -> DOMAIN functions]
      /\ \A i, j \in DOMAIN functions' : i # j => from[i] # from[j]
      /\ \A i \in DOMAIN functions' : /\ functions'[i].start = functions[from[i]].start
                                      /\ functions'[i].end = functions[from[i]].end
  BY <1>5
<1> HIDE DEF from
<1>8. pos' \in Nat \ {0} /\ offset' \in Nat
  BY <1>1
<1> QED BY <1>1, <1>6, <1>7, <1>8, FewerFunctions

\* Lemma: a function that does not decode is erased.
LEMMA EraseInv == DiscoveryInv /\ Erase => DiscoveryInv'
<1> SUFFICES ASSUME DiscoveryInv, Erase PROVE DiscoveryInv'
  OBVIOUS
<1>1. /\ image' = image /\ leaves' = leaves /\ offset' = offset /\ pos' = pos
      /\ stage' = "process" /\ offset \in Nat
      /\ functions \in Seq(Function) /\ pos \in Nat \ {0} /\ pos \in 1 .. Len(functions)
      /\ functions' = Seqs!RemoveAt(functions, pos)
  BY DEF DiscoveryInv, DiscoveryTypeOK, Erase, At
<1> DEFINE n == Len(functions)  from == [i \in 1 .. n - 1 |-> IF i < pos THEN i ELSE i + 1]
<1>2. /\ functions' \in Seq(Function) /\ Len(functions') = n - 1 /\ n \in Nat
      /\ \A k \in 1 .. n - 1 : functions'[k] = functions[IF k < pos THEN k ELSE k + 1]
  BY <1>1, RemoveAtProperties
<1>3. DOMAIN functions' = 1 .. n - 1 /\ DOMAIN functions = 1 .. n
  BY <1>1, <1>2
<1> HIDE DEF n
<1>4. /\ from \in [1 .. n - 1 -> 1 .. n]
      /\ \A i, j \in 1 .. n - 1 : i # j => from[i] # from[j]
      /\ \A i \in 1 .. n - 1 : functions'[i] = functions[from[i]]
  BY <1>1, <1>2
<1> HIDE DEF from
<1>5. /\ Len(functions') <= Len(functions) /\ functions' \in Seq(Function)
      /\ pos' \in Nat \ {0} /\ offset' \in Nat /\ stage' \in {"process", "types"}
  BY <1>1, <1>2 DEF n
<1>6. /\ from \in [DOMAIN functions' -> DOMAIN functions]
      /\ \A i, j \in DOMAIN functions' : i # j => from[i] # from[j]
      /\ \A i \in DOMAIN functions' : /\ functions'[i].start = functions[from[i]].start
                                      /\ functions'[i].end = functions[from[i]].end
  BY <1>3, <1>4
<1> QED BY <1>1, <1>5, <1>6, FewerFunctions

\* Lemma: functions are marked as dynamic.
LEMMA AddTypeInv == DiscoveryInv /\ AddType => DiscoveryInv'
<1> SUFFICES ASSUME DiscoveryInv, AddType PROVE DiscoveryInv'
  OBVIOUS
<1>1. /\ image' = image /\ leaves' = leaves /\ offset' = offset /\ pos' = pos
      /\ stage' = "types" /\ offset \in Nat /\ pos \in Nat \ {0}
      /\ functions \in Seq(Function)
  BY DEF DiscoveryInv, DiscoveryTypeOK, AddType
<1>2. PICK found : functions' = [i \in DOMAIN functions |->
                     [functions[i] EXCEPT !.dynamic = @ \/ i \in found]]
  BY DEF AddType
<1>3. ASSUME NEW i \in DOMAIN functions
      PROVE  /\ functions'[i] \in Function
             /\ functions'[i].start = functions[i].start /\ functions'[i].end = functions[i].end
  <2>1. functions[i] \in Function
    BY <1>1
  <2>2. functions'[i] = [functions[i] EXCEPT !.dynamic = functions[i].dynamic \/ i \in found]
    BY <1>2
  <2>3. (functions[i].dynamic \/ i \in found) \in BOOLEAN
    OBVIOUS
  <2> QED BY <2>1, <2>2, <2>3 DEF Function
<1>4. functions' \in Seq(Function) /\ Len(functions') <= Len(functions)
      /\ DOMAIN functions' = DOMAIN functions
  <2>1. DOMAIN functions = 1 .. Len(functions) /\ Len(functions) \in Nat
    BY <1>1
  <2>2. functions' = [i \in 1 .. Len(functions) |-> functions'[i]]
    BY <1>2, <2>1
  <2> QED BY <1>2, <1>3, <2>1, <2>2
<1> DEFINE from == [i \in DOMAIN functions' |-> i]
<1>5. /\ from \in [DOMAIN functions' -> DOMAIN functions]
      /\ \A i, j \in DOMAIN functions' : i # j => from[i] # from[j]
      /\ \A i \in DOMAIN functions' : /\ functions'[i].start = functions[from[i]].start
                                      /\ functions'[i].end = functions[from[i]].end
  BY <1>3, <1>4
<1> HIDE DEF from
<1> QED BY <1>1, <1>4, <1>5, FewerFunctions

\* Lemma: the other steps change neither list.
LEMMA WalkInv ==
  ASSUME DiscoveryInv,
         \/ SweepNext \/ SweepEnd \/ MergeEnd \/ ProcessEnd
         \/ AddTable \/ SkipSlot \/ TablesEnd \/ TypesEnd
  PROVE  DiscoveryInv'
<1>1. pos \in Nat \ {0} /\ offset \in Nat
  BY DEF DiscoveryInv, DiscoveryTypeOK
<1>2. UNCHANGED listVars /\ UNCHANGED image
  BY DEF SweepNext, SweepEnd, MergeEnd, ProcessEnd, AddTable, SkipSlot, TablesEnd, TypesEnd
<1>3. pos' \in Nat \ {0} /\ offset' \in Nat
  BY <1>1 DEF SweepNext, SweepEnd, MergeEnd, ProcessEnd, AddTable, SkipSlot, TablesEnd,
              TypesEnd, Begin
<1>4. /\ stage' \in {"sweep", "merge", "process", "tables", "types", "done"}
      /\ stage' = "sweep" => stage = "sweep"
      /\ stage' = "merge" => stage = "sweep"
  BY DEF SweepNext, SweepEnd, MergeEnd, ProcessEnd, AddTable, SkipSlot, TablesEnd,
         TypesEnd, Begin, At
<1> QED BY <1>2, <1>3, <1>4, SameLists

\* Lemma: the invariant of the function finder is inductive.
LEMMA DiscoveryStep == DiscoveryInv /\ [Discover]_discoveryVars => DiscoveryInv'
<1> SUFFICES ASSUME DiscoveryInv, [Discover]_discoveryVars PROVE DiscoveryInv'
  OBVIOUS
<1>1. CASE UNCHANGED discoveryVars
  BY <1>1 DEF discoveryVars, listVars, tableVars, DiscoveryInv, DiscoveryTypeOK,
              FunctionsApart, LeavesApart, NothingYet, Contains
<1>2. CASE Discover
  BY <1>2, PdataInv, SweepInv, MergeInv, ProcessInv, EraseInv, AddTypeInv, WalkInv
     DEF Discover, FindFunctions, FindRtti
<1> QED BY <1>1, <1>2

\* Lemma: while the target runs nothing that was found changes.
LEMMA StepsDiscover == [Next]_vars => [Discover]_discoveryVars
BY DEF Next, vars, Callback, Hit, Dispatch, Insert, SkipParam, ReadFaults, Match, Emplace,
       Link, AddLost, ReadBits, OrBit, Return, Write, Detach, DetachFails

\* Theorem: no function is listed twice, and none starts within another one whose
\* end is known, for every image whose .pdata entries lie apart (find_functions).
THEOREM FunctionsListedOnce == Spec => []FunctionsApart
<1>1. Init => DiscoveryInv
  BY DiscoveryInitInv DEF Init
<1>2. DiscoveryInv /\ [Next]_vars => DiscoveryInv'
  BY StepsDiscover, DiscoveryStep
<1>3. DiscoveryInv => FunctionsApart
  BY DEF DiscoveryInv
<1> QED BY <1>1, <1>2, <1>3, PTL DEF Spec

-----------------------------------------------------------------------------
(***************************************************************************)
(* The callbacks.                                                           *)
(***************************************************************************)
MonitorType ==
  /\ heap \in [HeapAddresses -> Words]
  /\ pc \in [Threads -> Places] /\ local \in [Threads -> Local]
  /\ nodes \in Seq(Node) /\ usage \in [Words -> Seq(Nat)]
  /\ calledFrom \subseteq Nat \X Nat
  /\ ended \in {"no", "written", "lost"}

\* Lemma: TypeOK in two parts.
LEMMA TypeParts == TypeOK <=> DiscoveryTypeOK /\ MonitorType
BY DEF TypeOK, MonitorType

\* Lemma: what a thread's step leaves of the threads.
LEMMA GoFacts ==
  ASSUME MonitorType, NEW t \in Threads, NEW where \in Places, NEW new \in Local,
         Go(t, where, new)
  PROVE  /\ pc' \in [Threads -> Places] /\ local' \in [Threads -> Local]
         /\ pc'[t] = where /\ local'[t] = new
         /\ \A u \in Threads : u # t => pc'[u] = pc[u] /\ local'[u] = local[u]
BY DEF MonitorType, Go

\* Lemma: lookup_alloc leads to memory.
LEMMA KnownIsHeap ==
  ASSUME NEW p \in Nat, Known(p)
  PROVE  p \in HeapAddresses
<1>1. PICK b \in Allocations : Contains(b, p)
  BY DEF Known
<1>2. b.start \in Nat /\ b.end \in Nat
  BY TrackingAssumption
<1>3. p \in b.start .. (b.end - 1)
  BY <1>1, <1>2 DEF Contains
<1> QED BY <1>3 DEF HeapAddresses

\* Lemma: the fields of a callback's locals.
LEMMA LocalFields ==
  ASSUME NEW l \in Local
  PROVE  /\ l.fn \in Nat /\ l.args \in [Params -> Nat] /\ l.from \in Nat /\ l.param \in 0 .. 4
         /\ l.vtable \in Words /\ l.node \in Nat /\ l.list \in Seq(Nat)
         /\ l.bits \in SUBSET Params /\ l.callers \in SUBSET (Nat \X Nat)
         /\ \A c \in SUBSET (Nat \X Nat) : [l EXCEPT !.callers = c] \in Local
         /\ \A b \in SUBSET Params : [l EXCEPT !.bits = b] \in Local
         /\ \A v \in Words, n \in Nat : [l EXCEPT !.vtable = v, !.node = n] \in Local
         /\ \A n \in Nat, s \in Seq(Nat) : [l EXCEPT !.node = n, !.list = s] \in Local
BY DEF Local

Next4(l) == [l EXCEPT !.param = @ + 1, !.vtable = Null, !.node = 0, !.list = <<>>, !.bits = {}]

\* Lemma: the next parameter.
LEMMA NextParamType ==
  ASSUME NEW l \in Local, l.param \in Params
  PROVE  Next4(l) \in Local
<1>1. l.param + 1 \in 0 .. 4 /\ Null \in Words /\ <<>> \in Seq(Nat) /\ 0 \in Nat
  BY TrackingAssumption DEF Params
<1> QED BY <1>1 DEF Local, Next4

\* Lemma: the argument of a callback is a number.
LEMMA ArgType ==
  ASSUME MonitorType, NEW t \in Threads, local[t].param \in Params
  PROVE  Arg(t) \in Nat
<1>1. local[t] \in Local
  BY DEF MonitorType
<1> QED BY <1>1, LocalFields DEF Arg

\* Every node has a bit, and each of its bits was seen.
NodesTrue ==
  \A n \in DOMAIN nodes :
    /\ nodes[n].bits # {}
    /\ \A p \in nodes[n].bits : <<nodes[n].vtable, nodes[n].fn, p>> \in observed

\* Nodes of the list of a type.
OfType(list, v) ==
  \A i \in DOMAIN list : list[i] \in DOMAIN nodes /\ nodes[list[i]].vtable = v

\* What a callback holds between two steps.
LocalTrue(t) ==
  LET l == local[t] IN
  /\ Marking(t) => l.param \in Params /\ <<l.vtable, l.fn, l.param>> \in observed
  /\ pc[t] = "link" =>
       /\ l.node \in DOMAIN nodes /\ nodes[l.node].vtable = l.vtable
       /\ nodes[l.node].fn = l.fn
       /\ OfType(l.list, l.vtable)
  /\ pc[t] \in {"read", "or"} =>
       /\ l.node \in DOMAIN nodes /\ nodes[l.node].vtable = l.vtable
       /\ nodes[l.node].fn = l.fn
  /\ pc[t] = "or" => \A p \in l.bits : <<l.vtable, l.fn, p>> \in observed
  /\ pc[t] = "insert" => <<l.fn, l.from>> \in observed /\ l.callers \subseteq observed

RecordsInv ==
  /\ NodesTrue
  /\ \A v \in Words : OfType(usage[v], v)
  /\ calledFrom \subseteq observed
  /\ \A t \in Threads : LocalTrue(t)

\* Lemma: mark_used finds a node of the list, of that function, or none.
LEMMA FindUseNode ==
  ASSUME MonitorType, RecordsInv, NEW v \in Words, NEW fn
  PROVE  /\ FindUse(v, fn) \in Nat
         /\ FindUse(v, fn) # 0 =>
              /\ FindUse(v, fn) \in Listed(v) /\ FindUse(v, fn) \in DOMAIN nodes
              /\ nodes[FindUse(v, fn)].fn = fn /\ nodes[FindUse(v, fn)].vtable = v
<1> DEFINE found == {i \in DOMAIN usage[v] : nodes[usage[v][i]].fn = fn}
<1>1. FindUse(v, fn) = IF found = {} THEN 0 ELSE usage[v][Min(found)]
  BY DEF FindUse
<1>2. usage[v] \in Seq(Nat) /\ OfType(usage[v], v)
  BY DEF MonitorType, RecordsInv
<1>3. CASE found = {}
  BY <1>1, <1>3
<1>4. CASE found # {}
  <2>1. found \subseteq Nat
    BY <1>2
  <2>2. Min(found) \in found
    <3> HIDE DEF found
    <3> QED BY <2>1, <1>4, MinIn
  <2>3. Min(found) \in DOMAIN usage[v] /\ nodes[usage[v][Min(found)]].fn = fn
    BY <2>2
  <2> DEFINE i == Min(found)
  <2> HIDE DEF i
  <2>4. i \in DOMAIN usage[v] /\ nodes[usage[v][i]].fn = fn /\ FindUse(v, fn) = usage[v][i]
    BY <2>3, <1>1, <1>4 DEF i
  <2>5. usage[v][i] \in Nat /\ usage[v][i] \in DOMAIN nodes /\ nodes[usage[v][i]].vtable = v
    BY <2>4, <1>2 DEF OfType
  <2> QED BY <2>4, <2>5 DEF Listed
<1> QED BY <1>3, <1>4

\* Lemma: find_function leads to a function.
LEMMA HitType ==
  ASSUME DiscoveryTypeOK, NEW i \in DOMAIN functions
  PROVE  functions[FindFunction(functions[i].start)].start \in Nat
<1> DEFINE same == {j \in DOMAIN functions : functions[j].start = functions[i].start}
<1>1. functions \in Seq(Function)
  BY DEF DiscoveryTypeOK
<1>2. same \subseteq Nat /\ same # {}
  BY <1>1
<1>3. Min(same) \in same
  <2> HIDE DEF same
  <2> QED BY <1>2, MinIn
<1>4. FindFunction(functions[i].start) = Min(same)
  BY <1>2 DEF FindFunction
<1>5. FindFunction(functions[i].start) \in DOMAIN functions
  BY <1>3, <1>4
<1> DEFINE k == FindFunction(functions[i].start)
<1>6. k \in DOMAIN functions
  BY <1>5
<1> HIDE DEF k
<1>7. functions[k] \in Function
  BY <1>1, <1>6
<1>8. functions[k].start \in Nat
  BY <1>7 DEF Function
<1> QED BY <1>8 DEF k

\* Lemma: the callbacks keep the types.
LEMMA CallbackType ==
  ASSUME DiscoveryTypeOK, MonitorType, RecordsInv, NEW t \in Threads, Callback(t)
  PROVE  MonitorType'
<1> DEFINE l == local[t]
<1>1. l \in Local /\ pc[t] \in Places
  BY DEF MonitorType
<1>2. ASSUME NEW where \in Places, NEW new \in Local, Go(t, where, new)
      PROVE  pc' \in [Threads -> Places] /\ local' \in [Threads -> Local]
  BY <1>2, GoFacts
<1>3. ASSUME NextParam(t), l.param \in Params
      PROVE  pc' \in [Threads -> Places] /\ local' \in [Threads -> Local]
  <2>1. Go(t, "params", Next4(l))
    BY <1>3 DEF NextParam, Next4
  <2> QED BY <2>1, <1>1, <1>2, <1>3, NextParamType DEF Places
<1>4. NoCall \in Local
  BY TrackingAssumption DEF NoCall, Local, Null, Params
<1>5. Marking(t) => l.param \in Params
  BY DEF RecordsInv, LocalTrue
<1> HIDE DEF l
<1>6. ASSUME NEW i \in DOMAIN functions, NEW r \in Registers, NEW from \in Callers,
             Hit(t, i, r, from)
      PROVE  MonitorType'
  <2> DEFINE fn == functions[FindFunction(functions[i].start)]
             new == [NoCall EXCEPT !.fn = fn.start, !.args = r, !.from = from]
             where == IF fn.dynamic THEN "dispatch" ELSE "params"
  <2>1. fn.start \in Nat /\ r \in [Params -> Nat] /\ from \in Nat
    BY HitType, TrackingAssumption
  <2>2. new \in Local
    <3> HIDE DEF fn
    <3> QED BY <2>1, <1>4 DEF NoCall, Local
  <2>3. where \in Places
    BY DEF Places
  <2>4. Go(t, where, new)
    BY <1>6 DEF Hit
  <2> HIDE DEF new, where
  <2>5. pc' \in [Threads -> Places] /\ local' \in [Threads -> Local]
    BY <2>2, <2>3, <2>4, <1>2
  <2> QED BY <2>5, <1>6 DEF Hit, MonitorType, recordVars, logVars
<1>7. CASE Dispatch(t)
  <2> DEFINE c == {d \in calledFrom : d[1] = l.fn}
  <2>1. Go(t, "insert", [l EXCEPT !.callers = c])
    BY <1>7 DEF Dispatch, l
  <2>2. c \in SUBSET (Nat \X Nat)
    BY DEF MonitorType
  <2> HIDE DEF c
  <2>3. pc' \in [Threads -> Places] /\ local' \in [Threads -> Local]
    BY <2>1, <2>2, <1>1, <1>2, LocalFields DEF Places
  <2> QED BY <2>3, <1>7 DEF Dispatch, MonitorType, recordVars, logVars, targetVars
<1>8. CASE Insert(t)
  <2>1. Go(t, "params", [l EXCEPT !.callers = {}])
        /\ calledFrom' = {c \in calledFrom : c[1] # l.fn} \cup l.callers \cup {<<l.fn, l.from>>}
    BY <1>8 DEF Insert, l
  <2>2. pc' \in [Threads -> Places] /\ local' \in [Threads -> Local]
    BY <2>1, <1>1, <1>2, LocalFields DEF Places
  <2>3. calledFrom \subseteq Nat \X Nat
    BY DEF MonitorType
  <2>4. l.callers \subseteq Nat \X Nat /\ l.fn \in Nat /\ l.from \in Nat
    BY <1>1, LocalFields
  <2>5. <<l.fn, l.from>> \in Nat \X Nat
    BY <2>4
  <2>6. calledFrom' \subseteq Nat \X Nat
    BY <2>1, <2>3, <2>4, <2>5
  <2> QED BY <2>2, <2>6, <1>8 DEF Insert, MonitorType, logVars, targetVars
<1>9. CASE SkipParam(t)
  <2>1. pc' \in [Threads -> Places] /\ local' \in [Threads -> Local]
    BY <1>9, <1>3 DEF SkipParam, AtParam, l
  <2> QED BY <2>1, <1>9 DEF SkipParam, MonitorType, recordVars, logVars, targetVars
<1>10. CASE ReadFaults(t)
  <2>1. pc' \in [Threads -> Places] /\ local' \in [Threads -> Local]
    BY <1>10, <1>1, <1>2 DEF ReadFaults, l, Places
  <2> QED BY <2>1, <1>10 DEF ReadFaults, MonitorType, recordVars, logVars, targetVars
<1>11. CASE Match(t)
  <2> DEFINE v == heap[Arg(t)]  node == FindUse(v, l.fn)
             where == IF node = 0 THEN "emplace" ELSE "read"
  <2>1. /\ AtParam(t) /\ Known(Arg(t))
        /\ Go(t, where, [l EXCEPT !.vtable = v, !.node = node])
    BY <1>11 DEF Match, l
  <2>2. v \in Words
    BY <2>1, ArgType, KnownIsHeap DEF AtParam, MonitorType
  <2>3. node \in Nat
    BY <2>2, FindUseNode
  <2>4. where \in Places
    BY DEF Places
  <2> HIDE DEF v, node, where
  <2>5. pc' \in [Threads -> Places] /\ local' \in [Threads -> Local]
    BY <2>1, <2>2, <2>3, <2>4, <1>1, <1>2, LocalFields
  <2> QED BY <2>5, <1>11 DEF Match, MonitorType, recordVars, logVars, targetVars
<1>12. CASE Emplace(t)
  <2> DEFINE n == [vtable |-> l.vtable, fn |-> l.fn, bits |-> {l.param}]
  <2>1. /\ Go(t, "link", [l EXCEPT !.node = Len(nodes) + 1, !.list = usage[l.vtable]])
        /\ nodes' = Append(nodes, n) /\ pc[t] = "emplace"
    BY <1>12 DEF Emplace, l, Running
  <2>2. Len(nodes) + 1 \in Nat /\ usage[l.vtable] \in Seq(Nat)
    <3>1. nodes \in Seq(Node) /\ usage \in [Words -> Seq(Nat)]
      BY DEF MonitorType
    <3>2. Len(nodes) \in Nat
      BY <3>1
    <3>3. l.vtable \in Words
      BY <1>1, LocalFields
    <3> QED BY <3>1, <3>2, <3>3
  <2>3. pc' \in [Threads -> Places] /\ local' \in [Threads -> Local]
    BY <2>1, <2>2, <1>1, <1>2, LocalFields DEF Places
  <2>4. l.param \in Params
    BY <2>1, <1>5 DEF Marking
  <2>5. n \in Node
    BY <2>4, <1>1, LocalFields DEF Node
  <2> HIDE DEF n
  <2>6. nodes' \in Seq(Node)
    BY <2>1, <2>5 DEF MonitorType
  <2> QED BY <2>3, <2>6, <1>12 DEF Emplace, MonitorType, logVars, targetVars
<1>13. CASE Link(t)
  <2>1. /\ usage' = [usage EXCEPT ![l.vtable] = Append(l.list, l.node)]
        /\ NextParam(t) /\ pc[t] = "link"
    BY <1>13 DEF Link, l, Running
  <2>2. pc' \in [Threads -> Places] /\ local' \in [Threads -> Local]
    BY <2>1, <1>3, <1>5 DEF Marking
  <2>3. Append(l.list, l.node) \in Seq(Nat)
    <3>1. l.list \in Seq(Nat) /\ l.node \in Nat
      BY <1>1, LocalFields
    <3> QED BY <3>1
  <2>4. usage' \in [Words -> Seq(Nat)]
    BY <2>1, <2>3 DEF MonitorType
  <2> QED BY <2>2, <2>4, <1>13 DEF Link, MonitorType, logVars, targetVars
<1>14. CASE ReadBits(t)
  <2>1. Go(t, "or", [l EXCEPT !.bits = nodes[l.node].bits]) /\ pc[t] = "read"
    BY <1>14 DEF ReadBits, l, Running
  <2>2. l.node \in DOMAIN nodes
    BY <2>1 DEF RecordsInv, LocalTrue, l
  <2>3. nodes[l.node].bits \in SUBSET Params
    <3>1. nodes \in Seq(Node)
      BY DEF MonitorType
    <3>2. nodes[l.node] \in Node
      BY <3>1, <2>2
    <3> QED BY <3>2 DEF Node
  <2>4. pc' \in [Threads -> Places] /\ local' \in [Threads -> Local]
    BY <2>1, <2>3, <1>1, <1>2, LocalFields DEF Places
  <2> QED BY <2>4, <1>14 DEF ReadBits, MonitorType, recordVars, logVars, targetVars
<1>15. CASE OrBit(t)
  <2> DEFINE b == l.bits \cup {l.param}
  <2>1. /\ nodes' = [nodes EXCEPT ![l.node].bits = b]
        /\ NextParam(t) /\ pc[t] = "or"
    BY <1>15 DEF OrBit, l, Running
  <2>2. l.node \in DOMAIN nodes /\ l.param \in Params
    BY <2>1, <1>5 DEF RecordsInv, LocalTrue, l, Marking
  <2>3. nodes \in Seq(Node) /\ DOMAIN nodes = 1 .. Len(nodes) /\ Len(nodes) \in Nat
    BY DEF MonitorType
  <2>4. pc' \in [Threads -> Places] /\ local' \in [Threads -> Local]
    BY <2>1, <2>2, <1>3
  <2>5. b \in SUBSET Params
    BY <2>2, <1>1, LocalFields
  <2> HIDE DEF b
  <2>6. \A n \in 1 .. Len(nodes) : nodes'[n] \in Node
    <3> SUFFICES ASSUME NEW n \in 1 .. Len(nodes) PROVE nodes'[n] \in Node
      OBVIOUS
    <3>1. nodes[n] \in Node
      BY <2>3
    <3>2. nodes'[n] = IF n = l.node THEN [nodes[n] EXCEPT !.bits = b] ELSE nodes[n]
      BY <2>1, <2>3
    <3> QED BY <3>1, <3>2, <2>5 DEF Node
  <2>7. nodes' \in Seq(Node)
    <3>1. nodes' = [n \in 1 .. Len(nodes) |-> nodes'[n]]
      BY <2>1, <2>3
    <3> QED BY <3>1, <2>3, <2>6
  <2> QED BY <2>4, <2>7, <1>15 DEF OrBit, MonitorType, logVars, targetVars
<1>16. CASE Return(t)
  <2>1. pc' \in [Threads -> Places] /\ local' \in [Threads -> Local]
    BY <1>16, <1>2, <1>4 DEF Return, Places
  <2> QED BY <2>1, <1>16 DEF Return, MonitorType, recordVars, logVars, targetVars
<1>17. CASE AddLost(t)
  <2>1. ASSUME Go(t, "params", [l EXCEPT !.callers = {}])
        PROVE  pc' \in [Threads -> Places] /\ local' \in [Threads -> Local]
    <3>1. [l EXCEPT !.callers = {}] \in Local
      BY <1>1, LocalFields
    <3> QED BY <2>1, <3>1, <1>2 DEF Places
  <2>2. ASSUME pc[t] = "link", NextParam(t)
        PROVE  pc' \in [Threads -> Places] /\ local' \in [Threads -> Local]
    BY <2>2, <1>3, <1>5 DEF Marking
  <2>3. pc' \in [Threads -> Places] /\ local' \in [Threads -> Local]
    BY <2>1, <2>2, <1>17 DEF AddLost, Running, l
  <2> QED BY <2>3, <1>17 DEF AddLost, MonitorType, recordVars, logVars, targetVars
<1> QED BY <1>6, <1>7, <1>8, <1>9, <1>10, <1>11, <1>12, <1>13, <1>14, <1>15, <1>16, <1>17
        DEF Callback

\* Lemma: so do the target and the end of the process.
LEMMA OutsideType ==
  ASSUME MonitorType,
         \/ Discover /\ UNCHANGED monitorVars
         \/ \E a \in HeapAddresses, w \in Words : Write(a, w)
         \/ Detach \/ DetachFails
  PROVE  MonitorType'
<1>1. CASE UNCHANGED monitorVars
  BY <1>1 DEF monitorVars, targetVars, recordVars, logVars, MonitorType
<1>2. ASSUME NEW a \in HeapAddresses, NEW w \in Words, Write(a, w) PROVE MonitorType'
  BY <1>2 DEF Write, MonitorType, recordVars, logVars
<1>3. CASE Detach \/ DetachFails
  BY <1>3 DEF Detach, DetachFails, MonitorType, recordVars, targetVars
<1> QED BY <1>1, <1>2, <1>3

-----------------------------------------------------------------------------
\* What a step does to the nodes and to what was observed: nothing is forgotten.
Kept ==
  /\ DOMAIN nodes \subseteq DOMAIN nodes'
  /\ \A n \in DOMAIN nodes : nodes'[n].vtable = nodes[n].vtable /\ nodes'[n].fn = nodes[n].fn
  /\ observed \subseteq observed'

\* Lemma: a list that leads to nodes of its type goes on doing so.
LEMMA ListsKept ==
  ASSUME RecordsInv, Kept, usage' = usage
  PROVE  \A v \in Words : OfType(usage[v], v)'
BY DEF RecordsInv, Kept, OfType

\* Lemma: what a thread holds stays true while another one works.
LEMMA LocalKept ==
  ASSUME RecordsInv, Kept, NEW u \in Threads, pc'[u] = pc[u], local'[u] = local[u]
  PROVE  LocalTrue(u)'
<1>1. LocalTrue(u)
  BY DEF RecordsInv
<1>2. Marking(u)' <=> Marking(u)
  BY DEF Marking
<1> DEFINE l == local[u]
<1>3. l' = l
  OBVIOUS
<1>4. pc[u] = "link" =>
       /\ l.node \in DOMAIN nodes' /\ nodes'[l.node].vtable = l.vtable
       /\ nodes'[l.node].fn = l.fn
       /\ \A i \in DOMAIN l.list : l.list[i] \in DOMAIN nodes' /\ nodes'[l.list[i]].vtable = l.vtable
  BY <1>1 DEF LocalTrue, Kept, OfType
<1>5. pc[u] \in {"read", "or"} =>
       /\ l.node \in DOMAIN nodes' /\ nodes'[l.node].vtable = l.vtable
       /\ nodes'[l.node].fn = l.fn
  BY <1>1 DEF LocalTrue, Kept
<1>6. /\ Marking(u) => l.param \in Params /\ <<l.vtable, l.fn, l.param>> \in observed'
      /\ pc[u] = "or" => \A p \in l.bits : <<l.vtable, l.fn, p>> \in observed'
      /\ pc[u] = "insert" => <<l.fn, l.from>> \in observed' /\ l.callers \subseteq observed'
  BY <1>1 DEF LocalTrue, Kept
<1> QED BY <1>2, <1>4, <1>5, <1>6 DEF LocalTrue, OfType

\* Lemma: the invariant after a step of one thread.
LEMMA RecordsKept ==
  ASSUME RecordsInv, Kept, NEW t \in Threads,
         \A u \in Threads : u # t => pc'[u] = pc[u] /\ local'[u] = local[u],
         LocalTrue(t)', NodesTrue', calledFrom' \subseteq observed',
         \A v \in Words : OfType(usage[v], v)'
  PROVE  RecordsInv'
<1>1. \A u \in Threads : LocalTrue(u)'
  BY LocalKept
<1> QED BY <1>1 DEF RecordsInv

\* Lemma: the records change in Insert, Emplace, Link and OrBit only.
LEMMA RecordsSame ==
  ASSUME RecordsInv, NEW t \in Threads,
         \A u \in Threads : u # t => pc'[u] = pc[u] /\ local'[u] = local[u],
         UNCHANGED recordVars, observed \subseteq observed', LocalTrue(t)'
  PROVE  RecordsInv'
<1>1. nodes' = nodes /\ usage' = usage /\ calledFrom' = calledFrom
  BY DEF recordVars
<1>2. Kept
  BY <1>1 DEF Kept
<1>3. NodesTrue' /\ calledFrom' \subseteq observed'
  BY <1>1 DEF NodesTrue, RecordsInv
<1> QED BY <1>1, <1>2, <1>3, ListsKept, RecordsKept

\* Lemma: a thread at a place where it holds nothing of the records.
LEMMA NothingHeld ==
  ASSUME NEW t \in Threads, pc'[t] \in {"out", "dispatch", "params", "faulting"}
  PROVE  LocalTrue(t)'
BY DEF LocalTrue, Marking

\* Lemma: the threads after a step of one.
LEMMA GoLeaves ==
  ASSUME MonitorType, NEW t \in Threads, NEW where, NEW new, Go(t, where, new)
  PROVE  /\ pc'[t] = where /\ local'[t] = new
         /\ \A u \in Threads : u # t => pc'[u] = pc[u] /\ local'[u] = local[u]
BY DEF MonitorType, Go

\* Lemma: the callbacks keep the records true.
LEMMA CallbackRecords ==
  ASSUME MonitorType, RecordsInv, NEW t \in Threads, Callback(t)
  PROVE  RecordsInv'
<1> DEFINE l == local[t]
<1>1. LocalTrue(t) /\ NodesTrue /\ calledFrom \subseteq observed /\ nodes \in Seq(Node)
      /\ \A v \in Words : OfType(usage[v], v)
  BY DEF RecordsInv, MonitorType
<1>2. /\ DOMAIN nodes = 1 .. Len(nodes) /\ Len(nodes) \in Nat
  BY <1>1
<1>3. ASSUME NEW where, NEW new, Go(t, where, new)
      PROVE  \A u \in Threads : u # t => pc'[u] = pc[u] /\ local'[u] = local[u]
  BY <1>3, GoLeaves
<1> HIDE DEF l
<1>6. ASSUME NEW i \in DOMAIN functions, NEW r \in Registers, NEW from \in Callers,
             Hit(t, i, r, from)
      PROVE  RecordsInv'
  <2> DEFINE fn == functions[FindFunction(functions[i].start)]
             new == [NoCall EXCEPT !.fn = fn.start, !.args = r, !.from = from]
             where == IF fn.dynamic THEN "dispatch" ELSE "params"
  <2>1. Go(t, where, new)
    BY <1>6 DEF Hit
  <2>2. where \in {"dispatch", "params"}
    OBVIOUS
  <2> HIDE DEF new, where
  <2>3. LocalTrue(t)'
    BY <2>1, <2>2, GoLeaves, NothingHeld
  <2>4. UNCHANGED recordVars /\ observed' = observed
    BY <1>6 DEF Hit, historyVars
  <2> QED BY <2>1, <2>3, <2>4, <1>3, RecordsSame
<1>7. CASE Dispatch(t)
  <2> DEFINE c == {d \in calledFrom : d[1] = l.fn}
  <2>1. Go(t, "insert", [l EXCEPT !.callers = c])
    BY <1>7 DEF Dispatch, l
  <2>2. observed' = observed \cup {<<l.fn, l.from>>} /\ UNCHANGED recordVars
    BY <1>7 DEF Dispatch, l
  <2>3. c \subseteq observed
    BY <1>1
  <2>4. l \in Local
    BY DEF MonitorType, l
  <2>5. pc'[t] = "insert" /\ local'[t] = [l EXCEPT !.callers = c]
    BY <2>1, GoLeaves
  <2> HIDE DEF c
  <2>6. local'[t].fn = l.fn /\ local'[t].from = l.from /\ local'[t].callers = c
    BY <2>5, <2>4 DEF Local
  <2>7. LocalTrue(t)'
    BY <2>2, <2>3, <2>5, <2>6 DEF LocalTrue, Marking
  <2> QED BY <2>1, <2>2, <2>7, <1>3, RecordsSame
<1>8. CASE Insert(t)
  <2>1. /\ Go(t, "params", [l EXCEPT !.callers = {}]) /\ pc[t] = "insert"
        /\ calledFrom' = {c \in calledFrom : c[1] # l.fn} \cup l.callers \cup {<<l.fn, l.from>>}
        /\ nodes' = nodes /\ usage' = usage /\ observed' = observed
    BY <1>8 DEF Insert, l, Running, historyVars
  <2>2. <<l.fn, l.from>> \in observed /\ l.callers \subseteq observed
    BY <2>1, <1>1 DEF LocalTrue, l
  <2>3. calledFrom' \subseteq observed'
    BY <2>1, <2>2, <1>1
  <2>4. LocalTrue(t)'
    BY <2>1, GoLeaves, NothingHeld
  <2>5. Kept /\ NodesTrue'
    BY <2>1, <1>1 DEF Kept, NodesTrue
  <2> QED BY <2>1, <2>3, <2>4, <2>5, <1>3, ListsKept, RecordsKept
<1>9. CASE SkipParam(t) \/ ReadFaults(t) \/ Return(t) \/ AddLost(t)
  <2>1. \E where \in {"out", "params", "faulting"} : \E new : Go(t, where, new)
    BY <1>9 DEF SkipParam, ReadFaults, Return, AddLost, NextParam
  <2>2. UNCHANGED recordVars /\ observed' = observed
    BY <1>9 DEF SkipParam, ReadFaults, Return, AddLost, historyVars
  <2>3. LocalTrue(t)'
    BY <2>1, GoLeaves, NothingHeld
  <2> QED BY <2>1, <2>2, <2>3, <1>3, RecordsSame
<1>11. CASE Match(t)
  <2> DEFINE v == heap[Arg(t)]  node == FindUse(v, l.fn)
             where == IF node = 0 THEN "emplace" ELSE "read"
  <2>1. /\ AtParam(t) /\ Known(Arg(t))
        /\ Go(t, where, [l EXCEPT !.vtable = v, !.node = node])
        /\ observed' = observed \cup {<<v, l.fn, l.param>>} /\ UNCHANGED recordVars
    BY <1>11 DEF Match, l
  <2>2. v \in Words /\ l.param \in Params
    BY <2>1, ArgType, KnownIsHeap DEF AtParam, MonitorType, l
  <2>3. /\ node \in Nat
        /\ node # 0 => /\ node \in DOMAIN nodes
                       /\ nodes[node].fn = l.fn /\ nodes[node].vtable = v
    BY <2>2, FindUseNode
  <2>4. l \in Local
    BY DEF MonitorType, l
  <2>5. where = (IF node = 0 THEN "emplace" ELSE "read")
    OBVIOUS
  <2>6. pc'[t] = where /\ local'[t] = [l EXCEPT !.vtable = v, !.node = node]
    BY <2>1, GoLeaves
  <2> HIDE DEF v, node, where
  <2>7. /\ local'[t].fn = l.fn /\ local'[t].param = l.param
        /\ local'[t].vtable = v /\ local'[t].node = node
    BY <2>6, <2>4 DEF Local
  <2>8. nodes' = nodes
    BY <2>1 DEF recordVars
  <2>9. LocalTrue(t)'
    BY <2>1, <2>2, <2>3, <2>5, <2>6, <2>7, <2>8 DEF LocalTrue, Marking
  <2> QED BY <2>1, <2>9, <1>3, RecordsSame
<1>12. CASE Emplace(t)
  <2> DEFINE n == [vtable |-> l.vtable, fn |-> l.fn, bits |-> {l.param}]
             new == [l EXCEPT !.node = Len(nodes) + 1, !.list = usage[l.vtable]]
  <2>1. /\ Go(t, "link", new) /\ nodes' = Append(nodes, n) /\ pc[t] = "emplace"
        /\ usage' = usage /\ calledFrom' = calledFrom /\ observed' = observed
    BY <1>12 DEF Emplace, l, Running, historyVars
  <2>2. l \in Local /\ l.vtable \in Words
    BY LocalFields DEF MonitorType, l
  <2>3. <<l.vtable, l.fn, l.param>> \in observed /\ l.param \in Params
    BY <2>1, <1>1 DEF LocalTrue, l, Marking
  <2>4. n.vtable = l.vtable /\ n.fn = l.fn /\ n.bits = {l.param}
    OBVIOUS
  <2>5. pc'[t] = "link" /\ local'[t] = new
    BY <2>1, GoLeaves
  <2>6. /\ local'[t].fn = l.fn /\ local'[t].param = l.param /\ local'[t].vtable = l.vtable
        /\ local'[t].node = Len(nodes) + 1 /\ local'[t].list = usage[l.vtable]
    BY <2>5, <2>2 DEF Local
  <2> HIDE DEF n, new
  <2>7. /\ DOMAIN nodes' = 1 .. Len(nodes) + 1
        /\ nodes'[Len(nodes) + 1] = n
        /\ \A k \in DOMAIN nodes : nodes'[k] = nodes[k]
    BY <2>1, <1>1, <1>2
  <2>8. Kept
    BY <2>1, <2>7, <1>2 DEF Kept
  <2>9. NodesTrue'
    <3> SUFFICES ASSUME NEW k \in DOMAIN nodes'
                 PROVE  /\ nodes'[k].bits # {}
                        /\ \A p \in nodes'[k].bits :
                             <<nodes'[k].vtable, nodes'[k].fn, p>> \in observed'
      BY DEF NodesTrue
    <3>1. CASE k = Len(nodes) + 1
      BY <3>1, <2>7, <2>4, <2>3, <2>1
    <3>2. CASE k # Len(nodes) + 1
      BY <3>2, <2>7, <1>1, <1>2, <2>1 DEF NodesTrue
    <3> QED BY <3>1, <3>2
  <2>10. OfType(usage[l.vtable], l.vtable)
    BY <2>2, <1>1
  <2>11. LocalTrue(t)'
    <3>1. Len(nodes) + 1 \in DOMAIN nodes'
      BY <2>7, <1>2
    <3>2. \A i \in DOMAIN usage[l.vtable] :
            /\ usage[l.vtable][i] \in DOMAIN nodes'
            /\ nodes'[usage[l.vtable][i]].vtable = l.vtable
      BY <2>10, <2>8 DEF OfType, Kept
    <3> QED BY <3>1, <3>2, <2>1, <2>3, <2>4, <2>5, <2>6, <2>7 DEF LocalTrue, Marking, OfType
  <2> QED BY <2>1, <2>8, <2>9, <2>11, <1>1, <1>3, ListsKept, RecordsKept
<1>13. CASE Link(t)
  <2>1. /\ usage' = [usage EXCEPT ![l.vtable] = Append(l.list, l.node)]
        /\ NextParam(t) /\ pc[t] = "link"
        /\ nodes' = nodes /\ calledFrom' = calledFrom /\ observed' = observed
    BY <1>13 DEF Link, l, Running, historyVars
  <2>2. Kept /\ NodesTrue'
    BY <2>1, <1>1 DEF Kept, NodesTrue
  <2>3. l.list \in Seq(Nat) /\ l.node \in Nat /\ l.vtable \in Words
    BY LocalFields DEF MonitorType, l
  <2>4. /\ l.node \in DOMAIN nodes /\ nodes[l.node].vtable = l.vtable
        /\ OfType(l.list, l.vtable)
    BY <2>1, <1>1 DEF LocalTrue, l
  <2> DEFINE new == Append(l.list, l.node)
  <2>5. \A i \in DOMAIN new : new[i] = l.node \/ \E j \in DOMAIN l.list : new[i] = l.list[j]
    BY <2>3
  <2>6. OfType(new, l.vtable)
    BY <2>5, <2>4 DEF OfType
  <2> HIDE DEF new
  <2>7. ASSUME NEW v \in Words PROVE OfType(usage[v], v)'
    <3>1. usage'[v] = IF v = l.vtable THEN new ELSE usage[v]
      BY <2>1 DEF MonitorType, new
    <3>2. OfType(usage'[v], v)
      BY <3>1, <2>6, <1>1
    <3> QED BY <3>2, <2>1 DEF OfType
  <2>8. LocalTrue(t)'
    BY <2>1, GoLeaves, NothingHeld DEF NextParam
  <2>9. \E new1 : Go(t, "params", new1)
    BY <2>1 DEF NextParam
  <2> QED BY <2>1, <2>2, <2>7, <2>8, <2>9, <1>1, <1>3, RecordsKept
<1>14. CASE ReadBits(t)
  <2> DEFINE b == nodes[l.node].bits
  <2>1. /\ Go(t, "or", [l EXCEPT !.bits = b]) /\ pc[t] = "read"
        /\ UNCHANGED recordVars /\ observed' = observed /\ nodes' = nodes
    BY <1>14 DEF ReadBits, l, Running, recordVars, historyVars
  <2>2. /\ l.node \in DOMAIN nodes /\ nodes[l.node].vtable = l.vtable
        /\ nodes[l.node].fn = l.fn /\ l.param \in Params
        /\ <<l.vtable, l.fn, l.param>> \in observed
    BY <2>1, <1>1 DEF LocalTrue, l, Marking
  <2>3. \A p \in b : <<l.vtable, l.fn, p>> \in observed
    BY <2>2, <1>1 DEF NodesTrue
  <2>4. l \in Local
    BY DEF MonitorType, l
  <2>5. pc'[t] = "or" /\ local'[t] = [l EXCEPT !.bits = b]
    BY <2>1, GoLeaves
  <2> HIDE DEF b
  <2>6. /\ local'[t].fn = l.fn /\ local'[t].param = l.param /\ local'[t].vtable = l.vtable
        /\ local'[t].node = l.node /\ local'[t].bits = b
    BY <2>5, <2>4 DEF Local
  <2>7. LocalTrue(t)'
    BY <2>1, <2>2, <2>3, <2>5, <2>6 DEF LocalTrue, Marking
  <2> QED BY <2>1, <2>7, <1>3, RecordsSame
<1>15. CASE OrBit(t)
  <2> DEFINE b == l.bits \cup {l.param}
  <2>1. /\ nodes' = [nodes EXCEPT ![l.node].bits = b]
        /\ NextParam(t) /\ pc[t] = "or"
        /\ usage' = usage /\ calledFrom' = calledFrom /\ observed' = observed
    BY <1>15 DEF OrBit, l, Running, historyVars
  <2>2. /\ l.node \in DOMAIN nodes /\ nodes[l.node].vtable = l.vtable
        /\ nodes[l.node].fn = l.fn /\ l.param \in Params
        /\ <<l.vtable, l.fn, l.param>> \in observed
        /\ \A p \in l.bits : <<l.vtable, l.fn, p>> \in observed
    BY <2>1, <1>1 DEF LocalTrue, l, Marking
  <2>3. b # {} /\ \A p \in b : <<l.vtable, l.fn, p>> \in observed
    BY <2>2
  <2> HIDE DEF b
  <2>4. DOMAIN nodes' = DOMAIN nodes
    BY <2>1
  <2>5. ASSUME NEW k \in DOMAIN nodes
        PROVE  /\ nodes'[k].vtable = nodes[k].vtable /\ nodes'[k].fn = nodes[k].fn
               /\ nodes'[k].bits = IF k = l.node THEN b ELSE nodes[k].bits
    <3>1. nodes[k] \in Node
      BY <1>1
    <3>2. nodes'[k] = IF k = l.node THEN [nodes[k] EXCEPT !.bits = b] ELSE nodes[k]
      BY <2>1
    <3> QED BY <3>1, <3>2 DEF Node
  <2>6. Kept
    BY <2>1, <2>4, <2>5 DEF Kept
  <2>7. NodesTrue'
    <3> SUFFICES ASSUME NEW k \in DOMAIN nodes
                 PROVE  /\ nodes'[k].bits # {}
                        /\ \A p \in nodes'[k].bits :
                             <<nodes'[k].vtable, nodes'[k].fn, p>> \in observed'
      BY <2>4 DEF NodesTrue
    <3>1. CASE k = l.node
      <4>1. nodes'[k].bits = b /\ nodes'[k].vtable = l.vtable /\ nodes'[k].fn = l.fn
        BY <3>1, <2>2, <2>5
      <4> QED BY <4>1, <2>1, <2>3
    <3>2. CASE k # l.node
      BY <3>2, <2>1, <2>5, <1>1 DEF NodesTrue
    <3> QED BY <3>1, <3>2
  <2>8. LocalTrue(t)'
    BY <2>1, GoLeaves, NothingHeld DEF NextParam
  <2>9. \E new : Go(t, "params", new)
    BY <2>1 DEF NextParam
  <2> QED BY <2>1, <2>6, <2>7, <2>8, <2>9, <1>1, <1>3, ListsKept, RecordsKept
<1> QED BY <1>6, <1>7, <1>8, <1>9, <1>11, <1>12, <1>13, <1>14, <1>15 DEF Callback

\* Lemma: so do the target and the end of the process.
LEMMA OutsideRecords ==
  ASSUME RecordsInv,
         UNCHANGED <<pc, local, nodes, usage, calledFrom, observed>>
  PROVE  RecordsInv'
BY DEF RecordsInv, NodesTrue, OfType, LocalTrue, Marking

MonitorInv == DiscoveryInv /\ MonitorType /\ RecordsInv

\* Lemma: it holds when configure() begins.
LEMMA MonitorInit == Init => MonitorInv
<1> SUFFICES ASSUME Init PROVE MonitorInv
  OBVIOUS
<1>1. DiscoveryInv
  BY DiscoveryInitInv DEF Init
<1>2. NoCall \in Local
  BY TrackingAssumption DEF NoCall, Local, Null, Params
<1>3. MonitorType
  BY <1>2 DEF Init, MonitorType, Places
<1>4. RecordsInv
  BY DEF Init, RecordsInv, NodesTrue, OfType, LocalTrue, Marking
<1> QED BY <1>1, <1>3, <1>4 DEF MonitorInv

\* Lemma: every step keeps it.
LEMMA MonitorStep == MonitorInv /\ [Next]_vars => MonitorInv'
<1> SUFFICES ASSUME MonitorInv, [Next]_vars PROVE MonitorInv'
  OBVIOUS
<1>1. DiscoveryInv' /\ DiscoveryTypeOK
  BY StepsDiscover, DiscoveryStep DEF MonitorInv, DiscoveryInv
<1>2. ASSUME NEW t \in Threads, Callback(t) PROVE MonitorType' /\ RecordsInv'
  BY <1>1, <1>2, CallbackType, CallbackRecords DEF MonitorInv
<1>3. CASE \/ Discover /\ UNCHANGED monitorVars
           \/ \E a \in HeapAddresses, w \in Words : Write(a, w)
           \/ Detach \/ DetachFails
  <2>1. MonitorType'
    BY <1>3, OutsideType DEF MonitorInv
  <2>2. UNCHANGED <<pc, local, nodes, usage, calledFrom, observed>>
    BY <1>3 DEF Write, Detach, DetachFails, monitorVars, recordVars, historyVars
  <2> QED BY <1>1, <2>1, <2>2, OutsideRecords DEF MonitorInv
<1>4. CASE UNCHANGED vars
  <2>1. UNCHANGED <<pc, local, nodes, usage, calledFrom, observed>> /\ UNCHANGED monitorVars
    BY <1>4 DEF vars, monitorVars, recordVars, historyVars
  <2>2. MonitorType'
    BY <2>1 DEF monitorVars, targetVars, recordVars, logVars, MonitorType, MonitorInv
  <2> QED BY <1>1, <2>1, <2>2, OutsideRecords DEF MonitorInv
<1> QED BY <1>1, <1>2, <1>3, <1>4 DEF Next, MonitorInv

\* Theorem: the invariant of the records holds in every state.
THEOREM MonitorInvariant == Spec => []MonitorInv
BY MonitorInit, MonitorStep, PTL DEF Spec

\* Theorem: every variable has its type, and the known end of a function lies
\* behind its start (find_functions, find_rtti and the callback).
THEOREM MonitorTypes == Spec => []TypeOK
<1>1. MonitorInv => TypeOK
  BY TypeParts DEF MonitorInv, DiscoveryInv
<1> QED BY <1>1, MonitorInvariant, PTL

\* Theorem: whatever threads do to the lists of uses and callers at once, only
\* what a callback saw is recorded, and no entry is printed without a parameter
\* (track_dynamic_dispatch, mark_used, exfiltrate_all).
THEOREM OnlySeenRecorded == Spec => []RecordsTrue
<1>1. MonitorInv => RecordsTrue
  <2> SUFFICES ASSUME MonitorInv PROVE RecordsTrue
    OBVIOUS
  <2>1. ASSUME NEW v \in Words, NEW n \in Listed(v)
        PROVE  n \in DOMAIN nodes /\ nodes[n].vtable = v /\ nodes[n].bits # {}
               /\ \A p \in nodes[n].bits : <<v, nodes[n].fn, p>> \in observed
    BY DEF MonitorInv, RecordsInv, NodesTrue, OfType, Listed
  <2>2. Uses \subseteq observed
    BY <2>1 DEF Uses, UsesOf
  <2>3. calledFrom \subseteq observed
    BY DEF MonitorInv, RecordsInv
  <2> QED BY <2>1, <2>2, <2>3 DEF RecordsTrue
<1> QED BY <1>1, MonitorInvariant, PTL
=============================================================================
