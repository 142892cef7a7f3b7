------------------------ MODULE BatchProcessingProofs ------------------------
(***************************************************************************)
(* Proofs about BatchProcessing: for any table, page size and set of rows  *)
(* the callback fails on, a walk that only reads, or that deletes what it  *)
(* is given in DeleteMode, gives every row to the callback, and no row in  *)
(* two pages.                                                              *)
(***************************************************************************)
EXTENDS BatchProcessing, TLAPS, FiniteSetTheorems, SequenceTheorems

(* An ordering of finitely many rows is a sequence without repetitions. *)
LEMMA OrderingsAre ==
  ASSUME NEW S \in SUBSET Rows, NEW q \in SetToSeqs(S)
  PROVE  /\ q \in Seq(Rows) /\ IsInjective(q)
         /\ Range(q) \subseteq S /\ (S = {} => q = <<>>)
<1>1. IsFiniteSet(S) /\ Cardinality(S) \in Nat /\ (S = {} => Cardinality(S) = 0)
  BY RowsAssumption, FS_Subset, FS_CardinalityType, FS_EmptySet, Zenon
<1>2. q \in [1..Cardinality(S) -> S] /\ \A i, j \in 1..Cardinality(S) : i # j => q[i] # q[j]
  BY Zenon DEF SetToSeqs
<1>3. q \in Seq(Rows) /\ Len(q) = Cardinality(S) /\ DOMAIN q = 1..Cardinality(S)
  BY <1>1, <1>2
<1>. QED  BY <1>1, <1>2, <1>3 DEF IsInjective, Range

(* A page holds the rows between the offset and the end of the page. *)
LEMMA PageIs ==
  ASSUME TypeOK, NEW n \in Nat
  PROVE  LET p == Page(n, batchSize) IN
         /\ p \in Seq(Rows) /\ Len(p) <= batchSize
         /\ \A i \in DOMAIN p : n + i \in DOMAIN table /\ n + i <= n + batchSize /\ p[i] = table[n + i]
         /\ \A j \in DOMAIN table : n < j /\ j <= n + batchSize => j - n \in DOMAIN p
         /\ p = <<>> => Len(table) <= n
<1>. DEFINE m == IF n + batchSize <= Len(table) THEN n + batchSize ELSE Len(table)
            p == Page(n, batchSize)
<1>1. table \in Seq(Rows) /\ Len(table) \in Nat /\ DOMAIN table = 1..Len(table)
  BY DEF TypeOK
<1>2. batchSize \in Nat \ {0}
  BY SizeAssumption, Zenon DEF TypeOK
<1>3. m \in Nat /\ m <= Len(table) /\ m <= n + batchSize
      /\ \A j \in Nat : j <= Len(table) /\ j <= n + batchSize => j <= m
  BY <1>1, <1>2
<1>4. p = SubSeq(table, n + 1, m)
  BY Zenon DEF Page
<1>. HIDE DEF m
<1>5. n + 1 \in Int /\ m \in Int /\ \A i \in n + 1 .. m : table[i] \in Rows
  BY <1>1, <1>3
<1>6. CASE n < m
  <2>1. /\ p \in Seq(Rows) /\ Len(p) = m - (n + 1) + 1
        /\ \A i \in 1..(m - (n + 1) + 1) : p[i] = table[(n + 1) + i - 1]
    <3>1. n + 1 <= m
      BY <1>3, <1>6
    <3>. QED  BY <1>4, <1>5, <3>1, SubSeqProperties, SMTT(30)
  <2>2. m - (n + 1) + 1 = m - n /\ \A i \in 1..(m - n) : (n + 1) + i - 1 = n + i
    BY <1>3
  <2>3. p \in Seq(Rows) /\ Len(p) = m - n /\ \A i \in 1..(m - n) : p[i] = table[n + i]
    BY <2>1, <2>2, Zenon
  <2>4. DOMAIN p = 1..(m - n)
    BY <2>3
  <2>. HIDE DEF p
  <2>5. ASSUME NEW i \in DOMAIN p
        PROVE  n + i \in DOMAIN table /\ n + i <= n + batchSize /\ p[i] = table[n + i]
    BY <1>1, <1>2, <1>3, <2>3, <2>4, SMTT(30)
  <2>6. ASSUME NEW k \in DOMAIN table, n < k, k <= n + batchSize PROVE k - n \in DOMAIN p
    BY <1>1, <1>3, <2>4, <2>6, SMTT(30)
  <2>7. p # <<>> /\ Len(p) <= batchSize
    BY <1>2, <1>3, <1>6, <2>3
  <2>. QED  BY <2>3, <2>5, <2>6, <2>7, Zenon DEF p
<1>7. CASE m <= n
  <2>1. m < n + 1
    BY <1>3, <1>7
  <2>2. p = <<>>
    BY <1>4, <1>5, <2>1, SubSeqEmpty, SMTT(30)
  <2>3. Len(table) <= n
    BY <1>1, <1>2, <1>7 DEF m
  <2>. QED  BY <1>1, <1>2, <2>2, <2>3
<1>. QED  BY <1>3, <1>6, <1>7, SMTT(30)

-----------------------------------------------------------------------------
(* The step of the callback. *)

given == {items[i] : i \in Given(items, use.fails)}

error == \E i \in DOMAIN items : items[i] \in use.fails

gone == (given \ use.fails) \intersect use.removes

(* What a step of the callback does, its abbreviations named. *)
LEMMA CallbackIs ==
  ASSUME processFunc
  PROVE  /\ pc = "process"
         /\ \/ gone = {} /\ (given \ use.fails) \intersect use.writes = {} /\ table' = table
            \/ table' \in SetToSeqs(Range(table) \ gone)
            \/ error /\ table' = table
         /\ processed' = processed \union given
         /\ failed' = (failed \/ error)
         /\ pc' = IF Stops(error) THEN "done" ELSE "next"
         /\ UNCHANGED <<batchSize, use, offset, items>>
  BY Zenon DEF processFunc, given, error, gone, parameters

(* Without a failure the callback gets through the whole page. *)
LEMMA GivenIs ==
  ASSUME TypeOK
  PROVE  /\ given \subseteq Range(items)
         /\ ~error => given = Range(items) /\ given \intersect use.fails = {}
<1>1. \A i \in DOMAIN items : 1..i-1 \subseteq DOMAIN items
  BY DEF TypeOK
<1>2. ~error => Given(items, use.fails) = DOMAIN items
  BY <1>1, Zenon DEF Given, error
<1>3. Given(items, use.fails) \subseteq DOMAIN items
  BY Zenon DEF Given
<1>. QED  BY <1>2, <1>3, Zenon DEF given, Range, error

(* The type invariant holds at first and is kept. *)
LEMMA InitType == Init => TypeOK
<1>. SUFFICES ASSUME Init PROVE TypeOK
  BY Zenon
<1>1. PICK match \in SUBSET Rows : table \in SetToSeqs(match)
  BY Zenon DEF Init
<1>2. table \in Seq(Rows) /\ IsInjective(table)
  BY <1>1, OrderingsAre, Zenon
<1>3. <<>> \in Seq(Rows) /\ Len(<<>>) = 0
  OBVIOUS
<1>4. batchSize \in BatchSizes /\ batchSize \in Nat
  BY SizeAssumption, Zenon DEF Init
<1>5. items \in Seq(Rows) /\ Len(items) <= batchSize
  BY <1>3, <1>4 DEF Init
<1>. QED  BY <1>2, <1>4, <1>5, Zenon DEF Init, TypeOK

(* Every step of ProcessInBatch keeps the types. *)
LEMMA StepType ==
  ASSUME TypeOK, [Next]_vars
  PROVE  TypeOK'
<1>. USE DEF TypeOK
<1>1. CASE List
  <2>1. items' \in Seq(Rows) /\ Len(items') <= batchSize
    BY <1>1, PageIs, Zenon DEF List
  <2>. QED  BY <1>1, <2>1, Zenon DEF List, parameters
<1>2. CASE QueryFails
  BY <1>2, Zenon DEF QueryFails, parameters
<1>3. CASE processFunc
  <2>1. Range(table) \ gone \in SUBSET Rows
    BY DEF Range
  <2>2. table' \in Seq(Rows) /\ IsInjective(table')
    BY <1>3, <2>1, CallbackIs, OrderingsAre, ZenonT(40)
  <2>3. given \subseteq Rows
    BY GivenIs DEF Range
  <2>4. processed' \subseteq Rows
    BY <1>3, <2>3, CallbackIs, ZenonT(40)
  <2>5. failed' \in BOOLEAN
    BY <1>3, CallbackIs, ZenonT(40)
  <2>6. pc' \in {"next", "done"}
    BY <1>3, CallbackIs, Zenon
  <2>. QED  BY <1>3, <2>2, <2>4, <2>5, <2>6, CallbackIs, ZenonT(40)
<1>4. CASE Advance
  <2>1. batchSize \in Nat
    BY SizeAssumption, ZenonT(40)
  <2>2. offset' \in Nat
    BY <1>4, <2>1, SMTT(30) DEF Advance
  <2>3. pc' \in {"list", "done"}
    BY <1>4, Zenon DEF Advance
  <2>. QED  BY <1>4, <2>2, <2>3, ZenonT(40) DEF Advance, parameters
<1>5. CASE UNCHANGED vars
  BY <1>5, ZenonT(40) DEF vars
<1>. QED  BY <1>1, <1>2, <1>3, <1>4, <1>5, Zenon DEF Next, Done

-----------------------------------------------------------------------------
(* The walk that only reads. *)

(* The rows up to the end of a page are those before it and those on it. *)
LEMMA UptoPage ==
  ASSUME TypeOK, items = Page(offset, batchSize)
  PROVE  /\ Upto(offset + batchSize) = Upto(offset) \union Range(items)
         /\ Upto(offset) \intersect Range(items) = {}
         /\ items = <<>> => Range(table) \subseteq Upto(offset)
<1>1. /\ \A i \in DOMAIN items : /\ offset + i \in DOMAIN table /\ offset + i <= offset + batchSize
                                 /\ items[i] = table[offset + i] /\ offset < offset + i
      /\ \A j \in DOMAIN table : offset < j /\ j <= offset + batchSize => j - offset \in DOMAIN items
      /\ items = <<>> => Len(table) <= offset
  <2>1. offset \in Nat /\ \A i \in DOMAIN items : offset < offset + i
    BY DEF TypeOK
  <2>. QED  BY <2>1, PageIs, ZenonT(40)
<1>2. /\ offset \in Nat /\ batchSize \in Nat
      /\ table \in Seq(Rows) /\ DOMAIN table = 1..Len(table) /\ DOMAIN items \subseteq Nat
      /\ \A i, j \in DOMAIN table : table[i] = table[j] => i = j
  <2>1. \A i, j \in DOMAIN table : table[i] = table[j] => i = j
    BY Zenon DEF TypeOK, IsInjective
  <2>2. DOMAIN items = 1..Len(items)
    BY DEF TypeOK
  <2>. QED  BY <2>1, <2>2, SizeAssumption, SMTT(30) DEF TypeOK
<1>3. ASSUME NEW x \in Upto(offset + batchSize) PROVE x \in Upto(offset) \union Range(items)
  <2>1. PICK j \in DOMAIN table : j <= offset + batchSize /\ x = table[j]
    BY <1>3, Zenon DEF Upto
  <2>2. CASE j <= offset
    BY <2>1, <2>2, Zenon DEF Upto
  <2>3. CASE offset < j
    <3>1. j - offset \in DOMAIN items /\ offset + (j - offset) = j
      BY <1>1, <1>2, <2>1, <2>3
    <3>. QED  BY <1>1, <2>1, <3>1, SMTT(30) DEF Range
  <2>. QED  BY <1>2, <2>2, <2>3, SMTT(30)
<1>4. ASSUME NEW x \in Upto(offset) PROVE x \in Upto(offset + batchSize) /\ x \notin Range(items)
  <2>1. PICK j \in DOMAIN table : j <= offset /\ x = table[j]
    BY <1>4, Zenon DEF Upto
  <2>2. j <= offset + batchSize
    BY <1>2, <2>1
  <2>3. ASSUME NEW i \in DOMAIN items PROVE items[i] # x
    <3>1. offset + i # j
      BY <1>1, <1>2, <2>1
    <3>. QED  BY <1>1, <1>2, <2>1, <3>1, SMTT(30)
  <2>. QED  BY <2>1, <2>2, <2>3, ZenonT(40) DEF Upto, Range
<1>5. ASSUME NEW x \in Range(items) PROVE x \in Upto(offset + batchSize)
  BY <1>1, <1>5, ZenonT(40) DEF Upto, Range
<1>6. items = <<>> => Range(table) \subseteq Upto(offset)
  BY <1>1, <1>2 DEF Upto, Range
<1>. QED  BY <1>3, <1>4, <1>5, <1>6, SMTT(30)

(* A callback that only reads leaves the rows before the offset processed
   and the others not. *)
LEMMA ReadingStep ==
  ASSUME TypeOK, use \in ReadingUses, ReadingInv, [Next]_vars
  PROVE  ReadingInv'
<1>1. CASE List
  <2>1. Upto(offset)' = Upto(offset) /\ items' = Page(offset, batchSize)'
    BY <1>1, Zenon DEF List, Upto, Page, parameters
  <2>. QED  BY <1>1, <2>1, Zenon DEF List, ReadingInv
<1>2. CASE QueryFails
  BY <1>2, Zenon DEF QueryFails, ReadingInv
<1>3. CASE processFunc
  <2>1. gone = {} /\ (given \ use.fails) \intersect use.writes = {}
    BY Zenon DEF gone, ReadingUses
  <2>2. /\ pc = "process" /\ table' = table /\ processed' = processed \union given
        /\ failed' = (failed \/ error) /\ UNCHANGED <<batchSize, use, offset, items>>
        /\ pc' = IF Stops(error) THEN "done" ELSE "next"
    BY <1>3, <2>1, Zenon DEF processFunc, given, error, gone, parameters
  <2>3. items = Page(offset, batchSize) /\ processed \subseteq Upto(offset)
        /\ (~failed => Upto(offset) \subseteq processed)
    BY <2>2, Zenon DEF ReadingInv
  <2>4. given \subseteq Range(items) /\ (~error => given = Range(items))
    BY GivenIs, Zenon
  <2>5. CASE pc' = "next"
    <3>1. Upto(offset + batchSize)' = Upto(offset + batchSize)
      BY <2>2, Zenon DEF Upto
    <3>2. processed' \subseteq Upto(offset + batchSize)
      BY <2>2, <2>3, <2>4, UptoPage, ZenonT(40)
    <3>3. ~failed' => Upto(offset + batchSize) \subseteq processed'
      BY <2>2, <2>3, <2>4, UptoPage, Zenon
    <3>. QED  BY <2>5, <3>1, <3>2, <3>3, Zenon DEF ReadingInv
  <2>6. CASE pc' = "done"
    <3>1. ~failed' => items = <<>>
      BY <2>2, <2>6, Zenon DEF Stops
    <3>2. ~failed' => Range(table) \subseteq processed'
      BY <2>2, <2>3, <3>1, UptoPage, Zenon
    <3>. QED  BY <2>2, <2>6, <3>2, ZenonT(40) DEF ReadingInv
  <2>. QED  BY <2>2, <2>5, <2>6, Zenon
<1>4. CASE Advance
  <2>1. /\ pc = "next" /\ offset' = offset + batchSize /\ UNCHANGED <<table, processed, failed>>
        /\ pc' = IF offset' >= Len(table) THEN "done" ELSE "list"
    BY <1>4, Zenon DEF Advance, ReadingUses
  <2>2. /\ processed \subseteq Upto(offset + batchSize)
        /\ ~failed => Upto(offset + batchSize) \subseteq processed
    BY <2>1, Zenon DEF ReadingInv
  <2>3. Upto(offset)' = Upto(offset + batchSize)
    BY <2>1, Zenon DEF Upto
  <2>4. pc' = "done" => Range(table) \subseteq Upto(offset + batchSize)
    <3>1. table \in Seq(Rows) /\ offset \in Nat /\ batchSize \in Nat
      BY SizeAssumption, Zenon DEF TypeOK
    <3>2. pc' = "done" => \A j \in DOMAIN table : j <= offset + batchSize
      BY <2>1, <3>1
    <3>. QED  BY <3>2, SMTT(30) DEF Range, Upto
  <2>. QED  BY <2>1, <2>2, <2>3, <2>4, Zenon DEF ReadingInv
<1>5. CASE UNCHANGED vars
  <2>1. Upto(offset)' = Upto(offset) /\ Upto(offset + batchSize)' = Upto(offset + batchSize)
    BY <1>5, Zenon DEF vars, Upto
  <2>2. Page(offset, batchSize)' = Page(offset, batchSize)
    BY <1>5 DEF vars, Page
  <2>. QED  BY <1>5, <2>1, <2>2, SMTT(30) DEF vars, ReadingInv
<1>. QED  BY <1>1, <1>2, <1>3, <1>4, <1>5, ZenonT(40) DEF Next, Done

-----------------------------------------------------------------------------
(* The walk that deletes. *)

(* A callback that deletes its rows leaves exactly the rows that are to
   come. *)
LEMMA CleaningStep ==
  ASSUME TypeOK, use \in CleaningUses, CleaningInv, [Next]_vars
  PROVE  CleaningInv'
<1>1. CASE List
  <2>1. offset = 0 /\ items' = Page(0, batchSize)'
    BY <1>1, Zenon DEF List, Page, parameters, CleaningInv
  <2>. QED  BY <1>1, <2>1, Zenon DEF List, CleaningInv
<1>2. CASE QueryFails
  BY <1>2, Zenon DEF QueryFails, CleaningInv
<1>3. CASE processFunc
  <2>1. /\ pc = "process" /\ processed' = processed \union given
        /\ failed' = (failed \/ error) /\ UNCHANGED <<batchSize, use, offset, items>>
        /\ pc' = IF Stops(error) THEN "done" ELSE "next"
    BY <1>3, CallbackIs, ZenonT(40)
  <2>2. items = Page(offset, batchSize) /\ offset = 0 /\ ~failed /\ Range(table) \intersect processed = {}
    BY <2>1, Zenon DEF CleaningInv
  <2>3. CASE error
    <3>1. failed' = TRUE /\ pc' = "done"
      BY <2>1, <2>3 DEF Stops, CleaningUses
    <3>. QED  BY <2>1, <2>2, <3>1, ZenonT(40) DEF CleaningInv
  <2>4. CASE ~error
    <3>1. given = Range(items) /\ given \intersect use.fails = {} /\ Range(items) \subseteq Rows
      BY <2>4, GivenIs, SMTT(30) DEF TypeOK, Range
    <3>2. gone = given
      BY <3>1, Zenon DEF gone, CleaningUses
    <3>3. Range(table) \ gone \in SUBSET Rows
      BY DEF Range, TypeOK
    <3>4. Range(table') \subseteq Range(table) \ given
      <4>1. CASE gone = {} /\ table' = table
        BY <3>2, <4>1, ZenonT(40)
      <4>2. CASE table' \in SetToSeqs(Range(table) \ gone)
        BY <3>2, <3>3, <4>2, OrderingsAre, ZenonT(40)
      <4>. QED  BY <1>3, <2>4, <4>1, <4>2, CallbackIs, Zenon
    <3>5. Range(table') \intersect processed' = {} /\ failed' = FALSE
      BY <2>1, <2>2, <2>4, <3>4, ZenonT(40)
    <3>6. pc' = "done" => table' = <<>>
      <4>1. SUFFICES ASSUME pc' = "done" PROVE table' = <<>>
        BY Zenon
      <4>2. items = <<>>
        BY <2>1, <2>4, <4>1, Zenon DEF Stops
      <4>3. Len(table) <= 0 /\ table \in Seq(Rows)
        BY <2>2, <4>2, PageIs, Zenon DEF TypeOK
      <4>4. table = <<>> /\ Range(table) = {}
        BY <4>3 DEF Range
      <4>5. table' = <<>> \/ table' = table
        BY <1>3, <3>3, <4>4, CallbackIs, OrderingsAre
      <4>. QED  BY <4>4, <4>5, SMTT(30)
    <3>7. pc' \in {"next", "done"}
      BY <2>1, Zenon
    <3>. QED  BY <2>1, <2>2, <3>5, <3>6, <3>7, Zenon DEF CleaningInv
  <2>. QED  BY <2>3, <2>4, Zenon
<1>4. CASE Advance
  <2>1. pc = "next" /\ pc' = "list" /\ UNCHANGED <<offset, table, failed, processed>>
    BY <1>4, Zenon DEF Advance, CleaningUses
  <2>. QED  BY <2>1, Zenon DEF CleaningInv
<1>5. CASE UNCHANGED vars
  <2>1. Page(0, batchSize)' = Page(0, batchSize)
    BY <1>5, Zenon DEF vars, Page
  <2>. QED  BY <1>5, <2>1, Zenon DEF vars, CleaningInv
<1>. QED  BY <1>1, <1>2, <1>3, <1>4, <1>5, Zenon DEF Next, Done

-----------------------------------------------------------------------------
(* The theorems. *)

(* What a walk has given to the callback, and what it has left. *)
THEOREM WalkInvariance == Spec => []WalkInv
<1>1. Init => WalkInv
  <2>. SUFFICES ASSUME Init PROVE WalkInv
    BY Zenon
  <2>1. TypeOK
    BY InitType, Zenon
  <2>2. Upto(0) = {}
    BY <2>1 DEF TypeOK, Upto
  <2>3. ReadingInv /\ CleaningInv
    BY <2>2, Zenon DEF Init, ReadingInv, CleaningInv
  <2>. QED  BY <2>1, <2>3, Zenon DEF WalkInv
<1>2. WalkInv /\ [Next]_vars => WalkInv'
  <2>. SUFFICES ASSUME WalkInv, [Next]_vars PROVE WalkInv'
    BY Zenon
  <2>1. TypeOK /\ TypeOK'
    BY StepType, Zenon DEF WalkInv
  <2>2. use' = use
    BY Zenon DEF Next, List, QueryFails, processFunc, Advance, Done, vars, parameters
  <2>. QED  BY <2>1, <2>2, ReadingStep, CleaningStep, ZenonT(40) DEF WalkInv
<1>. QED  BY <1>1, <1>2, PTL DEF Spec

(* ProcessInBatch, used as its sound callers use it, gives every row to the   *)
(* callback and none in two pages, however many rows there are and whatever   *)
(* the page size.                                                             *)
THEOREM ProcessesAllOnceHolds ==
  ASSUME Uses \subseteq SoundUses
  PROVE  Spec => []ProcessesAllOnce
<1>1. WalkInv => ProcessesAllOnce
  <2>. SUFFICES ASSUME WalkInv PROVE ProcessesAllOnce
    BY Zenon
  <2>1. TypeOK /\ use \in ReadingUses \union CleaningUses
    BY Zenon DEF WalkInv, TypeOK, SoundUses
  <2>2. CASE use \in ReadingUses
    <3>1. ReadingInv /\ use.removes = {}
      BY <2>2, Zenon DEF WalkInv, ReadingUses
    <3>2. pc = "process" => \A i \in DOMAIN items : items[i] \notin processed
      <4>1. pc = "process" => Range(items) \intersect processed = {}
        BY <2>1, <3>1, UptoPage, ZenonT(40) DEF ReadingInv
      <4>. QED  BY <4>1, Zenon DEF Range
    <3>3. pc = "done" /\ ~failed => \A i \in DOMAIN table : table[i] \in processed
      BY <3>1, Zenon DEF ReadingInv, Range
    <3>. QED  BY <2>1, <3>1, <3>2, <3>3, ZenonT(40) DEF ProcessesAllOnce
  <2>3. CASE use \in CleaningUses
    <3>1. CleaningInv
      BY <2>3, Zenon DEF WalkInv
    <3>2. pc = "process" => \A i \in DOMAIN items : items[i] \notin processed
      <4>. SUFFICES ASSUME pc = "process" PROVE \A i \in DOMAIN items : items[i] \notin processed
        BY Zenon
      <4>1. Range(table) \intersect processed = {} /\ items = Page(0, batchSize)
        BY <3>1, Zenon DEF CleaningInv
      <4>2. \A i \in DOMAIN items : \E j \in DOMAIN table : items[i] = table[j]
        BY <2>1, <4>1, PageIs, ZenonT(40)
      <4>. QED  BY <4>1, <4>2, ZenonT(40) DEF Range
    <3>3. pc = "done" /\ ~failed => DOMAIN table = {}
      BY <3>1 DEF CleaningInv
    <3>. QED  BY <2>1, <3>2, <3>3, ZenonT(40) DEF ProcessesAllOnce
  <2>. QED  BY <2>1, <2>2, <2>3, ZenonT(40)
<1>. QED  BY <1>1, WalkInvariance, PTL
=============================================================================
