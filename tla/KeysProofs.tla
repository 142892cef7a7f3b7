----------------------------- MODULE KeysProofs -----------------------------
(***************************************************************************)
(* Proofs about Keys, for any keys, configurations and processes.  What    *)
(* holds in every interleaving comes first (BaseInv), then what holds as   *)
(* long as operations do not overlap (SerialInv).                          *)
(***************************************************************************)
EXTENDS Keys, Integers, TLAPS

(* BaseInv in parts, as the proofs treat it. *)
RowsInv ==
    /\ rows \in [Keys -> Row \union {NoRow}]
    /\ \A k \in Keys : RowOk(k, rows[k])
    /\ \A k \in Keys : Exists(k) => k \in used

ProcsInv ==
    /\ proc \in [Procs -> Proc]
    /\ \A p \in Procs : proc[p] = Idle \/ DeletesConfig(proc[p]) \/ ProcOk(proc[p])
    /\ \A p \in Procs : proc[p].k # None => proc[p].k \in used

TablesOk ==
    /\ versions \in [Keys -> VersionSets]
    /\ configs \subseteq Configs /\ linked \subseteq Configs
    /\ primary \in [Configs -> Keys \union {None}]
    /\ \A c \in Configs : primary[c] # None => primary[c] \in used
    /\ used \subseteq Keys

ProviderOk ==
    keystore \in [Keys -> KeystoreStates] /\ latest \in [Keys -> 1..MaxVersion] /\ provisioned \in BOOLEAN

QueuesOk ==
    tasks \subseteq Keys /\ late \subseteq Keys /\ jobs \in Seq(Job) /\ crowded \in BOOLEAN

SystemsOk == crypto \in [Keys -> BOOLEAN] /\ told \in [Keys -> 0..MaxVersion]

BoundsOk == customer \in Nat /\ overlaps \in Nat /\ faults \in Nat

(* The parts make up BaseInv. *)
LEMMA Parts ==
    BaseInv <=> RowsInv /\ ProcsInv /\ TablesOk /\ ProviderOk /\ QueuesOk /\ SystemsOk /\ BoundsOk
<1>1. BaseInv => RowsInv
  BY Zenon DEF BaseInv, TypeOK, RowsInv
<1>2. BaseInv => ProcsInv
  BY Zenon DEF BaseInv, TypeOK, ProcsInv
<1>3. BaseInv => TablesOk
  BY Zenon DEF BaseInv, TypeOK, TablesOk
<1>4. BaseInv => ProviderOk /\ QueuesOk /\ SystemsOk /\ BoundsOk
  BY Zenon DEF BaseInv, TypeOK, ProviderOk, QueuesOk, SystemsOk, BoundsOk
<1>5. RowsInv /\ ProcsInv /\ TablesOk /\ ProviderOk /\ QueuesOk /\ SystemsOk /\ BoundsOk => TypeOK
  BY Zenon DEF TypeOK, RowsInv, ProcsInv, TablesOk, ProviderOk, QueuesOk, SystemsOk, BoundsOk
<1>6. RowsInv /\ ProcsInv /\ TablesOk /\ TypeOK => BaseInv
  BY Zenon DEF BaseInv, RowsInv, ProcsInv, TablesOk
<1> QED BY <1>1, <1>2, <1>3, <1>4, <1>5, <1>6, Zenon

(* Used key IDs stay used, and rows stay consistent, when one row is written  *)
(* (every operation writes one at most).                                      *)
LEMMA RowWritten ==
    ASSUME RowsInv, NEW k \in Keys, NEW row \in Row \union {NoRow}, RowOk(k, row),
           row # NoRow => k \in used', used \subseteq used', rows' = [rows EXCEPT ![k] = row]
    PROVE  RowsInv'
<1>1. rows' \in [Keys -> Row \union {NoRow}]
  BY Zenon DEF RowsInv
<1>2. ASSUME NEW j \in Keys PROVE rows'[j] = IF j = k THEN row ELSE rows[j]
  BY Zenon DEF RowsInv
<1>3. \A j \in Keys : RowOk(j, rows'[j])
  BY <1>2, Zenon DEF RowsInv
<1>4. \A j \in Keys : rows'[j] # NoRow => j \in used'
  BY <1>2, Zenon DEF RowsInv, Exists
<1> QED BY <1>1, <1>3, <1>4, Zenon DEF RowsInv, Exists

(* Rows that are left alone. *)
LEMMA RowsLeft ==
    ASSUME RowsInv, used \subseteq used', UNCHANGED rows
    PROVE  RowsInv'
BY Zenon DEF RowsInv, Exists

(* A process that goes on or starts with a well-formed record. *)
LEMMA ProcWritten ==
    ASSUME ProcsInv, NEW p \in Procs, NEW r \in Proc, r = Idle \/ DeletesConfig(r) \/ ProcOk(r),
           r.k # None => r.k \in used', used \subseteq used', proc' = [proc EXCEPT ![p] = r]
    PROVE  ProcsInv'
<1>1. proc' \in [Procs -> Proc]
  BY Zenon DEF ProcsInv
<1>2. ASSUME NEW q \in Procs PROVE proc'[q] = IF q = p THEN r ELSE proc[q]
  BY Zenon DEF ProcsInv
<1>3. \A q \in Procs : proc'[q] = Idle \/ DeletesConfig(proc'[q]) \/ ProcOk(proc'[q])
  BY <1>2, Zenon DEF ProcsInv
<1>4. \A q \in Procs : proc'[q].k # None => proc'[q].k \in used'
  BY <1>2, Zenon DEF ProcsInv
<1> QED BY <1>1, <1>3, <1>4, Zenon DEF ProcsInv

(* An idle process holds no key, and no row is no row of a key. *)
LEMMA IdleOk == Idle \in Proc /\ Idle.k = None /\ NoRow \notin Row
<1>1. NoRow \in Row => NoRow.cfg \in Configs
  BY Zenon DEF Row
<1>2. NoRow \notin Row
  BY <1>1, KeysAssumption, Zenon DEF NoRow
<1> QED BY <1>2, Zenon DEF Idle, Proc

(* A process that ends. *)
LEMMA ProcDone ==
    ASSUME ProcsInv, NEW p \in Procs, used \subseteq used', Done(p)
    PROVE  ProcsInv'
BY ProcWritten, IdleOk, Zenon DEF Done

(* What the processes hold stays well formed when keys are added. *)
LEMMA ProcsLeft ==
    ASSUME ProcsInv, used \subseteq used', UNCHANGED proc
    PROVE  ProcsInv'
BY Zenon DEF ProcsInv

(* A Patch of a consistent copy, with UpdateAll or without. *)
LEMMA PatchAllOk ==
    ASSUME RowsInv, NEW k \in Keys, NEW row \in Row, Consistent(k, row),
           used \subseteq used', rows' = PatchAll(k, row)
    PROVE  RowsInv'
<1>1. CASE ~Exists(k)
  BY <1>1, RowsLeft, Zenon DEF PatchAll
<1>2. CASE Exists(k)
  <2> DEFINE w == [row EXCEPT !.params = rows[k].params, !.labels = rows[k].labels]
  <2>1. rows[k] \in Row /\ RowOk(k, rows[k]) /\ k \in used
    BY <1>2, Zenon DEF RowsInv, Exists
  <2>2. w \in Row /\ w.state = row.state /\ w.native = row.native /\ w.labels = rows[k].labels
    BY <2>1, Zenon DEF Row
  <2>3. rows[k] # NoRow
    BY <1>2, Zenon DEF Exists
  <2>4. RowOk(k, w)
    BY <2>1, <2>2, <2>3, Zenon DEF RowOk, Consistent
  <2>5. rows' = [rows EXCEPT ![k] = w]
    BY <1>2, Zenon DEF PatchAll
  <2> HIDE DEF w
  <2> QED BY <2>1, <2>2, <2>4, <2>5, RowWritten, Zenon
<1> QED BY <1>1, <1>2, Zenon

(* A Patch of a consistent copy leaves the rows consistent. *)
LEMMA PatchOk ==
    ASSUME RowsInv, NEW k \in Keys, NEW row \in Row, Consistent(k, row),
           row.state # "PENDING_CREATION", used \subseteq used', rows' = Patch(k, row)
    PROVE  RowsInv'
<1> DEFINE w == [row EXCEPT !.native = row.native \/ rows[k].native]
<1>1. CASE ~Exists(k)
  BY <1>1, RowsLeft, Zenon DEF Patch, PatchAll
<1>2. CASE Exists(k)
  <2>1. rows[k] \in Row
    BY <1>2, Zenon DEF RowsInv, Exists
  <2>2. w \in Row /\ w.state = row.state /\ (row.native => w.native)
    BY <2>1, Zenon DEF Row
  <2>3. Consistent(k, w)
    BY <2>2, Zenon DEF Consistent
  <2>4. rows' = PatchAll(k, w)
    BY Zenon DEF Patch
  <2> HIDE DEF w
  <2> QED BY <2>2, <2>3, <2>4, PatchAllOk, Zenon
<1> QED BY <1>1, <1>2, Zenon

-----------------------------------------------------------------------------
(* BaseInv, action by action. *)

(* The counters of the bounds stay numbers. *)
LEMMA Counts ==
    ASSUME BoundsOk
    PROVE  /\ \A p \in Procs : Overlap(p) => overlaps' \in Nat
           /\ Fault => faults' \in Nat
BY DEF BoundsOk, Overlap, Fault

(* A step that only moves a process. *)
LEMMA OnlyProcs ==
    ASSUME BaseInv, ProcsInv', BoundsOk',
           UNCHANGED <<tables, provider, queues, late, crypto, used, told>>
    PROVE  BaseInv'
<1>1. /\ RowsInv /\ TablesOk /\ ProviderOk /\ QueuesOk /\ SystemsOk
  BY Parts, Zenon
<1>2. RowsInv'
  BY <1>1, RowsLeft, Zenon DEF tables
<1>3. TablesOk'
  BY <1>1, Zenon DEF TablesOk, tables
<1>4. ProviderOk' /\ QueuesOk' /\ SystemsOk'
  BY <1>1, Zenon DEF ProviderOk, QueuesOk, SystemsOk, provider, queues
<1> QED BY <1>2, <1>3, <1>4, Parts, PTL

(* A stored row may be copied by any process. *)
LEMMA Copied ==
    ASSUME BaseInv, NEW k \in Keys, Exists(k)
    PROVE  rows[k] \in Row /\ Consistent(k, rows[k]) /\ k \in used
<1>1. RowsInv
  BY Parts, Zenon
<1>2. rows[k] # NoRow
  BY Zenon DEF Exists
<1> QED BY <1>1, <1>2, Zenon DEF RowsInv, RowOk, Exists

(* An operation that starts with the copy of a row. *)
LEMMA Started ==
    ASSUME BaseInv, NEW p \in Procs, NEW op, NEW k \in Keys, NEW c \in Configs \union {None},
           NEW to, NEW pc, Exists(k), Begin(p, op, k, c, rows[k], to, pc),
           op \in Ops, to \in States \union {"NONE"},
           pc \in {"idle", "get", "versions", "write", "commit", "check", "rows"},
           ProcOk([op |-> op, k |-> k, c |-> c, copy |-> rows[k], to |-> to, pc |-> pc]),
           UNCHANGED <<tables, provider, queues, late, crypto, used, told, customer, faults>>
    PROVE  BaseInv'
<1> DEFINE r == [op |-> op, k |-> k, c |-> c, copy |-> rows[k], to |-> to, pc |-> pc]
<1>1. r \in Proc /\ r.k = k
  BY Copied, Zenon DEF Proc
<1>2. ProcOk(r) /\ k \in used /\ used' = used /\ proc' = [proc EXCEPT ![p] = r]
  BY Copied, Zenon DEF Begin
<1>3. ProcsInv /\ BoundsOk
  BY Parts, Zenon
<1> HIDE DEF r
<1>4. ProcsInv'
  BY <1>1, <1>2, <1>3, ProcWritten, Zenon
<1>5. BoundsOk'
  BY <1>3, Counts, Zenon DEF Begin, BoundsOk
<1> QED BY <1>4, <1>5, OnlyProcs, Zenon

(* What the proofs need to know of sequences. *)
LEMMA SeqLen ==
    ASSUME NEW S, NEW s \in Seq(S)
    PROVE  Len(s) \in Nat /\ DOMAIN s = 1..Len(s)
OBVIOUS

(* What Append does to a sequence. *)
LEMMA SeqAppend ==
    ASSUME NEW S, NEW s \in Seq(S), NEW x \in S
    PROVE  /\ Append(s, x) \in Seq(S) /\ DOMAIN Append(s, x) = 1..(Len(s) + 1)
           /\ Append(s, x)[Len(s) + 1] = x /\ \A i \in 1..Len(s) : Append(s, x)[i] = s[i]
OBVIOUS

(* What concatenation does to two sequences. *)
LEMMA SeqConcat ==
    ASSUME NEW S, NEW s \in Seq(S), NEW t \in Seq(S)
    PROVE  /\ s \o t \in Seq(S) /\ Len(s \o t) = Len(s) + Len(t)
           /\ \A i \in 1..(Len(s) + Len(t)) : (s \o t)[i] = IF i <= Len(s) THEN s[i] ELSE t[i - Len(s)]
OBVIOUS

(* A job that is over leaves the others in their order. *)
LEMMA WithoutSeq ==
    ASSUME jobs \in Seq(Job), NEW i \in DOMAIN jobs
    PROVE  /\ Without(i) \in Seq(Job)
           /\ Len(Without(i)) = Len(jobs) - 1
           /\ \A j \in 1..(i - 1) : Without(i)[j] = jobs[j]
           /\ \A j \in i..(Len(jobs) - 1) : Without(i)[j] = jobs[j + 1]
<1> DEFINE l == SubSeq(jobs, 1, i - 1)
           m == SubSeq(jobs, i + 1, Len(jobs))
           n == Len(jobs)
<1>1. n \in Nat /\ i \in 1..n
  BY SeqLen, Zenon
<1>2. l \in Seq(Job) /\ Len(l) = i - 1 /\ \A j \in 1..(i - 1) : l[j] = jobs[j]
  BY <1>1
<1>3. m \in Seq(Job) /\ Len(m) = n - i /\ \A j \in 1..(n - i) : m[j] = jobs[i + j]
  BY <1>1
<1> HIDE DEF l, m, n
<1>4. /\ l \o m \in Seq(Job)
      /\ Len(l \o m) = Len(l) + Len(m)
      /\ \A j \in 1..(Len(l) + Len(m)) : (l \o m)[j] = IF j <= Len(l) THEN l[j] ELSE m[j - Len(l)]
  BY <1>2, <1>3, SeqConcat, Zenon
<1>5. Without(i) = l \o m
  BY Zenon DEF Without, l, m, n
<1>6. Len(l) + Len(m) = n - 1
  BY <1>1, <1>2, <1>3
<1>7. ASSUME NEW j \in 1..(i - 1) PROVE Without(i)[j] = jobs[j]
  <2>1. j \in 1..(Len(l) + Len(m)) /\ j <= Len(l)
    BY <1>1, <1>2, <1>3, SMTT(30)
  <2>2. (l \o m)[j] = l[j]
    BY <1>4, <2>1, Zenon
  <2> QED BY <1>2, <1>5, <2>2, Zenon
<1>8. ASSUME NEW j \in i..(n - 1) PROVE Without(i)[j] = jobs[j + 1]
  <2> DEFINE h == j - Len(l)
  <2>1. j \in 1..(Len(l) + Len(m)) /\ ~(j <= Len(l)) /\ h \in 1..(n - i) /\ i + h = j + 1
    BY <1>1, <1>2, <1>3, SMTT(30)
  <2>2. (l \o m)[j] = m[h]
    BY <1>4, <2>1, Zenon
  <2>3. m[h] = jobs[i + h]
    BY <1>3, <2>1, Zenon
  <2> HIDE DEF h
  <2> QED BY <1>5, <2>1, <2>2, <2>3, Zenon
<1>9. Without(i) \in Seq(Job) /\ Len(Without(i)) = n - 1
  BY <1>4, <1>5, <1>6, Zenon
<1> QED BY <1>7, <1>8, <1>9, Zenon DEF n

(* What a running operation on a key holds. *)
LEMMA Running ==
    ASSUME BaseInv, NEW p \in Procs, proc[p].op \in Ops \ {"deleteConfig"}
    PROVE  /\ ProcOk(proc[p]) /\ proc[p] \in Proc /\ proc[p].k \in Keys /\ proc[p].k \in used
           /\ proc[p].copy \in Row /\ Consistent(proc[p].k, proc[p].copy) /\ proc[p] # Idle
<1>1. ProcsInv
  BY Parts, Zenon
<1>2. proc[p] # Idle /\ ~DeletesConfig(proc[p])
  BY DEF Idle, DeletesConfig, Ops
<1>3. ProcOk(proc[p]) /\ proc[p] \in Proc /\ (proc[p].k # None => proc[p].k \in used)
  BY <1>1, <1>2, Zenon DEF ProcsInv
<1>4. proc[p].k \in Keys /\ proc[p].copy \in Row /\ Consistent(proc[p].k, proc[p].copy)
  BY <1>3, Zenon DEF ProcOk
<1>5. proc[p].k # None
  BY <1>4, KeysAssumption, Zenon
<1> QED BY <1>2, <1>3, <1>4, <1>5, Zenon

(* A step that writes a row and ends. *)
LEMMA RowsAndProcs ==
    ASSUME BaseInv, ProcsInv', RowsInv', TablesOk', QueuesOk', BoundsOk',
           UNCHANGED <<provider, crypto, told>>
    PROVE  BaseInv'
<1>1. ProviderOk /\ SystemsOk
  BY Parts, Zenon
<1>2. ProviderOk' /\ SystemsOk'
  BY <1>1, Zenon DEF ProviderOk, SystemsOk, provider
<1> QED BY <1>2, Parts, PTL

(* Only the first key of a configuration becomes primary. *)
LEMMA SetPrimary ==
    ASSUME BaseInv, NEW k \in Keys, NEW row \in Row, k \in used, used' = used,
           configs' = configs, linked' = linked, versions' \in [Keys -> VersionSets],
           primary' = setPrimaryIfFirstKey(k, row)
    PROVE  TablesOk'
<1>1. TablesOk
  BY Parts, Zenon
<1>2. row.cfg \in Configs
  BY Zenon DEF Row
<1>3. primary' = primary \/ primary' = [primary EXCEPT ![row.cfg] = k]
  BY Zenon DEF setPrimaryIfFirstKey
<1>4. primary' \in [Configs -> Keys \union {None}]
  BY <1>1, <1>2, <1>3, Zenon DEF TablesOk
<1>5. \A c \in Configs : primary'[c] # None => primary'[c] \in used
  BY <1>1, <1>2, <1>3, Zenon DEF TablesOk
<1> QED BY <1>1, <1>4, <1>5, Zenon DEF TablesOk

(* The versions syncKeyVersions stores are numbered from one. *)
LEMMA VersionsStored ==
    ASSUME TablesOk, ProviderOk, NEW k \in Keys
    PROVE  [versions EXCEPT ![k] = 1..latest[k]] \in [Keys -> VersionSets]
<1>1. latest[k] \in 0..MaxVersion
  BY BoundsAssumption DEF ProviderOk
<1>2. 1..latest[k] \in VersionSets
  BY <1>1, Zenon DEF VersionSets
<1> QED BY <1>2, Zenon DEF TablesOk

(* A key without versions. *)
LEMMA NoVersions == {} \in VersionSets
<1>1. {} = 1..0 /\ 0 \in 0..MaxVersion
  BY BoundsAssumption
<1> QED BY <1>1, Zenon DEF VersionSets

(* The row of a created key. *)
LEMMA persistCreatedKeyBase ==
    ASSUME BaseInv, NEW p \in Procs, persistCreatedKey(p)
    PROVE  BaseInv'
<1> DEFINE k == proc[p].k
           row == proc[p].copy
<1>0. proc[p].op \in Ops \ {"deleteConfig"}
  BY Zenon DEF persistCreatedKey, At, Ops
<1>1. k \in Keys /\ k \in used /\ row \in Row /\ Consistent(k, row)
  BY <1>0, Running, Zenon
<1>2. RowsInv /\ ProcsInv /\ TablesOk /\ ProviderOk /\ QueuesOk /\ BoundsOk
  BY Parts, Zenon
<1>3. ProcOk(proc[p]) /\ proc[p].op = "create"
  BY <1>0, Running, Zenon DEF persistCreatedKey, At
<1>4. RowOk(k, row)
  BY <1>1, <1>3, Zenon DEF RowOk, ProcOk
<1>5. RowsInv'
  BY <1>1, <1>2, <1>4, RowWritten, Zenon DEF persistCreatedKey
<1>6. ProcsInv'
  BY <1>2, ProcDone, Zenon DEF persistCreatedKey
<1>7. versions' \in [Keys -> VersionSets]
  BY <1>1, <1>2, VersionsStored, Zenon DEF persistCreatedKey, TablesOk
<1>8. TablesOk'
  BY <1>1, <1>7, SetPrimary, Zenon DEF persistCreatedKey
<1>9. QueuesOk' /\ BoundsOk' /\ UNCHANGED <<provider, crypto, told>>
  BY <1>2, Zenon DEF persistCreatedKey, QueuesOk, BoundsOk, queues, bounds
<1> QED BY <1>5, <1>6, <1>8, <1>9, RowsAndProcs, Zenon

(* A step of an operation that leaves the rows alone, and moves the process   *)
(* on or ends it.                                                             *)
LEMMA ProcMoved ==
    ASSUME BaseInv, NEW p \in Procs, proc[p].op \in Ops \ {"deleteConfig"}, UNCHANGED used,
           NEW r \in Proc, ProcOk(r), r.k = proc[p].k, proc' = [proc EXCEPT ![p] = r]
    PROVE  ProcsInv'
<1>1. ProcsInv /\ proc[p].k \in used
  BY Parts, Running, Zenon
<1> QED BY <1>1, ProcWritten, Zenon

(* A synchronisation asks the keystore. *)
LEMMA getKeyFromProviderBase ==
    ASSUME BaseInv, NEW p \in Procs, getKeyFromProvider(p)
    PROVE  BaseInv'
<1> DEFINE k == proc[p].k
<1>0. proc[p].op \in Ops \ {"deleteConfig"}
  BY Zenon DEF getKeyFromProvider, At, Ops
<1>1. ProcOk(proc[p]) /\ proc[p] \in Proc /\ k \in Keys /\ proc[p].copy \in Row /\ Consistent(k, proc[p].copy)
  BY <1>0, Running, Zenon
<1>2. BoundsOk /\ ProviderOk
  BY Parts, Zenon
<1>3. proc[p].op \in {"sync", "update", "delete"} /\ proc[p].pc = "get" /\ k \in Hyok
  BY <1>1, Zenon DEF getKeyFromProvider, At, ProcOk
<1>4. keystore[k] \in KeystoreStates
  BY <1>1, <1>2, Zenon DEF ProviderOk
<1>5. proc[p].copy.state \in States \ {"PENDING_CREATION"}
  BY <1>1, <1>3, Zenon DEF Row, Consistent
<1>6. PICK s \in States \ {"PENDING_CREATION"}, pc \in {"versions", "write"} :
         proc' = [proc EXCEPT ![p].to = s, ![p].pc = pc]
  <2>1. CASE keystore[k] # "absent" /\ proc' = [proc EXCEPT ![p].to = keystore[k], ![p].pc = "versions"]
    BY <1>4, <2>1, Zenon DEF KeystoreStates, States
  <2>2. CASE \E s \in getKeyStateOnSyncError(k, proc[p].copy) :
               proc' = [proc EXCEPT ![p].to = s, ![p].pc = "write"]
    <3>1. getKeyStateOnSyncError(k, proc[p].copy) \subseteq States \ {"PENDING_CREATION"}
      BY <1>5, Zenon DEF getKeyStateOnSyncError, States
    <3> QED BY <2>2, <3>1, Zenon
  <2> QED BY <2>1, <2>2, Zenon DEF getKeyFromProvider
<1> DEFINE r == [proc[p] EXCEPT !.to = s, !.pc = pc]
<1>7. r \in Proc /\ r.op = proc[p].op /\ r.k = k /\ r.copy = proc[p].copy /\ r.to = s /\ r.pc = pc
  BY <1>1, Zenon DEF Proc
<1>8. proc' = [proc EXCEPT ![p] = r]
  BY <1>6, Zenon
<1> HIDE DEF r
<1>9. ProcOk(r)
  BY <1>0, <1>1, <1>3, <1>7, Zenon DEF ProcOk
<1>10. ProcsInv'
  BY <1>0, <1>7, <1>8, <1>9, ProcMoved, Zenon DEF getKeyFromProvider
<1>11. BoundsOk' /\ UNCHANGED <<tables, provider, queues, late, crypto, used, told>>
  BY <1>2, Zenon DEF getKeyFromProvider, BoundsOk, bounds
<1> QED BY <1>10, <1>11, OnlyProcs, Zenon

(* syncKeyVersions stores the versions the provider has. *)
LEMMA syncKeyVersionsBase ==
    ASSUME BaseInv, NEW p \in Procs, syncKeyVersions(p)
    PROVE  BaseInv'
<1> DEFINE k == proc[p].k
           r == [proc[p] EXCEPT !.pc = "write"]
<1>0. proc[p].op \in Ops \ {"deleteConfig"}
  BY Zenon DEF syncKeyVersions, At, Ops
<1>1. ProcOk(proc[p]) /\ proc[p] \in Proc /\ k \in Keys
  BY <1>0, Running, Zenon
<1>2. RowsInv /\ ProcsInv /\ TablesOk /\ ProviderOk /\ QueuesOk /\ SystemsOk /\ BoundsOk
  BY Parts, Zenon
<1>3. proc[p].op \in {"sync", "update", "delete"} /\ proc[p].pc = "versions"
  BY Zenon DEF syncKeyVersions, At
<1>4. r \in Proc /\ r.op = proc[p].op /\ r.k = k /\ r.copy = proc[p].copy /\ r.to = proc[p].to /\ r.pc = "write"
  BY <1>1, Zenon DEF Proc
<1>5. proc' = [proc EXCEPT ![p] = r]
  BY Zenon DEF syncKeyVersions
<1> HIDE DEF r
<1>6. ProcOk(r)
  BY <1>1, <1>3, <1>4, Zenon DEF ProcOk
<1>7. ProcsInv'
  BY <1>0, <1>4, <1>5, <1>6, ProcMoved, Zenon DEF syncKeyVersions
<1>8. versions' \in [Keys -> VersionSets]
  BY <1>1, <1>2, VersionsStored, ZenonT(40) DEF syncKeyVersions, UpdateVersions, TablesOk
<1>9. TablesOk'
  BY <1>2, <1>8, Zenon DEF syncKeyVersions, TablesOk
<1>10. latest[k] \in 0..MaxVersion
  BY <1>1, <1>2, BoundsAssumption DEF ProviderOk
<1>11. told' \in [Keys -> 0..MaxVersion]
  <2>1. told' = told \/ told' = [told EXCEPT ![k] = latest[k]]
    BY Zenon DEF syncKeyVersions
  <2> QED BY <1>2, <1>10, <2>1, Zenon DEF SystemsOk
<1>12. RowsInv'
  BY <1>2, RowsLeft, Zenon DEF syncKeyVersions
<1>13. ProviderOk' /\ QueuesOk' /\ SystemsOk' /\ BoundsOk'
  BY <1>2, <1>11, Zenon DEF syncKeyVersions, ProviderOk, QueuesOk, SystemsOk, BoundsOk, provider, queues, bounds
<1> QED BY <1>7, <1>9, <1>12, <1>13, Parts, PTL

(* An event adds a job at most. *)
LEMMA EventSent ==
    ASSUME QueuesOk, NEW k \in Keys, NEW type \in JobTypes, SendEvent(type, k)
    PROVE  jobs' \in Seq(Job) /\ crowded' \in BOOLEAN
<1>1. [type |-> type, k |-> k, st |-> "created"] \in Job
  BY Zenon DEF Job
<1>2. Append(jobs, [type |-> type, k |-> k, st |-> "created"]) \in Seq(Job)
  BY <1>1, SeqAppend, Zenon DEF QueuesOk
<1>3. jobs' \in Seq(Job)
  BY <1>2, Zenon DEF SendEvent, QueuesOk
<1>4. crowded' \in BOOLEAN
  BY Zenon DEF SendEvent
<1> QED BY <1>3, <1>4, Zenon

(* The jobs a change of state sends are jobs. *)
LEMMA TransitionSent ==
    ASSUME QueuesOk, NEW k \in Keys, NEW state, handleKeyStateTransition(k, state)
    PROVE  jobs' \in Seq(Job) /\ crowded' \in BOOLEAN
<1>1. "KEY_ENABLE" \in JobTypes /\ "KEY_DISABLE" \in JobTypes
  BY Zenon DEF JobTypes
<1> QED BY <1>1, EventSent, Zenon DEF handleKeyStateTransition, QueuesOk

(* The state of a HYOK key is written. *)
LEMMA syncHYOKKeyStateBase ==
    ASSUME BaseInv, NEW p \in Procs, syncHYOKKeyState(p)
    PROVE  BaseInv'
<1> DEFINE k == proc[p].k
           to == proc[p].to
           next == [proc[p].copy EXCEPT !.state = to]
           r == CASE proc[p].op = "sync"   -> Idle
                  [] proc[p].op = "update" -> [proc[p] EXCEPT !.copy = next, !.to = "NONE", !.pc = "commit"]
                  [] proc[p].op = "delete" -> [proc[p] EXCEPT !.copy = next, !.to = "NONE", !.pc = "check"]
<1>0. proc[p].op \in Ops \ {"deleteConfig"}
  BY Zenon DEF syncHYOKKeyState, At, Ops
<1>1. ProcOk(proc[p]) /\ proc[p] \in Proc /\ k \in Keys /\ proc[p].copy \in Row /\ Consistent(k, proc[p].copy)
  BY <1>0, Running, Zenon
<1>2. RowsInv /\ ProcsInv /\ TablesOk /\ ProviderOk /\ QueuesOk /\ SystemsOk /\ BoundsOk
  BY Parts, Zenon
<1>3. proc[p].op \in {"sync", "update", "delete"} /\ proc[p].pc = "write"
  BY Zenon DEF syncHYOKKeyState, At
<1>4. k \in Hyok /\ to \in States \ {"PENDING_CREATION"}
  BY <1>1, <1>3, Zenon DEF ProcOk
<1>5. next \in Row /\ next.state = to /\ next.native = proc[p].copy.native
  BY <1>1, <1>4, Zenon DEF Row
<1>6. Consistent(k, next) /\ next.state # "PENDING_CREATION"
  BY <1>1, <1>4, <1>5, Zenon DEF Consistent
<1>7. proc' = [proc EXCEPT ![p] = r]
  BY Zenon DEF syncHYOKKeyState
<1>8. r \in Proc /\ (r = Idle \/ ProcOk(r)) /\ (r.k = k \/ r = Idle)
  <2>1. CASE proc[p].op = "sync"
    BY <2>1, IdleOk, Zenon
  <2>2. CASE proc[p].op = "update"
    <3>1. r = [proc[p] EXCEPT !.copy = next, !.to = "NONE", !.pc = "commit"]
      BY <2>2, Zenon
    <3> HIDE DEF next
    <3>2. r \in Proc /\ r.op = "update" /\ r.k = k /\ r.copy = next /\ r.to = "NONE" /\ r.pc = "commit"
      BY <1>1, <1>5, <2>2, <3>1, ZenonT(40) DEF Proc
    <3> HIDE DEF r
    <3>3. ProcOk(r)
      BY <1>0, <1>1, <1>5, <1>6, <2>2, <3>2, Zenon DEF ProcOk
    <3> QED BY <3>2, <3>3, Zenon
  <2>3. CASE proc[p].op = "delete"
    <3>1. r = [proc[p] EXCEPT !.copy = next, !.to = "NONE", !.pc = "check"]
      BY <2>3, Zenon
    <3> HIDE DEF next
    <3>2. r \in Proc /\ r.op = "delete" /\ r.k = k /\ r.copy = next /\ r.to = "NONE" /\ r.pc = "check"
      BY <1>1, <1>5, <2>3, <3>1, ZenonT(40) DEF Proc
    <3> HIDE DEF r
    <3>3. ProcOk(r)
      BY <1>0, <1>1, <1>5, <1>6, <2>3, <3>2, Zenon DEF ProcOk
    <3> QED BY <3>2, <3>3, Zenon
  <2> QED BY <1>3, <2>1, <2>2, <2>3, Zenon
<1> HIDE DEF r
<1>9. ProcsInv'
  <2>1. k \in used /\ used' = used
    BY <1>0, Running, Zenon DEF syncHYOKKeyState
  <2> QED BY <1>2, <1>7, <1>8, <2>1, IdleOk, ProcWritten, Zenon
<1>10. rows' = rows \/ rows' = Patch(k, next)
  BY Zenon DEF syncHYOKKeyState
<1>11. RowsInv'
  <2>1. used' = used
    BY Zenon DEF syncHYOKKeyState
  <2> HIDE DEF next
  <2> QED BY <1>1, <1>2, <1>5, <1>6, <1>10, <2>1, RowsLeft, PatchOk, Zenon
<1>12. jobs' \in Seq(Job) /\ crowded' \in BOOLEAN
  BY <1>1, <1>2, TransitionSent, Zenon DEF syncHYOKKeyState, QueuesOk
<1>13. QueuesOk'
  BY <1>2, <1>12, Zenon DEF QueuesOk, syncHYOKKeyState
<1>14. TablesOk' /\ BoundsOk' /\ UNCHANGED <<provider, crypto, told>>
  BY <1>2, Zenon DEF syncHYOKKeyState, TablesOk, BoundsOk, bounds
<1> QED BY <1>9, <1>11, <1>13, <1>14, RowsAndProcs, Zenon

(* An update writes its copy. *)
LEMMA applyKeyPatchBase ==
    ASSUME BaseInv, NEW p \in Procs, applyKeyPatch(p)
    PROVE  BaseInv'
<1> DEFINE k == proc[p].k
           copy == copyFieldsToModelKey(proc[p].copy, proc[p].to)
<1>0. proc[p].op \in Ops \ {"deleteConfig"}
  BY Zenon DEF applyKeyPatch, At, Ops
<1>1. ProcOk(proc[p]) /\ proc[p] \in Proc /\ k \in Keys /\ proc[p].copy \in Row /\ Consistent(k, proc[p].copy)
  BY <1>0, Running, Zenon
<1>2. RowsInv /\ ProcsInv /\ TablesOk /\ ProviderOk /\ QueuesOk /\ SystemsOk /\ BoundsOk
  BY Parts, Zenon
<1>3. proc[p].op = "update" /\ proc[p].pc = "commit" /\ used' = used
  BY Zenon DEF applyKeyPatch, At
<1>4. proc[p].to \in {"NONE", "ENABLED", "DISABLED"}
  BY <1>1, <1>3, Zenon DEF ProcOk
<1>5. copy = proc[p].copy \/ (copy \in Row /\ copy.state \in {"ENABLED", "DISABLED"})
  BY <1>1, <1>4, Zenon DEF copyFieldsToModelKey, Row, States
<1>6. copy \in Row
  BY <1>1, <1>5, Zenon
<1> HIDE DEF copy
<1>7. copy.native => Consistent(k, copy) \/ copy = proc[p].copy
  BY <1>5, Zenon DEF Consistent
<1>8. keystore' \in [Keys -> KeystoreStates]
  <2>1. keystore' = keystore \/ (copy.state \in {"ENABLED", "DISABLED"} /\ keystore' = [keystore EXCEPT ![k] = copy.state])
    BY <1>5, Zenon DEF applyKeyPatch, enableKey, copy
  <2> QED BY <1>1, <1>2, <2>1, Zenon DEF ProviderOk, KeystoreStates
<1>9. RowsInv'
  <2>1. rows' = rows \/ (rows' = PatchAll(k, copy) /\ (copy = proc[p].copy \/ copy.native))
    BY Zenon DEF applyKeyPatch, enableKey, copy
  <2> QED BY <1>1, <1>2, <1>3, <1>6, <1>7, <2>1, RowsLeft, PatchAllOk, ZenonT(40)
<1>10. ProcsInv'
  BY <1>2, <1>3, ProcDone, Zenon DEF applyKeyPatch
<1>11. jobs' \in Seq(Job) /\ crowded' \in BOOLEAN
  BY <1>1, <1>2, TransitionSent, Zenon DEF applyKeyPatch, enableKey, QueuesOk
<1>12. faults' \in Nat
  BY <1>2, Counts, Zenon DEF applyKeyPatch, enableKey, BoundsOk
<1>13. TablesOk' /\ ProviderOk' /\ QueuesOk' /\ SystemsOk' /\ BoundsOk'
  BY <1>2, <1>8, <1>11, <1>12, Zenon DEF applyKeyPatch, TablesOk, ProviderOk, QueuesOk, SystemsOk, BoundsOk
<1> QED BY <1>9, <1>10, <1>13, Parts, PTL

(* A step that leaves all but the processes and the keystore alone. *)
LEMMA ProcsAndKeystore ==
    ASSUME BaseInv, ProcsInv', NEW k \in Keys, NEW s \in KeystoreStates,
           keystore' = keystore \/ keystore' = [keystore EXCEPT ![k] = s],
           UNCHANGED <<tables, latest, provisioned, queues, late, crypto, used, told, bounds>>
    PROVE  BaseInv'
<1>1. RowsInv /\ TablesOk /\ ProviderOk /\ QueuesOk /\ SystemsOk /\ BoundsOk
  BY Parts, Zenon
<1>2. keystore' \in [Keys -> KeystoreStates]
  BY <1>1, Zenon DEF ProviderOk
<1>3. RowsInv'
  BY <1>1, RowsLeft, Zenon DEF tables
<1>4. TablesOk' /\ BoundsOk'
  BY <1>1, Zenon DEF TablesOk, BoundsOk, tables, bounds
<1>5. ProviderOk' /\ QueuesOk' /\ SystemsOk'
  BY <1>1, <1>2, Zenon DEF ProviderOk, QueuesOk, SystemsOk, queues
<1> QED BY <1>3, <1>4, <1>5, Parts, PTL

(* A deletion calls the keystore, or is refused. *)
LEMMA deleteProviderKeyBase ==
    ASSUME BaseInv, NEW p \in Procs, deleteProviderKey(p)
    PROVE  BaseInv'
<1> DEFINE k == proc[p].k
           r == [proc[p] EXCEPT !.pc = "rows"]
<1>0. proc[p].op \in Ops \ {"deleteConfig"}
  BY Zenon DEF deleteProviderKey, At, Ops
<1>1. ProcOk(proc[p]) /\ proc[p] \in Proc /\ k \in Keys
  BY <1>0, Running, Zenon
<1>2. ProcsInv /\ proc[p].op = "delete" /\ used' = used
  BY Parts, Zenon DEF deleteProviderKey, At
<1>3. r \in Proc /\ r.op = proc[p].op /\ r.k = k /\ r.copy = proc[p].copy /\ r.to = proc[p].to /\ r.pc = "rows"
  BY <1>1, Zenon DEF Proc
<1>4. Done(p) \/ proc' = [proc EXCEPT ![p] = r]
  BY Zenon DEF deleteProviderKey
<1> HIDE DEF r
<1>5. ProcOk(r)
  BY <1>1, <1>2, <1>3 DEF ProcOk
<1>6. ProcsInv'
  BY <1>0, <1>2, <1>3, <1>4, <1>5, ProcMoved, ProcDone, Zenon
<1>7. keystore' = keystore \/ keystore' = [keystore EXCEPT ![k] = "absent"]
  BY Zenon DEF deleteProviderKey
<1>8. "absent" \in KeystoreStates
  BY Zenon DEF KeystoreStates
<1> QED BY <1>1, <1>6, <1>7, <1>8, ProcsAndKeystore, Zenon DEF deleteProviderKey

(* A step that writes rows and moves a process, nothing else. *)
LEMMA RowsAndProcsOnly ==
    ASSUME BaseInv, RowsInv', ProcsInv',
           UNCHANGED <<versions, configs, primary, linked, provider, queues, late, crypto, used, told, bounds>>
    PROVE  BaseInv'
<1>1. TablesOk /\ QueuesOk /\ BoundsOk
  BY Parts, Zenon
<1>2. TablesOk' /\ QueuesOk' /\ BoundsOk' /\ UNCHANGED <<provider, crypto, told>>
  BY <1>1, Zenon DEF TablesOk, QueuesOk, BoundsOk, queues, bounds
<1> QED BY <1>2, RowsAndProcs, Zenon

(* The rows of a deleted key go. *)
LEMMA deleteRowsBase ==
    ASSUME BaseInv, NEW p \in Procs, deleteRows(p)
    PROVE  BaseInv'
<1> DEFINE k == proc[p].k
<1>0. proc[p].op \in Ops \ {"deleteConfig"}
  BY Zenon DEF deleteRows, At, Ops
<1>1. k \in Keys
  BY <1>0, Running, Zenon
<1>2. RowsInv /\ ProcsInv /\ TablesOk /\ QueuesOk /\ BoundsOk
  BY Parts, Zenon
<1>3. RowOk(k, NoRow) /\ NoRow \in Row \union {NoRow}
  BY Zenon DEF RowOk
<1>4. RowsInv'
  BY <1>1, <1>2, <1>3, RowWritten, RowsLeft, Zenon DEF deleteRows
<1>5. ProcsInv'
  BY <1>2, ProcDone, Zenon DEF deleteRows
<1>6. versions' \in [Keys -> VersionSets]
  BY <1>1, <1>2, NoVersions, Zenon DEF deleteRows, TablesOk
<1>7. TablesOk'
  BY <1>2, <1>6, Zenon DEF TablesOk, deleteRows
<1>8. QueuesOk' /\ BoundsOk' /\ UNCHANGED <<provider, crypto, told>>
  BY <1>2, Zenon DEF deleteRows, QueuesOk, BoundsOk, queues, bounds
<1> QED BY <1>4, <1>5, <1>7, <1>8, RowsAndProcs, Zenon

(* Labels and import parameters are written beside the key. *)
LEMMA Beside ==
    ASSUME RowsInv, NEW k \in Keys, rows[k] # NoRow, used' = used,
           NEW v \in {"none", "valid", "expired"}, NEW l \in BOOLEAN, l => k \in Labelled,
           \/ rows' = [rows EXCEPT ![k].params = v]
           \/ rows' = [rows EXCEPT ![k].labels = l]
    PROVE  RowsInv'
<1>1. rows[k] \in Row /\ RowOk(k, rows[k]) /\ k \in used
  BY Zenon DEF RowsInv, Exists
<1>2. CASE rows' = [rows EXCEPT ![k].params = v]
  <2> DEFINE w == [rows[k] EXCEPT !.params = v]
  <2>1. w \in Row /\ w.state = rows[k].state /\ w.native = rows[k].native /\ w.labels = rows[k].labels
    BY <1>1, Zenon DEF Row
  <2>2. rows' = [rows EXCEPT ![k] = w]
    BY <1>2, Zenon
  <2> HIDE DEF w
  <2>3. RowOk(k, w)
    BY <1>1, <2>1, Zenon DEF RowOk, Consistent
  <2> QED BY <1>1, <2>1, <2>2, <2>3, RowWritten, Zenon
<1>3. CASE rows' = [rows EXCEPT ![k].labels = l]
  <2> DEFINE w == [rows[k] EXCEPT !.labels = l]
  <2>1. w \in Row /\ w.state = rows[k].state /\ w.native = rows[k].native /\ w.labels = l
    BY <1>1 DEF Row
  <2>2. rows' = [rows EXCEPT ![k] = w]
    BY <1>3, Zenon
  <2> HIDE DEF w
  <2>3. RowOk(k, w)
    BY <1>1, <2>1 DEF RowOk, Consistent
  <2> QED BY <1>1, <2>1, <2>2, <2>3, RowWritten, Zenon
<1> QED BY <1>2, <1>3, Zenon

(* Labels come and go, and import parameters expire. *)
LEMMA LabelsBase ==
    ASSUME BaseInv, NEW k \in Keys, CreateOrUpdateLabel(k) \/ DeleteLabel(k) \/ ImportParamsExpire(k)
    PROVE  BaseInv'
<1>1. RowsInv /\ ProcsInv /\ used' = used /\ proc' = proc
  BY Parts, Zenon DEF CreateOrUpdateLabel, DeleteLabel, ImportParamsExpire
<1>2. rows[k] # NoRow
  BY DEF CreateOrUpdateLabel, DeleteLabel, ImportParamsExpire, Exists, NoRow
<1>3. \/ rows' = [rows EXCEPT ![k].labels = TRUE] /\ k \in Labelled
      \/ rows' = [rows EXCEPT ![k].labels = FALSE]
      \/ rows' = [rows EXCEPT ![k].params = "expired"]
  BY Zenon DEF CreateOrUpdateLabel, DeleteLabel, ImportParamsExpire
<1>4. RowsInv'
  BY <1>1, <1>2, <1>3, Beside, Zenon
<1>5. ProcsInv'
  BY <1>1, ProcsLeft, Zenon
<1>6. UNCHANGED <<versions, configs, primary, linked, provider, queues, late, crypto, used, told, bounds>>
  BY Zenon DEF CreateOrUpdateLabel, DeleteLabel, ImportParamsExpire
<1> QED BY <1>4, <1>5, <1>6, RowsAndProcsOnly, Zenon

(* Import parameters are fetched for a key that is there. *)
LEMMA fetchImportParamsBase ==
    ASSUME BaseInv, NEW p \in Procs, fetchImportParams(p)
    PROVE  BaseInv'
<1> DEFINE k == proc[p].k
<1>0. proc[p].op \in Ops \ {"deleteConfig"}
  BY Zenon DEF fetchImportParams, At, Ops
<1>1. k \in Keys
  BY <1>0, Running, Zenon
<1>2. RowsInv /\ ProcsInv /\ used' = used
  BY Parts, Zenon DEF fetchImportParams
<1>3. rows' = rows \/ (rows[k] # NoRow /\ rows' = [rows EXCEPT ![k].params = "valid"])
  BY Zenon DEF fetchImportParams, Exists
<1>4. RowsInv'
  <2>1. CASE rows' = rows
    BY <1>2, <2>1, RowsLeft, Zenon
  <2>2. CASE rows[k] # NoRow /\ rows' = [rows EXCEPT ![k].params = "valid"]
    BY <1>1, <1>2, <2>2, Beside, ZenonT(40)
  <2> QED BY <1>3, <2>1, <2>2, Zenon
<1>5. ProcsInv'
  BY <1>2, ProcDone, Zenon DEF fetchImportParams
<1> QED BY <1>4, <1>5, RowsAndProcsOnly, Zenon DEF fetchImportParams

(* Key material is given to the keystore. *)
LEMMA importProviderKeyMaterialBase ==
    ASSUME BaseInv, NEW p \in Procs, importProviderKeyMaterial(p)
    PROVE  BaseInv'
<1> DEFINE k == proc[p].k
           w == [proc[p].copy EXCEPT !.state = "ENABLED"]
           r == [proc[p] EXCEPT !.copy = w, !.pc = "write"]
<1>0. proc[p].op \in Ops \ {"deleteConfig"}
  BY Zenon DEF importProviderKeyMaterial, At, Ops
<1>1. ProcOk(proc[p]) /\ proc[p] \in Proc /\ k \in Keys /\ proc[p].copy \in Row /\ Consistent(k, proc[p].copy)
  BY <1>0, Running, Zenon
<1>2. ProcsInv /\ proc[p].op = "import" /\ proc[p].pc = "check" /\ used' = used
  BY Parts, Zenon DEF importProviderKeyMaterial, At
<1>3. proc[p].copy.state = "PENDING_IMPORT" /\ proc[p].copy.native /\ k \in Byok
  BY <1>1, <1>2, Zenon DEF ProcOk, Consistent, Usable
<1>4. w \in Row /\ w.state = "ENABLED" /\ w.native
  BY <1>1, <1>3, Zenon DEF Row, States
<1>5. Done(p) \/ proc' = [proc EXCEPT ![p] = r]
  BY Zenon DEF importProviderKeyMaterial
<1> HIDE DEF w
<1>6. Consistent(k, w)
  BY <1>4, Zenon DEF Consistent
<1>7. r \in Proc /\ r.op = "import" /\ r.k = k /\ r.copy = w /\ r.pc = "write"
  BY <1>1, <1>2, <1>4, ZenonT(40) DEF Proc
<1> HIDE DEF r
<1>8. ProcOk(r)
  BY <1>1, <1>3, <1>4, <1>6, <1>7, SMTT(30) DEF ProcOk, Ops
<1>9. ProcsInv'
  BY <1>0, <1>2, <1>5, <1>7, <1>8, ProcMoved, ProcDone, Zenon
<1>10. keystore' = keystore \/ keystore' = [keystore EXCEPT ![k] = "ENABLED"]
  BY Zenon DEF importProviderKeyMaterial
<1>11. "ENABLED" \in KeystoreStates
  BY Zenon DEF KeystoreStates
<1> QED BY <1>1, <1>9, <1>10, <1>11, ProcsAndKeystore, Zenon DEF importProviderKeyMaterial

(* A Patch leaves a row where there was one. *)
LEMMA PatchAllIs ==
    ASSUME RowsInv, NEW k \in Keys, NEW row \in Row, Exists(k)
    PROVE  /\ PatchAll(k, row) \in [Keys -> Row \union {NoRow}]
           /\ PatchAll(k, row)[k] \in Row
           /\ PatchAll(k, row)[k].cfg = row.cfg /\ PatchAll(k, row)[k].state = row.state
           /\ PatchAll(k, row)[k].native = row.native /\ PatchAll(k, row)[k].params = rows[k].params
           /\ PatchAll(k, row)[k].labels = rows[k].labels
           /\ \A j \in Keys \ {k} : PatchAll(k, row)[j] = rows[j]
<1> DEFINE w == [row EXCEPT !.params = rows[k].params, !.labels = rows[k].labels]
<1>1. rows[k] \in Row
  BY Zenon DEF RowsInv, Exists
<1>2. /\ w \in Row /\ w.cfg = row.cfg /\ w.state = row.state /\ w.native = row.native
      /\ w.params = rows[k].params /\ w.labels = rows[k].labels
  BY <1>1, Zenon DEF Row
<1>3. PatchAll(k, row) = [rows EXCEPT ![k] = w]
  BY Zenon DEF PatchAll
<1> HIDE DEF w
<1> QED BY <1>2, <1>3, Zenon DEF RowsInv

(* What Patch writes: the columns of the copy that are not zero. *)
LEMMA PatchIs ==
    ASSUME RowsInv, NEW k \in Keys, NEW row \in Row, Exists(k)
    PROVE  /\ Patch(k, row) \in [Keys -> Row \union {NoRow}]
           /\ Patch(k, row)[k] \in Row
           /\ Patch(k, row)[k].cfg = row.cfg /\ Patch(k, row)[k].state = row.state
           /\ Patch(k, row)[k].native = (row.native \/ rows[k].native)
           /\ Patch(k, row)[k].params = rows[k].params
           /\ Patch(k, row)[k].labels = rows[k].labels
           /\ \A j \in Keys \ {k} : Patch(k, row)[j] = rows[j]
<1> DEFINE w == [row EXCEPT !.native = row.native \/ rows[k].native]
<1>1. rows[k] \in Row
  BY Zenon DEF RowsInv, Exists
<1>2. w \in Row /\ w.cfg = row.cfg /\ w.state = row.state /\ w.native = (row.native \/ rows[k].native)
  BY <1>1, Zenon DEF Row
<1>3. Patch(k, row) = PatchAll(k, w)
  BY Zenon DEF Patch
<1> HIDE DEF w
<1> QED BY <1>2, <1>3, PatchAllIs

(* ... and the row becomes ENABLED. *)
LEMMA persistImportBase ==
    ASSUME BaseInv, NEW p \in Procs, persistImport(p)
    PROVE  BaseInv'
<1> DEFINE k == proc[p].k
           t == Patch(k, proc[p].copy)
           w == [t[k] EXCEPT !.params = "none"]
<1>0. proc[p].op \in Ops \ {"deleteConfig"}
  BY Zenon DEF persistImport, At, Ops
<1>1. ProcOk(proc[p]) /\ k \in Keys /\ k \in used /\ proc[p].copy \in Row /\ Consistent(k, proc[p].copy)
  BY <1>0, Running, Zenon
<1>2. RowsInv /\ ProcsInv /\ proc[p].op = "import" /\ proc[p].pc = "write" /\ used' = used
  BY Parts, Zenon DEF persistImport, At
<1>3. proc[p].copy.state = "ENABLED" /\ proc[p].copy.native
  BY <1>1, <1>2, Zenon DEF ProcOk, Consistent, Usable
<1>4. ProcsInv'
  BY <1>2, ProcDone, Zenon DEF persistImport
<1>5. CASE ~Exists(k)
  <2>1. RowsInv'
    BY <1>2, <1>5, RowsLeft, Zenon DEF persistImport
  <2> QED BY <1>4, <2>1, RowsAndProcsOnly, Zenon DEF persistImport
<1>6. CASE Exists(k)
  <2>0. rows' = [t EXCEPT ![k].params = "none"]
    BY <1>6, Zenon DEF persistImport
  <2>1. /\ t \in [Keys -> Row \union {NoRow}] /\ t[k] \in Row /\ t[k].state = "ENABLED" /\ t[k].native
        /\ t[k].labels = rows[k].labels /\ \A j \in Keys \ {k} : t[j] = rows[j]
    <3>1. /\ t \in [Keys -> Row \union {NoRow}] /\ t[k] \in Row /\ t[k].state = proc[p].copy.state
          /\ t[k].native = (proc[p].copy.native \/ rows[k].native)
          /\ t[k].labels = rows[k].labels /\ \A j \in Keys \ {k} : t[j] = rows[j]
      BY <1>1, <1>2, <1>6, PatchIs, Zenon
    <3> HIDE DEF t
    <3> QED BY <1>3, <3>1, Zenon
  <2> HIDE DEF t
  <2>2. w \in Row /\ w.state = "ENABLED" /\ w.native /\ w.labels = rows[k].labels
    BY <2>1, Zenon DEF Row
  <2>3. rows' = [rows EXCEPT ![k] = w]
    <3>1. rows' = [t EXCEPT ![k] = w]
      BY <2>0, Zenon
    <3> HIDE DEF w
    <3>2. [t EXCEPT ![k] = w] = [rows EXCEPT ![k] = w]
      BY <1>1, <1>2, <2>1, Zenon DEF RowsInv
    <3> QED BY <3>1, <3>2, Zenon
  <2>4. RowOk(k, rows[k]) /\ rows[k] # NoRow
    BY <1>1, <1>2, <1>6, Zenon DEF RowsInv, Exists
  <2> HIDE DEF w
  <2>5. RowOk(k, w)
    BY <2>2, <2>4, Zenon DEF RowOk, Consistent
  <2>6. RowsInv'
    BY <1>1, <1>2, <2>2, <2>3, <2>5, RowWritten, Zenon
  <2> QED BY <1>4, <2>6, RowsAndProcsOnly, Zenon DEF persistImport
<1> QED BY <1>5, <1>6, Zenon

(* The pending task gives up, asks for the keystore, or goes on. *)
LEMMA initProviderForPendingKeyBase ==
    ASSUME BaseInv, NEW p \in Procs, initProviderForPendingKey(p)
    PROVE  BaseInv'
<1> DEFINE k == proc[p].k
           w == [proc[p].copy EXCEPT !.state = "ERROR"]
           r == [proc[p] EXCEPT !.pc = "check"]
<1>0. proc[p].op \in Ops \ {"deleteConfig"}
  BY Zenon DEF initProviderForPendingKey, At, Ops
<1>1. ProcOk(proc[p]) /\ proc[p] \in Proc /\ k \in Keys /\ proc[p].copy \in Row /\ Consistent(k, proc[p].copy)
  BY <1>0, Running, Zenon
<1>2. RowsInv /\ ProcsInv /\ TablesOk /\ ProviderOk /\ QueuesOk /\ SystemsOk /\ BoundsOk
  BY Parts, Zenon
<1>3. proc[p].op = "pending" /\ proc[p].pc = "get" /\ used' = used
  BY Zenon DEF initProviderForPendingKey, At
<1>4. w \in Row /\ w.state = "ERROR" /\ w.native = proc[p].copy.native
  BY <1>1, Zenon DEF Row, States
<1>5. r \in Proc /\ r.op = "pending" /\ r.k = k /\ r.copy = proc[p].copy /\ r.to = proc[p].to /\ r.pc = "check"
  BY <1>1, <1>3, Zenon DEF Proc
<1>6. Done(p) \/ proc' = [proc EXCEPT ![p] = r]
  BY Zenon DEF initProviderForPendingKey, transitionPendingKeyToError
<1> HIDE DEF r
<1>7. ProcOk(r)
  BY <1>1, <1>3, <1>5, Zenon DEF ProcOk
<1>8. ProcsInv'
  BY <1>0, <1>2, <1>3, <1>5, <1>6, <1>7, ProcMoved, ProcDone, Zenon
<1>9. rows' = rows \/ rows' = PatchAll(k, w)
  BY Zenon DEF initProviderForPendingKey, transitionPendingKeyToError
<1> HIDE DEF w
<1>10. Consistent(k, w)
  BY <1>1, <1>4, Zenon DEF Consistent, Usable
<1>11. RowsInv'
  BY <1>1, <1>2, <1>3, <1>4, <1>9, <1>10, RowsLeft, PatchAllOk, Zenon
<1>12. tasks' \subseteq tasks /\ provisioned' \in BOOLEAN
  BY <1>2, Zenon DEF initProviderForPendingKey, transitionPendingKeyToError, ProviderOk
<1>13. TablesOk' /\ ProviderOk' /\ SystemsOk' /\ BoundsOk'
  BY <1>2, <1>12, Zenon DEF initProviderForPendingKey, TablesOk, ProviderOk, SystemsOk, BoundsOk, bounds
<1>14. QueuesOk'
  BY <1>2, <1>12, Zenon DEF initProviderForPendingKey, QueuesOk
<1> QED BY <1>8, <1>11, <1>13, <1>14, Parts, PTL

(* The pending key gets its key in the keystore, a new one or the one that
   is there. *)
LEMMA createOrRecoverProviderKeyBase ==
    ASSUME BaseInv, NEW p \in Procs, createOrRecoverProviderKey(p)
    PROVE  BaseInv'
<1> DEFINE k == proc[p].k
           state == IF keystore[k] = "absent" THEN "PENDING_IMPORT" ELSE recoverExistingProviderKey(k)
           w == [proc[p].copy EXCEPT !.state = state, !.native = TRUE]
           r == [proc[p] EXCEPT !.copy = w, !.pc = "write"]
<1>0. proc[p].op \in Ops \ {"deleteConfig"}
  BY Zenon DEF createOrRecoverProviderKey, At, Ops
<1>1. ProcOk(proc[p]) /\ proc[p] \in Proc /\ k \in Keys /\ proc[p].copy \in Row
  BY <1>0, Running, Zenon
<1>2. ProcsInv /\ ProviderOk /\ proc[p].op = "pending" /\ used' = used
  BY Parts, Zenon DEF createOrRecoverProviderKey, At
<1>3. k \in Byok
  BY <1>1, <1>2, Zenon DEF ProcOk
<1>4. state \in KeystoreStates \ {"absent"}
  BY <1>1, <1>2, Zenon DEF ProviderOk, KeystoreStates, recoverExistingProviderKey
<1>5. Done(p) \/ proc' = [proc EXCEPT ![p] = r]
  <2>1. Done(p) \/ proc' = [proc EXCEPT ![p].copy = w, ![p].pc = "write"]
    BY Zenon DEF createOrRecoverProviderKey
  <2> HIDE DEF w
  <2> QED BY <2>1, Zenon
<1>6. keystore' = keystore \/ keystore' = [keystore EXCEPT ![k] = state]
  BY Zenon DEF createOrRecoverProviderKey
<1> HIDE DEF state
<1>7. w \in Row /\ w.state = state /\ w.native /\ state # "PENDING_CREATION"
  BY <1>1, <1>4, Zenon DEF Row, KeystoreStates, States
<1> HIDE DEF w
<1>8. Consistent(k, w)
  BY <1>7, Zenon DEF Consistent
<1>9. r \in Proc /\ r.op = "pending" /\ r.k = k /\ r.copy = w /\ r.pc = "write"
  BY <1>1, <1>2, <1>7, ZenonT(40) DEF Proc
<1> HIDE DEF r
<1>10. ProcOk(r)
  BY <1>1, <1>3, <1>4, <1>7, <1>8, <1>9, Zenon DEF ProcOk, Ops
<1>11. ProcsInv'
  BY <1>0, <1>2, <1>5, <1>9, <1>10, ProcMoved, ProcDone, Zenon
<1> QED BY <1>1, <1>4, <1>6, <1>11, ProcsAndKeystore, Zenon DEF createOrRecoverProviderKey

(* The pending key is written back. *)
LEMMA persistPendingKeyBase ==
    ASSUME BaseInv, NEW p \in Procs, persistPendingKey(p)
    PROVE  BaseInv'
<1> DEFINE k == proc[p].k
           copy == proc[p].copy
<1>0. proc[p].op \in Ops \ {"deleteConfig"}
  BY Zenon DEF persistPendingKey, At, Ops
<1>1. k \in Keys /\ k \in used /\ copy \in Row /\ Consistent(k, copy)
  BY <1>0, Running, Zenon
<1>2. RowsInv /\ ProcsInv /\ TablesOk /\ QueuesOk /\ BoundsOk /\ used' = used
  BY Parts, Zenon DEF persistPendingKey
<1>3. ProcsInv'
  BY <1>2, ProcDone, Zenon DEF persistPendingKey
<1>4. rows' = rows \/ rows' = PatchAll(k, copy)
  BY Zenon DEF persistPendingKey
<1>5. RowsInv'
  BY <1>1, <1>2, <1>4, RowsLeft, PatchAllOk, Zenon
<1>6. primary' = primary \/ primary' = setPrimaryIfFirstKey(k, copy)
  BY Zenon DEF persistPendingKey
<1>7. TablesOk'
  BY <1>1, <1>2, <1>6, SetPrimary, Zenon DEF TablesOk, persistPendingKey
<1>8. tasks' \subseteq tasks
  BY Zenon DEF persistPendingKey
<1>9. QueuesOk' /\ BoundsOk' /\ UNCHANGED <<provider, crypto, told>>
  BY <1>2, <1>8, Zenon DEF persistPendingKey, QueuesOk, BoundsOk, bounds
<1> QED BY <1>3, <1>5, <1>7, <1>9, RowsAndProcs, Zenon

(* Detaching a key. *)
LEMMA DetachBase ==
    ASSUME BaseInv, NEW p \in Procs, Detach(p)
    PROVE  BaseInv'
<1> DEFINE k == proc[p].k
           w == [proc[p].copy EXCEPT !.state = "DETACHING"]
<1>0. proc[p].op \in Ops \ {"deleteConfig"}
  BY Zenon DEF Detach, At, Ops
<1>1. k \in Keys /\ proc[p].copy \in Row /\ Consistent(k, proc[p].copy)
  BY <1>0, Running, Zenon
<1>2. RowsInv /\ ProcsInv /\ TablesOk /\ QueuesOk /\ BoundsOk /\ used' = used
  BY Parts, Zenon DEF Detach
<1>3. w \in Row /\ w.state = "DETACHING" /\ w.native = proc[p].copy.native
  BY <1>1, Zenon DEF Row, States
<1>4. rows' = Patch(k, w)
  BY Zenon DEF Detach
<1> HIDE DEF w
<1>5. Consistent(k, w) /\ w.state # "PENDING_CREATION"
  BY <1>1, <1>3, Zenon DEF Consistent, Usable
<1>6. RowsInv'
  BY <1>1, <1>2, <1>3, <1>4, <1>5, PatchOk, Zenon
<1>7. ProcsInv'
  BY <1>2, ProcDone, Zenon DEF Detach
<1>8. "KEY_DETACH" \in JobTypes
  BY Zenon DEF JobTypes
<1>9. jobs' \in Seq(Job) /\ crowded' \in BOOLEAN
  BY <1>1, <1>2, <1>8, EventSent, Zenon DEF Detach
<1>10. TablesOk' /\ QueuesOk' /\ BoundsOk' /\ UNCHANGED <<provider, crypto, told>>
  BY <1>2, <1>9, Zenon DEF Detach, TablesOk, QueuesOk, BoundsOk, bounds
<1> QED BY <1>6, <1>7, <1>10, RowsAndProcs, Zenon

(* UpdateKey writes the copy it read. *)
LEMMA updateKeyBase ==
    ASSUME BaseInv, NEW p \in Procs, updateKey(p)
    PROVE  BaseInv'
<1> DEFINE k == proc[p].k
           w == [proc[p].copy EXCEPT !.state = proc[p].to]
<1>0. proc[p].op \in Ops \ {"deleteConfig"}
  BY Zenon DEF updateKey, At, Ops
<1>1. ProcOk(proc[p]) /\ k \in Keys /\ proc[p].copy \in Row /\ Consistent(k, proc[p].copy)
  BY <1>0, Running, Zenon
<1>2. RowsInv /\ ProcsInv /\ TablesOk /\ QueuesOk /\ BoundsOk /\ used' = used
  BY Parts, Zenon DEF updateKey
<1>3. proc[p].to \in {"DETACHED", "UNKNOWN"}
  BY <1>1, Zenon DEF ProcOk, updateKey, At
<1>4. w \in Row /\ w.state \in {"DETACHED", "UNKNOWN"} /\ w.native = proc[p].copy.native
  BY <1>1, <1>3, Zenon DEF Row, States
<1>5. rows' = PatchAll(k, w)
  BY Zenon DEF updateKey
<1> HIDE DEF w
<1>6. Consistent(k, w)
  BY <1>1, <1>4 DEF Consistent, Usable
<1>7. RowsInv'
  BY <1>1, <1>2, <1>4, <1>5, <1>6, PatchAllOk, Zenon
<1>8. ProcsInv'
  BY <1>2, ProcDone, Zenon DEF updateKey
<1>9. jobs' \in Seq(Job)
  BY <1>2, WithoutSeq, Zenon DEF QueuesOk, updateKey
<1>10. TablesOk' /\ QueuesOk' /\ BoundsOk' /\ UNCHANGED <<provider, crypto, told>>
  BY <1>2, <1>9, Zenon DEF updateKey, TablesOk, QueuesOk, BoundsOk, bounds
<1> QED BY <1>7, <1>8, <1>10, RowsAndProcs, Zenon

(* A configuration goes. *)
LEMMA deleteConfigRowBase ==
    ASSUME BaseInv, NEW p \in Procs, deleteConfigRow(p)
    PROVE  BaseInv'
<1> DEFINE c == proc[p].c
<1>1. RowsInv /\ ProcsInv /\ TablesOk /\ QueuesOk /\ BoundsOk /\ used' = used
  BY Parts, Zenon DEF deleteConfigRow
<1>2. proc[p].op = "deleteConfig"
  BY Zenon DEF deleteConfigRow, At
<1>3. c \in Configs
  BY <1>1, <1>2 DEF ProcsInv, Idle, DeletesConfig, ProcOk
<1>4. RowsInv' /\ ProcsInv'
  BY <1>1, RowsLeft, ProcDone, Zenon DEF deleteConfigRow
<1>5. primary' = [primary EXCEPT ![c] = None]
  BY Zenon DEF deleteConfigRow
<1> HIDE DEF c
<1>6. /\ primary' \in [Configs -> Keys \union {None}]
      /\ \A d \in Configs : primary'[d] # None => primary'[d] \in used
  BY <1>1, <1>3, <1>5, Zenon DEF TablesOk
<1>7. TablesOk'
  BY <1>1, <1>6, Zenon DEF TablesOk, deleteConfigRow
<1>8. QueuesOk' /\ BoundsOk' /\ UNCHANGED <<provider, crypto, told>>
  BY <1>1, Zenon DEF deleteConfigRow, QueuesOk, BoundsOk, queues, bounds
<1> QED BY <1>4, <1>7, <1>8, RowsAndProcs, Zenon

(* A process that dies. *)
LEMMA DiesBase ==
    ASSUME BaseInv, NEW p \in Procs, Dies(p)
    PROVE  BaseInv'
<1>1. ProcsInv /\ BoundsOk
  BY Parts, Zenon
<1>2. ProcsInv'
  BY <1>1, ProcDone, Zenon DEF Dies
<1>3. faults' \in Nat
  BY <1>1, Counts, Zenon DEF Dies
<1>4. BoundsOk'
  BY <1>1, <1>3, Zenon DEF Dies, BoundsOk
<1> QED BY <1>2, <1>4, OnlyProcs, Zenon DEF Dies

(* Every step of a running process. *)
LEMMA StepBase ==
    ASSUME BaseInv, NEW p \in Procs, Step(p) \/ Dies(p)
    PROVE  BaseInv'
BY persistCreatedKeyBase, getKeyFromProviderBase, syncKeyVersionsBase, syncHYOKKeyStateBase,
   applyKeyPatchBase, deleteProviderKeyBase, deleteRowsBase, fetchImportParamsBase,
   importProviderKeyMaterialBase, persistImportBase, initProviderForPendingKeyBase,
   createOrRecoverProviderKeyBase, persistPendingKeyBase, DetachBase, updateKeyBase,
   deleteConfigRowBase, DiesBase, Zenon DEF Step

(* A pending row is stored. *)
LEMMA createPendingBase ==
    ASSUME BaseInv, NEW p \in Procs, NEW k \in Keys, NEW c \in Configs, createPendingBYOKKeyIfNeeded(p, k, c)
    PROVE  BaseInv'
<1> DEFINE w == NewRow(c, "PENDING_CREATION", FALSE)
<1>1. RowsInv /\ ProcsInv /\ TablesOk /\ ProviderOk /\ QueuesOk /\ SystemsOk /\ BoundsOk
  BY Parts, Zenon
<1>2. k \in Byok /\ used' = used \union {k} /\ rows' = [rows EXCEPT ![k] = w] /\ UNCHANGED proc
  BY Zenon DEF createPendingBYOKKeyIfNeeded, AtOnce
<1>3. w \in Row /\ w.state = "PENDING_CREATION" /\ ~w.native /\ ~w.labels
  BY Zenon DEF NewRow, Row, States
<1> HIDE DEF w
<1>4. RowOk(k, w)
  BY <1>2, <1>3 DEF RowOk, Consistent, Usable, Hyok
<1>5. RowsInv'
  BY <1>1, <1>2, <1>3, <1>4, RowWritten, Zenon
<1>6. ProcsInv'
  BY <1>1, <1>2, ProcsLeft, Zenon
<1>7. TablesOk'
  BY <1>1, <1>2, Zenon DEF TablesOk, createPendingBYOKKeyIfNeeded
<1>8. tasks' \subseteq Keys /\ faults' \in Nat
  BY <1>1, Counts, Zenon DEF createPendingBYOKKeyIfNeeded, enqueuePendingStateSync, QueuesOk, BoundsOk
<1>9. overlaps' \in Nat
  BY <1>1, Counts, Zenon DEF createPendingBYOKKeyIfNeeded, AtOnce
<1>10. ProviderOk' /\ QueuesOk' /\ SystemsOk' /\ BoundsOk'
  BY <1>1, <1>8, <1>9, Zenon DEF createPendingBYOKKeyIfNeeded, ProviderOk, QueuesOk, SystemsOk, BoundsOk, provider
<1> QED BY <1>5, <1>6, <1>7, <1>10, Parts, PTL

(* Otherwise the keystore is called first. *)
LEMMA createBase ==
    ASSUME BaseInv, NEW p \in Procs, NEW k \in Keys, NEW c \in Configs, createOrRegisterProviderKey(p, k, c)
    PROVE  BaseInv'
<1> DEFINE state == IF k \in Byok THEN "PENDING_IMPORT" ELSE "ENABLED"
           w == NewRow(c, state, TRUE)
           r == [op |-> "create", k |-> k, c |-> c, copy |-> w, to |-> "NONE", pc |-> "write"]
<1>1. RowsInv /\ ProcsInv /\ TablesOk /\ ProviderOk /\ QueuesOk /\ SystemsOk /\ BoundsOk
  BY Parts, Zenon
<1>2. used' = used \union {k} /\ Overlap(p) /\ proc' = [proc EXCEPT ![p] = r]
  BY Zenon DEF createOrRegisterProviderKey, createManagedProviderKey, registerHYOKKey, Begin, Hyok
<1>3. w \in Row /\ w.state = state /\ w.native /\ ~w.labels
  BY Zenon DEF NewRow, Row, States
<1> HIDE DEF w
<1>4. r \in Proc /\ r.op = "create" /\ r.k = k /\ r.copy = w /\ r.pc = "write"
  BY <1>3, Zenon DEF Proc, Ops
<1> HIDE DEF r
<1>5. Consistent(k, w)
  BY <1>3, Zenon DEF Consistent
<1>6. ProcOk(r)
  BY <1>3, <1>4, <1>5, Zenon DEF ProcOk, Ops
<1>7. ProcsInv'
  BY <1>1, <1>2, <1>4, <1>6, ProcWritten, Zenon
<1>8. RowsInv'
  BY <1>1, <1>2, RowsLeft, Zenon DEF createOrRegisterProviderKey, tables
<1>9. TablesOk'
  BY <1>1, <1>2, Zenon DEF TablesOk, createOrRegisterProviderKey, tables
<1>10. keystore' \in [Keys -> KeystoreStates]
  BY <1>1, Zenon DEF createOrRegisterProviderKey, createManagedProviderKey, registerHYOKKey, ProviderOk, KeystoreStates
<1>11. overlaps' \in Nat
  BY <1>1, <1>2, Counts, Zenon
<1>12. ProviderOk' /\ QueuesOk' /\ SystemsOk' /\ BoundsOk'
  BY <1>1, <1>10, <1>11, Zenon DEF createOrRegisterProviderKey, ProviderOk, QueuesOk, SystemsOk, BoundsOk, queues
<1> QED BY <1>7, <1>8, <1>9, <1>12, Parts, PTL

(* Requests, tasks and handlers that start by reading a row. *)
LEMMA ReadsBase ==
    ASSUME BaseInv, NEW p \in Procs, NEW k \in Keys,
           \/ Get(p, "sync", k) \/ UpdateKey(p, k) \/ Delete(p, k)
           \/ GetImportParams(p, k) \/ ImportKeyMaterial(p, k) \/ detachPrimaryKeys(p, k)
    PROVE  BaseInv'
<1> DEFINE c == IF IsPrimary(k) THEN rows[k].cfg ELSE None
<1>1. RowsInv
  BY Parts, Zenon
<1>2. Exists(k)
  <2>1. rows[k].cfg \in Configs \/ rows[k].state = "PENDING_IMPORT" => Exists(k)
    BY KeysAssumption DEF Exists, NoRow
  <2>2. detachPrimaryKeys(p, k) => rows[k].cfg \in Configs
    BY Parts, Zenon DEF detachPrimaryKeys, Detachable, TablesOk
  <2>3. Exists(k) \/ detachPrimaryKeys(p, k)
    BY Zenon DEF Get, UpdateKey, Delete, GetImportParams, ImportKeyMaterial, Read
  <2> QED BY <2>1, <2>2, <2>3, Zenon
<1>3. rows[k] \in Row /\ Consistent(k, rows[k]) /\ k \in used
  BY <1>2, Copied, Zenon
<1>4. c \in Configs \union {None}
  BY <1>3, Zenon DEF Row
<1> HIDE DEF c
<1>5. ASSUME NEW op \in {"sync", "update", "delete"}, Get(p, op, k) PROVE BaseInv'
  <2>1. ProcOk([op |-> op, k |-> k, c |-> c, copy |-> rows[k], to |-> "NONE", pc |-> "get"])
    BY <1>3, <1>5, Zenon DEF ProcOk, Ops, Get
  <2>2. op \in Ops /\ "get" \in {"idle", "get", "versions", "write", "commit", "check", "rows"}
    BY Zenon DEF Ops
  <2>3. Begin(p, op, k, c, rows[k], "NONE", "get")
    BY <1>5, Zenon DEF Get, c
  <2>4. UNCHANGED <<tables, provider, queues, late, crypto, used, told, customer, faults>>
    BY <1>5, Zenon DEF Get
  <2> QED BY <1>2, <1>4, <2>1, <2>2, <2>3, <2>4, Started, Zenon
<1>6. ASSUME NEW op \in {"update", "delete", "params", "import"},
             NEW to \in {"NONE", "ENABLED", "DISABLED"},
             NEW pc \in {"commit", "check", "write"}, Read(p, op, k, to, pc),
             <<op, pc>> \in {<<"update", "commit">>, <<"delete", "check">>, <<"params", "write">>, <<"import", "check">>},
             op = "import" => rows[k].state = "PENDING_IMPORT"
      PROVE  BaseInv'
  <2>1. ProcOk([op |-> op, k |-> k, c |-> c, copy |-> rows[k], to |-> to, pc |-> pc])
    BY <1>3, <1>6, Zenon DEF ProcOk, Ops, Read
  <2>2. /\ op \in Ops /\ pc \in {"idle", "get", "versions", "write", "commit", "check", "rows"}
        /\ to \in States \union {"NONE"}
    BY Zenon DEF Ops, States
  <2>3. Begin(p, op, k, c, rows[k], to, pc)
    BY <1>6, Zenon DEF Read, c
  <2>4. UNCHANGED <<tables, provider, queues, late, crypto, used, told, customer, faults>>
    BY <1>6, Zenon DEF Read
  <2> QED BY <1>2, <1>4, <2>1, <2>2, <2>3, <2>4, Started
<1>7. CASE detachPrimaryKeys(p, k)
  <2>1. ProcOk([op |-> "detach", k |-> k, c |-> None, copy |-> rows[k], to |-> "NONE", pc |-> "write"])
    BY <1>3, Zenon DEF ProcOk, Ops
  <2>2. "detach" \in Ops
    BY Zenon DEF Ops
  <2> QED BY <1>2, <1>7, <2>1, <2>2, Started, Zenon DEF detachPrimaryKeys
<1>8. CASE UpdateKey(p, k)
  BY <1>5, <1>6, <1>8, Zenon DEF UpdateKey
<1>9. CASE Delete(p, k)
  BY <1>5, <1>6, <1>9, Zenon DEF Delete
<1>10. CASE GetImportParams(p, k)
  BY <1>6, <1>10, Zenon DEF GetImportParams
<1>11. CASE ImportKeyMaterial(p, k)
  BY <1>6, <1>11, Zenon DEF ImportKeyMaterial, validateBYOKKey
<1>12. CASE Get(p, "sync", k)
  BY <1>5, <1>12, Zenon
<1> QED BY <1>7, <1>8, <1>9, <1>10, <1>11, <1>12, Zenon

(* The pending task is taken up. *)
LEMMA SyncPendingBase ==
    ASSUME BaseInv, NEW p \in Procs, NEW k \in Keys, SyncPendingCreationKey(p, k)
    PROVE  BaseInv'
<1>1. RowsInv /\ ProcsInv /\ TablesOk /\ ProviderOk /\ QueuesOk /\ SystemsOk /\ BoundsOk
  BY Parts, Zenon
<1>2. CASE rows[k].state = "PENDING_CREATION" /\ Begin(p, "pending", k, None, rows[k], "NONE", "get") /\ UNCHANGED tasks
  <2>1. Exists(k)
    BY <1>2 DEF Exists, NoRow
  <2>2. rows[k] \in Row /\ Consistent(k, rows[k]) /\ k \in used
    BY <2>1, Copied, Zenon
  <2>3. k \in Byok
    BY <1>2, <2>2, Zenon DEF Consistent, Hyok
  <2>4. ProcOk([op |-> "pending", k |-> k, c |-> None, copy |-> rows[k], to |-> "NONE", pc |-> "get"])
    BY <1>2, <2>2, <2>3, Zenon DEF ProcOk, Ops
  <2>5. "pending" \in Ops
    BY Zenon DEF Ops
  <2>6. UNCHANGED <<tables, provider, queues, late, crypto, used, told, customer, faults>>
    BY <1>2, Zenon DEF SyncPendingCreationKey, queues
  <2> QED BY <1>2, <2>1, <2>4, <2>5, <2>6, Started, Zenon
<1>3. CASE AtOnce(p) /\ tasks' = tasks \ {k}
  <2>1. ProcsInv' /\ RowsInv'
    BY <1>1, <1>3, ProcsLeft, RowsLeft, Zenon DEF AtOnce, SyncPendingCreationKey, tables
  <2>2. overlaps' \in Nat
    BY <1>1, <1>3, Counts, Zenon DEF AtOnce
  <2>3. TablesOk' /\ QueuesOk' /\ BoundsOk' /\ UNCHANGED <<provider, crypto, told>>
    BY <1>1, <1>3, <2>2, Zenon DEF SyncPendingCreationKey, TablesOk, QueuesOk, BoundsOk, tables
  <2> QED BY <2>1, <2>3, RowsAndProcs, Zenon
<1> QED BY <1>2, <1>3, Zenon DEF SyncPendingCreationKey

(* Every entry of the queue is a job of a key. *)
LEMMA JobAt ==
    ASSUME jobs \in Seq(Job), NEW i \in DOMAIN jobs
    PROVE  jobs[i] \in Job /\ jobs[i].k \in Keys
<1>1. jobs[i] \in Job
  OBVIOUS
<1> QED BY <1>1, Zenon DEF Job

(* A job that moves on stays a job. *)
LEMMA JobMoved ==
    ASSUME jobs \in Seq(Job), NEW i \in DOMAIN jobs, NEW st \in {"created", "confirmed", "DETACHED", "UNKNOWN"}
    PROVE  [jobs EXCEPT ![i].st = st] \in Seq(Job)
<1> DEFINE j == [jobs[i] EXCEPT !.st = st]
<1>1. jobs[i] \in Job
  BY JobAt, Zenon
<1>2. j \in Job
  BY <1>1, Zenon DEF Job
<1>3. [jobs EXCEPT ![i].st = st] = [jobs EXCEPT ![i] = j]
  BY Zenon
<1> HIDE DEF j
<1>4. i \in 1..Len(jobs)
  BY SeqLen, Zenon
<1>5. [jobs EXCEPT ![i] = j] \in Seq(Job)
  BY <1>2, <1>4
<1> QED BY <1>3, <1>5, Zenon

(* The handlers of the key jobs. *)
LEMMA JobsBase ==
    ASSUME BaseInv, NEW i \in DOMAIN jobs, KeyJob(i) \/ ConfirmDetach(i) \/ EndDetach(i)
    PROVE  BaseInv'
<1>1. RowsInv /\ ProcsInv /\ TablesOk /\ ProviderOk /\ QueuesOk /\ SystemsOk /\ BoundsOk
  BY Parts, Zenon
<1>2. UNCHANGED <<tables, provider, tasks, late, proc, used, told, customer, overlaps, crowded>>
  BY Zenon DEF KeyJob, ConfirmDetach, EndDetach, bounds
<1>3. jobs' \in Seq(Job)
  <2>1. CASE KeyJob(i)
    BY <1>1, <2>1, WithoutSeq, Zenon DEF KeyJob, QueuesOk
  <2>2. CASE ConfirmDetach(i)
    BY <1>1, <2>2, JobMoved, Zenon DEF ConfirmDetach, QueuesOk
  <2>3. CASE EndDetach(i)
    BY <1>1, <2>3, JobMoved, Zenon DEF EndDetach, QueuesOk
  <2> QED BY <2>1, <2>2, <2>3, Zenon
<1>4. jobs[i].k \in Keys
  BY <1>1, JobAt, Zenon DEF QueuesOk
<1>5. crypto' \in [Keys -> BOOLEAN]
  <2>1. crypto' = crypto \/ crypto' = [crypto EXCEPT ![jobs[i].k] = (jobs[i].type = "KEY_ENABLE")]
    BY Zenon DEF KeyJob, ConfirmDetach, EndDetach
  <2> QED BY <1>1, <1>4, <2>1, Zenon DEF SystemsOk
<1>6. faults' \in Nat
  BY <1>1, Counts, Zenon DEF KeyJob, ConfirmDetach, EndDetach, BoundsOk, bounds
<1>7. RowsInv' /\ ProcsInv'
  BY <1>1, <1>2, RowsLeft, ProcsLeft, Zenon DEF tables
<1>8. TablesOk' /\ ProviderOk'
  BY <1>1, <1>2, Zenon DEF TablesOk, ProviderOk, tables, provider
<1>9. QueuesOk' /\ SystemsOk' /\ BoundsOk'
  BY <1>1, <1>2, <1>3, <1>5, <1>6, Zenon DEF QueuesOk, SystemsOk, BoundsOk
<1> QED BY <1>7, <1>8, <1>9, Parts, PTL

(* A job ends and its outcome is handled. *)
LEMMA terminateBase ==
    ASSUME BaseInv, NEW p \in Procs, NEW i \in DOMAIN jobs, terminate(p, i)
    PROVE  BaseInv'
<1> DEFINE k == jobs[i].k
<1>1. QueuesOk
  BY Parts, Zenon
<1>2. k \in Keys /\ jobs[i].st \in {"DETACHED", "UNKNOWN"}
  BY <1>1, JobAt, Zenon DEF QueuesOk, terminate
<1>3. Exists(k) /\ Begin(p, "terminate", k, None, rows[k], jobs[i].st, "write")
  BY Zenon DEF terminate
<1>4. rows[k] \in Row /\ Consistent(k, rows[k]) /\ k \in used
  BY <1>2, <1>3, Copied, Zenon
<1> HIDE DEF k
<1>5. ProcOk([op |-> "terminate", k |-> k, c |-> None, copy |-> rows[k], to |-> jobs[i].st, pc |-> "write"])
  BY <1>2, <1>4, Zenon DEF ProcOk, Ops
<1>6. "terminate" \in Ops /\ jobs[i].st \in States
  BY <1>2, Zenon DEF Ops, States
<1>7. UNCHANGED <<tables, provider, queues, late, crypto, used, told, customer, faults>>
  BY Zenon DEF terminate
<1> QED BY <1>2, <1>3, <1>5, <1>6, <1>7, Started

(* Configurations, their systems and the customer. *)
LEMMA NewestOk ==
    ASSUME TablesOk, NEW k \in Keys
    PROVE  Newest(k) \in 0..MaxVersion
<1>1. versions[k] \in VersionSets
  BY Zenon DEF TablesOk
<1>2. PICK n \in 0..MaxVersion : versions[k] = 1..n
  BY <1>1, Zenon DEF VersionSets
<1> QED BY <1>2, Zenon DEF Newest

(* Switching the systems to a key leaves their state well formed. *)
LEMMA SwitchBase ==
    ASSUME SystemsOk, TablesOk, NEW k \in Keys, switchSystems(k)
    PROVE  SystemsOk'
BY NewestOk, Zenon DEF SystemsOk, switchSystems

(* The primary key changes, systems are linked and unlinked. *)
LEMMA ConfigsBase ==
    ASSUME BaseInv, NEW p \in Procs, NEW c \in Configs,
           \/ \E k \in Keys : UpdateKeyConfigurationByID(p, c, k)
           \/ Connect(p, c) \/ Disconnect(p, c)
    PROVE  BaseInv'
<1>1. RowsInv /\ ProcsInv /\ TablesOk /\ ProviderOk /\ QueuesOk /\ SystemsOk /\ BoundsOk
  BY Parts, Zenon
<1>2. UNCHANGED <<rows, versions, configs, provider, queues, late, used, customer, faults, proc>> /\ Overlap(p)
  BY Zenon DEF UpdateKeyConfigurationByID, Connect, Disconnect, AtOnce
<1>3. overlaps' \in Nat
  BY <1>1, <1>2, Counts, Zenon
<1>4. SystemsOk'
  <2>1. ASSUME NEW k \in Keys, UpdateKeyConfigurationByID(p, c, k) PROVE SystemsOk'
    BY <1>1, <2>1, SwitchBase, Zenon DEF UpdateKeyConfigurationByID, SystemsOk
  <2>2. CASE Connect(p, c)
    <3>1. primary[c] \in Keys
      BY <1>1, <2>2, Zenon DEF TablesOk, Connect, CanConnectSystems
    <3> QED BY <1>1, <2>2, <3>1, SwitchBase, Zenon DEF Connect
  <2>3. CASE Disconnect(p, c)
    BY <1>1, <2>3, Zenon DEF Disconnect, SystemsOk
  <2> QED BY <2>1, <2>2, <2>3, Zenon
<1>5. /\ primary' \in [Configs -> Keys \union {None}] /\ linked' \subseteq Configs
      /\ \A d \in Configs : primary'[d] # None => primary'[d] \in used
  <2>1. CASE \E k \in Keys : UpdateKeyConfigurationByID(p, c, k)
    <3>0. PICK k \in Keys : UpdateKeyConfigurationByID(p, c, k)
      BY <2>1, Zenon
    <3>1. Exists(k)
      BY <3>0 DEF UpdateKeyConfigurationByID, validateKeyForPrimarySwitch, Exists, NoRow
    <3>2. k \in used /\ primary' = [primary EXCEPT ![c] = k] /\ linked' = linked
      BY <3>0, <3>1, Copied, Zenon DEF UpdateKeyConfigurationByID
    <3> QED BY <1>1, <3>2, Zenon DEF TablesOk
  <2>2. CASE Connect(p, c) \/ Disconnect(p, c)
    BY <1>1, <2>2, Zenon DEF TablesOk, Connect, Disconnect
  <2> QED BY <2>1, <2>2, Zenon
<1>6. TablesOk'
  BY <1>1, <1>2, <1>5, Zenon DEF TablesOk
<1>7. RowsInv' /\ ProcsInv'
  BY <1>1, <1>2, RowsLeft, ProcsLeft, Zenon
<1>8. ProviderOk' /\ QueuesOk' /\ BoundsOk'
  BY <1>1, <1>2, <1>3, Zenon DEF ProviderOk, QueuesOk, BoundsOk, provider, queues
<1> QED BY <1>4, <1>6, <1>7, <1>8, Parts, PTL

(* The deletion of a configuration begins. *)
LEMMA DeleteConfigBase ==
    ASSUME BaseInv, NEW p \in Procs, NEW c \in Configs, DeleteKeyConfigurationByID(p, c)
    PROVE  BaseInv'
<1> DEFINE r == [op |-> "deleteConfig", k |-> None, c |-> c, copy |-> NoRow, to |-> "NONE", pc |-> "rows"]
<1>1. ProcsInv /\ BoundsOk
  BY Parts, Zenon
<1>2. r \in Proc /\ r.k = None /\ DeletesConfig(r)
  BY Zenon DEF Proc, Ops, DeletesConfig
<1>3. proc' = [proc EXCEPT ![p] = r] /\ used' = used /\ Overlap(p)
  BY Zenon DEF DeleteKeyConfigurationByID, Begin
<1> HIDE DEF r
<1>4. ProcsInv'
  BY <1>1, <1>2, <1>3, ProcWritten, Zenon
<1>5. overlaps' \in Nat
  BY <1>1, <1>3, Counts, Zenon
<1>6. BoundsOk'
  BY <1>1, <1>5, Zenon DEF DeleteKeyConfigurationByID, BoundsOk
<1> QED BY <1>4, <1>6, OnlyProcs, Zenon DEF DeleteKeyConfigurationByID

(* The provider and the customer act on a key. *)
LEMMA LateBase ==
    ASSUME BaseInv, NEW k \in Keys, Late(k) \/ Customer(k)
    PROVE  BaseInv'
<1>1. RowsInv /\ ProcsInv /\ TablesOk /\ ProviderOk /\ QueuesOk /\ SystemsOk /\ BoundsOk
  BY Parts, Zenon
<1>2. UNCHANGED <<tables, provisioned, queues, crypto, told, proc, used, overlaps, faults>>
  BY Zenon DEF Late, Customer, provider, bounds
<1>3. keystore' \in [Keys -> KeystoreStates]
  <2>1. CASE Late(k)
    BY <1>1, <2>1, Zenon DEF Late, ProviderOk, provider
  <2>2. CASE Customer(k)
    <3>1. {"ENABLED", "DISABLED", "PENDING_DELETION", "absent"} \subseteq KeystoreStates
      BY Zenon DEF KeystoreStates
    <3> QED BY <1>1, <2>2, <3>1, Zenon DEF Customer, ProviderOk
  <2> QED BY <2>1, <2>2, Zenon
<1>4. latest' \in [Keys -> 1..MaxVersion]
  <2>1. CASE Late(k)
    BY <1>1, <2>1, Zenon DEF Late, ProviderOk, provider
  <2>2. CASE Customer(k)
    BY <1>1, <2>2, BoundsAssumption, SMTT(30) DEF Customer, ProviderOk
  <2> QED BY <2>1, <2>2, Zenon
<1>5. late' \subseteq Keys /\ customer' \in Nat
  BY <1>1 DEF Late, Customer, QueuesOk, BoundsOk, bounds
<1>6. RowsInv' /\ ProcsInv'
  BY <1>1, <1>2, RowsLeft, ProcsLeft, Zenon DEF tables
<1>7. TablesOk' /\ ProviderOk'
  BY <1>1, <1>2, <1>3, <1>4, Zenon DEF TablesOk, ProviderOk, tables
<1>8. QueuesOk' /\ SystemsOk' /\ BoundsOk'
  BY <1>1, <1>2, <1>5, Zenon DEF QueuesOk, SystemsOk, BoundsOk, queues
<1> QED BY <1>6, <1>7, <1>8, Parts, PTL

(* There is no key at the start. *)
LEMMA InitBase ==
    ASSUME Init
    PROVE  BaseInv
<1>1. RowsInv
  <2>1. \A k \in Keys : rows[k] = NoRow
    BY Zenon DEF Init
  <2> QED BY <2>1, Zenon DEF Init, RowsInv, RowOk, Exists
<1>2. ProcsInv
  <2>1. \A p \in Procs : proc[p] = Idle
    BY Zenon DEF Init
  <2> QED BY <2>1, IdleOk, Zenon DEF Init, ProcsInv
<1>3. TablesOk
  BY NoVersions, Zenon DEF Init, TablesOk
<1>4. ProviderOk
  BY BoundsAssumption DEF Init, ProviderOk, KeystoreStates
<1>5. QueuesOk /\ BoundsOk
  <2>1. jobs \in Seq(Job)
    BY DEF Init
  <2> QED BY <2>1, Zenon DEF Init, QueuesOk, BoundsOk
<1>6. SystemsOk
  BY BoundsAssumption DEF Init, SystemsOk
<1> QED BY <1>1, <1>2, <1>3, <1>4, <1>5, <1>6, Parts, Zenon

(* Every step keeps BaseInv, operations overlapping or not. *)
LEMMA NextBase ==
    ASSUME BaseInv, [Next]_vars
    PROVE  BaseInv'
<1>1. CASE UNCHANGED vars
  <2>1. RowsInv /\ ProcsInv /\ TablesOk /\ ProviderOk /\ QueuesOk /\ SystemsOk /\ BoundsOk
    BY Parts, Zenon
  <2>2. RowsInv' /\ ProcsInv'
    BY <1>1, <2>1, RowsLeft, ProcsLeft, Zenon DEF vars
  <2>3. TablesOk' /\ ProviderOk' /\ QueuesOk' /\ SystemsOk' /\ BoundsOk'
    BY <1>1, <2>1, Zenon DEF vars, TablesOk, ProviderOk, QueuesOk, SystemsOk, BoundsOk
  <2> QED BY <2>2, <2>3, Parts, PTL
<1>2. CASE Next
  BY <1>2, StepBase, createPendingBase, createBase, ReadsBase, SyncPendingBase, JobsBase, terminateBase,
     ConfigsBase, DeleteConfigBase, LabelsBase, LateBase, ZenonT(40) DEF Next
<1> QED BY <1>1, <1>2, Zenon

(* Whatever the interleaving, rows and copies are well-formed and consistent, *)
(* and a process holds what its next step needs.                              *)
THEOREM BaseInvariance == Spec => []BaseInv
<1>1. Init => BaseInv
  BY InitBase, Zenon
<1>2. BaseInv /\ [Next]_vars => BaseInv'
  BY NextBase, Zenon
<1> QED BY <1>1, <1>2, PTL DEF Spec

-----------------------------------------------------------------------------
(***************************************************************************)
(* Proofs about Keys as long as operations do not overlap: the rows, the   *)
(* keystore, the configurations and the operators agree (SerialInv,        *)
(* OperatorsInv), for any keys, configurations and processes.              *)
(***************************************************************************)

(* SerialInv in parts, as the proofs treat it. *)
Alone == \A p, q \in Procs : proc[p] # Idle /\ proc[q] # Idle => p = q

AllFresh == \A p \in Procs : Fresh(proc[p])

ByokOk == \A k \in Byok : Agrees(k) /\ Remembered(k)

InConfigs == \A k \in Keys : Exists(k) => rows[k].cfg \in configs

PrimaryOk ==
    OwnPrimary =>
        /\ \A c \in Configs : primary[c] # None /\ Exists(primary[c]) => rows[primary[c]].cfg = c
        /\ \A c \in linked : c \in configs /\ primary[c] # None /\ Exists(primary[c])

(* SerialInv is its parts. *)
LEMMA SerialParts == SerialInv <=> Alone /\ AllFresh /\ ByokOk /\ InConfigs /\ PrimaryOk
BY Zenon DEF SerialInv, Alone, AllFresh, ByokOk, InConfigs, PrimaryOk

(* Agrees and Remembered for a key no process has its hands on. *)
AgreesNow(k) ==
    faults = 0 /\ rows[k].state \in Usable =>
        keystore[k] = rows[k].state \/ (k \in Labelled /\ keystore[k] = "absent")

RememberedNow(k) ==
    keystore[k] # "absent" =>
        \/ Exists(k) /\ rows[k].native
        \/ faults > 0 /\ (k \in tasks \/ rows[k].state \notin Usable \union {"PENDING_CREATION"})

(* What holds of a key at rest holds of a key at work. *)
LEMMA Now ==
    ASSUME NEW k
    PROVE  (AgreesNow(k) => Agrees(k)) /\ (RememberedNow(k) => Remembered(k))
BY Zenon DEF AgreesNow, Agrees, RememberedNow, Remembered

(* Every other process is idle while p runs. *)
LEMMA OthersIdle ==
    ASSUME BaseInv, SerialInv, NEW p \in Procs, proc[p] # Idle
    PROVE  /\ \A q \in Procs : q # p => proc[q] = Idle
           /\ Fresh(proc[p])
           /\ ~Apart(proc[p]) => \A k \in Byok : AgreesNow(k)
           /\ ~Makes(proc[p]) => \A k \in Byok : RememberedNow(k)
           /\ \A k \in Byok : k # proc[p].k => AgreesNow(k) /\ RememberedNow(k)
<1>1. Alone /\ AllFresh /\ ByokOk
  BY SerialParts, Zenon
<1>2. \A q \in Procs : q # p => proc[q] = Idle
  BY <1>1, Zenon DEF Alone
<1>3. Idle.k = None /\ ~Apart(Idle) /\ ~Makes(Idle)
  BY Zenon DEF Idle, Apart, Makes
<1>4. \A k \in Byok : k # None
  BY KeysAssumption
<1>5. \A k \in Byok : k # proc[p].k => AgreesNow(k) /\ RememberedNow(k)
  BY <1>1, <1>2, <1>3, <1>4, Zenon DEF ByokOk, Agrees, AgreesNow, Remembered, RememberedNow
<1>6. ~Apart(proc[p]) => \A k \in Byok : AgreesNow(k)
  BY <1>1, <1>2, <1>3, Zenon DEF ByokOk, Agrees, AgreesNow
<1>7. ~Makes(proc[p]) => \A k \in Byok : RememberedNow(k)
  BY <1>1, <1>2, <1>3, Zenon DEF ByokOk, Remembered, RememberedNow
<1> QED BY <1>1, <1>2, <1>5, <1>6, <1>7, Zenon DEF AllFresh

(* Nothing runs: then every key agrees. *)
AllIdle == \A q \in Procs : proc[q] = Idle

(* With no process at work every BYOK key agrees with the keystore. *)
LEMMA IdleAgrees ==
    ASSUME SerialInv, AllIdle
    PROVE  \A k \in Byok : AgreesNow(k) /\ RememberedNow(k)
<1>1. ByokOk
  BY SerialParts, Zenon
<1>2. ~Apart(Idle) /\ ~Makes(Idle)
  BY Zenon DEF Idle, Apart, Makes
<1> QED BY <1>1, <1>2, Zenon DEF AllIdle, ByokOk, Agrees, AgreesNow, Remembered, RememberedNow

(* An idle process holds nothing that could be stale. *)
LEMMA FreshIdle == Fresh(Idle) /\ ~Apart(Idle) /\ ~Makes(Idle)
BY Zenon DEF Fresh, Idle, Ops, Apart, Makes

(* A running process takes a step.  Its own key is what there is to show. *)
LEMMA Stepped ==
    ASSUME BaseInv, SerialInv, NEW p \in Procs, proc[p] # Idle, NEW r, proc' = [proc EXCEPT ![p] = r],
           Fresh(r)', NEW k, k = proc[p].k,
           \A j \in Byok \ {k} : rows'[j] = rows[j] /\ keystore'[j] = keystore[j] /\ (j \in tasks' <=> j \in tasks),
           faults' = faults \/ faults' > 0,
           k \in Byok => ((Apart(r) /\ r.k = k) \/ AgreesNow(k)') /\ ((Makes(r) /\ r.k = k) \/ RememberedNow(k)'),
           InConfigs', PrimaryOk'
    PROVE  SerialInv'
<1>1. proc \in [Procs -> Proc]
  BY Parts, Zenon DEF ProcsInv
<1>2. \A q \in Procs : proc'[q] = IF q = p THEN r ELSE Idle
  BY <1>1, OthersIdle, Zenon
<1>0. Fresh(Idle)'
  BY Zenon DEF Fresh, Idle, Ops
<1>3. Alone' /\ AllFresh'
  <2>1. Alone'
    BY <1>2 DEF Alone
  <2>2. ASSUME NEW q \in Procs PROVE Fresh(proc[q])'
    <3>1. CASE q = p
      <4>1. proc'[q] = r
        BY <1>2, <3>1, Zenon
      <4> QED BY <4>1, Zenon DEF Fresh
    <3>2. CASE q # p
      <4>1. proc'[q] = Idle
        BY <1>2, <3>2, Zenon
      <4> QED BY <1>0, <4>1, ZenonT(40) DEF Fresh
    <3> QED BY <3>1, <3>2, Zenon
  <2> QED BY <2>1, <2>2, Zenon DEF AllFresh
<1>4. ASSUME NEW j \in Byok, j # k PROVE Agrees(j)' /\ Remembered(j)'
  <2>1. AgreesNow(j) /\ RememberedNow(j)
    BY <1>4, OthersIdle, Zenon
  <2>2. faults \in Nat
    BY Parts, Zenon DEF BoundsOk
  <2>3. rows'[j] = rows[j] /\ keystore'[j] = keystore[j] /\ (j \in tasks' <=> j \in tasks)
    BY <1>4, Zenon
  <2>4. faults' = 0 => faults = 0
    BY <2>2
  <2>5. faults > 0 => faults' > 0
    BY <2>2, Zenon
  <2>6. AgreesNow(j)'
    BY <2>1, <2>3, <2>4, Zenon DEF AgreesNow
  <2>7. RememberedNow(j)'
    BY <2>1, <2>3, <2>5, Zenon DEF RememberedNow, Exists
  <2> QED BY <2>6, <2>7, Zenon DEF AgreesNow, Agrees, RememberedNow, Remembered
<1>5. k \in Byok => Agrees(k)'
  <2>1. proc'[p] = r
    BY <1>2, Zenon
  <2> QED BY <2>1, Zenon DEF AgreesNow, Agrees
<1>6. k \in Byok => Remembered(k)'
  <2>1. proc'[p] = r
    BY <1>2, Zenon
  <2> QED BY <2>1, Zenon DEF RememberedNow, Remembered
<1>7. ByokOk'
  BY <1>4, <1>5, <1>6, Zenon DEF ByokOk
<1> QED BY <1>3, <1>7, SerialParts, PTL

(* The same for an operation that ends. *)
LEMMA Ended ==
    ASSUME BaseInv, SerialInv, NEW p \in Procs, proc[p] # Idle, Done(p), NEW k, k = proc[p].k,
           \A j \in Byok \ {k} : rows'[j] = rows[j] /\ keystore'[j] = keystore[j] /\ (j \in tasks' <=> j \in tasks),
           faults' = faults \/ faults' > 0,
           k \in Byok => AgreesNow(k)' /\ RememberedNow(k)',
           InConfigs', PrimaryOk'
    PROVE  SerialInv'
<1>1. Fresh(Idle)'
  BY Zenon DEF Fresh, Idle, Ops
<1>2. proc' = [proc EXCEPT ![p] = Idle]
  BY Zenon DEF Done
<1> QED BY <1>1, <1>2, Stepped, Zenon

(* A row that keeps its configuration disturbs neither configurations nor     *)
(* primary keys.                                                              *)
LEMMA Kept ==
    ASSUME BaseInv, SerialInv, NEW k \in Keys, \A j \in Keys \ {k} : rows'[j] = rows[j],
           rows'[k] # NoRow <=> rows[k] # NoRow, rows'[k].cfg = rows[k].cfg,
           UNCHANGED <<configs, primary, linked>>
    PROVE  InConfigs' /\ PrimaryOk'
<1>1. InConfigs /\ PrimaryOk /\ TablesOk
  BY Parts, SerialParts, Zenon
<1>2. \A j \in Keys : (rows'[j] # NoRow <=> rows[j] # NoRow) /\ rows'[j].cfg = rows[j].cfg
  BY Zenon
<1>3. InConfigs'
  BY <1>1, <1>2, Zenon DEF InConfigs, Exists
<1>4. \A c \in Configs : primary[c] # None => primary[c] \in Keys
  BY <1>1, Zenon DEF TablesOk
<1>5. linked \subseteq Configs
  BY <1>1, Zenon DEF TablesOk
<1>6. PrimaryOk'
  BY <1>1, <1>2, <1>4, <1>5, Zenon DEF PrimaryOk, Exists
<1> QED BY <1>3, <1>6, Zenon

(* What an operation knows of the key it read. *)
LEMMA Own ==
    ASSUME BaseInv, SerialInv, NEW p \in Procs, proc[p].op \in Ops \ {"create", "deleteConfig"},
           NEW k, k = proc[p].k
    PROVE  /\ k \in Keys /\ rows[k] # NoRow /\ rows[k] \in Row /\ RowOk(k, rows[k]) /\ Consistent(k, rows[k])
           /\ ProcOk(proc[p]) /\ proc[p] \in Proc /\ proc[p].copy \in Row /\ Consistent(k, proc[p].copy)
           /\ rows[k].cfg = proc[p].copy.cfg
           /\ ~Unsaved(proc[p]) => rows[k].state = proc[p].copy.state /\ rows[k].native = proc[p].copy.native
           /\ Fresh(proc[p]) /\ proc[p] # Idle
           /\ ~Apart(proc[p]) /\ k \in Byok => AgreesNow(k)
           /\ ~Makes(proc[p]) /\ k \in Byok => RememberedNow(k)
<1>1. proc[p].op \in Ops \ {"deleteConfig"}
  BY Zenon
<1>2. /\ ProcOk(proc[p]) /\ proc[p] \in Proc /\ k \in Keys /\ proc[p].copy \in Row
      /\ Consistent(k, proc[p].copy) /\ proc[p] # Idle
  BY <1>1, Running, Zenon
<1>3. /\ Fresh(proc[p])
      /\ ~Apart(proc[p]) /\ k \in Byok => AgreesNow(k)
      /\ ~Makes(proc[p]) /\ k \in Byok => RememberedNow(k)
  BY <1>2, OthersIdle, Zenon
<1>4. /\ Exists(k) /\ rows[k].cfg = proc[p].copy.cfg
      /\ ~Unsaved(proc[p]) => rows[k].state = proc[p].copy.state /\ rows[k].native = proc[p].copy.native
  BY <1>3, Zenon DEF Fresh
<1>5. rows[k] # NoRow /\ rows[k] \in Row /\ Consistent(k, rows[k])
  BY <1>2, <1>4, Copied, Zenon DEF Exists
<1>6. RowOk(k, rows[k])
  BY <1>2, Parts, Zenon DEF RowsInv
<1> QED BY <1>2, <1>3, <1>4, <1>5, <1>6, ZenonT(40)

(* An operation that goes on with the row as it is stored. *)
LEMMA FreshOn ==
    ASSUME BaseInv, SerialInv, NEW p \in Procs, proc[p].op \in {"sync", "update", "delete"},
           NEW k, k = proc[p].k, NEW r, r.op = proc[p].op, r.k = k, r.c = proc[p].c, r.pc # "rows",
           rows'[k] # NoRow, rows'[k].cfg = rows[k].cfg, rows'[k].cfg = r.copy.cfg,
           rows'[k].state = r.copy.state, rows'[k].native = r.copy.native,
           UNCHANGED <<configs, primary, linked>>
    PROVE  Fresh(r)'
<1>1. Fresh(proc[p])
  BY Own, Zenon DEF Ops
<1>2. IsPrimary(k)' => IsPrimary(k)
  BY Zenon DEF IsPrimary
<1>3. proc[p].op = "delete" => (IsPrimary(k) => r.c = rows[k].cfg)
  BY <1>1, Zenon DEF Fresh
<1>4. r.op \notin {"create", "pending", "deleteConfig", "import"}
  BY Zenon
<1>5. ~Unsaved(r)
  BY Zenon DEF Unsaved
<1>6. Exists(k)'
  BY Zenon DEF Exists
<1> QED BY <1>2, <1>3, <1>4, <1>5, <1>6, ZenonT(40) DEF Fresh

(* A synchronisation asks the keystore, and stores the versions. *)
LEMMA syncSerial ==
    ASSUME BaseInv, SerialInv, NEW p \in Procs, getKeyFromProvider(p) \/ syncKeyVersions(p)
    PROVE  SerialInv'
<1> PICK k : k = proc[p].k
  BY Zenon
<1>1. proc[p].op \in {"sync", "update", "delete"} /\ proc[p].pc \in {"get", "versions"}
  BY Zenon DEF getKeyFromProvider, syncKeyVersions, At
<1>2. proc[p].op \in Ops \ {"create", "deleteConfig"}
  BY <1>1, Zenon DEF Ops
<1>3. /\ k \in Keys /\ rows[k] # NoRow /\ ProcOk(proc[p]) /\ proc[p] \in Proc /\ proc[p] # Idle
      /\ rows[k].cfg = proc[p].copy.cfg
      /\ ~Unsaved(proc[p]) => rows[k].state = proc[p].copy.state /\ rows[k].native = proc[p].copy.native
  BY <1>2, Own, Zenon
<1>4. k \notin Byok
  BY <1>1, <1>3, Zenon DEF ProcOk, Hyok
<1>5. ~Unsaved(proc[p])
  BY <1>1, Zenon DEF Unsaved
<1>6. UNCHANGED <<rows, configs, primary, linked, keystore, tasks, faults>>
  BY Zenon DEF getKeyFromProvider, syncKeyVersions, tables, provider, queues, bounds
<1>7. PICK s, pc : pc \in {"versions", "write"} /\ proc' = [proc EXCEPT ![p].to = s, ![p].pc = pc]
  <2>0. "versions" \in {"versions", "write"} /\ "write" \in {"versions", "write"}
    BY Zenon
  <2>1. CASE getKeyFromProvider(p)
    BY <2>0, <2>1, Zenon DEF getKeyFromProvider
  <2>2. CASE syncKeyVersions(p)
    <3>1. proc \in [Procs -> Proc]
      BY Parts, Zenon DEF ProcsInv
    <3>2. proc' = [proc EXCEPT ![p].to = proc[p].to, ![p].pc = "write"]
      BY <1>3, <2>2, <3>1, Zenon DEF syncKeyVersions, Proc
    <3> QED BY <2>0, <3>2, Zenon
  <2> QED BY <2>1, <2>2, Zenon
<1> PICK r : r = [proc[p] EXCEPT !.to = s, !.pc = pc]
  BY Zenon
<1>8. r.op = proc[p].op /\ r.k = k /\ r.c = proc[p].c /\ r.copy = proc[p].copy /\ r.pc # "rows"
  BY <1>3, <1>7, Zenon DEF Proc
<1>9. proc' = [proc EXCEPT ![p] = r]
  BY <1>7, ZenonT(40)
<1>10. Fresh(r)'
  <2>1. /\ rows'[k] # NoRow /\ rows'[k].cfg = rows[k].cfg /\ rows'[k].cfg = r.copy.cfg
        /\ rows'[k].state = r.copy.state /\ rows'[k].native = r.copy.native
    BY <1>3, <1>5, <1>6, <1>8, Zenon
  <2> QED BY <1>1, <1>6, <1>8, <2>1, FreshOn, Zenon
<1>11. InConfigs' /\ PrimaryOk'
  BY <1>3, <1>6, Kept, Zenon
<1> QED BY <1>3, <1>4, <1>6, <1>9, <1>10, <1>11, Stepped, Zenon

(* It writes the state. *)
LEMMA syncHYOKKeyStateSerial ==
    ASSUME BaseInv, SerialInv, NEW p \in Procs, syncHYOKKeyState(p)
    PROVE  SerialInv'
<1> PICK k : k = proc[p].k
  BY Zenon
<1> PICK next : next = [proc[p].copy EXCEPT !.state = proc[p].to]
  BY Zenon
<1>1. proc[p].op \in {"sync", "update", "delete"} /\ proc[p].pc = "write"
  BY Zenon DEF syncHYOKKeyState, At
<1>2. proc[p].op \in Ops \ {"create", "deleteConfig"} /\ ~Unsaved(proc[p])
  BY <1>1, Zenon DEF Ops, Unsaved
<1>3. /\ k \in Keys /\ rows[k] # NoRow /\ ProcOk(proc[p]) /\ proc[p] \in Proc /\ proc[p] # Idle
      /\ proc[p].copy \in Row /\ rows[k] \in Row /\ rows[k].cfg = proc[p].copy.cfg
      /\ rows[k].state = proc[p].copy.state /\ rows[k].native = proc[p].copy.native
  BY <1>2, Own, ZenonT(40)
<1>4. k \notin Byok /\ proc[p].to \in States
  BY <1>1, <1>3, Zenon DEF ProcOk, Hyok
<1>5. next \in Row /\ next.cfg = rows[k].cfg /\ next.state = proc[p].to /\ next.native = rows[k].native
  BY <1>3, <1>4, Zenon DEF Row
<1>6. UNCHANGED <<configs, primary, linked, keystore, tasks, faults>>
  BY Zenon DEF syncHYOKKeyState, provider, bounds
<1>7. /\ rows'[k] # NoRow /\ rows'[k].cfg = rows[k].cfg /\ rows'[k].state = next.state
      /\ rows'[k].native = next.native /\ \A j \in Keys \ {k} : rows'[j] = rows[j]
  <2>1. CASE proc[p].to = proc[p].copy.state
    <3>1. rows' = rows
      BY <2>1, Zenon DEF syncHYOKKeyState
    <3> QED BY <1>3, <1>5, <2>1, <3>1, Zenon
  <2>2. CASE proc[p].to # proc[p].copy.state
    <3>1. rows' = Patch(k, next)
      BY <2>2, Zenon DEF syncHYOKKeyState
    <3>2. RowsInv /\ Exists(k)
      BY <1>3, Parts, Zenon DEF Exists
    <3>3. /\ rows'[k] \in Row /\ rows'[k].cfg = next.cfg /\ rows'[k].state = next.state
          /\ rows'[k].native = (next.native \/ rows[k].native)
          /\ \A j \in Keys \ {k} : rows'[j] = rows[j]
      <4>1. k \in Keys /\ next \in Row
        BY <1>3, <1>5, Zenon
      <4> QED BY <3>1, <3>2, <4>1, PatchIs, ZenonT(40)
    <3>4. (next.native \/ rows[k].native) = next.native
      BY <1>5 DEF Row
    <3> QED BY <1>5, <3>3, <3>4, IdleOk, Zenon
  <2> QED BY <2>1, <2>2, Zenon
<1>8. InConfigs' /\ PrimaryOk'
  BY <1>3, <1>6, <1>7, Kept, Zenon
<1>9. \A j \in Byok \ {k} : rows'[j] = rows[j]
  BY <1>7, KeysAssumption, Zenon
<1>10. CASE proc[p].op = "sync"
  <2>1. Done(p)
    BY <1>10 DEF syncHYOKKeyState, Done
  <2> QED BY <1>3, <1>4, <1>6, <1>8, <1>9, <2>1, Ended, Zenon
<1>11. CASE proc[p].op \in {"update", "delete"}
  <2> PICK pc : pc = IF proc[p].op = "update" THEN "commit" ELSE "check"
    BY Zenon
  <2> PICK r : r = [proc[p] EXCEPT !.copy = next, !.to = "NONE", !.pc = pc]
    BY Zenon
  <2>1. r.op = proc[p].op /\ r.k = k /\ r.c = proc[p].c /\ r.copy = next /\ r.pc # "rows"
    BY <1>3, Zenon DEF Proc
  <2>2. proc' = [proc EXCEPT ![p] = r]
    BY <1>11, Zenon DEF syncHYOKKeyState
  <2>3. Fresh(r)'
    <3>1. /\ rows'[k].cfg = r.copy.cfg /\ rows'[k].state = r.copy.state /\ rows'[k].native = r.copy.native
      BY <1>5, <1>7, <2>1, Zenon
    <3> QED BY <1>1, <1>6, <1>7, <2>1, <3>1, FreshOn, ZenonT(40)
  <2> QED BY <1>3, <1>4, <1>6, <1>8, <1>9, <2>2, <2>3, Stepped, ZenonT(40)
<1> QED BY <1>1, <1>10, <1>11, Zenon

(* An update writes its copy, and calls the keystore for the enablement. *)
LEMMA applyKeyPatchSerial ==
    ASSUME BaseInv, SerialInv, NEW p \in Procs, applyKeyPatch(p)
    PROVE  SerialInv'
<1> PICK k : k = proc[p].k
  BY Zenon
<1> PICK copy : copy = copyFieldsToModelKey(proc[p].copy, proc[p].to)
  BY Zenon
<1>1. proc[p].op = "update" /\ proc[p].pc = "commit"
  BY Zenon DEF applyKeyPatch, At
<1>2. /\ proc[p].op \in Ops \ {"create", "deleteConfig"} /\ ~Unsaved(proc[p])
      /\ ~Apart(proc[p]) /\ ~Makes(proc[p])
  BY <1>1, Zenon DEF Ops, Unsaved, Apart, Makes
<1>3. /\ k \in Keys /\ rows[k] # NoRow /\ ProcOk(proc[p]) /\ proc[p] \in Proc /\ proc[p] # Idle
      /\ proc[p].copy \in Row /\ rows[k] \in Row /\ rows[k].cfg = proc[p].copy.cfg
      /\ rows[k].state = proc[p].copy.state /\ rows[k].native = proc[p].copy.native
      /\ k \in Byok => AgreesNow(k) /\ RememberedNow(k)
  BY <1>2, Own, Zenon
<1>4. proc[p].to \in {"NONE", "ENABLED", "DISABLED"}
  BY <1>1, <1>3, Zenon DEF ProcOk
<1>5. copy \in Row /\ copy.cfg = rows[k].cfg /\ copy.native = rows[k].native
  BY <1>3, <1>4, ZenonT(40) DEF copyFieldsToModelKey, Row, States
<1>6. UNCHANGED <<configs, primary, linked, tasks>> /\ Done(p)
  BY Zenon DEF applyKeyPatch
<1>7. RowsInv /\ Exists(k) /\ ProviderOk /\ BoundsOk
  BY <1>3, Parts, Zenon DEF Exists
<1>8. rows' = PatchAll(k, copy) =>
        /\ rows'[k] # NoRow /\ rows'[k].cfg = rows[k].cfg /\ rows'[k].state = copy.state
        /\ rows'[k].native = rows[k].native /\ \A j \in Keys \ {k} : rows'[j] = rows[j]
  <2>1. k \in Keys /\ copy \in Row
    BY <1>3, <1>5, Zenon
  <2> QED BY <1>5, <1>7, <2>1, PatchAllIs, IdleOk
<1>9. rows' = PatchAll(k, copy) \/ rows' = rows
  BY Zenon DEF applyKeyPatch
<1>10. InConfigs' /\ PrimaryOk'
  <2>1. rows'[k] # NoRow /\ rows'[k].cfg = rows[k].cfg /\ \A j \in Keys \ {k} : rows'[j] = rows[j]
    BY <1>3, <1>8, <1>9, Zenon
  <2> QED BY <1>3, <1>6, <2>1, Kept, Zenon
<1>11. \A j \in Byok \ {k} : rows'[j] = rows[j] /\ keystore'[j] = keystore[j]
  <2>1. \A j \in Keys \ {k} : rows'[j] = rows[j]
    BY <1>8, <1>9, Zenon
  <2>2. keystore' = keystore \/ keystore' = [keystore EXCEPT ![k] = copy.state]
    BY Zenon DEF applyKeyPatch, enableKey
  <2>3. \A j \in Keys \ {k} : keystore'[j] = keystore[j]
    BY <1>7, <2>2 DEF ProviderOk
  <2> QED BY <2>1, <2>3, KeysAssumption, Zenon
<1>12. ASSUME k \in Byok PROVE AgreesNow(k)' /\ RememberedNow(k)' /\ (faults' = faults \/ faults' > 0)
  <2>1. CASE copy = proc[p].copy /\ rows' = PatchAll(k, copy) /\ UNCHANGED <<keystore, faults>>
    <3>1. rows'[k].state = rows[k].state /\ rows'[k].native = rows[k].native /\ rows'[k] # NoRow
      BY <1>3, <1>8, <2>1, Zenon
    <3> QED BY <1>3, <1>6, <1>12, <2>1, <3>1, Zenon DEF AgreesNow, RememberedNow, Exists
  <2>2. CASE rows' = PatchAll(k, copy) /\ enableKey(k, copy)
    <3>1. rows'[k].state = copy.state /\ rows'[k].native /\ rows'[k] # NoRow
      BY <1>5, <1>8, <2>2, ZenonT(40) DEF enableKey
    <3>2. keystore'[k] = copy.state /\ faults' = faults
      BY <1>3, <1>7, <2>2 DEF enableKey, ProviderOk
    <3> QED BY <3>1, <3>2, Zenon DEF AgreesNow, RememberedNow, Exists
  <2>3. CASE copy.native /\ Fault /\ UNCHANGED rows
    <3>1. faults' > 0 /\ faults' # 0
      BY <1>7, <2>3 DEF Fault, BoundsOk
    <3>2. rows'[k].native /\ rows'[k] # NoRow
      BY <1>3, <1>5, <2>3, Zenon
    <3> QED BY <3>1, <3>2, Zenon DEF AgreesNow, RememberedNow, Exists
  <2>4. CASE UNCHANGED <<rows, keystore, faults>>
    BY <1>3, <1>6, <1>12, <2>4, Zenon DEF AgreesNow, RememberedNow, Exists
  <2> QED BY <2>1, <2>2, <2>3, <2>4, Zenon DEF applyKeyPatch
<1>13. faults' = faults \/ faults' > 0
  <2>1. Fault => faults' > 0
    BY <1>7 DEF Fault, BoundsOk
  <2> QED BY <2>1, Zenon DEF applyKeyPatch, enableKey
<1> QED BY <1>3, <1>6, <1>10, <1>11, <1>12, <1>13, Ended, Zenon

(* A deletion calls the keystore, or is refused. *)
LEMMA deleteProviderKeySerial ==
    ASSUME BaseInv, SerialInv, NEW p \in Procs, deleteProviderKey(p)
    PROVE  SerialInv'
<1> PICK k : k = proc[p].k
  BY Zenon
<1> PICK r : r = [proc[p] EXCEPT !.pc = "rows"]
  BY Zenon
<1>1. proc[p].op = "delete" /\ proc[p].pc = "check"
  BY Zenon DEF deleteProviderKey, At
<1>2. /\ proc[p].op \in Ops \ {"create", "deleteConfig"} /\ ~Unsaved(proc[p])
      /\ ~Apart(proc[p]) /\ ~Makes(proc[p])
  BY <1>1, Zenon DEF Ops, Unsaved, Apart, Makes
<1>3. /\ k \in Keys /\ rows[k] # NoRow /\ proc[p] \in Proc /\ proc[p] # Idle /\ Consistent(k, rows[k])
      /\ rows[k].cfg = proc[p].copy.cfg /\ Fresh(proc[p])
      /\ rows[k].state = proc[p].copy.state /\ rows[k].native = proc[p].copy.native
      /\ k \in Byok => AgreesNow(k) /\ RememberedNow(k)
  BY <1>2, Own, ZenonT(40)
<1>4. UNCHANGED <<rows, configs, primary, linked, tasks, faults>>
  BY Zenon DEF deleteProviderKey, tables, queues, bounds
<1>5. InConfigs' /\ PrimaryOk'
  BY <1>3, <1>4, Kept, Zenon
<1>6. ProviderOk /\ TablesOk
  BY Parts, Zenon
<1>7. CASE Done(p) /\ UNCHANGED keystore
  <2>1. k \in Byok => AgreesNow(k)' /\ RememberedNow(k)'
    BY <1>3, <1>4, <1>7, Zenon DEF AgreesNow, RememberedNow, Exists
  <2> QED BY <1>3, <1>4, <1>5, <1>7, <2>1, Ended, Zenon
<1>8. ASSUME ~(proc[p].c # None /\ proc[p].c \in linked), proc' = [proc EXCEPT ![p].pc = "rows"],
             k \in Byok /\ rows[k].native => keystore'[k] = "absent",
             keystore' = keystore \/ keystore' = [keystore EXCEPT ![k] = "absent"]
      PROVE  SerialInv'
  <2>1. /\ r.op = "delete" /\ r.k = k /\ r.c = proc[p].c /\ r.copy = proc[p].copy /\ r.pc = "rows"
        /\ proc' = [proc EXCEPT ![p] = r]
    BY <1>1, <1>3, <1>8, Zenon DEF Proc
  <2>2. proc[p].c \notin linked
    BY <1>6, <1>8, KeysAssumption DEF TablesOk
  <2>3. IsPrimary(k)' => r.c = rows'[k].cfg
    BY <1>1, <1>3, <1>4, <2>1, Zenon DEF Fresh, IsPrimary
  <2>4. r.op \notin {"create", "pending", "deleteConfig"} /\ r.op \in Ops \ {"create", "deleteConfig"} /\ ~Unsaved(r)
    BY <2>1 DEF Unsaved, Ops
  <2>5. Fresh(r)'
    BY <1>3, <1>4, <1>8, <2>1, <2>2, <2>3, <2>4, SMTT(30) DEF Fresh, Exists
  <2>6. Apart(r)
    BY <2>1, Zenon DEF Apart
  <2>7. keystore'[k] = keystore[k] \/ keystore'[k] = "absent"
    BY <1>3, <1>6, <1>8, SMTT(30) DEF ProviderOk
  <2>8. k \in Byok => RememberedNow(k)'
    BY <1>3, <1>4, <2>7, ZenonT(40) DEF RememberedNow, Exists
  <2>9. \A j \in Byok \ {k} : keystore'[j] = keystore[j]
    BY <1>6, <1>8, KeysAssumption, SMTT(30) DEF ProviderOk
  <2> QED BY <1>3, <1>4, <1>5, <2>1, <2>5, <2>6, <2>8, <2>9, Stepped, ZenonT(40)
<1>9. CASE proc' = [proc EXCEPT ![p].pc = "rows"]
  <2> DEFINE InKeystore == k \in Byok /\ proc[p].copy.state # "PENDING_CREATION" /\ proc[p].copy.native
  <2>1. k \in Byok /\ rows[k].native => InKeystore
    BY <1>3 DEF Consistent
  <2>2. CASE keystore' = [keystore EXCEPT ![k] = "absent"] /\ ~(proc[p].c # None /\ proc[p].c \in linked)
    BY <1>3, <1>6, <1>8, <1>9, <2>2, Zenon DEF ProviderOk
  <2>3. CASE ~InKeystore /\ UNCHANGED keystore /\ ~(proc[p].c # None /\ proc[p].c \in linked)
    BY <1>8, <1>9, <2>1, <2>3, Zenon
  <2> HIDE DEF InKeystore
  <2> QED BY <1>7, <2>2, <2>3, ZenonT(40) DEF deleteProviderKey, InKeystore
<1> QED BY <1>7, <1>9, Zenon DEF deleteProviderKey

(* The rows of a deleted key go, unless it is labelled. *)
LEMMA deleteRowsSerial ==
    ASSUME BaseInv, SerialInv, NEW p \in Procs, deleteRows(p)
    PROVE  SerialInv'
<1> PICK k : k = proc[p].k
  BY Zenon
<1>1. proc[p].op = "delete" /\ proc[p].pc = "rows"
  BY Zenon DEF deleteRows, At
<1>2. proc[p].op \in Ops \ {"create", "deleteConfig"} /\ ~Unsaved(proc[p]) /\ ~Makes(proc[p])
  BY <1>1, Zenon DEF Ops, Unsaved, Makes
<1>3. /\ k \in Keys /\ rows[k] # NoRow /\ proc[p] # Idle /\ Consistent(k, rows[k]) /\ RowOk(k, rows[k])
      /\ rows[k] \in Row /\ Fresh(proc[p]) /\ (k \in Byok => RememberedNow(k))
  BY <1>2, Own, Zenon
<1>4. /\ IsPrimary(k) => proc[p].c = rows[k].cfg
      /\ proc[p].c \notin linked
      /\ k \in Byok /\ rows[k].native => keystore[k] = "absent"
  BY <1>1, <1>3, Zenon DEF Fresh
<1>5. UNCHANGED <<configs, primary, linked, keystore, tasks, faults>> /\ Done(p)
  BY Zenon DEF deleteRows, provider, queues, bounds
<1>6. CASE rows[k].labels
  <2>1. rows' = rows
    BY <1>6, Zenon DEF deleteRows
  <2>2. k \in Labelled
    BY <1>3, <1>6, Zenon DEF RowOk
  <2>3. k \in Byok => AgreesNow(k)' /\ RememberedNow(k)'
    BY <1>3, <1>4, <1>5, <2>1, <2>2, Zenon DEF AgreesNow, RememberedNow, Exists, Consistent
  <2>4. InConfigs' /\ PrimaryOk'
    BY <1>3, <1>5, <2>1, Kept, Zenon
  <2> QED BY <1>3, <1>5, <2>1, <2>3, <2>4, Ended, ZenonT(40)
<1>7. CASE ~rows[k].labels
  <2>0. RowsInv /\ TablesOk /\ InConfigs /\ PrimaryOk
    BY Parts, SerialParts, Zenon
  <2>1. rows'[k] = NoRow /\ \A j \in Keys \ {k} : rows'[j] = rows[j]
    BY <1>3, <1>7, <2>0, Zenon DEF deleteRows, RowsInv
  <2>2. NoRow.state = "NONE" /\ "NONE" \notin Usable \union {"PENDING_CREATION"}
    BY DEF NoRow, Usable
  <2>3. k \in Byok => AgreesNow(k)' /\ RememberedNow(k)'
    BY <1>3, <1>4, <1>5, <2>1, <2>2, Zenon DEF AgreesNow, RememberedNow, Exists
  <2>4. InConfigs'
    BY <1>5, <2>0, <2>1, Zenon DEF InConfigs, Exists
  <2>5. \A c \in linked : c \in configs /\ OwnPrimary /\ Exists(primary[c]) => primary[c] # k
    <3>1. ASSUME NEW c \in linked, c \in configs, OwnPrimary, primary[c] = k PROVE FALSE
      <4>1. c \in Configs /\ primary[c] # None
        BY <1>3, <2>0, <3>1, KeysAssumption, ZenonT(40) DEF TablesOk
      <4>2. rows[k].cfg = c
        BY <1>3, <2>0, <3>1, <4>1, ZenonT(40) DEF PrimaryOk, Exists
      <4>3. IsPrimary(k)
        BY <3>1, <4>2, Zenon DEF IsPrimary
      <4> QED BY <1>4, <3>1, <4>2, <4>3, ZenonT(40)
    <3> QED BY <3>1, Zenon
  <2>6. \A c \in Configs : primary[c] # None => primary[c] \in Keys
    BY <2>0 DEF TablesOk
  <2>7. PrimaryOk'
    <3>1. ASSUME OwnPrimary, NEW c \in Configs, primary[c] # None, rows'[primary[c]] # NoRow
          PROVE  rows'[primary[c]].cfg = c
      BY <2>0, <2>1, <2>6, <3>1, ZenonT(40) DEF PrimaryOk, Exists
    <3>2. ASSUME OwnPrimary, NEW c \in linked
          PROVE  c \in configs /\ primary[c] # None /\ rows'[primary[c]] # NoRow
      <4>1. c \in Configs /\ c \in configs /\ primary[c] # None /\ rows[primary[c]] # NoRow
        BY <2>0, <3>2, Zenon DEF PrimaryOk, Exists, TablesOk
      <4>2. primary[c] # k /\ primary[c] \in Keys
        BY <2>5, <2>6, <3>2, <4>1, Zenon DEF Exists
      <4> QED BY <2>1, <4>1, <4>2, Zenon
    <3> QED BY <1>5, <3>1, <3>2, Zenon DEF PrimaryOk, Exists
  <2>8. \A j \in Byok \ {k} : rows'[j] = rows[j]
    BY <2>1, KeysAssumption, Zenon
  <2> QED BY <1>3, <1>5, <2>3, <2>4, <2>7, <2>8, Ended, ZenonT(40)
<1> QED BY <1>6, <1>7, Zenon

(* A Patch of a row that is there, and keeps its configuration. *)
LEMMA Patched ==
    ASSUME BaseInv, NEW k \in Keys, rows[k] # NoRow, NEW w \in Row, w.cfg = rows[k].cfg,
           rows' = PatchAll(k, w) \/ (rows' = Patch(k, w) /\ w.native = rows[k].native)
    PROVE  /\ rows'[k] # NoRow /\ rows'[k].cfg = rows[k].cfg /\ rows'[k].state = w.state
           /\ rows'[k].native = w.native /\ \A j \in Keys \ {k} : rows'[j] = rows[j]
           /\ \A j \in Byok \ {k} : rows'[j] = rows[j]
<1>1. RowsInv /\ Exists(k)
  BY Parts, Zenon DEF Exists
<1>2. rows'[k] \in Row /\ rows'[k].cfg = w.cfg /\ rows'[k].state = w.state
      /\ rows'[k].native = w.native /\ \A j \in Keys \ {k} : rows'[j] = rows[j]
  <2>1. CASE rows' = PatchAll(k, w)
    BY <1>1, <2>1, PatchAllIs
  <2>2. CASE rows' = Patch(k, w) /\ w.native = rows[k].native
    <3>1. /\ rows'[k] \in Row /\ rows'[k].cfg = w.cfg /\ rows'[k].state = w.state
          /\ rows'[k].native = (w.native \/ rows[k].native) /\ \A j \in Keys \ {k} : rows'[j] = rows[j]
      BY <1>1, <2>2, PatchIs, SMTT(30)
    <3>2. (w.native \/ rows[k].native) = w.native
      BY <2>2, Zenon DEF Row
    <3> QED BY <3>1, <3>2, Zenon
  <2> QED BY <2>1, <2>2, Zenon
<1> QED BY <1>2, IdleOk, KeysAssumption, Zenon

(* Import parameters are stored beside the key. *)
LEMMA fetchImportParamsSerial ==
    ASSUME BaseInv, SerialInv, NEW p \in Procs, fetchImportParams(p)
    PROVE  SerialInv'
<1> PICK k : k = proc[p].k
  BY Zenon
<1>1. proc[p].op = "params"
  BY Zenon DEF fetchImportParams, At
<1>2. /\ proc[p].op \in Ops \ {"create", "deleteConfig"} /\ ~Apart(proc[p]) /\ ~Makes(proc[p])
  BY <1>1, Zenon DEF Ops, Apart, Makes
<1>3. /\ k \in Keys /\ rows[k] # NoRow /\ rows[k] \in Row /\ proc[p] # Idle
      /\ k \in Byok => AgreesNow(k) /\ RememberedNow(k)
  BY <1>2, Own, Zenon
<1>4. UNCHANGED <<configs, primary, linked, keystore, tasks, faults>> /\ Done(p)
  BY Zenon DEF fetchImportParams, provider, queues, bounds
<1>5. rows' = rows \/ rows' = [rows EXCEPT ![k].params = "valid"]
  BY Zenon DEF fetchImportParams
<1>6. /\ rows'[k] \in Row /\ rows'[k].cfg = rows[k].cfg /\ rows'[k].state = rows[k].state
      /\ rows'[k].native = rows[k].native /\ \A j \in Keys \ {k} : rows'[j] = rows[j]
  <2>1. RowsInv
    BY Parts, Zenon
  <2> QED BY <1>3, <1>5, <2>1 DEF RowsInv, Row
<1>7. rows'[k] # NoRow /\ \A j \in Byok \ {k} : rows'[j] = rows[j]
  BY <1>6, IdleOk, KeysAssumption, Zenon
<1>8. k \in Byok => AgreesNow(k)' /\ RememberedNow(k)'
  BY <1>3, <1>4, <1>6, <1>7, Zenon DEF AgreesNow, RememberedNow, Exists
<1>9. InConfigs' /\ PrimaryOk'
  BY <1>3, <1>4, <1>6, <1>7, Kept, Zenon
<1> QED BY <1>3, <1>4, <1>7, <1>8, <1>9, Ended, Zenon

(* Material is imported into the keystore. *)
LEMMA importProviderKeyMaterialSerial ==
    ASSUME BaseInv, SerialInv, NEW p \in Procs, importProviderKeyMaterial(p)
    PROVE  SerialInv'
<1> PICK k : k = proc[p].k
  BY Zenon
<1> PICK w : w = [proc[p].copy EXCEPT !.state = "ENABLED"]
  BY Zenon
<1> PICK r : r = [proc[p] EXCEPT !.copy = w, !.pc = "write"]
  BY Zenon
<1>1. proc[p].op = "import" /\ proc[p].pc = "check"
  BY Zenon DEF importProviderKeyMaterial, At
<1>2. /\ proc[p].op \in Ops \ {"create", "deleteConfig"} /\ ~Unsaved(proc[p])
      /\ ~Apart(proc[p]) /\ ~Makes(proc[p])
  BY <1>1, Zenon DEF Ops, Unsaved, Apart, Makes
<1>3. /\ k \in Keys /\ rows[k] # NoRow /\ proc[p] \in Proc /\ proc[p] # Idle /\ Consistent(k, rows[k])
      /\ ProcOk(proc[p]) /\ proc[p].copy \in Row /\ rows[k].cfg = proc[p].copy.cfg
      /\ rows[k].state = proc[p].copy.state
      /\ k \in Byok => AgreesNow(k) /\ RememberedNow(k)
  BY <1>2, Own, Zenon
<1>4. UNCHANGED <<rows, configs, primary, linked, tasks, faults>>
  BY Zenon DEF importProviderKeyMaterial, tables, queues, bounds
<1>5. InConfigs' /\ PrimaryOk'
  BY <1>3, <1>4, Kept, Zenon
<1>6. CASE Done(p) /\ UNCHANGED keystore
  <2>1. k \in Byok => AgreesNow(k)' /\ RememberedNow(k)'
    BY <1>3, <1>4, <1>6, Zenon DEF AgreesNow, RememberedNow, Exists
  <2> QED BY <1>3, <1>4, <1>5, <1>6, <2>1, Ended, ZenonT(40)
<1>7. CASE /\ keystore' = [keystore EXCEPT ![k] = "ENABLED"]
           /\ proc' = [proc EXCEPT ![p].copy.state = "ENABLED", ![p].pc = "write"]
  <2>1. rows[k].state = "PENDING_IMPORT" /\ rows[k].native
    BY <1>1, <1>3 DEF ProcOk, Consistent, Usable
  <2>2. keystore'[k] = "ENABLED" /\ \A j \in Byok \ {k} : keystore'[j] = keystore[j]
    BY <1>3, <1>7, Parts, KeysAssumption, Zenon DEF ProviderOk
  <2>3. w.state = "ENABLED" /\ w.cfg = rows[k].cfg
    BY <1>3, Zenon DEF Row
  <2>4. r.op = "import" /\ r.k = k /\ r.copy = w /\ r.pc = "write"
    BY <1>1, <1>3, Zenon DEF Proc
  <2>5. proc' = [proc EXCEPT ![p] = r]
    BY <1>7, Zenon
  <2>6. Unsaved(r) /\ Apart(r) /\ r.op \in Ops \ {"create", "deleteConfig", "pending", "delete"}
    BY <2>4, Zenon DEF Unsaved, Apart, Ops
  <2>7. Fresh(r)'
    <3>1. rows'[k] # NoRow /\ rows'[k].cfg = r.copy.cfg /\ rows'[k].state = "PENDING_IMPORT"
      BY <1>3, <1>4, <2>1, <2>3, <2>4, Zenon
    <3>2. keystore'[k] = r.copy.state
      BY <2>2, <2>3, <2>4, Zenon
    <3>3. r.op # "create" /\ r.op # "deleteConfig" /\ r.op # "pending" /\ r.op # "delete"
      BY <2>4, Zenon
    <3> QED BY <2>4, <2>6, <3>1, <3>2, <3>3, Zenon DEF Fresh, Exists
  <2>8. RememberedNow(k)'
    BY <1>3, <1>4, <2>1, Zenon DEF RememberedNow, Exists
  <2>9. \A j \in Byok \ {k} : rows'[j] = rows[j] /\ keystore'[j] = keystore[j] /\ (j \in tasks' <=> j \in tasks)
    BY <1>4, <2>2, Zenon
  <2>10. Apart(r) /\ r.k = k
    BY <2>4, <2>6, Zenon
  <2> QED BY <1>3, <1>4, <1>5, <2>5, <2>7, <2>8, <2>9, <2>10, Stepped, ZenonT(40)
<1> QED BY <1>6, <1>7, Zenon DEF importProviderKeyMaterial

(* ... and the row becomes ENABLED. *)
LEMMA persistImportSerial ==
    ASSUME BaseInv, SerialInv, NEW p \in Procs, persistImport(p)
    PROVE  SerialInv'
<1> PICK k : k = proc[p].k
  BY Zenon
<1> PICK t : t = Patch(k, proc[p].copy)
  BY Zenon
<1>1. proc[p].op = "import" /\ proc[p].pc = "write"
  BY Zenon DEF persistImport, At
<1>2. proc[p].op \in Ops \ {"create", "deleteConfig"} /\ Unsaved(proc[p])
  BY <1>1, Zenon DEF Ops, Unsaved
<1>3. /\ k \in Keys /\ rows[k] # NoRow /\ proc[p] # Idle /\ Consistent(k, proc[p].copy)
      /\ ProcOk(proc[p]) /\ proc[p].copy \in Row /\ rows[k].cfg = proc[p].copy.cfg /\ Fresh(proc[p])
  BY <1>2, Own, Zenon
<1>4. keystore[k] = proc[p].copy.state
  BY <1>2, <1>3, Zenon DEF Fresh
<1>5. proc[p].copy.native
  BY <1>1, <1>3, Zenon DEF ProcOk, Consistent, Usable
<1>6. UNCHANGED <<configs, primary, linked, keystore, tasks, faults>> /\ Done(p)
  BY Zenon DEF persistImport, provider, queues, bounds
<1>7. RowsInv /\ Exists(k)
  BY <1>3, Parts, Zenon DEF Exists
<1>8. /\ t \in [Keys -> Row \union {NoRow}] /\ t[k] \in Row /\ t[k].cfg = rows[k].cfg
      /\ t[k].state = keystore[k] /\ t[k].native
      /\ \A j \in Keys \ {k} : t[j] = rows[j]
  <2>1. /\ t \in [Keys -> Row \union {NoRow}] /\ t[k] \in Row /\ t[k].cfg = proc[p].copy.cfg
        /\ t[k].state = proc[p].copy.state /\ t[k].native = (proc[p].copy.native \/ rows[k].native)
        /\ \A j \in Keys \ {k} : t[j] = rows[j]
    <3>1. k \in Keys /\ proc[p].copy \in Row
      BY <1>3, Zenon
    <3> QED BY <1>7, <3>1, PatchIs, Zenon
  <2> QED BY <1>3, <1>4, <1>5, <2>1, Zenon
<1>9. rows' = [t EXCEPT ![k].params = "none"]
  BY <1>7, ZenonT(40) DEF persistImport
<1>10. /\ rows'[k] \in Row /\ rows'[k].cfg = rows[k].cfg /\ rows'[k].state = keystore[k] /\ rows'[k].native
       /\ \A j \in Keys \ {k} : rows'[j] = rows[j]
  BY <1>3, <1>8, <1>9, ZenonT(40) DEF Row
<1>11. rows'[k] # NoRow /\ \A j \in Byok \ {k} : rows'[j] = rows[j]
  BY <1>10, IdleOk, KeysAssumption, Zenon
<1>12. AgreesNow(k)' /\ RememberedNow(k)'
  BY <1>6, <1>10, <1>11, Zenon DEF AgreesNow, RememberedNow, Exists
<1>13. InConfigs' /\ PrimaryOk'
  BY <1>3, <1>6, <1>10, <1>11, Kept, Zenon
<1> QED BY <1>3, <1>6, <1>11, <1>12, <1>13, Ended, ZenonT(40)

(* The pending task gives up, asks for the keystore, or goes on. *)
LEMMA initProviderForPendingKeySerial ==
    ASSUME BaseInv, SerialInv, NEW p \in Procs, initProviderForPendingKey(p)
    PROVE  SerialInv'
<1> PICK k : k = proc[p].k
  BY Zenon
<1> PICK w : w = [proc[p].copy EXCEPT !.state = "ERROR"]
  BY Zenon
<1> PICK r : r = [proc[p] EXCEPT !.pc = "check"]
  BY Zenon
<1>1. proc[p].op = "pending" /\ proc[p].pc = "get"
  BY Zenon DEF initProviderForPendingKey, At
<1>2. /\ proc[p].op \in Ops \ {"create", "deleteConfig"} /\ ~Unsaved(proc[p])
      /\ ~Apart(proc[p]) /\ ~Makes(proc[p])
  BY <1>1 DEF Ops, Unsaved, Apart, Makes
<1>3. /\ k \in Keys /\ rows[k] # NoRow /\ proc[p] \in Proc /\ proc[p] # Idle /\ Consistent(k, rows[k])
      /\ ProcOk(proc[p]) /\ proc[p].copy \in Row /\ rows[k].cfg = proc[p].copy.cfg /\ Fresh(proc[p])
      /\ rows[k].state = proc[p].copy.state /\ rows[k].native = proc[p].copy.native
      /\ k \in Byok => AgreesNow(k) /\ RememberedNow(k)
  BY <1>2, Own, ZenonT(40)
<1>4. rows[k].state = "PENDING_CREATION" /\ ~rows[k].native /\ k \in Byok
  BY <1>1, <1>3, Zenon DEF ProcOk, Consistent
<1>5. UNCHANGED <<configs, primary, linked, keystore, faults>>
  BY Zenon DEF initProviderForPendingKey, bounds
<1>6. CASE transitionPendingKeyToError(p)
  <2>1. w \in Row /\ w.cfg = rows[k].cfg /\ w.state = "ERROR" /\ w.native = rows[k].native
    BY <1>3, Zenon DEF Row, States
  <2>2. rows' = PatchAll(k, w) /\ tasks' = tasks \ {k} /\ Done(p)
    BY <1>6, ZenonT(40) DEF transitionPendingKeyToError
  <2>3. /\ rows'[k] # NoRow /\ rows'[k].cfg = rows[k].cfg /\ rows'[k].state = "ERROR"
        /\ \A j \in Keys \ {k} : rows'[j] = rows[j]
        /\ \A j \in Byok \ {k} : rows'[j] = rows[j]
    BY <1>3, <2>1, <2>2, Patched, ZenonT(40)
  <2>4. "ERROR" \notin Usable \union {"PENDING_CREATION"}
    BY Zenon DEF Usable
  <2>5. AgreesNow(k)'
    BY <2>3, <2>4, Zenon DEF AgreesNow
  <2>6. RememberedNow(k)'
    BY <1>3, <1>4, <1>5, <2>3, <2>4, Zenon DEF RememberedNow
  <2>7. InConfigs' /\ PrimaryOk'
    BY <1>3, <1>5, <2>3, Kept, Zenon
  <2>8. \A j \in Byok \ {k} : rows'[j] = rows[j] /\ keystore'[j] = keystore[j] /\ (j \in tasks' <=> j \in tasks)
    BY <1>5, <2>2, <2>3
  <2> QED BY <1>3, <1>5, <2>2, <2>5, <2>6, <2>7, <2>8, Ended, ZenonT(40)
<1>7. CASE UNCHANGED <<rows, tasks>>
  <2>1. InConfigs' /\ PrimaryOk'
    BY <1>3, <1>5, <1>7, Kept, Zenon
  <2>2. AgreesNow(k)' /\ RememberedNow(k)'
    BY <1>3, <1>4, <1>5, <1>7, Zenon DEF AgreesNow, RememberedNow, Exists
  <2>3. CASE Done(p)
    BY <1>3, <1>5, <1>7, <2>1, <2>2, <2>3, Ended, Zenon
  <2>4. CASE proc' = [proc EXCEPT ![p].pc = "check"]
    <3>1. /\ r.op = "pending" /\ r.k = k /\ r.copy = proc[p].copy /\ r.pc = "check"
          /\ proc' = [proc EXCEPT ![p] = r]
      BY <1>1, <1>3, <2>4 DEF Proc
    <3>2. /\ ~Unsaved(r) /\ r.op \in Ops \ {"create", "deleteConfig"} /\ r.op # "create"
          /\ r.op # "deleteConfig" /\ r.op # "delete"
      BY <3>1, Zenon DEF Unsaved, Ops
    <3>3. k \in tasks'
      BY <1>1, <1>3, <1>7, ZenonT(40) DEF Fresh
    <3>4. Fresh(r)'
      BY <1>3, <1>7, <3>1, <3>2, <3>3, ZenonT(40) DEF Fresh, Exists
    <3> QED BY <1>3, <1>5, <1>7, <2>1, <2>2, <3>1, <3>4, Stepped, ZenonT(40)
  <2> QED BY <1>6, <2>3, <2>4, Zenon DEF initProviderForPendingKey
<1> QED BY <1>6, <1>7, Zenon DEF initProviderForPendingKey

(* It makes the key in the keystore, or finds the one it made before. *)
LEMMA createOrRecoverProviderKeySerial ==
    ASSUME BaseInv, SerialInv, NEW p \in Procs, createOrRecoverProviderKey(p)
    PROVE  SerialInv'
<1> PICK k : k = proc[p].k
  BY Zenon
<1> PICK state : state = IF keystore[k] = "absent" THEN "PENDING_IMPORT" ELSE recoverExistingProviderKey(k)
  BY Zenon
<1> PICK w : w = [proc[p].copy EXCEPT !.state = state, !.native = TRUE]
  BY Zenon
<1> PICK r : r = [proc[p] EXCEPT !.copy = w, !.pc = "write"]
  BY Zenon
<1>1. proc[p].op = "pending" /\ proc[p].pc = "check"
  BY Zenon DEF createOrRecoverProviderKey, At
<1>2. /\ proc[p].op \in Ops \ {"create", "deleteConfig"} /\ ~Unsaved(proc[p])
      /\ ~Apart(proc[p]) /\ ~Makes(proc[p])
  BY <1>1, Zenon DEF Ops, Unsaved, Apart, Makes
<1>3. /\ k \in Keys /\ rows[k] # NoRow /\ proc[p] \in Proc /\ proc[p] # Idle
      /\ ProcOk(proc[p]) /\ proc[p].copy \in Row /\ rows[k].cfg = proc[p].copy.cfg /\ Fresh(proc[p])
      /\ rows[k].state = proc[p].copy.state
      /\ k \in Byok => AgreesNow(k) /\ RememberedNow(k)
  BY <1>2, Own, ZenonT(40)
<1>4. rows[k].state = "PENDING_CREATION"
  BY <1>1, <1>3, Zenon DEF ProcOk
<1>5. UNCHANGED <<rows, configs, primary, linked, tasks, faults>>
  BY Zenon DEF createOrRecoverProviderKey, tables, queues, bounds
<1>6. InConfigs' /\ PrimaryOk'
  BY <1>3, <1>5, Kept, ZenonT(40)
<1>7. CASE Done(p) /\ UNCHANGED keystore
  <2>1. k \in Byok => AgreesNow(k)' /\ RememberedNow(k)'
    BY <1>3, <1>5, <1>7, Zenon DEF AgreesNow, RememberedNow, Exists
  <2> QED BY <1>3, <1>5, <1>6, <1>7, <2>1, Ended, ZenonT(40)
<1>8. CASE keystore' = [keystore EXCEPT ![k] = state] /\ proc' = [proc EXCEPT ![p].copy = w, ![p].pc = "write"]
  <2>1. keystore'[k] = state /\ \A j \in Byok \ {k} : keystore'[j] = keystore[j]
    BY <1>3, <1>8, Parts, KeysAssumption, SMTT(30) DEF ProviderOk
  <2>2. w.state = state /\ w.cfg = rows[k].cfg
    BY <1>3, Zenon DEF Row
  <2>3. r.op = "pending" /\ r.k = k /\ r.copy = w /\ r.pc = "write"
    BY <1>1, <1>3 DEF Proc
  <2>4. proc' = [proc EXCEPT ![p] = r]
    BY <1>8, Zenon
  <2>5. /\ Unsaved(r) /\ Makes(r) /\ r.op \in Ops \ {"create", "deleteConfig"}
        /\ r.op # "create" /\ r.op # "deleteConfig" /\ r.op # "delete" /\ r.op # "import"
    BY <2>3, SMTT(30) DEF Unsaved, Makes, Ops
  <2>6. rows'[k] # NoRow /\ rows'[k].cfg = r.copy.cfg /\ rows'[k].state = "PENDING_CREATION"
    BY <1>3, <1>4, <1>5, <2>2, <2>3, ZenonT(40)
  <2>7. keystore'[k] = r.copy.state /\ k \in tasks'
    BY <1>1, <1>3, <1>5, <2>1, <2>2, <2>3, ZenonT(40) DEF Fresh
  <2>8. Fresh(r)'
    BY <2>3, <2>5, <2>6, <2>7, ZenonT(40) DEF Fresh, Exists
  <2>9. AgreesNow(k)'
    BY <2>6 DEF AgreesNow, Usable
  <2>10. \A j \in Byok \ {k} : rows'[j] = rows[j] /\ keystore'[j] = keystore[j] /\ (j \in tasks' <=> j \in tasks)
    BY <1>5, <2>1, Zenon
  <2>11. ((Apart(r) /\ r.k = k) \/ AgreesNow(k)') /\ ((Makes(r) /\ r.k = k) \/ RememberedNow(k)')
    BY <2>3, <2>5, <2>9, ZenonT(40)
  <2>12. proc[p] # Idle /\ faults' = faults
    BY <1>3, <1>5, Zenon
  <2> QED BY <1>6, <2>4, <2>8, <2>10, <2>11, <2>12, Stepped, ZenonT(40)
<1> QED BY <1>7, <1>8, Zenon DEF createOrRecoverProviderKey

(* ... and the row gets its state. *)
LEMMA persistPendingKeySerial ==
    ASSUME BaseInv, SerialInv, NEW p \in Procs, persistPendingKey(p)
    PROVE  SerialInv'
<1> PICK k : k = proc[p].k
  BY Zenon
<1> PICK w : w = proc[p].copy
  BY Zenon
<1>1. proc[p].op = "pending" /\ proc[p].pc = "write"
  BY Zenon DEF persistPendingKey, At
<1>2. proc[p].op \in Ops \ {"create", "deleteConfig"} /\ Unsaved(proc[p])
  BY <1>1, Zenon DEF Ops, Unsaved
<1>3. /\ k \in Keys /\ rows[k] # NoRow /\ proc[p] # Idle /\ ProcOk(proc[p]) /\ w \in Row
      /\ w.cfg = rows[k].cfg /\ Fresh(proc[p])
  BY <1>2, Own, Zenon
<1>4. keystore[k] = w.state
  BY <1>2, <1>3, Zenon DEF Fresh
<1>5. w.native
  BY <1>1, <1>3, Zenon DEF ProcOk
<1>6. HasKeys(w.cfg)
  BY <1>3, Zenon DEF HasKeys
<1>7. primary' = primary /\ rows' = PatchAll(k, w) /\ tasks' = tasks \ {k}
  BY <1>6, Zenon DEF persistPendingKey, setPrimaryIfFirstKey
<1>8. UNCHANGED <<configs, linked, keystore, faults>> /\ Done(p)
  BY Zenon DEF persistPendingKey, provider, bounds
<1>9. /\ rows'[k] # NoRow /\ rows'[k].cfg = rows[k].cfg /\ rows'[k].state = w.state /\ rows'[k].native = w.native
      /\ \A j \in Keys \ {k} : rows'[j] = rows[j]
      /\ \A j \in Byok \ {k} : rows'[j] = rows[j]
  BY <1>3, <1>7, Patched, ZenonT(40)
<1>10. AgreesNow(k)' /\ RememberedNow(k)'
  BY <1>4, <1>5, <1>8, <1>9, Zenon DEF AgreesNow, RememberedNow, Exists
<1>11. InConfigs' /\ PrimaryOk'
  BY <1>3, <1>7, <1>8, <1>9, Kept, Zenon
<1>12. \A j \in Byok \ {k} : rows'[j] = rows[j] /\ keystore'[j] = keystore[j] /\ (j \in tasks' <=> j \in tasks)
  BY <1>7, <1>8, <1>9, Zenon
<1> QED BY <1>3, <1>8, <1>10, <1>11, <1>12, Ended, ZenonT(40)

(* Detaching a key, and the end of it. *)
LEMMA DetachSerial ==
    ASSUME BaseInv, SerialInv, NEW p \in Procs, Detach(p) \/ updateKey(p)
    PROVE  SerialInv'
<1> PICK k : k = proc[p].k
  BY Zenon
<1> PICK to : to = IF proc[p].op = "detach" THEN "DETACHING" ELSE proc[p].to
  BY Zenon
<1> PICK w : w = [proc[p].copy EXCEPT !.state = to]
  BY Zenon
<1>1. proc[p].op \in {"detach", "terminate"}
  BY Zenon DEF Detach, updateKey, At
<1>2. /\ proc[p].op \in Ops \ {"create", "deleteConfig"} /\ ~Unsaved(proc[p])
      /\ ~Apart(proc[p]) /\ ~Makes(proc[p])
  BY <1>1, Zenon DEF Ops, Unsaved, Apart, Makes
<1>3. /\ k \in Keys /\ rows[k] # NoRow /\ proc[p] # Idle
      /\ ProcOk(proc[p]) /\ proc[p].copy \in Row /\ rows[k].cfg = proc[p].copy.cfg
      /\ rows[k].native = proc[p].copy.native
      /\ k \in Byok => RememberedNow(k)
  BY <1>2, Own, Zenon
<1>4. to \in {"DETACHING", "DETACHED", "UNKNOWN"}
  BY <1>1, <1>3, Zenon DEF ProcOk
<1>5. w \in Row /\ w.cfg = rows[k].cfg /\ w.state = to /\ w.native = rows[k].native
  BY <1>3, <1>4, Zenon DEF Row, States
<1>6. rows' = Patch(k, w) \/ rows' = PatchAll(k, w)
  <2>1. CASE Detach(p)
    <3>1. to = "DETACHING"
      BY <2>1, Zenon DEF Detach, At
    <3> QED BY <2>1, <3>1, Zenon DEF Detach
  <2>2. CASE updateKey(p)
    <3>1. to = proc[p].to
      BY <2>2, Zenon DEF updateKey, At
    <3> QED BY <2>2, <3>1, Zenon DEF updateKey
  <2> QED BY <2>1, <2>2, Zenon
<1>7. UNCHANGED <<configs, primary, linked, keystore, tasks, faults>> /\ Done(p)
  BY Zenon DEF Detach, updateKey, provider, bounds
<1>8. /\ rows'[k] # NoRow /\ rows'[k].cfg = rows[k].cfg /\ rows'[k].state = to /\ rows'[k].native = rows[k].native
      /\ \A j \in Keys \ {k} : rows'[j] = rows[j]
      /\ \A j \in Byok \ {k} : rows'[j] = rows[j]
  BY <1>3, <1>5, <1>6, Patched, ZenonT(40)
<1>9. to \notin Usable \union {"PENDING_CREATION"}
  BY <1>4, Zenon DEF Usable
<1>10. k \in Byok => AgreesNow(k)' /\ RememberedNow(k)'
  BY <1>3, <1>7, <1>8, <1>9, Zenon DEF AgreesNow, RememberedNow, Exists
<1>11. InConfigs' /\ PrimaryOk'
  BY <1>3, <1>7, <1>8, Kept, Zenon
<1> QED BY <1>3, <1>7, <1>8, <1>10, <1>11, Ended, ZenonT(40)

(* A configuration without keys and systems goes. *)
LEMMA deleteConfigRowSerial ==
    ASSUME BaseInv, SerialInv, NEW p \in Procs, deleteConfigRow(p)
    PROVE  SerialInv'
<1> PICK c : c = proc[p].c
  BY Zenon
<1>1. proc[p].op = "deleteConfig"
  BY Zenon DEF deleteConfigRow, At
<1>2. proc[p] # Idle
  BY <1>1 DEF Idle
<1>3. ProcsInv /\ TablesOk /\ RowsInv /\ InConfigs /\ PrimaryOk
  BY Parts, SerialParts, Zenon
<1>4. proc[p].k = None /\ c \in Configs
  <2>1. DeletesConfig(proc[p])
    BY <1>1, <1>2, <1>3, SMTT(30) DEF ProcsInv, ProcOk
  <2> QED BY <2>1, ZenonT(40) DEF DeletesConfig
<1>5. c \notin linked /\ ~HasKeys(c)
  <2>1. Fresh(proc[p])
    BY <1>2, OthersIdle, Zenon
  <2> QED BY <1>1, <2>1, Zenon DEF Fresh
<1>6. UNCHANGED <<rows, linked, keystore, tasks, faults>> /\ Done(p)
  BY Zenon DEF deleteConfigRow, provider, queues, bounds
<1>7. configs' = configs \ {c} /\ primary' = [primary EXCEPT ![c] = None]
  BY Zenon DEF deleteConfigRow
<1>8. InConfigs'
  BY <1>3, <1>5, <1>6, <1>7, Zenon DEF InConfigs, HasKeys, Exists
<1>9. primary'[c] = None /\ \A d \in Configs \ {c} : primary'[d] = primary[d]
  BY <1>3, <1>4, <1>7 DEF TablesOk
<1>10. \A d \in linked : d \in Configs \ {c}
  BY <1>3, <1>5, Zenon DEF TablesOk
<1>11. \A d \in configs \ {c} : d \in configs'
  BY <1>7
<1>12. PrimaryOk'
  <2>1. ASSUME OwnPrimary, NEW d \in Configs, primary'[d] # None, Exists(primary'[d])
        PROVE  rows[primary'[d]].cfg = d
    BY <1>3, <1>9, <2>1, Zenon DEF PrimaryOk
  <2>2. ASSUME OwnPrimary, NEW d \in linked
        PROVE  d \in configs' /\ primary'[d] # None /\ Exists(primary'[d])
    <3>1. d \in Configs \ {c} /\ d \in configs /\ primary[d] # None /\ Exists(primary[d])
      BY <1>3, <1>10, <2>2, ZenonT(40) DEF PrimaryOk
    <3>2. d \in configs'
      BY <1>7, <3>1, ZenonT(40)
    <3> QED BY <1>9, <3>1, <3>2, Zenon
  <2> QED BY <1>6, <2>1, <2>2, Zenon DEF PrimaryOk, Exists
<1>13. None \notin Byok
  BY KeysAssumption, SMTT(30)
<1> QED BY <1>2, <1>4, <1>6, <1>8, <1>12, <1>13, Ended, Zenon

(* Whatever a process that dies has done so far, the key is remembered. *)
LEMMA DiesSerial ==
    ASSUME BaseInv, SerialInv, NEW p \in Procs, Dies(p)
    PROVE  SerialInv'
<1> PICK k : k = proc[p].k
  BY Zenon
<1>1. proc[p] # Idle /\ Done(p) /\ UNCHANGED <<rows, configs, primary, linked, keystore, tasks>>
  BY Zenon DEF Dies, tables, provider, queues
<1>2. faults' > 0 /\ faults' # 0
  BY Parts DEF Dies, Fault, BoundsOk
<1>3. AgreesNow(k)'
  BY <1>2, Zenon DEF AgreesNow
<1>4. Fresh(proc[p]) /\ (~Makes(proc[p]) => \A j \in Byok : RememberedNow(j))
  BY <1>1, OthersIdle, Zenon
<1>5. k \in Byok => RememberedNow(k)'
  <2>1. CASE proc[p].op = "create"
    <3>1. rows[k] = NoRow
      BY <1>4, <2>1, Zenon DEF Fresh, Exists
    <3>2. NoRow.state \notin Usable \union {"PENDING_CREATION"}
      BY Zenon DEF NoRow, Usable
    <3> QED BY <1>1, <1>2, <3>1, <3>2, Zenon DEF RememberedNow
  <2>2. CASE proc[p].op = "pending"
    <3>1. k \in tasks
      BY <1>4, <2>2, Zenon DEF Fresh
    <3> QED BY <1>1, <1>2, <3>1, Zenon DEF RememberedNow
  <2>3. CASE ~Makes(proc[p])
    BY <1>1, <1>2, <1>4, <2>3, Zenon DEF RememberedNow, Exists
  <2> QED BY <2>1, <2>2, <2>3, Zenon DEF Makes
<1>6. InConfigs /\ PrimaryOk
  BY SerialParts, Zenon
<1>7. InConfigs' /\ PrimaryOk'
  BY <1>1, <1>6, Zenon DEF InConfigs, PrimaryOk, Exists
<1> QED BY <1>1, <1>2, <1>3, <1>5, <1>7, Ended, ZenonT(40)

(* The row of a created key, which becomes primary if it is the first one. *)
LEMMA persistCreatedKeySerial ==
    ASSUME BaseInv, SerialInv, NEW p \in Procs, persistCreatedKey(p)
    PROVE  SerialInv'
<1> PICK k : k = proc[p].k
  BY Zenon
<1> PICK row : row = proc[p].copy
  BY Zenon
<1>1. proc[p].op = "create" /\ proc[p].op \in Ops \ {"deleteConfig"}
  BY Zenon DEF persistCreatedKey, At, Ops
<1>2. k \in Keys /\ row \in Row /\ Consistent(k, row) /\ ProcOk(proc[p]) /\ proc[p] # Idle
  BY <1>1, Running, Zenon
<1>3. Fresh(proc[p])
  BY <1>2, OthersIdle, Zenon
<1>4. row.cfg \in configs /\ (k \in Byok => keystore[k] = "PENDING_IMPORT") /\ \A c \in Configs : primary[c] # k
  BY <1>1, <1>3, Zenon DEF Fresh
<1>5. k \in Byok => row.state = "PENDING_IMPORT" /\ row.native
  BY <1>1, <1>2, Zenon DEF ProcOk, Consistent, Usable
<1>6. UNCHANGED <<configs, linked, keystore, tasks, faults>> /\ Done(p)
  BY Zenon DEF persistCreatedKey, provider, queues, bounds
<1>7. RowsInv /\ TablesOk /\ InConfigs /\ PrimaryOk
  BY Parts, SerialParts, Zenon
<1>8. rows'[k] = row /\ \A j \in Keys \ {k} : rows'[j] = rows[j]
  BY <1>2, <1>7, Zenon DEF persistCreatedKey, RowsInv
<1>9. row # NoRow /\ row.cfg \in Configs
  BY <1>2, IdleOk DEF Row
<1>10. k \in Byok => AgreesNow(k)' /\ RememberedNow(k)'
  BY <1>4, <1>5, <1>6, <1>8, <1>9, Zenon DEF AgreesNow, RememberedNow, Exists
<1>11. InConfigs'
  BY <1>4, <1>6, <1>7, <1>8, <1>9, Zenon DEF InConfigs, Exists
<1>12. \A c \in Configs : primary'[c] = primary[c] \/ (c = row.cfg /\ primary'[c] = k)
  <2>1. primary' = primary \/ primary' = [primary EXCEPT ![row.cfg] = k]
    BY Zenon DEF persistCreatedKey, setPrimaryIfFirstKey
  <2> QED BY <1>7, <1>9, <2>1, Zenon DEF TablesOk
<1>13. \A c \in Configs : primary[c] # None => primary[c] \in Keys \ {k}
  BY <1>4, <1>7, Zenon DEF TablesOk
<1>14. k # None
  BY <1>2, KeysAssumption
<1>15. PrimaryOk'
  <2>1. ASSUME OwnPrimary, NEW c \in Configs, primary'[c] # None, rows'[primary'[c]] # NoRow
        PROVE  rows'[primary'[c]].cfg = c
    <3>1. CASE primary'[c] = primary[c]
      <4>1. rows'[primary[c]] = rows[primary[c]]
        BY <1>8, <1>13, <2>1, <3>1, Zenon
      <4> QED BY <1>7, <2>1, <3>1, <4>1, Zenon DEF PrimaryOk, Exists
    <3>2. CASE c = row.cfg /\ primary'[c] = k
      BY <1>8, <3>2, Zenon
    <3> QED BY <1>12, <3>1, <3>2, Zenon
  <2>2. ASSUME OwnPrimary, NEW c \in linked
        PROVE  c \in configs /\ primary'[c] # None /\ rows'[primary'[c]] # NoRow
    <3>1. c \in Configs /\ c \in configs /\ primary[c] # None /\ rows[primary[c]] # NoRow
      BY <1>7, <2>2, Zenon DEF PrimaryOk, Exists, TablesOk
    <3>2. rows'[primary[c]] = rows[primary[c]]
      BY <1>8, <1>13, <3>1, Zenon
    <3> QED BY <1>8, <1>9, <1>12, <1>14, <3>1, <3>2, Zenon
  <2> QED BY <1>6, <2>1, <2>2, Zenon DEF PrimaryOk, Exists
<1>16. \A j \in Byok \ {k} : rows'[j] = rows[j]
  BY <1>8, KeysAssumption, Zenon
<1> QED BY <1>2, <1>6, <1>10, <1>11, <1>15, <1>16, Ended, ZenonT(40)

(* Every step of a running process. *)
LEMMA StepSerial ==
    ASSUME BaseInv, SerialInv, NEW p \in Procs, Step(p) \/ Dies(p)
    PROVE  SerialInv'
BY persistCreatedKeySerial, syncSerial, syncHYOKKeyStateSerial, applyKeyPatchSerial, deleteProviderKeySerial,
   deleteRowsSerial, fetchImportParamsSerial, importProviderKeyMaterialSerial, persistImportSerial,
   initProviderForPendingKeySerial, createOrRecoverProviderKeySerial, persistPendingKeySerial, DetachSerial,
   deleteConfigRowSerial, DiesSerial, ZenonT(40) DEF Step

(* Nothing else runs when something starts without an overlap. *)
LEMMA StartsAlone ==
    ASSUME BaseInv, overlaps' = 0, NEW p \in Procs, Overlap(p)
    PROVE  AllIdle
<1>1. overlaps \in Nat
  BY Parts, Zenon DEF BoundsOk
<1>2. ~Others(p)
  BY <1>1 DEF Overlap
<1> QED BY <1>2, Zenon DEF AllIdle, Others, Overlap

(* A process starts, and touches its own key at most. *)
LEMMA Begun ==
    ASSUME BaseInv, SerialInv, AllIdle, NEW p \in Procs, NEW r, proc' = [proc EXCEPT ![p] = r],
           Fresh(r)', NEW k,
           \A j \in Byok \ {k} : keystore'[j] = keystore[j],
           k \in Byok => keystore'[k] = keystore[k] \/ (r.k = k /\ Apart(r) /\ Makes(r)),
           UNCHANGED <<rows, configs, primary, linked, tasks, faults>>
    PROVE  SerialInv'
<1>1. proc \in [Procs -> Proc] /\ InConfigs /\ PrimaryOk
  BY Parts, SerialParts, Zenon DEF ProcsInv
<1>2. \A q \in Procs : proc'[q] = IF q = p THEN r ELSE Idle
  BY <1>1, Zenon DEF AllIdle
<1>3. Fresh(Idle)'
  BY Zenon DEF Fresh, Idle, Ops
<1>4. Alone'
  BY <1>2 DEF Alone
<1>5. ASSUME NEW q \in Procs PROVE Fresh(proc[q])'
  <2>1. CASE q = p
    <3>1. proc'[q] = r
      BY <1>2, <2>1, Zenon
    <3> QED BY <3>1, ZenonT(40) DEF Fresh
  <2>2. CASE q # p
    <3>1. proc'[q] = Idle
      BY <1>2, <2>2, Zenon
    <3> QED BY <1>3, <3>1, ZenonT(40) DEF Fresh
  <2> QED BY <2>1, <2>2, Zenon
<1>6. AllFresh'
  BY <1>5, Zenon DEF AllFresh
<1>7. proc'[p] = r
  BY <1>2, Zenon
<1>8. ASSUME NEW j \in Byok PROVE Agrees(j)' /\ Remembered(j)'
  <2>1. AgreesNow(j) /\ RememberedNow(j)
    BY <1>8, IdleAgrees, Zenon
  <2>2. CASE keystore'[j] = keystore[j]
    BY <2>1, <2>2, Zenon DEF AgreesNow, Agrees, RememberedNow, Remembered, Exists
  <2>3. CASE r.k = j /\ Apart(r) /\ Makes(r)
    BY <1>7, <2>3, Zenon DEF Agrees, Remembered
  <2> QED BY <2>2, <2>3, Zenon
<1>9. ByokOk'
  BY <1>8, Zenon DEF ByokOk
<1>10. InConfigs' /\ PrimaryOk'
  BY <1>1, Zenon DEF InConfigs, PrimaryOk, Exists
<1> QED BY <1>4, <1>6, <1>9, <1>10, SerialParts, PTL

(* An operation that starts with the row as it is stored. *)
LEMMA FreshStart ==
    ASSUME NEW k, Exists(k), NEW r, r.op \in Ops \ {"create", "deleteConfig"}, r.k = k, r.copy = rows[k],
           ~Unsaved(r), r.op = "pending" => k \in tasks,
           r.op = "delete" => r.pc # "rows" /\ (IsPrimary(k) => r.c = rows[k].cfg),
           UNCHANGED <<rows, configs, primary, linked, tasks>>
    PROVE  Fresh(r)'
<1>1. r.op # "create" /\ r.op # "deleteConfig"
  BY Zenon
<1>2. r.op = "delete" => (IsPrimary(k)' => r.c = rows'[k].cfg)
  BY Zenon DEF IsPrimary
<1>3. Exists(k)' /\ rows'[k] = r.copy
  BY Zenon DEF Exists
<1> QED BY <1>1, <1>2, <1>3, Zenon DEF Fresh

(* A key is created in the keystore, or registered. *)
LEMMA createSerial ==
    ASSUME BaseInv, SerialInv, overlaps' = 0, NEW p \in Procs, NEW k \in Keys, NEW c \in Configs,
           createOrRegisterProviderKey(p, k, c)
    PROVE  SerialInv'
<1> PICK r : r = [op |-> "create", k |-> k, c |-> c, to |-> "NONE", pc |-> "write",
                  copy |-> NewRow(c, IF k \in Byok THEN "PENDING_IMPORT" ELSE "ENABLED", TRUE)]
  BY Zenon
<1>1. Overlap(p) /\ proc' = [proc EXCEPT ![p] = r]
  BY Zenon DEF createOrRegisterProviderKey, createManagedProviderKey, registerHYOKKey, Begin, Hyok
<1>2. AllIdle
  BY <1>1, StartsAlone, Zenon
<1>3. r.op = "create" /\ r.k = k /\ r.copy.cfg = c
  BY Zenon DEF NewRow
<1>4. k \notin used /\ c \in configs /\ UNCHANGED <<rows, configs, primary, linked, tasks, faults>>
  BY Zenon DEF createOrRegisterProviderKey, tables, queues
<1>5. RowsInv /\ TablesOk /\ ProviderOk
  BY Parts, Zenon
<1>6. ~Exists(k) /\ \A d \in Configs : primary[d] # k
  <2>1. k # None
    BY KeysAssumption, Zenon
  <2> QED BY <1>4, <1>5, <2>1, Zenon DEF RowsInv, TablesOk
<1>7. \A j \in Byok \ {k} : keystore'[j] = keystore[j]
  BY <1>5, KeysAssumption, ZenonT(40)
     DEF createOrRegisterProviderKey, createManagedProviderKey, registerHYOKKey, ProviderOk
<1>8. k \in Byok => keystore'[k] = "PENDING_IMPORT"
  BY <1>5, Zenon DEF createOrRegisterProviderKey, createManagedProviderKey, registerHYOKKey, ProviderOk, Hyok
<1>9. Apart(r) /\ Makes(r)
  BY <1>3, Zenon DEF Apart, Makes
<1>10. r.op # "pending" /\ r.op # "delete" /\ r.op # "deleteConfig" /\ r.op \notin Ops \ {"create", "deleteConfig"}
  BY <1>3, Zenon
<1>11. Fresh(r)'
  BY <1>3, <1>4, <1>6, <1>8, <1>10, Zenon DEF Fresh, Exists
<1> QED BY <1>1, <1>2, <1>3, <1>4, <1>7, <1>9, <1>11, Begun, ZenonT(40)

(* Where an operation that reads a row starts. *)
Starts == {<<"sync", "get">>, <<"update", "get">>, <<"delete", "get">>, <<"update", "commit">>,
           <<"delete", "check">>, <<"params", "write">>, <<"import", "check">>,
           <<"pending", "get">>, <<"detach", "write">>, <<"terminate", "write">>}

(* Requests, tasks and handlers that start by reading a row. *)
LEMMA ReadSerial ==
    ASSUME BaseInv, SerialInv, overlaps' = 0, NEW p \in Procs, NEW k \in Keys, Exists(k),
           NEW op, NEW c, NEW to, NEW pc,
           <<op, pc>> \in Starts,
           op = "delete" => c = IF IsPrimary(k) THEN rows[k].cfg ELSE None,
           op = "pending" => k \in tasks,
           Begin(p, op, k, c, rows[k], to, pc),
           UNCHANGED <<tables, provider, queues, faults>>
    PROVE  SerialInv'
<1> PICK r : r = [op |-> op, k |-> k, c |-> c, copy |-> rows[k], to |-> to, pc |-> pc]
  BY Zenon
<1>1. Overlap(p) /\ proc' = [proc EXCEPT ![p] = r]
  BY Zenon DEF Begin
<1>2. AllIdle
  BY <1>1, StartsAlone, Zenon
<1>3. r.op = op /\ r.k = k /\ r.c = c /\ r.copy = rows[k] /\ r.pc = pc
  BY Zenon
<1>4. op \in Ops \ {"create", "deleteConfig"} /\ ~Unsaved(r) /\ (op = "delete" => pc # "rows")
  BY <1>3, Zenon DEF Ops, Unsaved, Starts
<1>5. UNCHANGED <<rows, configs, primary, linked, tasks, faults, keystore>>
  BY Zenon DEF tables, provider, queues
<1>6. Fresh(r)'
  BY <1>3, <1>4, <1>5, FreshStart, Zenon
<1> QED BY <1>1, <1>2, <1>5, <1>6, Begun, ZenonT(40)

(* An operation reads the row of its key and begins. *)
LEMMA ReadsSerial ==
    ASSUME BaseInv, SerialInv, overlaps' = 0, NEW p \in Procs, NEW k \in Keys,
           \/ Get(p, "sync", k) \/ UpdateKey(p, k) \/ Delete(p, k)
           \/ GetImportParams(p, k) \/ ImportKeyMaterial(p, k) \/ detachPrimaryKeys(p, k)
    PROVE  SerialInv'
<1> PICK c : c = IF IsPrimary(k) THEN rows[k].cfg ELSE None
  BY Zenon
<1>1. Exists(k)
  <2>1. rows[k].cfg \in Configs => Exists(k)
    BY KeysAssumption DEF Exists, NoRow
  <2>2. detachPrimaryKeys(p, k) => rows[k].cfg \in Configs
    BY Parts, Zenon DEF detachPrimaryKeys, Detachable, TablesOk
  <2>3. Exists(k) \/ detachPrimaryKeys(p, k)
    BY Zenon DEF Get, UpdateKey, Delete, GetImportParams, ImportKeyMaterial, Read
  <2> QED BY <2>1, <2>2, <2>3, ZenonT(40)
<1>2. ASSUME NEW op \in {"sync", "update", "delete"}, Get(p, op, k) PROVE SerialInv'
  <2>1. Begin(p, op, k, c, rows[k], "NONE", "get") /\ UNCHANGED <<tables, provider, queues, faults>>
    BY <1>2, Zenon DEF Get
  <2>2. <<op, "get">> \in Starts /\ op # "pending"
    BY Zenon DEF Starts
  <2> QED BY <1>1, <2>1, <2>2, ReadSerial, Zenon
<1>3. ASSUME NEW op, NEW to, NEW pc, Read(p, op, k, to, pc),
             <<op, pc>> \in {<<"update", "commit">>, <<"delete", "check">>, <<"params", "write">>, <<"import", "check">>}
      PROVE  SerialInv'
  <2>1. Begin(p, op, k, c, rows[k], to, pc) /\ UNCHANGED <<tables, provider, queues, faults>>
    BY <1>3, Zenon DEF Read
  <2>2. <<op, pc>> \in Starts /\ op # "pending"
    BY <1>3 DEF Starts
  <2> QED BY <1>1, <2>1, <2>2, ReadSerial, Zenon
<1>4. CASE detachPrimaryKeys(p, k)
  <2>1. Begin(p, "detach", k, None, rows[k], "NONE", "write") /\ UNCHANGED <<tables, provider, queues, faults>>
    BY <1>4, Zenon DEF detachPrimaryKeys
  <2>2. <<"detach", "write">> \in Starts
    BY Zenon DEF Starts
  <2>3. "detach" # "pending" /\ "detach" # "delete"
    OBVIOUS
  <2> QED BY <1>1, <2>1, <2>2, <2>3, ReadSerial, Zenon
<1>5. CASE UpdateKey(p, k)
  BY <1>2, <1>3, <1>5, Zenon DEF UpdateKey
<1>6. CASE Delete(p, k)
  BY <1>2, <1>3, <1>6 DEF Delete
<1>7. CASE GetImportParams(p, k) \/ ImportKeyMaterial(p, k)
  BY <1>3, <1>7, Zenon DEF GetImportParams, ImportKeyMaterial
<1>8. CASE Get(p, "sync", k)
  BY <1>2, <1>8, Zenon
<1> QED BY <1>4, <1>5, <1>6, <1>7, <1>8, Zenon

(* The end of a detachment starts, or the deletion of a configuration. *)
LEMMA terminateSerial ==
    ASSUME BaseInv, SerialInv, overlaps' = 0, NEW p \in Procs, NEW i \in DOMAIN jobs, terminate(p, i)
    PROVE  SerialInv'
<1> PICK k : k = jobs[i].k
  BY Zenon
<1>1. k \in Keys /\ Exists(k)
  BY Parts, JobAt, Zenon DEF QueuesOk, terminate
<1>2. Begin(p, "terminate", k, None, rows[k], jobs[i].st, "write") /\ UNCHANGED <<tables, provider, queues, faults>>
  BY Zenon DEF terminate
<1>3. <<"terminate", "write">> \in Starts
  BY Zenon DEF Starts
<1>4. "terminate" # "pending" /\ "terminate" # "delete"
  OBVIOUS
<1> QED BY <1>1, <1>2, <1>3, <1>4, ReadSerial, Zenon

(* The deletion of a configuration begins. *)
LEMMA DeleteConfigSerial ==
    ASSUME BaseInv, SerialInv, overlaps' = 0, NEW p \in Procs, NEW c \in Configs, DeleteKeyConfigurationByID(p, c)
    PROVE  SerialInv'
<1> PICK r : r = [op |-> "deleteConfig", k |-> None, c |-> c, copy |-> NoRow, to |-> "NONE", pc |-> "rows"]
  BY Zenon
<1>1. Overlap(p) /\ proc' = [proc EXCEPT ![p] = r]
  BY Zenon DEF DeleteKeyConfigurationByID, Begin
<1>2. AllIdle
  BY <1>1, StartsAlone, Zenon
<1>3. r.op = "deleteConfig" /\ r.c = c
  BY Zenon
<1>4. r.op # "create" /\ r.op # "pending" /\ r.op # "delete" /\ r.op \notin Ops \ {"create", "deleteConfig"}
  BY <1>3, Zenon
<1>5. UNCHANGED <<rows, configs, primary, linked, tasks, faults, keystore>>
  BY Zenon DEF DeleteKeyConfigurationByID, tables, provider, queues
<1>6. c \notin linked /\ ~HasKeys(c)
  BY Zenon DEF DeleteKeyConfigurationByID
<1>7. Fresh(r)'
  BY <1>3, <1>4, <1>5, <1>6, Zenon DEF Fresh, HasKeys
<1> QED BY <1>1, <1>2, <1>5, <1>7, Begun, Zenon

(* What happens at once while nothing else runs. *)
LEMMA AtOnceSerial ==
    ASSUME BaseInv, SerialInv, overlaps' = 0, NEW p \in Procs, AtOnce(p),
           AllIdle => /\ \A j \in Byok : AgreesNow(j)' /\ RememberedNow(j)'
                      /\ InConfigs' /\ PrimaryOk'
    PROVE  SerialInv'
<1>1. AllIdle /\ proc' = proc
  BY StartsAlone, Zenon DEF AtOnce
<1>2. AllIdle'
  BY <1>1, Zenon DEF AllIdle
<1>3. Alone'
  BY <1>2, ZenonT(40) DEF Alone, AllIdle
<1>4. Fresh(Idle)'
  BY DEF Fresh, Idle, Ops
<1>5. ASSUME NEW q \in Procs PROVE Fresh(proc[q])'
  <2>1. proc'[q] = Idle
    BY <1>2, Zenon DEF AllIdle
  <2> QED BY <1>4, <2>1, Zenon DEF Fresh
<1>6. ASSUME NEW j \in Byok PROVE Agrees(j)' /\ Remembered(j)'
  BY <1>1, <1>6, Zenon DEF AgreesNow, Agrees, RememberedNow, Remembered
<1>7. AllFresh' /\ ByokOk'
  BY <1>5, <1>6, Zenon DEF AllFresh, ByokOk
<1> QED BY <1>1, <1>3, <1>7, SerialParts, PTL

(* A pending row is stored. *)
LEMMA createPendingSerial ==
    ASSUME BaseInv, Unused, SerialInv, overlaps' = 0, NEW p \in Procs, NEW k \in Keys, NEW c \in Configs,
           createPendingBYOKKeyIfNeeded(p, k, c)
    PROVE  SerialInv'
<1> PICK w : w = NewRow(c, "PENDING_CREATION", FALSE)
  BY Zenon
<1>1. RowsInv /\ TablesOk /\ BoundsOk /\ InConfigs /\ PrimaryOk
  BY Parts, SerialParts, Zenon
<1>2. AtOnce(p) /\ UNCHANGED <<configs, primary, linked, keystore>>
  BY Zenon DEF createPendingBYOKKeyIfNeeded, provider
<1>3. k \in Byok /\ k \notin used /\ c \in configs /\ rows' = [rows EXCEPT ![k] = w]
  BY Zenon DEF createPendingBYOKKeyIfNeeded
<1>4. w.cfg = c /\ w.state = "PENDING_CREATION" /\ w # NoRow
  BY Zenon DEF NewRow, NoRow
<1>5. rows'[k] = w /\ \A j \in Keys \ {k} : rows'[j] = rows[j]
  BY <1>1, <1>3, Zenon DEF RowsInv
<1>6. keystore'[k] = "absent"
  BY <1>2, <1>3 DEF Unused
<1>7. \A d \in Configs : primary[d] # None => primary[d] \in Keys \ {k}
  BY <1>1, <1>3, Zenon DEF TablesOk
<1>8. faults' = faults \/ faults' > 0
  BY <1>1 DEF createPendingBYOKKeyIfNeeded, enqueuePendingStateSync, Fault, BoundsOk
<1>9. \A j \in Byok \ {k} : j \in tasks' <=> j \in tasks
  BY Zenon DEF createPendingBYOKKeyIfNeeded, enqueuePendingStateSync
<1>10. InConfigs'
  <2>1. rows'[k].cfg \in configs /\ configs' = configs
    BY <1>2, <1>3, <1>4, <1>5, Zenon
  <2> QED BY <1>1, <1>5, <2>1, Zenon DEF InConfigs, Exists
<1>11. PrimaryOk'
  <2>1. ASSUME NEW d \in Configs, primary[d] # None PROVE rows'[primary[d]] = rows[primary[d]]
    BY <1>5, <1>7, <2>1, Zenon
  <2>2. linked \subseteq Configs
    BY <1>1, Zenon DEF TablesOk
  <2> QED BY <1>1, <1>2, <2>1, <2>2, Zenon DEF PrimaryOk, Exists
<1>12. AgreesNow(k)' /\ RememberedNow(k)'
  <2>1. "PENDING_CREATION" \notin Usable
    BY Zenon DEF Usable
  <2> QED BY <1>4, <1>5, <1>6, <2>1, Zenon DEF AgreesNow, RememberedNow
<1>13. ASSUME AllIdle, NEW j \in Byok, j # k PROVE AgreesNow(j)' /\ RememberedNow(j)'
  <2>1. AgreesNow(j) /\ RememberedNow(j)
    BY <1>13, IdleAgrees, Zenon
  <2>2. rows'[j] = rows[j] /\ keystore'[j] = keystore[j] /\ (j \in tasks' <=> j \in tasks)
    BY <1>2, <1>5, <1>9, <1>13, KeysAssumption, SMTT(30)
  <2>3. (faults' = 0 => faults = 0) /\ (faults > 0 => faults' > 0)
    BY <1>1, <1>8 DEF BoundsOk
  <2> QED BY <2>1, <2>2, <2>3, Zenon DEF AgreesNow, RememberedNow, Exists
<1> QED BY <1>2, <1>10, <1>11, <1>12, <1>13, AtOnceSerial, Zenon

(* The pending task is taken up, or has nothing to do. *)
LEMMA SyncPendingSerial ==
    ASSUME BaseInv, SerialInv, overlaps' = 0, NEW p \in Procs, NEW k \in Keys, SyncPendingCreationKey(p, k)
    PROVE  SerialInv'
<1>1. CASE rows[k].state = "PENDING_CREATION" /\ Begin(p, "pending", k, None, rows[k], "NONE", "get") /\ UNCHANGED tasks
  <2>1. Exists(k)
    BY <1>1 DEF Exists, NoRow
  <2>2. k \in tasks /\ UNCHANGED <<tables, provider, queues, faults>>
    BY <1>1, Zenon DEF SyncPendingCreationKey, queues
  <2>3. <<"pending", "get">> \in Starts /\ "pending" # "delete"
    BY Zenon DEF Starts
  <2> QED BY <1>1, <2>1, <2>2, <2>3, ReadSerial, Zenon
<1>2. CASE rows[k].state # "PENDING_CREATION" /\ AtOnce(p) /\ tasks' = tasks \ {k}
  <2>1. UNCHANGED <<rows, configs, primary, linked, keystore, faults>> /\ InConfigs /\ PrimaryOk /\ RowsInv
    BY Parts, SerialParts, Zenon DEF SyncPendingCreationKey, tables, provider
  <2>2. InConfigs' /\ PrimaryOk'
    BY <2>1, Zenon DEF InConfigs, PrimaryOk, Exists
  <2>3. ASSUME AllIdle, NEW j \in Byok PROVE AgreesNow(j)' /\ RememberedNow(j)'
    <3>1. AgreesNow(j) /\ RememberedNow(j)
      BY <2>3, IdleAgrees, Zenon
    <3>2. j # k => (j \in tasks' <=> j \in tasks)
      BY <1>2, Zenon
    <3>3. rows[k].state \in Usable => rows[k] # NoRow /\ rows[k].native
      <4>1. rows[k].state \in Usable => rows[k] # NoRow
        BY DEF Usable, NoRow
      <4> QED BY <2>1, <4>1, Zenon DEF RowsInv, RowOk, Consistent
    <3>4. rows[k].state \notin Usable => rows[k].state \notin Usable \union {"PENDING_CREATION"}
      BY <1>2, Zenon
    <3> QED BY <2>1, <3>1, <3>2, <3>3, <3>4, Zenon DEF AgreesNow, RememberedNow, Exists
  <2> QED BY <1>2, <2>2, <2>3, AtOnceSerial, Zenon
<1> QED BY <1>1, <1>2, Zenon DEF SyncPendingCreationKey

(* Primary keys and systems. *)
LEMMA ConfigsSerial ==
    ASSUME BaseInv, SerialInv, overlaps' = 0, NEW p \in Procs, NEW c \in Configs,
           \/ \E k \in Keys : UpdateKeyConfigurationByID(p, c, k)
           \/ Connect(p, c) \/ Disconnect(p, c)
    PROVE  SerialInv'
<1>1. UNCHANGED <<rows, configs, keystore, tasks, faults>> /\ AtOnce(p)
  BY Zenon DEF UpdateKeyConfigurationByID, Connect, Disconnect, provider, queues
<1>2. TablesOk /\ InConfigs /\ PrimaryOk
  BY Parts, SerialParts, Zenon
<1>3. InConfigs'
  BY <1>1, <1>2, Zenon DEF InConfigs, Exists
<1>4. AllIdle => \A j \in Byok : AgreesNow(j)' /\ RememberedNow(j)'
  BY <1>1, IdleAgrees, Zenon DEF AgreesNow, RememberedNow, Exists
<1>5. \A k : rows[k].state = "ENABLED" => rows[k] # NoRow
  BY DEF NoRow
<1>6. PrimaryOk'
  <2>1. ASSUME NEW k \in Keys, UpdateKeyConfigurationByID(p, c, k) PROVE PrimaryOk'
    <3>1. rows[k] # NoRow /\ c \in configs /\ (OwnPrimary => rows[k].cfg = c) /\ linked' = linked
      BY <1>5, <2>1, Zenon DEF UpdateKeyConfigurationByID, validateKeyForPrimarySwitch
    <3>2. \A d \in Configs : primary'[d] = IF d = c THEN k ELSE primary[d]
      BY <1>2, <2>1 DEF UpdateKeyConfigurationByID, TablesOk
    <3>3. k # None /\ linked \subseteq Configs
      BY <1>2, KeysAssumption, Zenon DEF TablesOk
    <3> QED BY <1>1, <1>2, <3>1, <3>2, <3>3, Zenon DEF PrimaryOk, Exists
  <2>2. CASE Connect(p, c)
    <3>1. /\ c \in configs /\ primary[c] # None /\ rows[primary[c]] # NoRow /\ primary' = primary
          /\ linked' = linked \union {c}
      BY <1>5, <2>2, Zenon DEF Connect, CanConnectSystems
    <3> QED BY <1>1, <1>2, <3>1, Zenon DEF PrimaryOk, Exists
  <2>3. CASE Disconnect(p, c)
    <3>1. primary' = primary /\ linked' = linked \ {c}
      BY <2>3, Zenon DEF Disconnect
    <3> QED BY <1>1, <1>2, <3>1, Zenon DEF PrimaryOk, Exists
  <2> QED BY <2>1, <2>2, <2>3, Zenon
<1> QED BY <1>1, <1>3, <1>4, <1>6, AtOnceSerial, Zenon

(* What happens beside the operations leaves what the invariant speaks of. *)
LEMMA Quiet ==
    ASSUME BaseInv, SerialInv,
           \A j \in Keys : /\ rows'[j] # NoRow <=> rows[j] # NoRow
                           /\ rows'[j].cfg = rows[j].cfg /\ rows'[j].state = rows[j].state
                           /\ rows'[j].native = rows[j].native,
           \A j \in Byok : keystore'[j] = keystore[j],
           UNCHANGED <<configs, primary, linked, tasks, proc>>, faults' = faults \/ faults' > 0
    PROVE  SerialInv'
<1>1. Alone /\ AllFresh /\ ByokOk /\ InConfigs /\ PrimaryOk /\ ProcsInv /\ TablesOk /\ BoundsOk
  BY Parts, SerialParts, Zenon
<1>2. Alone' /\ InConfigs'
  BY <1>1, Zenon DEF Alone, InConfigs, Exists
<1>3. \A c \in Configs : primary[c] # None => primary[c] \in Keys
  BY <1>1, Zenon DEF TablesOk
<1>4. PrimaryOk'
  <2>1. linked \subseteq Configs
    BY <1>1, Zenon DEF TablesOk
  <2> QED BY <1>1, <1>3, <2>1, Zenon DEF PrimaryOk, Exists
<1>5. \A c : HasKeys(c)' <=> HasKeys(c)
  BY Zenon DEF HasKeys
<1>6. ASSUME NEW q \in Procs PROVE Fresh(proc[q])'
  <2> PICK r : r = proc[q]
    BY Zenon
  <2>1. Fresh(r) /\ (r = Idle \/ DeletesConfig(r) \/ ProcOk(r))
    BY <1>1, ZenonT(40) DEF AllFresh, ProcsInv
  <2>2. CASE r = Idle
    BY <2>2 DEF Fresh, Idle, Ops
  <2>3. CASE DeletesConfig(r)
    <3>1. r.op = "deleteConfig" /\ r.c \notin linked /\ ~HasKeys(r.c)
      BY <2>1, <2>3, Zenon DEF DeletesConfig, Fresh
    <3>2. r.op # "create" /\ r.op # "pending" /\ r.op # "delete" /\ r.op \notin Ops \ {"create", "deleteConfig"}
      BY <3>1, Zenon
    <3>3. ~HasKeys(r.c)'
      BY <1>5, <3>1, Zenon DEF HasKeys
    <3>4. proc'[q] = r
      BY Zenon
    <3> QED BY <3>1, <3>2, <3>3, <3>4, ZenonT(40) DEF Fresh
  <2>4. CASE ProcOk(r)
    <3> PICK k : k = r.k
      BY Zenon
    <3>1. /\ k \in Keys /\ r.op \in Ops \ {"deleteConfig"} /\ r.op # "deleteConfig"
          /\ (Unsaved(r) => k \in Byok)
      BY <2>4, Zenon DEF ProcOk, Unsaved
    <3>2. /\ rows'[k] # NoRow <=> rows[k] # NoRow
          /\ rows'[k].cfg = rows[k].cfg /\ rows'[k].state = rows[k].state /\ rows'[k].native = rows[k].native
          /\ k \in Byok => keystore'[k] = keystore[k]
      BY <3>1, Zenon
    <3>3. proc'[q] = r /\ (IsPrimary(k)' <=> IsPrimary(k)) /\ (Exists(k)' <=> Exists(k))
      BY <3>2, Zenon DEF IsPrimary, Exists
    <3>4. r.op = "create" =>
            /\ ~Exists(k)' /\ r.copy.cfg \in configs'
            /\ k \in Byok => keystore'[k] = "PENDING_IMPORT"
            /\ \A c \in Configs : primary'[c] # k
      BY <2>1, <3>2, <3>3, Zenon DEF Fresh
    <3>5. r.op \in Ops \ {"create", "deleteConfig"} =>
            /\ Exists(k)' /\ rows'[k].cfg = r.copy.cfg
            /\ ~Unsaved(r) => rows'[k].state = r.copy.state /\ rows'[k].native = r.copy.native
            /\ Unsaved(r) =>
                 /\ keystore'[k] = r.copy.state
                 /\ rows'[k].state = IF r.op = "import" THEN "PENDING_IMPORT" ELSE "PENDING_CREATION"
      BY <2>1, <3>1, <3>2, <3>3, ZenonT(40) DEF Fresh
    <3>6. /\ r.op = "pending" => k \in tasks'
          /\ r.op = "delete" =>
               /\ IsPrimary(k)' => r.c = rows'[k].cfg
               /\ r.pc = "rows" =>
                    /\ r.c \notin linked'
                    /\ k \in Byok /\ rows'[k].native => keystore'[k] = "absent"
      BY <2>1, <3>2, <3>3, ZenonT(40) DEF Fresh
    <3> QED BY <3>1, <3>3, <3>4, <3>5, <3>6, ZenonT(40) DEF Fresh
  <2> QED BY <2>1, <2>2, <2>3, <2>4, Zenon
<1>7. (faults' = 0 => faults = 0) /\ (faults > 0 => faults' > 0)
  BY <1>1 DEF BoundsOk
<1>8. ASSUME NEW j \in Byok PROVE Agrees(j)' /\ Remembered(j)'
  <2>1. Agrees(j) /\ Remembered(j)
    BY <1>1, Zenon DEF ByokOk
  <2>2. /\ rows'[j] # NoRow <=> rows[j] # NoRow
        /\ rows'[j].state = rows[j].state /\ rows'[j].native = rows[j].native /\ keystore'[j] = keystore[j]
    BY KeysAssumption, Zenon
  <2> QED BY <1>7, <2>1, <2>2, Zenon DEF Agrees, Remembered, Exists
<1>9. AllFresh' /\ ByokOk'
  BY <1>6, <1>8, Zenon DEF AllFresh, ByokOk
<1> QED BY <1>2, <1>4, <1>9, SerialParts, PTL

(* Labels, import parameters, the key jobs, time and the customer. *)
LEMMA BackgroundSerial ==
    ASSUME BaseInv, SerialInv,
           \/ \E i \in DOMAIN jobs : KeyJob(i) \/ ConfirmDetach(i) \/ EndDetach(i)
           \/ \E k \in Keys : \/ CreateOrUpdateLabel(k) \/ DeleteLabel(k) \/ ImportParamsExpire(k)
                              \/ Late(k) \/ Customer(k)
    PROVE  SerialInv'
<1>1. RowsInv /\ ProviderOk /\ BoundsOk
  BY Parts, Zenon
<1>2. Fault => faults' > 0
  BY <1>1 DEF Fault, BoundsOk
<1>3. ASSUME NEW i \in DOMAIN jobs, KeyJob(i) \/ ConfirmDetach(i) \/ EndDetach(i) PROVE SerialInv'
  <2>1. /\ UNCHANGED <<rows, keystore, configs, primary, linked, tasks, proc>>
        /\ faults' = faults \/ faults' > 0
    BY <1>2, <1>3, Zenon DEF KeyJob, ConfirmDetach, EndDetach, tables, provider, bounds
  <2> QED BY <2>1, Quiet, Zenon
<1>4. ASSUME NEW k \in Keys, CreateOrUpdateLabel(k) \/ DeleteLabel(k) \/ ImportParamsExpire(k) PROVE SerialInv'
  <2>1. UNCHANGED <<keystore, configs, primary, linked, tasks, proc, faults>>
    BY <1>4, Zenon DEF CreateOrUpdateLabel, DeleteLabel, ImportParamsExpire, provider, queues, bounds
  <2>2. /\ rows[k] # NoRow
        /\ \/ rows' = [rows EXCEPT ![k].labels = TRUE] \/ rows' = [rows EXCEPT ![k].labels = FALSE]
           \/ rows' = [rows EXCEPT ![k].params = "expired"]
    BY <1>4 DEF CreateOrUpdateLabel, DeleteLabel, ImportParamsExpire, Exists, NoRow
  <2>3. rows[k] \in Row
    BY <1>1, <2>2, Zenon DEF RowsInv
  <2>4. /\ rows'[k] \in Row /\ rows'[k].cfg = rows[k].cfg /\ rows'[k].state = rows[k].state
        /\ rows'[k].native = rows[k].native /\ \A j \in Keys \ {k} : rows'[j] = rows[j]
    <3> PICK w : w \in {[rows[k] EXCEPT !.labels = TRUE], [rows[k] EXCEPT !.labels = FALSE],
                        [rows[k] EXCEPT !.params = "expired"]} /\ rows' = [rows EXCEPT ![k] = w]
      BY <2>2, Zenon
    <3>1. w \in Row /\ w.cfg = rows[k].cfg /\ w.state = rows[k].state /\ w.native = rows[k].native
      BY <2>3, Zenon DEF Row
    <3>2. rows \in [Keys -> Row \union {NoRow}]
      BY <1>1, Zenon DEF RowsInv
    <3> QED BY <3>1, <3>2, Zenon
  <2>5. rows'[k] # NoRow
    BY <2>4, IdleOk, Zenon
  <2>6. \A j \in Keys : /\ rows'[j] # NoRow <=> rows[j] # NoRow
                        /\ rows'[j].cfg = rows[j].cfg /\ rows'[j].state = rows[j].state
                        /\ rows'[j].native = rows[j].native
    BY <2>2, <2>4, <2>5, Zenon
  <2> QED BY <2>1, <2>6, Quiet, Zenon
<1>5. ASSUME NEW k \in Keys, Late(k) \/ Customer(k) PROVE SerialInv'
  <2>1. UNCHANGED <<rows, configs, primary, linked, tasks, proc, faults>>
    BY <1>5, Zenon DEF Late, Customer, tables, queues, bounds
  <2>2. \A j \in Byok : keystore'[j] = keystore[j]
    BY <1>1, <1>5, KeysAssumption, ZenonT(40) DEF Late, Customer, provider, ProviderOk, Hyok
  <2> QED BY <2>1, <2>2, Quiet, Zenon
<1> QED BY <1>3, <1>4, <1>5, Zenon

(* Overlaps are counted and never forgotten. *)
LEMMA OverlapsGrow ==
    ASSUME BaseInv, Next, overlaps' = 0
    PROVE  overlaps = 0
<1>1. overlaps \in Nat
  BY Parts, Zenon DEF BoundsOk
<1>2. \A p \in Procs : Overlap(p) => overlaps = 0
  BY <1>1 DEF Overlap
<1>3. ASSUME NEW p \in Procs, Step(p) \/ Dies(p) PROVE overlaps' = overlaps
  <2>1. CASE /\ ~persistCreatedKey(p) /\ ~getKeyFromProvider(p) /\ ~syncKeyVersions(p) /\ ~syncHYOKKeyState(p)
             /\ ~applyKeyPatch(p) /\ ~deleteProviderKey(p) /\ ~deleteRows(p) /\ ~fetchImportParams(p)
    BY <1>3, <2>1, ZenonT(40) DEF Step, importProviderKeyMaterial, persistImport, initProviderForPendingKey,
         createOrRecoverProviderKey, persistPendingKey, Detach, updateKey, deleteConfigRow, Dies, bounds
  <2>2. CASE \/ persistCreatedKey(p) \/ getKeyFromProvider(p) \/ syncKeyVersions(p) \/ syncHYOKKeyState(p)
             \/ applyKeyPatch(p) \/ deleteProviderKey(p) \/ deleteRows(p) \/ fetchImportParams(p)
    BY <2>2, Zenon DEF persistCreatedKey, getKeyFromProvider, syncKeyVersions, syncHYOKKeyState,
         applyKeyPatch, deleteProviderKey, deleteRows, fetchImportParams, bounds
  <2> QED BY <2>1, <2>2, Zenon
<1>4. ASSUME NEW p \in Procs, NEW k \in Keys,
             \/ Get(p, "sync", k) \/ UpdateKey(p, k) \/ Delete(p, k)
             \/ GetImportParams(p, k) \/ ImportKeyMaterial(p, k)
             \/ SyncPendingCreationKey(p, k) \/ detachPrimaryKeys(p, k)
      PROVE  Overlap(p)
  BY <1>4, Zenon DEF Get, UpdateKey, Delete, GetImportParams, ImportKeyMaterial, Read, SyncPendingCreationKey,
       detachPrimaryKeys, Begin, AtOnce
<1>5. ASSUME NEW p \in Procs, NEW k \in Keys, NEW c \in Configs,
             \/ createPendingBYOKKeyIfNeeded(p, k, c) \/ createOrRegisterProviderKey(p, k, c)
             \/ UpdateKeyConfigurationByID(p, c, k)
      PROVE  Overlap(p)
  BY <1>5, Zenon DEF createPendingBYOKKeyIfNeeded, createOrRegisterProviderKey, createManagedProviderKey,
       registerHYOKKey, UpdateKeyConfigurationByID, Begin, AtOnce
<1>6. ASSUME NEW p \in Procs, NEW c \in Configs, DeleteKeyConfigurationByID(p, c) \/ Connect(p, c) \/ Disconnect(p, c)
      PROVE  Overlap(p)
  BY <1>6, Zenon DEF DeleteKeyConfigurationByID, Connect, Disconnect, Begin, AtOnce
<1>7. ASSUME NEW p \in Procs, NEW i \in DOMAIN jobs, terminate(p, i) PROVE Overlap(p)
  BY <1>7, Zenon DEF terminate, Begin
<1>8. ASSUME NEW i \in DOMAIN jobs, KeyJob(i) \/ ConfirmDetach(i) \/ EndDetach(i) PROVE overlaps' = overlaps
  BY <1>8, Zenon DEF KeyJob, ConfirmDetach, EndDetach, bounds
<1>9. ASSUME NEW k \in Keys, \/ CreateOrUpdateLabel(k) \/ DeleteLabel(k) \/ ImportParamsExpire(k)
                             \/ Late(k) \/ Customer(k)
      PROVE  overlaps' = overlaps
  BY <1>9, Zenon DEF CreateOrUpdateLabel, DeleteLabel, ImportParamsExpire, Late, Customer, bounds
<1> QED BY <1>2, <1>3, <1>4, <1>5, <1>6, <1>7, <1>8, <1>9, ZenonT(40) DEF Next

(* Only keys that were handed out, or the customer's, change in the keystore. *)
LEMMA UnusedKept ==
    ASSUME Unused, used \subseteq used', NEW k, k \in used' \/ k \notin Byok,
           \A j \in Byok \ {k} : keystore'[j] = keystore[j]
    PROVE  Unused'
BY Zenon DEF Unused

(* A key that was never used has nothing in the keystore, after any step. *)
LEMMA UnusedNext ==
    ASSUME BaseInv, Unused, Next
    PROVE  Unused'
<1>1. ProviderOk /\ ProcsInv
  BY Parts, Zenon
<1>2. CASE UNCHANGED <<used, keystore>>
  BY <1>2, Zenon DEF Unused
<1>3. ASSUME NEW p \in Procs, Step(p) \/ Dies(p) PROVE Unused'
  <2>1. CASE applyKeyPatch(p) \/ deleteProviderKey(p) \/ importProviderKeyMaterial(p) \/ createOrRecoverProviderKey(p)
    <3> PICK k : k = proc[p].k
      BY Zenon
    <3>1. proc[p].op \in Ops \ {"deleteConfig"}
      BY <2>1, Zenon DEF applyKeyPatch, deleteProviderKey, importProviderKeyMaterial, createOrRecoverProviderKey, At, Ops
    <3>2. k \in used /\ used' = used
      BY <2>1, <3>1, Running, Zenon
         DEF applyKeyPatch, deleteProviderKey, importProviderKeyMaterial, createOrRecoverProviderKey
    <3>3. keystore' = keystore \/ \E s : keystore' = [keystore EXCEPT ![k] = s]
      BY <2>1, Zenon
         DEF applyKeyPatch, enableKey, deleteProviderKey, importProviderKeyMaterial, createOrRecoverProviderKey
    <3>4. \A j \in Byok \ {k} : keystore'[j] = keystore[j]
      BY <1>1, <3>3, KeysAssumption DEF ProviderOk
    <3> QED BY <3>2, <3>4, UnusedKept, Zenon
  <2>2. CASE ~(applyKeyPatch(p) \/ deleteProviderKey(p) \/ importProviderKeyMaterial(p) \/ createOrRecoverProviderKey(p))
    <3>1. UNCHANGED <<used, keystore>>
      BY <1>3, <2>2, ZenonT(40) DEF Step, persistCreatedKey, getKeyFromProvider, syncKeyVersions, syncHYOKKeyState,
           deleteRows, fetchImportParams, persistImport, initProviderForPendingKey, persistPendingKey, Detach,
           updateKey, deleteConfigRow, Dies, provider
    <3> QED BY <1>2, <3>1, Zenon
  <2> QED BY <2>1, <2>2, Zenon
<1>4. ASSUME NEW p \in Procs, NEW k \in Keys, NEW c \in Configs, createOrRegisterProviderKey(p, k, c) PROVE Unused'
  <2>1. used' = used \union {k} /\ (keystore' = keystore \/ \E s : keystore' = [keystore EXCEPT ![k] = s])
    BY <1>4, Zenon DEF createOrRegisterProviderKey, createManagedProviderKey, registerHYOKKey
  <2>2. \A j \in Byok \ {k} : keystore'[j] = keystore[j]
    BY <1>1, <2>1, KeysAssumption DEF ProviderOk
  <2> QED BY <2>1, <2>2, UnusedKept
<1>5. ASSUME NEW p \in Procs, NEW k \in Keys, NEW c \in Configs,
             createPendingBYOKKeyIfNeeded(p, k, c) \/ UpdateKeyConfigurationByID(p, c, k)
      PROVE  Unused'
  <2>1. used \subseteq used' /\ UNCHANGED keystore
    BY <1>5, Zenon DEF createPendingBYOKKeyIfNeeded, UpdateKeyConfigurationByID, provider
  <2> QED BY <2>1, Zenon DEF Unused
<1>6. ASSUME NEW p \in Procs, NEW k \in Keys,
             \/ Get(p, "sync", k) \/ UpdateKey(p, k) \/ Delete(p, k)
             \/ GetImportParams(p, k) \/ ImportKeyMaterial(p, k)
             \/ SyncPendingCreationKey(p, k) \/ detachPrimaryKeys(p, k)
      PROVE  Unused'
  <2>1. UNCHANGED <<used, keystore>>
    BY <1>6, Zenon DEF Get, UpdateKey, Delete, GetImportParams, ImportKeyMaterial, Read, SyncPendingCreationKey,
         detachPrimaryKeys, provider
  <2> QED BY <1>2, <2>1, Zenon
<1>7. ASSUME NEW p \in Procs, NEW c \in Configs, DeleteKeyConfigurationByID(p, c) \/ Connect(p, c) \/ Disconnect(p, c)
      PROVE  Unused'
  BY <1>2, <1>7, Zenon DEF DeleteKeyConfigurationByID, Connect, Disconnect, provider
<1>8. ASSUME NEW p \in Procs, NEW i \in DOMAIN jobs, terminate(p, i) PROVE Unused'
  BY <1>2, <1>8, Zenon DEF terminate, provider
<1>9. ASSUME NEW i \in DOMAIN jobs, KeyJob(i) \/ ConfirmDetach(i) \/ EndDetach(i) PROVE Unused'
  BY <1>2, <1>9, Zenon DEF KeyJob, ConfirmDetach, EndDetach, provider
<1>10. ASSUME NEW k \in Keys, \/ CreateOrUpdateLabel(k) \/ DeleteLabel(k) \/ ImportParamsExpire(k) \/ Late(k)
       PROVE  Unused'
  BY <1>2, <1>10, Zenon DEF CreateOrUpdateLabel, DeleteLabel, ImportParamsExpire, Late, provider
<1>11. ASSUME NEW k \in Keys, Customer(k) PROVE Unused'
  <2>1. used' = used /\ k \notin Byok
    BY <1>11 DEF Customer, Hyok
  <2>2. \A j \in Byok \ {k} : keystore'[j] = keystore[j]
    BY <1>1, <1>11, KeysAssumption, Zenon DEF Customer, ProviderOk
  <2> QED BY <2>1, <2>2, UnusedKept, Zenon
<1> QED BY <1>3, <1>4, <1>5, <1>6, <1>7, <1>8, <1>9, <1>10, <1>11, ZenonT(30) DEF Next

(* Init has nothing but configurations and the customer's keys. *)
LEMMA InitSerial ==
    ASSUME Init
    PROVE  Unused /\ SerialInv
<1>1. \A k \in Byok : keystore[k] = "absent"
  BY KeysAssumption, Zenon DEF Init
<1>2. (\A p \in Procs : proc[p] = Idle) /\ (\A k \in Keys : rows[k] = NoRow) /\ linked = {}
  BY Zenon DEF Init
<1>3. Unused
  BY <1>1, Zenon DEF Unused
<1>4. Alone
  BY <1>2, Zenon DEF Alone
<1>5. AllFresh
  BY <1>2, FreshIdle, SMTT(30) DEF AllFresh
<1>6. \A k \in Byok : rows[k].state = "NONE" /\ "NONE" \notin Usable
  BY <1>2, KeysAssumption DEF NoRow, Usable
<1>7. ByokOk
  BY <1>1, <1>6, Zenon DEF ByokOk, Agrees, Remembered
<1>8. InConfigs
  BY <1>2, Zenon DEF InConfigs, Exists
<1>9. \A c \in Configs : primary[c] = None
  BY Zenon DEF Init
<1>10. PrimaryOk
  BY <1>2, <1>9, SMTT(30) DEF PrimaryOk
<1> QED BY <1>3, <1>4, <1>5, <1>7, <1>8, <1>10, SerialParts, ZenonT(40)

(* Every step keeps KeysInv. *)
LEMMA NextSerial ==
    ASSUME KeysInv, [Next]_vars
    PROVE  KeysInv'
<1>1. BaseInv /\ Unused /\ (overlaps = 0 => SerialInv)
  BY Zenon DEF KeysInv
<1>2. BaseInv'
  BY <1>1, NextBase, Zenon
<1>3. CASE UNCHANGED vars
  <2>1. Unused'
    BY <1>1, <1>3, Zenon DEF Unused, vars
  <2>2. overlaps' = 0 => SerialInv'
    <3> SUFFICES ASSUME overlaps' = 0 PROVE SerialInv'
      BY Zenon
    <3>1. /\ SerialInv
          /\ UNCHANGED <<rows, keystore, configs, primary, linked, tasks, proc, faults>>
      BY <1>1, <1>3, Zenon DEF vars
    <3> QED BY <1>1, <3>1, Quiet, Zenon
  <2> QED BY <1>2, <2>1, <2>2 DEF KeysInv
<1>4. CASE Next
  <2>1. Unused'
    BY <1>1, <1>4, UnusedNext, Zenon
  <2>2. ASSUME overlaps' = 0 PROVE SerialInv'
    <3>1. SerialInv
      BY <1>1, <1>4, <2>2, OverlapsGrow, ZenonT(40)
    <3> QED BY <1>1, <1>4, <2>2, <3>1, StepSerial, createPendingSerial, createSerial, ReadsSerial, SyncPendingSerial,
               terminateSerial, ConfigsSerial, DeleteConfigSerial, BackgroundSerial, ZenonT(40) DEF Next
  <2> QED BY <1>2, <2>1, <2>2, Zenon DEF KeysInv
<1> QED BY <1>3, <1>4, Zenon

(* The inductive invariant holds in every interleaving of the handlers, the   *)
(* workers and the job manager, for any number of keys, configurations and    *)
(* processes; its part about undisturbed operations as long as no two         *)
(* operations overlapped.                                                     *)
THEOREM KeysInvariance == Spec => []KeysInv
<1>1. Init => KeysInv
  BY InitBase, InitSerial, Zenon DEF KeysInv
<1>2. KeysInv /\ [Next]_vars => KeysInv'
  BY NextSerial, Zenon
<1> QED BY <1>1, <1>2, PTL DEF Spec

(* A usable row has a native ID, and so has every copy of one; without        *)
(* overlaps the keystore is in the state the row says, and a key of the       *)
(* keystore is not forgotten: the row, the process that makes it or, after a  *)
(* fault, the queued task leads to it.                                        *)
THEOREM KeystoreAgreesHolds == Spec => []KeystoreAgrees
<1>1. KeysInv => KeystoreAgrees
  <2> SUFFICES ASSUME KeysInv PROVE KeystoreAgrees
    BY Zenon
  <2>1. BaseInv /\ (overlaps = 0 => SerialInv)
    BY Zenon DEF KeysInv
  <2>2. TypeOK
    BY <2>1, ZenonT(40) DEF BaseInv
  <2>3. ASSUME NEW k \in Keys, rows[k].state \in Usable PROVE rows[k].native
    <3>1. rows[k] # NoRow
      BY <2>3, SMTT(30) DEF NoRow, Usable
    <3> QED BY <2>1, <2>3, <3>1, ZenonT(40) DEF BaseInv, RowOk, Consistent
  <2>4. ASSUME NEW p \in Procs, proc[p].copy.state \in Usable PROVE proc[p].copy.native
    <3>1. proc[p].copy # NoRow
      BY <2>4, SMTT(30) DEF NoRow, Usable
    <3>2. proc[p] # Idle /\ ~DeletesConfig(proc[p])
      BY <3>1, SMTT(30) DEF Idle, DeletesConfig
    <3> QED BY <2>1, <2>4, <3>2, ZenonT(40) DEF BaseInv, ProcOk, Consistent
  <2>5. ASSUME overlaps = 0, faults = 0, NEW k \in Byok, ~Working(k), rows[k].state \in Usable
        PROVE  keystore[k] = rows[k].state \/ (k \in Labelled /\ keystore[k] = "absent")
    BY <2>1, <2>5, ZenonT(40) DEF SerialInv, Agrees, Working
  <2>6. ASSUME overlaps = 0, NEW k \in Byok, keystore[k] # "absent"
        PROVE  \/ Working(k)
               \/ Exists(k) /\ rows[k].native
               \/ faults > 0 /\ (k \in tasks \/ rows[k].state \notin Usable \union {"PENDING_CREATION"})
    BY <2>1, <2>6, ZenonT(40) DEF SerialInv, Remembered, Working
  <2> QED BY <2>2, <2>3, <2>4, <2>5, <2>6, Zenon DEF KeystoreAgrees
<1> QED BY <1>1, KeysInvariance, PTL

(* Without overlaps, a key's configuration exists, and a configuration that   *)
(* systems are connected to has its primary key, if the primary key is looked *)
(* for among the configuration's own keys.                                    *)
THEOREM NothingDanglesHolds == Spec => []NothingDangles
<1>1. KeysInv => NothingDangles
  BY Zenon DEF KeysInv, SerialInv, NothingDangles
<1> QED BY <1>1, KeysInvariance, PTL

=============================================================================
