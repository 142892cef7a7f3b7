------------------------ MODULE KeysOperatorsProofs -------------------------
(***************************************************************************)
(* Proofs about Keys: the operators end up with what the state of a        *)
(* primary key says (OperatorsInv), as long as operations do not overlap,  *)
(* nothing fails and no key has two jobs at a time, for any keys,          *)
(* configurations and processes.                                           *)
(***************************************************************************)
EXTENDS KeysProofs

(* JobsInv in parts, as the proofs treat it. *)
AskedOk ==
    \A job \in Asked :
        /\ job.st = "created"
        /\ rows[job.k].state = "ENABLED" => job.type = "KEY_ENABLE"
        /\ rows[job.k].state = "DISABLED" => job.type = "KEY_DISABLE"

NewOk == \A k \in Keys : New(k) => crypto[k] /\ NoJob(k)

Recovers(r) == r.op = "pending" /\ r.pc = "write" => r.copy.state = "PENDING_IMPORT"

LinkedOk ==
    \A c \in linked :
        rows[primary[c]].state \in {"ENABLED", "DISABLED"} /\ NoJob(primary[c]) =>
            crypto[primary[c]] = (rows[primary[c]].state = "ENABLED")

(* JobsInv is its parts. *)
LEMMA JobParts == JobsInv <=> AskedOk /\ NewOk /\ (\A p \in Procs : Recovers(proc[p])) /\ LinkedOk
BY Zenon DEF JobsInv, AskedOk, NewOk, Recovers, LinkedOk

(* The assumptions of the proofs below, in the state before the step. *)
Calm == BaseInv /\ SerialInv /\ OwnPrimary /\ faults = 0 /\ JobsInv

(* A connected configuration has its primary key, which is a key of its own. *)
LEMMA LinkedPrimary ==
    ASSUME Calm, NEW c \in linked
    PROVE  c \in Configs /\ primary[c] \in Keys /\ rows[primary[c]] # NoRow /\ rows[primary[c]].cfg = c
<1>1. TablesOk /\ PrimaryOk
  BY Parts, SerialParts, Zenon DEF Calm
<1>2. c \in Configs
  BY <1>1, Zenon DEF TablesOk
<1>3. primary[c] # None /\ Exists(primary[c])
  BY <1>1, Zenon DEF PrimaryOk, Calm
<1>4. rows[primary[c]].cfg = c
  BY <1>1, <1>2, <1>3, Zenon DEF PrimaryOk, Calm
<1>5. primary[c] \in Keys
  BY <1>1, <1>2, <1>3, Zenon DEF TablesOk
<1> QED BY <1>2, <1>3, <1>4, <1>5, Zenon DEF Exists

(* Jobs are of keys. *)
LEMMA AskedOfKeys ==
    ASSUME Calm, NEW job \in Asked
    PROVE  job.k \in Keys /\ job.st = "created"
<1>1. jobs \in Seq(Job)
  BY Parts, Zenon DEF Calm, QueuesOk
<1>2. \E i \in DOMAIN jobs : job = jobs[i]
  BY Zenon DEF Asked
<1>3. job.k \in Keys
  BY <1>1, <1>2, JobAt, Zenon
<1>4. AskedOk
  BY JobParts, Zenon DEF Calm
<1> QED BY <1>3, <1>4, Zenon DEF AskedOk

(* A step that asks for no job and tells the operators nothing: it may take   *)
(* a key out of ENABLED and DISABLED, and enable one that never had material. *)
LEMMA Unasked ==
    ASSUME Calm, Asked' = Asked, UNCHANGED crypto, used \subseteq used',
           \A q \in Procs : \/ proc'[q] = proc[q]
                            \/ Recovers(proc'[q]) /\ (proc'[q].op = "create" => New(proc'[q].k)),
           linked' \subseteq linked, \A c \in linked' : primary'[c] = primary[c],
           NEW k \in Keys, \A j \in Keys \ {k} : rows'[j].state = rows[j].state,
           \/ rows'[k].state = rows[k].state
           \/ /\ rows'[k].state \notin {"ENABLED", "DISABLED"}
              /\ k \in Byok => rows'[k].state \notin {"PENDING_CREATION", "PENDING_IMPORT"}
           \/ New(k) /\ rows'[k].state # "DISABLED"
    PROVE  JobsInv'
<1>1. AskedOk /\ NewOk /\ (\A p \in Procs : Recovers(proc[p])) /\ LinkedOk
  BY JobParts, Zenon DEF Calm
<1>2. \A j \in Keys : NoJob(j)' <=> NoJob(j)
  BY Zenon DEF NoJob
<1>3. "DISABLED" # "ENABLED"
  BY Zenon
<1>4. AskedOk'
  <2> SUFFICES ASSUME NEW job \in Asked
               PROVE  /\ job.st = "created"
                      /\ rows'[job.k].state = "ENABLED" => job.type = "KEY_ENABLE"
                      /\ rows'[job.k].state = "DISABLED" => job.type = "KEY_DISABLE"
    BY Zenon DEF AskedOk
  <2>1. job.k \in Keys /\ job.st = "created"
    BY AskedOfKeys, Zenon
  <2>2. CASE rows'[job.k].state = rows[job.k].state
    BY <1>1, <2>2, Zenon DEF AskedOk
  <2>3. CASE rows'[job.k].state \notin {"ENABLED", "DISABLED"}
    BY <2>1, <2>3, Zenon
  <2>4. CASE job.k = k /\ New(k)
    BY <1>1, <2>4, Zenon DEF NewOk, NoJob
  <2> QED BY <2>1, <2>2, <2>3, <2>4, Zenon
<1>5. \A j \in Keys : New(j)' => New(j)
  <2> SUFFICES ASSUME NEW j \in Keys, New(j)' PROVE New(j)
    BY Zenon
  <2>1. CASE j \notin used'
    BY <2>1, Zenon DEF New
  <2>2. CASE j \in Byok /\ rows'[j].state \in {"PENDING_CREATION", "PENDING_IMPORT"}
    <3>1. CASE j = k
      BY <2>2, <3>1, Zenon DEF New
    <3>2. CASE j # k
      BY <2>2, <3>2, Zenon DEF New
    <3> QED BY <3>1, <3>2, Zenon
  <2>3. CASE \E p \in Procs : proc'[p].op = "create" /\ proc'[p].k = j
    BY <2>3, Zenon DEF New
  <2> QED BY <2>1, <2>2, <2>3, Zenon DEF New
<1>6. NewOk'
  BY <1>1, <1>2, <1>5, Zenon DEF NewOk
<1>7. \A p \in Procs : Recovers(proc'[p])
  BY <1>1, Zenon
<1>8. LinkedOk'
  <2> SUFFICES ASSUME NEW c \in linked', rows'[primary[c]].state \in {"ENABLED", "DISABLED"}, NoJob(primary[c])
               PROVE  crypto[primary[c]] = (rows'[primary[c]].state = "ENABLED")
    BY Zenon DEF LinkedOk, NoJob
  <2>1. c \in linked
    BY Zenon
  <2>2. primary[c] \in Keys
    BY <2>1, LinkedPrimary, Zenon
  <2>3. CASE rows'[primary[c]].state = rows[primary[c]].state
    BY <1>1, <2>1, <2>3, Zenon DEF LinkedOk
  <2>4. CASE primary[c] = k /\ New(k) /\ rows'[k].state # "DISABLED"
    <3>1. crypto[k] /\ rows'[k].state = "ENABLED"
      BY <1>1, <2>4, Zenon DEF NewOk
    <3>2. crypto[k] \in BOOLEAN
      BY Parts, Zenon DEF Calm, SystemsOk
    <3> QED BY <2>4, <3>1, <3>2, ZenonT(40)
  <2>5. CASE rows'[primary[c]].state \notin {"ENABLED", "DISABLED"}
    BY <2>5, Zenon
  <2> QED BY <2>2, <2>3, <2>4, <2>5, Zenon
<1>9. (\A p \in Procs : Recovers(proc[p]))'
  BY <1>7, Zenon DEF Recovers
<1> QED BY <1>4, <1>6, <1>8, <1>9, JobParts, PTL

(* No state changes at all. *)
LEMMA Untouched ==
    ASSUME Calm, Asked' = Asked, UNCHANGED crypto, used \subseteq used',
           \A q \in Procs : \/ proc'[q] = proc[q]
                            \/ Recovers(proc'[q]) /\ (proc'[q].op = "create" => New(proc'[q].k)),
           linked' \subseteq linked, \A c \in linked' : primary'[c] = primary[c],
           \A j \in Keys : rows'[j].state = rows[j].state
    PROVE  JobsInv'
<1>1. CASE Keys # {}
  <2>1. PICK k \in Keys : TRUE
    BY <1>1, Zenon
  <2>2. rows'[k].state = rows[k].state /\ \A j \in Keys \ {k} : rows'[j].state = rows[j].state
    BY Zenon
  <2> QED BY <2>2, Unasked, Zenon
<1>2. CASE Keys = {}
  <2>1. Asked = {}
    BY <1>2, AskedOfKeys, Zenon
  <2>2. linked' = {}
    BY <1>2, LinkedPrimary, Zenon
  <2>3. \A p \in Procs : Recovers(proc[p])
    BY JobParts, Zenon DEF Calm
  <2>4. AskedOk' /\ NewOk' /\ LinkedOk'
    BY <1>2, <2>1, <2>2, Zenon DEF AskedOk, NewOk, LinkedOk
  <2>5. (\A p \in Procs : Recovers(proc[p]))'
    BY <2>3, Zenon DEF Recovers
  <2> QED BY <2>4, <2>5, JobParts, PTL
<1> QED BY <1>1, <1>2, Zenon

-----------------------------------------------------------------------------
(* What a step of the queue makes of the enabling and disabling jobs. *)

(* A job is appended. *)
LEMMA AskedAppend ==
    ASSUME jobs \in Seq(Job), NEW job \in Job, jobs' = Append(jobs, job)
    PROVE  /\ job.type = "KEY_DETACH" => Asked' = Asked
           /\ job.type # "KEY_DETACH" => Asked' = Asked \union {job}
<1> DEFINE n == Len(jobs)
<1>1. n \in Nat /\ DOMAIN jobs = 1..n
  BY SeqLen, Zenon
<1>2. /\ DOMAIN jobs' = 1..(n + 1) /\ jobs'[n + 1] = job
      /\ \A i \in 1..n : jobs'[i] = jobs[i]
  BY <1>1, SeqAppend
<1> HIDE DEF n
<1>3. 1..(n + 1) = 1..n \union {n + 1} /\ n + 1 \notin 1..n
  BY <1>1
<1>4. DOMAIN jobs' = DOMAIN jobs \union {n + 1} /\ \A i \in DOMAIN jobs : jobs'[i] = jobs[i]
  BY <1>1, <1>2, <1>3, Zenon
<1>5. ASSUME NEW x \in Asked PROVE x \in Asked'
  BY <1>4, <1>5, Zenon DEF Asked
<1>6. ASSUME NEW x \in Asked' PROVE x \in Asked \/ (x = job /\ job.type # "KEY_DETACH")
  BY <1>2, <1>4, <1>6, Zenon DEF Asked
<1>7. job.type # "KEY_DETACH" => job \in Asked'
  BY <1>2, <1>4, Zenon DEF Asked
<1> QED BY <1>5, <1>6, <1>7, Zenon

(* A job is over. *)
LEMMA AskedWithout ==
    ASSUME jobs \in Seq(Job), NEW i \in DOMAIN jobs, jobs' = Without(i)
    PROVE  /\ Asked' \subseteq Asked
           /\ \A x \in Asked : x = jobs[i] \/ x \in Asked'
           /\ jobs[i].type = "KEY_DETACH" => Asked' = Asked
<1> DEFINE n == Len(jobs)
<1>1. n \in Nat /\ DOMAIN jobs = 1..n /\ i \in 1..n
  BY SeqLen, Zenon
<1>2. /\ jobs' \in Seq(Job) /\ Len(jobs') = n - 1
      /\ \A j \in 1..(i - 1) : jobs'[j] = jobs[j]
      /\ \A j \in i..(n - 1) : jobs'[j] = jobs[j + 1]
  BY WithoutSeq, Zenon
<1>3. DOMAIN jobs' = 1..(n - 1)
  BY <1>2, SeqLen, Zenon
<1> HIDE DEF n
<1>4. \A j \in DOMAIN jobs' : \E h \in DOMAIN jobs : jobs'[j] = jobs[h]
  <2> SUFFICES ASSUME NEW j \in 1..(n - 1) PROVE \E h \in 1..n : jobs'[j] = jobs[h]
    BY <1>1, <1>3, Zenon
  <2>1. j \in 1..(i - 1) \/ j \in i..(n - 1)
    BY <1>1
  <2>2. j \in 1..n /\ j + 1 \in 1..n
    BY <1>1
  <2> QED BY <1>2, <2>1, <2>2, Zenon
<1>5. \A h \in DOMAIN jobs : h = i \/ \E j \in DOMAIN jobs' : jobs'[j] = jobs[h]
  <2> SUFFICES ASSUME NEW h \in 1..n, h # i PROVE \E j \in 1..(n - 1) : jobs'[j] = jobs[h]
    BY <1>1, <1>3, Zenon
  <2>1. CASE h < i
    <3>1. h \in 1..(n - 1) /\ h \in 1..(i - 1)
      BY <1>1, <2>1
    <3> QED BY <1>2, <3>1, Zenon
  <2>2. CASE h > i
    <3>1. h - 1 \in 1..(n - 1) /\ h - 1 \in i..(n - 1) /\ (h - 1) + 1 = h
      BY <1>1, <2>2
    <3> QED BY <1>2, <3>1, Zenon
  <2> QED BY <1>1, <2>1, <2>2
<1>6. ASSUME NEW x \in Asked' PROVE x \in Asked
  BY <1>4, <1>6, ZenonT(40) DEF Asked
<1>7. ASSUME NEW x \in Asked PROVE x = jobs[i] \/ x \in Asked'
  BY <1>5, <1>7, Zenon DEF Asked
<1>8. ASSUME jobs[i].type = "KEY_DETACH", NEW x \in Asked PROVE x # jobs[i]
  BY <1>8, Zenon DEF Asked
<1> QED BY <1>6, <1>7, <1>8, Zenon

(* A detach job moves on. *)
LEMMA AskedMoved ==
    ASSUME jobs \in Seq(Job), NEW i \in DOMAIN jobs, NEW st, jobs[i].type = "KEY_DETACH",
           jobs' = [jobs EXCEPT ![i].st = st]
    PROVE  Asked' = Asked
<1>1. jobs[i] \in Job
  BY JobAt, Zenon
<1>2. DOMAIN jobs' = DOMAIN jobs /\ \A j \in DOMAIN jobs \ {i} : jobs'[j] = jobs[j]
  BY Zenon
<1>3. jobs'[i] = [jobs[i] EXCEPT !.st = st]
  BY Zenon
<1>4. jobs'[i].type = "KEY_DETACH"
  BY <1>1, <1>3, SMTT(30) DEF Job
<1> QED BY <1>2, <1>4, Zenon DEF Asked

(* An event is sent while the key has no other job. *)
LEMMA AskedSent ==
    ASSUME Calm, NEW k \in Keys, NEW type \in JobTypes, SendEvent(type, k), ~crowded'
    PROVE  /\ NoJob(k)
           /\ type = "KEY_DETACH" => Asked' = Asked
           /\ type # "KEY_DETACH" => Asked' = Asked \union {[type |-> type, k |-> k, st |-> "created"]}
<1>1. jobs \in Seq(Job)
  BY Parts, Zenon DEF Calm, QueuesOk
<1>2. ~OpenJob(k, JobTypes)
  BY Zenon DEF SendEvent
<1>3. ~OpenJob(k, {type})
  BY <1>2, Zenon DEF OpenJob
<1>4. [type |-> type, k |-> k, st |-> "created"] \in Job
  BY Zenon DEF Job
<1>5. jobs' = Append(jobs, [type |-> type, k |-> k, st |-> "created"])
  BY <1>3, Zenon DEF SendEvent
<1>6. [type |-> type, k |-> k, st |-> "created"].type = type
  BY Zenon
<1>7. NoJob(k)
  <2> SUFFICES ASSUME NEW x \in Asked, x.k = k PROVE FALSE
    BY Zenon DEF NoJob
  <2>1. x.st = "created"
    BY AskedOfKeys, Zenon
  <2>2. PICK i \in DOMAIN jobs : x = jobs[i]
    BY Zenon DEF Asked
  <2>3. jobs[i].type \in JobTypes
    BY <1>1, <2>2, JobAt, SMTT(30) DEF Job
  <2> QED BY <1>2, <2>1, <2>2, <2>3, Zenon DEF OpenJob
<1> QED BY <1>1, <1>4, <1>5, <1>6, <1>7, AskedAppend, ZenonT(40)

(* The job of the state a key is brought to. *)
LEMMA Sent ==
    ASSUME Calm, NEW k \in Keys, NEW s, handleKeyStateTransition(k, s), ~crowded',
           s \in {"ENABLED", "DISABLED"}, rows'[k].state = s,
           \A j \in Keys \ {k} : rows'[j].state = rows[j].state,
           UNCHANGED <<crypto, used, linked, primary>>, ~New(k)',
           \A q \in Procs : \/ proc'[q] = proc[q]
                            \/ Recovers(proc'[q]) /\ proc'[q].op # "create"
    PROVE  JobsInv'
<1>1. AskedOk /\ NewOk /\ (\A p \in Procs : Recovers(proc[p])) /\ LinkedOk
  BY JobParts, Zenon DEF Calm
<1> PICK type : type = IF s = "ENABLED" THEN "KEY_ENABLE" ELSE "KEY_DISABLE"
  BY Zenon
<1> PICK job : job = [type |-> type, k |-> k, st |-> "created"]
  BY Zenon
<1>2. job.type = type /\ job.k = k /\ job.st = "created" /\ type \in JobTypes /\ type # "KEY_DETACH"
  BY Zenon DEF JobTypes
<1>3. SendEvent(type, k)
  BY Zenon DEF handleKeyStateTransition
<1>4. NoJob(k) /\ Asked' = Asked \union {job}
  BY <1>2, <1>3, AskedSent, Zenon
<1>5. \A j \in Keys \ {k} : NoJob(j)' <=> NoJob(j)
  BY <1>2, <1>4, Zenon DEF NoJob
<1>6. AskedOk'
  <2> SUFFICES ASSUME NEW x \in Asked'
               PROVE  /\ x.st = "created"
                      /\ rows'[x.k].state = "ENABLED" => x.type = "KEY_ENABLE"
                      /\ rows'[x.k].state = "DISABLED" => x.type = "KEY_DISABLE"
    BY Zenon DEF AskedOk
  <2>1. CASE x = job
    BY <1>2, <2>1, Zenon
  <2>2. CASE x \in Asked
    <3>1. x.k \in Keys \ {k}
      BY <1>4, <2>2, AskedOfKeys, Zenon DEF NoJob
    <3> QED BY <1>1, <2>2, <3>1, Zenon DEF AskedOk
  <2> QED BY <1>4, <2>1, <2>2, Zenon
<1>7. \A j \in Keys : New(j)' => j # k /\ New(j)
  BY Zenon DEF New
<1>8. NewOk'
  BY <1>1, <1>5, <1>7, Zenon DEF NewOk
<1>9. LinkedOk'
  <2> SUFFICES ASSUME NEW c \in linked, NoJob(primary[c])', rows'[primary[c]].state \in {"ENABLED", "DISABLED"}
               PROVE  crypto[primary[c]] = (rows'[primary[c]].state = "ENABLED")
    BY Zenon DEF LinkedOk
  <2>1. primary[c] \in Keys
    BY LinkedPrimary, Zenon
  <2>2. primary[c] # k
    BY <1>2, <1>4, Zenon DEF NoJob
  <2> QED BY <1>1, <1>5, <2>1, <2>2, Zenon DEF LinkedOk
<1>10. (\A p \in Procs : Recovers(proc[p]))'
  BY <1>1, Zenon DEF Recovers
<1> QED BY <1>6, <1>8, <1>9, <1>10, JobParts, PTL

-----------------------------------------------------------------------------
(* JobsInv, action by action. *)

(* A running process takes a step, and nothing else runs. *)
LEMMA OnlyRuns ==
    ASSUME Calm, NEW p \in Procs, proc[p] # Idle, NEW r, r.op # "create", Recovers(r),
           proc' = [proc EXCEPT ![p] = r]
    PROVE  \A q \in Procs : Recovers(proc'[q]) /\ proc'[q].op # "create"
<1>1. \A q \in Procs : q # p => proc[q] = Idle
  BY OthersIdle, Zenon DEF Calm
<1>2. Recovers(Idle) /\ Idle.op # "create"
  BY Zenon DEF Recovers, Idle
<1>3. proc \in [Procs -> Proc]
  BY Parts, Zenon DEF Calm, ProcsInv
<1>4. \A q \in Procs : proc'[q] = IF q = p THEN r ELSE proc[q]
  BY <1>3, Zenon
<1> QED BY <1>1, <1>2, <1>4, Zenon

(* It ends. *)
LEMMA OnlyEnds ==
    ASSUME Calm, NEW p \in Procs, proc[p] # Idle, Done(p)
    PROVE  \A q \in Procs : Recovers(proc'[q]) /\ proc'[q].op # "create"
<1>1. Recovers(Idle) /\ Idle.op # "create"
  BY Zenon DEF Recovers, Idle
<1> QED BY <1>1, OnlyRuns, Zenon DEF Done

(* A step of a process on its key that asks for nothing. *)
LEMMA StepUnasked ==
    ASSUME Calm, \A q \in Procs : Recovers(proc'[q]) /\ proc'[q].op # "create",
           Asked' = Asked, UNCHANGED <<crypto, used, linked>>, \A c \in linked : primary'[c] = primary[c],
           NEW k \in Keys, \A j \in Keys \ {k} : rows'[j] = rows[j],
           \/ rows'[k].state = rows[k].state
           \/ /\ rows'[k].state \notin {"ENABLED", "DISABLED"}
              /\ k \in Byok => rows'[k].state \notin {"PENDING_CREATION", "PENDING_IMPORT"}
           \/ New(k) /\ rows'[k].state # "DISABLED"
    PROVE  JobsInv'
<1>1. /\ used \subseteq used' /\ linked' \subseteq linked /\ \A c \in linked' : primary'[c] = primary[c]
      /\ \A j \in Keys \ {k} : rows'[j].state = rows[j].state
  BY Zenon
<1>2. \A q \in Procs : Recovers(proc'[q]) /\ (proc'[q].op = "create" => New(proc'[q].k))
  BY Zenon
<1> QED BY <1>1, <1>2, Unasked, Zenon

(* Synchronisation before the state is written, and calls of the keystore. *)
LEMMA CallsOps ==
    ASSUME Calm, NEW p \in Procs,
           \/ getKeyFromProvider(p) \/ syncKeyVersions(p) \/ deleteProviderKey(p) \/ importProviderKeyMaterial(p)
    PROVE  JobsInv'
<1> PICK k : k = proc[p].k
  BY Zenon
<1>1. /\ proc[p].op \in {"sync", "update", "delete", "import"}
      /\ proc[p].op \in Ops \ {"create", "deleteConfig"}
  BY Zenon DEF getKeyFromProvider, syncKeyVersions, deleteProviderKey, importProviderKeyMaterial, At, Ops
<1>2. k \in Keys /\ proc[p] \in Proc /\ proc[p] # Idle
  BY <1>1, Own, Zenon DEF Calm
<1>3. UNCHANGED <<rows, primary, linked, jobs, crypto, used>>
  BY Zenon DEF getKeyFromProvider, syncKeyVersions, deleteProviderKey, importProviderKeyMaterial, tables, queues
<1>4. PICK r : proc' = [proc EXCEPT ![p] = r] /\ r.op \in {"idle", "sync", "update", "delete", "import"}
  <2>1. Idle.op = "idle"
    BY Zenon DEF Idle
  <2>2. \A w : w = proc[p].op => w \in {"idle", "sync", "update", "delete", "import"}
    BY <1>1
  <2>3. CASE getKeyFromProvider(p)
    <3>1. PICK x, y : proc' = [proc EXCEPT ![p].to = x, ![p].pc = y]
      BY <2>3, Zenon DEF getKeyFromProvider
    <3> PICK r : r = [proc[p] EXCEPT !.to = x, !.pc = y]
      BY Zenon
    <3>2. proc' = [proc EXCEPT ![p] = r]
      BY <3>1, Zenon
    <3>3. r.op = proc[p].op
      BY <1>2, Zenon DEF Proc
    <3> QED BY <2>2, <3>2, <3>3, Zenon
  <2>4. CASE Done(p)
    BY <2>1, <2>4, Zenon DEF Done
  <2>5. ASSUME NEW y, proc' = [proc EXCEPT ![p].pc = y]
        PROVE  \E r : proc' = [proc EXCEPT ![p] = r] /\ r.op \in {"idle", "sync", "update", "delete", "import"}
    <3> PICK r : r = [proc[p] EXCEPT !.pc = y]
      BY Zenon
    <3>1. proc' = [proc EXCEPT ![p] = r]
      BY <2>5, Zenon
    <3>2. r.op = proc[p].op
      BY <1>2 DEF Proc
    <3> QED BY <2>2, <3>1, <3>2, Zenon
  <2>6. CASE proc' = [proc EXCEPT ![p].copy.state = "ENABLED", ![p].pc = "write"]
    <3> PICK r : r = [proc[p] EXCEPT !.copy = [proc[p].copy EXCEPT !.state = "ENABLED"], !.pc = "write"]
      BY Zenon
    <3>1. proc' = [proc EXCEPT ![p] = r]
      BY <2>6, Zenon
    <3>2. r.op = proc[p].op
      BY <1>2 DEF Proc
    <3> QED BY <2>2, <3>1, <3>2, Zenon
  <2>7. CASE syncKeyVersions(p)
    BY <2>5, <2>7, Zenon DEF syncKeyVersions
  <2>8. CASE deleteProviderKey(p)
    BY <2>4, <2>5, <2>8, Zenon DEF deleteProviderKey
  <2>9. CASE importProviderKeyMaterial(p)
    BY <2>4, <2>6, <2>9, Zenon DEF importProviderKeyMaterial
  <2> QED BY <2>3, <2>7, <2>8, <2>9, Zenon
<1>5. r.op # "create" /\ Recovers(r)
  BY <1>4 DEF Recovers
<1>6. \A q \in Procs : Recovers(proc'[q]) /\ proc'[q].op # "create"
  BY <1>2, <1>4, <1>5, OnlyRuns, Zenon
<1>7. Asked' = Asked
  BY <1>3, Zenon DEF Asked
<1> QED BY <1>2, <1>3, <1>6, <1>7, StepUnasked, Zenon

(* Synchronisation writes the state, and sends the event for it. *)
LEMMA syncHYOKKeyStateOps ==
    ASSUME Calm, NEW p \in Procs, syncHYOKKeyState(p), ~crowded'
    PROVE  JobsInv'
<1> PICK k : k = proc[p].k
  BY Zenon
<1> PICK next : next = [proc[p].copy EXCEPT !.state = proc[p].to]
  BY Zenon
<1>1. proc[p].op \in {"sync", "update", "delete"} /\ proc[p].pc = "write"
  BY Zenon DEF syncHYOKKeyState, At
<1>2. proc[p].op \in Ops \ {"create", "deleteConfig"} /\ ~Unsaved(proc[p])
  BY <1>1, Zenon DEF Ops, Unsaved
<1>3. /\ k \in Keys /\ rows[k] # NoRow /\ ProcOk(proc[p]) /\ proc[p] \in Proc /\ proc[p] # Idle
      /\ proc[p].copy \in Row /\ rows[k].cfg = proc[p].copy.cfg
      /\ rows[k].state = proc[p].copy.state /\ rows[k].native = proc[p].copy.native
  BY <1>2, Own, ZenonT(40) DEF Calm
<1>4. k \notin Byok /\ proc[p].to \in States
  BY <1>1, <1>3, Zenon DEF ProcOk, Hyok
<1>5. next \in Row /\ next.cfg = rows[k].cfg /\ next.state = proc[p].to /\ next.native = rows[k].native
  BY <1>3, <1>4, Zenon DEF Row
<1>6. UNCHANGED <<primary, linked, crypto, used>>
  BY Zenon DEF syncHYOKKeyState
<1>7. PICK r : proc' = [proc EXCEPT ![p] = r] /\ r.op \in {"idle", "update", "delete"}
  <2>1. CASE proc[p].op = "sync"
    <3>1. proc' = [proc EXCEPT ![p] = Idle] /\ Idle.op = "idle"
      BY <2>1, Zenon DEF syncHYOKKeyState, Idle
    <3> QED BY <3>1, Zenon
  <2>2. CASE proc[p].op # "sync"
    <3> PICK pc : pc = IF proc[p].op = "update" THEN "commit" ELSE "check"
      BY Zenon
    <3> PICK r : r = [proc[p] EXCEPT !.copy = next, !.to = "NONE", !.pc = pc]
      BY Zenon
    <3>1. proc' = [proc EXCEPT ![p] = r]
      BY <1>1, <2>2, ZenonT(40) DEF syncHYOKKeyState
    <3>2. r.op \in {"idle", "update", "delete"}
      BY <1>1, <1>3, <2>2, Zenon DEF Proc
    <3> QED BY <3>1, <3>2, Zenon
  <2> QED BY <2>1, <2>2, Zenon
<1>8. r.op # "create" /\ Recovers(r)
  BY <1>7 DEF Recovers
<1>9. \A q \in Procs : Recovers(proc'[q]) /\ proc'[q].op # "create"
  BY <1>3, <1>7, <1>8, OnlyRuns, Zenon
<1>10. CASE proc[p].to = proc[p].copy.state
  <2>1. rows' = rows /\ jobs' = jobs
    BY <1>10, Zenon DEF syncHYOKKeyState
  <2>2. Asked' = Asked
    BY <2>1, Zenon DEF Asked
  <2> QED BY <1>3, <1>6, <1>9, <2>1, <2>2, StepUnasked, ZenonT(40)
<1>11. CASE proc[p].to # proc[p].copy.state
  <2>1. rows' = Patch(k, next) /\ handleKeyStateTransition(k, proc[p].to)
    BY <1>11, Zenon DEF syncHYOKKeyState
  <2>2. rows'[k].state = proc[p].to /\ \A j \in Keys \ {k} : rows'[j] = rows[j]
    <3>1. BaseInv
      BY Zenon DEF Calm
    <3> QED BY <1>3, <1>5, <2>1, <3>1, Patched, ZenonT(40)
  <2>3. CASE proc[p].to \in {"ENABLED", "DISABLED"}
    <3>1. ~New(k)'
      <4>1. k \in used
        BY <1>2, <1>3, Running, Zenon DEF Calm
      <4> QED BY <1>4, <1>6, <1>9, <4>1, Zenon DEF New
    <3> QED BY <1>3, <1>6, <1>9, <2>1, <2>2, <2>3, <3>1, Sent, ZenonT(40)
  <2>4. CASE proc[p].to \notin {"ENABLED", "DISABLED"}
    <3>1. jobs' = jobs
      BY <2>1, <2>4 DEF handleKeyStateTransition
    <3>2. Asked' = Asked
      BY <3>1, Zenon DEF Asked
    <3> QED BY <1>3, <1>4, <1>6, <1>9, <2>2, <2>4, <3>2, StepUnasked, ZenonT(40)
  <2> QED BY <2>3, <2>4, Zenon
<1> QED BY <1>10, <1>11, Zenon

(* An update writes its copy, and sends the event for the enablement. *)
LEMMA applyKeyPatchOps ==
    ASSUME Calm, NEW p \in Procs, applyKeyPatch(p), ~crowded', faults' = 0
    PROVE  JobsInv'
<1> PICK k : k = proc[p].k
  BY Zenon
<1> PICK copy : copy = copyFieldsToModelKey(proc[p].copy, proc[p].to)
  BY Zenon
<1>1. proc[p].op = "update" /\ proc[p].pc = "commit"
  BY Zenon DEF applyKeyPatch, At
<1>2. proc[p].op \in Ops \ {"create", "deleteConfig"} /\ ~Unsaved(proc[p])
  BY <1>1, Zenon DEF Ops, Unsaved
<1>3. /\ k \in Keys /\ rows[k] # NoRow /\ ProcOk(proc[p]) /\ proc[p] # Idle
      /\ proc[p].copy \in Row /\ rows[k].cfg = proc[p].copy.cfg /\ rows[k].state = proc[p].copy.state
  BY <1>2, Own, Zenon DEF Calm
<1>4. proc[p].to \in {"NONE", "ENABLED", "DISABLED"}
  BY <1>1, <1>3, ZenonT(40) DEF ProcOk
<1>5. copy \in Row /\ copy.cfg = rows[k].cfg
  BY <1>3, <1>4, SMTT(30) DEF copyFieldsToModelKey, Row, States
<1>6. UNCHANGED <<primary, linked, crypto, used>> /\ Done(p)
  BY Zenon DEF applyKeyPatch
<1>7. \A q \in Procs : Recovers(proc'[q]) /\ proc'[q].op # "create"
  BY <1>3, <1>6, OnlyEnds, Zenon
<1>8. rows' = PatchAll(k, copy) => rows'[k].state = copy.state /\ \A j \in Keys \ {k} : rows'[j] = rows[j]
  <2>1. BaseInv
    BY Zenon DEF Calm
  <2> QED BY <1>3, <1>5, <2>1, Patched, Zenon
<1>9. UNCHANGED jobs => Asked' = Asked
  BY Zenon DEF Asked
<1>10. CASE copy = proc[p].copy /\ rows' = PatchAll(k, copy) /\ UNCHANGED jobs
  <2>1. rows'[k].state = rows[k].state /\ \A j \in Keys \ {k} : rows'[j] = rows[j]
    BY <1>3, <1>8, <1>10, Zenon
  <2> QED BY <1>3, <1>6, <1>7, <1>9, <1>10, <2>1, StepUnasked, ZenonT(40)
<1>11. CASE UNCHANGED <<rows, jobs>>
  BY <1>3, <1>6, <1>7, <1>9, <1>11, StepUnasked, ZenonT(40)
<1>12. CASE copy # proc[p].copy /\ rows' = PatchAll(k, copy) /\ enableKey(k, copy)
  <2>1. copy.state \in {"ENABLED", "DISABLED"}
    BY <1>3, <1>4, <1>12, SMTT(30) DEF copyFieldsToModelKey, Row
  <2>2. handleKeyStateTransition(k, copy.state)
    BY <1>12, Zenon DEF enableKey
  <2>3. rows'[k].state = copy.state /\ \A j \in Keys \ {k} : rows'[j].state = rows[j].state
    BY <1>8, <1>12, Zenon
  <2>4. ~New(k)'
    <3>1. k \in used
      BY <1>2, <1>3, Running, Zenon DEF Calm
    <3>2. rows'[k].state \notin {"PENDING_CREATION", "PENDING_IMPORT"}
      BY <2>1, <2>3, Zenon
    <3> QED BY <1>6, <1>7, <3>1, <3>2, Zenon DEF New
  <2> QED BY <1>3, <1>6, <1>7, <2>1, <2>2, <2>3, <2>4, Sent, ZenonT(40)
<1>13. ~Fault
  BY Parts DEF Calm, Fault, BoundsOk
<1> QED BY <1>10, <1>11, <1>12, <1>13, Zenon DEF applyKeyPatch

(* The row goes; import parameters come. *)
LEMMA RowsOps ==
    ASSUME Calm, NEW p \in Procs, deleteRows(p) \/ fetchImportParams(p)
    PROVE  JobsInv'
<1> PICK k : k = proc[p].k
  BY Zenon
<1>1. proc[p].op \in Ops \ {"create", "deleteConfig"}
  BY Zenon DEF deleteRows, fetchImportParams, At, Ops
<1>2. k \in Keys /\ rows[k] \in Row /\ proc[p] # Idle
  BY <1>1, Own, Zenon DEF Calm
<1>3. UNCHANGED <<primary, linked, jobs, crypto, used>> /\ Done(p)
  BY Zenon DEF deleteRows, fetchImportParams, queues
<1>4. \A q \in Procs : Recovers(proc'[q]) /\ proc'[q].op # "create"
  BY <1>2, <1>3, OnlyEnds, Zenon
<1>5. Asked' = Asked
  BY <1>3, Zenon DEF Asked
<1>6. rows \in [Keys -> Row \union {NoRow}]
  BY Parts, Zenon DEF Calm, RowsInv
<1>7. rows' = rows \/ rows' = [rows EXCEPT ![k] = NoRow] \/ rows' = [rows EXCEPT ![k].params = "valid"]
  BY Zenon DEF deleteRows, fetchImportParams
<1>8. \A j \in Keys \ {k} : rows'[j] = rows[j]
  BY <1>6, <1>7, ZenonT(40)
<1>9. rows'[k].state \in {rows[k].state, "NONE"}
  BY <1>2, <1>6, <1>7, SMTT(30) DEF NoRow, Row
<1>10. "NONE" \notin {"ENABLED", "DISABLED"} /\ "NONE" \notin {"PENDING_CREATION", "PENDING_IMPORT"}
  BY Zenon
<1> QED BY <1>2, <1>3, <1>4, <1>5, <1>8, <1>9, <1>10, StepUnasked, ZenonT(40)

(* A key with its material is ENABLED, which the operators never heard        *)
(* otherwise.                                                                 *)
LEMMA persistImportOps ==
    ASSUME Calm, NEW p \in Procs, persistImport(p)
    PROVE  JobsInv'
<1> PICK k : k = proc[p].k
  BY Zenon
<1> PICK t : t = Patch(k, proc[p].copy)
  BY Zenon
<1>1. proc[p].op = "import" /\ proc[p].pc = "write"
  BY Zenon DEF persistImport, At
<1>2. proc[p].op \in Ops \ {"create", "deleteConfig"} /\ Unsaved(proc[p])
  BY <1>1, Zenon DEF Ops, Unsaved
<1>3. /\ k \in Keys /\ rows[k] # NoRow /\ proc[p] # Idle
      /\ ProcOk(proc[p]) /\ proc[p].copy \in Row /\ Fresh(proc[p])
  BY <1>2, Own, Zenon DEF Calm
<1>4. rows[k].state = "PENDING_IMPORT" /\ k \in Byok /\ proc[p].copy.state = "ENABLED"
  BY <1>1, <1>2, <1>3, ZenonT(40) DEF Fresh, ProcOk
<1>5. New(k)
  BY <1>4, ZenonT(40) DEF New
<1>6. UNCHANGED <<primary, linked, jobs, crypto, used>> /\ Done(p)
  BY Zenon DEF persistImport, queues
<1>7. RowsInv /\ Exists(k)
  BY <1>3, Parts, ZenonT(40) DEF Calm, Exists
<1>8. /\ t \in [Keys -> Row \union {NoRow}] /\ t[k] \in Row /\ t[k].state = "ENABLED"
      /\ \A j \in Keys \ {k} : t[j] = rows[j]
  <2>1. k \in Keys /\ proc[p].copy \in Row
    BY <1>3, ZenonT(40)
  <2> QED BY <1>4, <1>7, <2>1, PatchIs, ZenonT(40)
<1>9. rows' = [t EXCEPT ![k].params = "none"]
  BY <1>7, ZenonT(40) DEF persistImport
<1>10. rows'[k].state = "ENABLED" /\ \A j \in Keys \ {k} : rows'[j] = rows[j]
  BY <1>3, <1>8, <1>9, ZenonT(40) DEF Row
<1>11. rows'[k].state # "DISABLED"
  BY <1>10, SMTT(30)
<1>12. \A q \in Procs : Recovers(proc'[q]) /\ proc'[q].op # "create"
  BY <1>3, <1>6, OnlyEnds, ZenonT(40)
<1>13. Asked' = Asked
  BY <1>6, Zenon DEF Asked
<1> QED BY <1>3, <1>5, <1>6, <1>10, <1>11, <1>12, <1>13, StepUnasked, ZenonT(40)

(* The pending task: without faults it never finds a key it made before. *)
LEMMA PendingOps ==
    ASSUME Calm, NEW p \in Procs, initProviderForPendingKey(p) \/ createOrRecoverProviderKey(p)
    PROVE  JobsInv'
<1> PICK k : k = proc[p].k
  BY Zenon
<1>1. proc[p].op = "pending" /\ proc[p].pc \in {"get", "check"}
  BY Zenon DEF initProviderForPendingKey, createOrRecoverProviderKey, At
<1>2. /\ proc[p].op \in Ops \ {"create", "deleteConfig"} /\ ~Unsaved(proc[p]) /\ ~Makes(proc[p])
  BY <1>1, Zenon DEF Ops, Unsaved, Makes
<1>3. /\ k \in Keys /\ rows[k] # NoRow /\ proc[p] \in Proc /\ proc[p] # Idle /\ Consistent(k, rows[k])
      /\ ProcOk(proc[p]) /\ proc[p].copy \in Row /\ rows[k].cfg = proc[p].copy.cfg
      /\ rows[k].state = proc[p].copy.state /\ (k \in Byok => RememberedNow(k))
  BY <1>2, Own, ZenonT(40) DEF Calm
<1>4. rows[k].state = "PENDING_CREATION" /\ ~rows[k].native /\ k \in Byok
  BY <1>1, <1>3, ZenonT(40) DEF ProcOk, Consistent
<1>5. keystore[k] = "absent"
  <2>1. ~(faults > 0)
    BY DEF Calm
  <2> QED BY <1>3, <1>4, <2>1, Zenon DEF RememberedNow
<1>6. UNCHANGED <<primary, linked, jobs, crypto, used>>
  BY Zenon DEF initProviderForPendingKey, createOrRecoverProviderKey, tables, queues
<1>7. Asked' = Asked
  BY <1>6, ZenonT(40) DEF Asked
<1>8. CASE transitionPendingKeyToError(p)
  <2> PICK w : w = [proc[p].copy EXCEPT !.state = "ERROR"]
    BY Zenon
  <2>1. w \in Row /\ w.cfg = rows[k].cfg /\ w.state = "ERROR"
    BY <1>3, Zenon DEF Row, States
  <2>2. rows' = PatchAll(k, w) /\ Done(p)
    BY <1>8, Zenon DEF transitionPendingKeyToError
  <2>3. BaseInv
    BY Zenon DEF Calm
  <2>4. rows'[k].state = "ERROR" /\ \A j \in Keys \ {k} : rows'[j] = rows[j]
    BY <1>3, <2>1, <2>2, <2>3, Patched, ZenonT(40)
  <2>5. "ERROR" \notin {"ENABLED", "DISABLED"} /\ "ERROR" \notin {"PENDING_CREATION", "PENDING_IMPORT"}
    OBVIOUS
  <2>6. \A q \in Procs : Recovers(proc'[q]) /\ proc'[q].op # "create"
    BY <1>3, <2>2, OnlyEnds, ZenonT(40)
  <2> QED BY <1>3, <1>6, <1>7, <2>4, <2>5, <2>6, StepUnasked, ZenonT(40)
<1>9. ASSUME rows' = rows, \A q \in Procs : Recovers(proc'[q]) /\ proc'[q].op # "create"
      PROVE  JobsInv'
  BY <1>3, <1>6, <1>7, <1>9, StepUnasked, ZenonT(40)
<1>10. CASE rows' = rows /\ Done(p)
  BY <1>3, <1>9, <1>10, OnlyEnds, ZenonT(40)
<1>11. CASE rows' = rows /\ proc' = [proc EXCEPT ![p].pc = "check"]
  <2> PICK r : r = [proc[p] EXCEPT !.pc = "check"]
    BY Zenon
  <2>1. proc' = [proc EXCEPT ![p] = r]
    BY <1>11, Zenon
  <2>2. r.op # "create" /\ Recovers(r)
    BY <1>1, <1>3, SMTT(30) DEF Proc, Recovers
  <2> QED BY <1>3, <1>9, <1>11, <2>1, <2>2, OnlyRuns, ZenonT(40)
<1>12. CASE initProviderForPendingKey(p)
  BY <1>8, <1>10, <1>11, <1>12, ZenonT(40) DEF initProviderForPendingKey
<1>13. CASE createOrRecoverProviderKey(p)
  <2> PICK w : w = [proc[p].copy EXCEPT !.state = "PENDING_IMPORT", !.native = TRUE]
    BY Zenon
  <2> PICK r : r = [proc[p] EXCEPT !.copy = w, !.pc = "write"]
    BY Zenon
  <2>1. rows' = rows
    BY <1>13, Zenon DEF createOrRecoverProviderKey, tables
  <2>2. Done(p) \/ proc' = [proc EXCEPT ![p].copy = w, ![p].pc = "write"]
    BY <1>5, <1>13, Zenon DEF createOrRecoverProviderKey
  <2>3. Done(p) \/ proc' = [proc EXCEPT ![p] = r]
    BY <2>2, ZenonT(40)
  <2>4. r.op # "create" /\ Recovers(r)
    <3>1. w.state = "PENDING_IMPORT" /\ r.copy = w
      BY <1>3, Zenon DEF Proc, Row
    <3> QED BY <1>1, <1>3, <3>1, ZenonT(40) DEF Proc, Recovers
  <2>5. CASE proc' = [proc EXCEPT ![p] = r]
    BY <1>3, <1>9, <2>1, <2>4, <2>5, OnlyRuns, Zenon
  <2> QED BY <1>10, <2>1, <2>3, <2>5, ZenonT(40)
<1> QED BY <1>12, <1>13, ZenonT(40)

(* ... and the key waits for its material. *)
LEMMA persistPendingKeyOps ==
    ASSUME Calm, NEW p \in Procs, persistPendingKey(p)
    PROVE  JobsInv'
<1> PICK k : k = proc[p].k
  BY Zenon
<1> PICK w : w = proc[p].copy
  BY Zenon
<1>1. proc[p].op = "pending" /\ proc[p].pc = "write"
  BY Zenon DEF persistPendingKey, At
<1>2. proc[p].op \in Ops \ {"create", "deleteConfig"} /\ Unsaved(proc[p])
  BY <1>1, Zenon DEF Ops, Unsaved
<1>3. /\ k \in Keys /\ rows[k] # NoRow /\ proc[p] # Idle /\ ProcOk(proc[p]) /\ w \in Row
      /\ w.cfg = rows[k].cfg /\ Fresh(proc[p])
  BY <1>2, Own, ZenonT(40) DEF Calm
<1>4. rows[k].state = "PENDING_CREATION" /\ k \in Byok
  BY <1>1, <1>2, <1>3, SMTT(30) DEF Fresh, ProcOk
<1>5. w.state = "PENDING_IMPORT"
  BY <1>1, JobParts, Zenon DEF Calm, Recovers
<1>6. New(k)
  BY <1>4, Zenon DEF New
<1>7. HasKeys(w.cfg)
  BY <1>3, Zenon DEF HasKeys
<1>8. primary' = primary /\ rows' = PatchAll(k, w)
  BY <1>7, Zenon DEF persistPendingKey, setPrimaryIfFirstKey
<1>9. UNCHANGED <<linked, jobs, crypto, used>> /\ Done(p)
  BY Zenon DEF persistPendingKey
<1>10. rows'[k].state = w.state /\ \A j \in Keys \ {k} : rows'[j] = rows[j]
  <2>1. BaseInv
    BY Zenon DEF Calm
  <2> QED BY <1>3, <1>8, <2>1, Patched, ZenonT(40)
<1>11. rows'[k].state # "DISABLED"
  BY <1>5, <1>10, ZenonT(40)
<1>12. \A q \in Procs : Recovers(proc'[q]) /\ proc'[q].op # "create"
  BY <1>3, <1>9, OnlyEnds, ZenonT(40)
<1>13. Asked' = Asked
  BY <1>9, Zenon DEF Asked
<1> QED BY <1>3, <1>6, <1>8, <1>9, <1>10, <1>11, <1>12, <1>13, StepUnasked, ZenonT(40)

(* A detachment, and its end: the jobs that enable and disable stay. *)
LEMMA DetachOps ==
    ASSUME Calm, NEW p \in Procs, Detach(p) \/ updateKey(p), ~crowded'
    PROVE  JobsInv'
<1> PICK k : k = proc[p].k
  BY Zenon
<1> PICK to : to = IF proc[p].op = "detach" THEN "DETACHING" ELSE proc[p].to
  BY Zenon
<1> PICK w : w = [proc[p].copy EXCEPT !.state = to]
  BY Zenon
<1>1. proc[p].op \in {"detach", "terminate"}
  BY Zenon DEF Detach, updateKey, At
<1>2. proc[p].op \in Ops \ {"create", "deleteConfig"} /\ ~Unsaved(proc[p])
  BY <1>1 DEF Ops, Unsaved
<1>3. /\ k \in Keys /\ rows[k] # NoRow /\ proc[p] # Idle
      /\ ProcOk(proc[p]) /\ proc[p].copy \in Row /\ rows[k].cfg = proc[p].copy.cfg
      /\ rows[k].native = proc[p].copy.native
  BY <1>2, Own, ZenonT(40) DEF Calm
<1>4. to \in {"DETACHING", "DETACHED", "UNKNOWN"}
  BY <1>1, <1>3, SMTT(30) DEF ProcOk
<1>5. w \in Row /\ w.cfg = rows[k].cfg /\ w.state = to /\ w.native = rows[k].native
  BY <1>3, <1>4, Zenon DEF Row, States
<1>6. rows' = Patch(k, w) \/ rows' = PatchAll(k, w)
  <2>1. CASE Detach(p)
    <3>1. to = "DETACHING"
      BY <2>1, SMTT(30) DEF Detach, At
    <3> QED BY <2>1, <3>1, ZenonT(40) DEF Detach
  <2>2. CASE updateKey(p)
    <3>1. to = proc[p].to
      BY <2>2, Zenon DEF updateKey, At
    <3> QED BY <2>2, <3>1, ZenonT(40) DEF updateKey
  <2> QED BY <2>1, <2>2, Zenon
<1>7. UNCHANGED <<primary, linked, crypto, used>> /\ Done(p)
  BY Zenon DEF Detach, updateKey
<1>8. rows'[k].state = to /\ \A j \in Keys \ {k} : rows'[j] = rows[j]
  <2>1. BaseInv
    BY Zenon DEF Calm
  <2> QED BY <1>3, <1>5, <1>6, <2>1, Patched, ZenonT(40)
<1>9. to \notin {"ENABLED", "DISABLED"} /\ to \notin {"PENDING_CREATION", "PENDING_IMPORT"}
  BY <1>4, Zenon
<1>10. \A q \in Procs : Recovers(proc'[q]) /\ proc'[q].op # "create"
  BY <1>3, <1>7, OnlyEnds, ZenonT(40)
<1>11. Asked' = Asked
  <2>1. CASE Detach(p)
    <3>1. SendEvent("KEY_DETACH", k) /\ "KEY_DETACH" \in JobTypes
      BY <2>1, Zenon DEF Detach, JobTypes
    <3> QED BY <1>3, <3>1, AskedSent, ZenonT(40)
  <2>2. CASE updateKey(p)
    <3>1. PICK i \in DOMAIN jobs : jobs[i] = [type |-> "KEY_DETACH", k |-> k, st |-> proc[p].to] /\ jobs' = Without(i)
      BY <2>2, Zenon DEF updateKey
    <3>2. jobs[i].type = "KEY_DETACH"
      BY <3>1, SMTT(30)
    <3>3. jobs \in Seq(Job)
      BY Parts, Zenon DEF Calm, QueuesOk
    <3> QED BY <3>1, <3>2, <3>3, AskedWithout, ZenonT(40)
  <2> QED BY <2>1, <2>2, Zenon
<1> QED BY <1>3, <1>7, <1>8, <1>9, <1>10, <1>11, StepUnasked, ZenonT(40)

(* A configuration goes that nothing is connected to. *)
LEMMA deleteConfigRowOps ==
    ASSUME Calm, NEW p \in Procs, deleteConfigRow(p)
    PROVE  JobsInv'
<1> PICK c : c = proc[p].c
  BY Zenon
<1>1. proc[p].op = "deleteConfig"
  BY ZenonT(40) DEF deleteConfigRow, At
<1>2. proc[p] # Idle
  BY <1>1 DEF Idle
<1>3. c \notin linked
  <2>1. Fresh(proc[p])
    BY <1>2, OthersIdle, Zenon DEF Calm
  <2> QED BY <1>1, <2>1, ZenonT(40) DEF Fresh
<1>4. UNCHANGED <<rows, linked, jobs, crypto, used>> /\ Done(p)
  BY Zenon DEF deleteConfigRow, queues
<1>5. \A d \in linked : primary'[d] = primary[d]
  <2>1. TablesOk
    BY Parts, Zenon DEF Calm
  <2> QED BY <1>3, <2>1, ZenonT(40) DEF deleteConfigRow, TablesOk
<1>6. \A q \in Procs : Recovers(proc'[q]) /\ proc'[q].op # "create"
  BY <1>2, <1>4, OnlyEnds, Zenon
<1>7. Asked' = Asked
  BY <1>4, Zenon DEF Asked
<1> QED BY <1>4, <1>5, <1>6, <1>7, Untouched, ZenonT(40)

(* The row of a created key, whose configuration has no systems if it becomes *)
(* primary.                                                                   *)
LEMMA persistCreatedKeyOps ==
    ASSUME Calm, NEW p \in Procs, persistCreatedKey(p)
    PROVE  JobsInv'
<1> PICK k : k = proc[p].k
  BY Zenon
<1> PICK row : row = proc[p].copy
  BY Zenon
<1>1. proc[p].op = "create" /\ proc[p].op \in Ops \ {"deleteConfig"}
  BY Zenon DEF persistCreatedKey, At, Ops
<1>2. k \in Keys /\ row \in Row /\ ProcOk(proc[p]) /\ proc[p] # Idle
  BY <1>1, Running, Zenon DEF Calm
<1>3. New(k)
  BY <1>1, Zenon DEF New
<1>4. row.state # "DISABLED"
  BY <1>1, <1>2, Zenon DEF ProcOk
<1>5. UNCHANGED <<linked, jobs, crypto, used>> /\ Done(p)
  BY Zenon DEF persistCreatedKey, queues
<1>6. RowsInv /\ TablesOk
  BY Parts, ZenonT(40) DEF Calm
<1>7. rows'[k] = row /\ \A j \in Keys \ {k} : rows'[j] = rows[j]
  BY <1>2, <1>6, SMTT(30) DEF persistCreatedKey, RowsInv
<1>8. ASSUME NEW c \in linked PROVE primary'[c] = primary[c]
  <2>1. c \in Configs /\ primary[c] \in Keys /\ rows[primary[c]].cfg = c
    BY LinkedPrimary, Zenon
  <2>2. HasKeys(c)
    BY <2>1, Zenon DEF HasKeys
  <2>3. primary' = primary \/ (primary' = [primary EXCEPT ![row.cfg] = k] /\ ~HasKeys(row.cfg))
    BY Zenon DEF persistCreatedKey, setPrimaryIfFirstKey
  <2>4. primary \in [Configs -> Keys \union {None}]
    BY <1>6, Zenon DEF TablesOk
  <2>5. CASE primary' = [primary EXCEPT ![row.cfg] = k] /\ ~HasKeys(row.cfg)
    <3>1. row.cfg # c
      BY <2>2, <2>5, Zenon
    <3> QED BY <2>1, <2>4, <2>5, <3>1, ZenonT(40)
  <2> QED BY <2>3, <2>5, Zenon
<1>9. \A q \in Procs : Recovers(proc'[q]) /\ proc'[q].op # "create"
  BY <1>2, <1>5, OnlyEnds, ZenonT(40)
<1>10. Asked' = Asked
  BY <1>5, Zenon DEF Asked
<1>11. rows'[k].state # "DISABLED"
  BY <1>4, <1>7, Zenon
<1> QED BY <1>2, <1>3, <1>5, <1>7, <1>8, <1>9, <1>10, <1>11, StepUnasked, ZenonT(40)

(* Every step of a running process. *)
LEMMA StepOps ==
    ASSUME Calm, NEW p \in Procs, Step(p), ~crowded', faults' = 0
    PROVE  JobsInv'
BY persistCreatedKeyOps, CallsOps, syncHYOKKeyStateOps, applyKeyPatchOps, RowsOps, persistImportOps, PendingOps,
   persistPendingKeyOps, DetachOps, deleteConfigRowOps, ZenonT(40) DEF Step

(* An operation starts. *)
LEMMA BeginOps ==
    ASSUME Calm, NEW p \in Procs, NEW op, NEW k, NEW c, NEW copy, NEW to, NEW pc,
           Begin(p, op, k, c, copy, to, pc), op = "create" => k \notin used, op # "pending" \/ pc # "write",
           UNCHANGED <<tables, jobs, crypto>>, used \subseteq used'
    PROVE  JobsInv'
<1> PICK r : r = [op |-> op, k |-> k, c |-> c, copy |-> copy, to |-> to, pc |-> pc]
  BY Zenon
<1>1. r.op = op /\ r.k = k /\ r.pc = pc
  BY Zenon
<1>2. proc' = [proc EXCEPT ![p] = r]
  BY Zenon DEF Begin
<1>3. Recovers(r) /\ (r.op = "create" => New(r.k))
  BY <1>1, Zenon DEF Recovers, New
<1>4. proc \in [Procs -> Proc]
  BY Parts, Zenon DEF Calm, ProcsInv
<1>5. \A q \in Procs : proc'[q] = IF q = p THEN r ELSE proc[q]
  BY <1>2, <1>4, SMTT(30)
<1>6. \A q \in Procs : \/ proc'[q] = proc[q]
                       \/ Recovers(proc'[q]) /\ (proc'[q].op = "create" => New(proc'[q].k))
  BY <1>3, <1>5, Zenon
<1>7. UNCHANGED <<rows, primary, linked, jobs>>
  BY Zenon DEF tables
<1>8. Asked' = Asked
  BY <1>7, Zenon DEF Asked
<1>9. linked' \subseteq linked /\ (\A d \in linked' : primary'[d] = primary[d]) /\ \A j \in Keys : rows'[j].state = rows[j].state
  BY <1>7, Zenon
<1> QED BY <1>6, <1>8, <1>9, Untouched, ZenonT(40)

(* The requests, tasks and handlers that start so. *)
LEMMA StartsOps ==
    ASSUME Calm, NEW p \in Procs,
           \/ \E k \in Keys : \/ Get(p, "sync", k) \/ UpdateKey(p, k) \/ Delete(p, k) \/ GetImportParams(p, k)
                              \/ ImportKeyMaterial(p, k) \/ detachPrimaryKeys(p, k)
           \/ \E k \in Keys, c \in Configs : createOrRegisterProviderKey(p, k, c)
           \/ \E c \in Configs : DeleteKeyConfigurationByID(p, c)
           \/ \E i \in DOMAIN jobs : terminate(p, i)
    PROVE  JobsInv'
<1>1. PICK op, k, c, copy, to, pc :
        /\ Begin(p, op, k, c, copy, to, pc)
        /\ op \in {"create", "sync", "update", "delete", "params", "import", "detach", "terminate", "deleteConfig"}
        /\ op = "create" => k \notin used
        /\ UNCHANGED <<tables, jobs, crypto>> /\ used \subseteq used'
  <2> DEFINE Can(op, k, c, copy, to, pc) ==
        /\ Begin(p, op, k, c, copy, to, pc)
        /\ op \in {"create", "sync", "update", "delete", "params", "import", "detach", "terminate", "deleteConfig"}
        /\ op = "create" => k \notin used
        /\ UNCHANGED <<tables, jobs, crypto>> /\ used \subseteq used'
  <2>1. \A op \in {"sync", "update", "delete", "params", "import", "detach", "terminate", "deleteConfig"} : op # "create"
    BY Zenon
  <2>2. ASSUME NEW k \in Keys, NEW op \in {"sync", "update", "delete"}, Get(p, op, k)
        PROVE  \E x, y, z, u : Can(op, k, x, y, z, u)
    BY <2>1, <2>2, ZenonT(40) DEF Get, queues
  <2>3. ASSUME NEW k \in Keys, NEW op \in {"update", "delete", "params", "import"}, NEW to, NEW pc, Read(p, op, k, to, pc)
        PROVE  \E x, y, z, u : Can(op, k, x, y, z, u)
    BY <2>1, <2>3, Zenon DEF Read, queues
  <2>4. ASSUME NEW k \in Keys, detachPrimaryKeys(p, k)
        PROVE  \E x, y, z, u : Can("detach", k, x, y, z, u)
    BY <2>1, <2>4, ZenonT(40) DEF detachPrimaryKeys, queues
  <2>5. ASSUME NEW k \in Keys, NEW c \in Configs, createOrRegisterProviderKey(p, k, c)
        PROVE  \E x, y, z, u : Can("create", k, x, y, z, u)
    BY <2>5, Zenon DEF createOrRegisterProviderKey, createManagedProviderKey, registerHYOKKey, queues
  <2>6. ASSUME NEW c \in Configs, DeleteKeyConfigurationByID(p, c)
        PROVE  \E x, y, z, u : Can("deleteConfig", None, x, y, z, u)
    BY <2>1, <2>6, Zenon DEF DeleteKeyConfigurationByID, queues
  <2>7. ASSUME NEW i \in DOMAIN jobs, terminate(p, i)
        PROVE  \E x, y, z, u : Can("terminate", jobs[i].k, x, y, z, u)
    BY <2>1, <2>7, Zenon DEF terminate, queues
  <2> HIDE DEF Can
  <2>8. \E op, k, c, copy, to, pc : Can(op, k, c, copy, to, pc)
    BY <2>2, <2>3, <2>4, <2>5, <2>6, <2>7, ZenonT(40) DEF UpdateKey, Delete, GetImportParams, ImportKeyMaterial
  <2> QED BY <2>8, Zenon DEF Can
<1>2. op # "pending"
  BY <1>1
<1> QED BY <1>1, <1>2, BeginOps, ZenonT(40)

(* A pending key is stored; its task ends, or starts. *)
LEMMA TasksOps ==
    ASSUME Calm, NEW p \in Procs, NEW k \in Keys,
           (\E c \in Configs : createPendingBYOKKeyIfNeeded(p, k, c)) \/ SyncPendingCreationKey(p, k)
    PROVE  JobsInv'
<1>1. CASE \E c \in Configs : createPendingBYOKKeyIfNeeded(p, k, c)
  <2>1. PICK c \in Configs : createPendingBYOKKeyIfNeeded(p, k, c)
    BY <1>1, Zenon
  <2>2. New(k)
    BY <2>1, Zenon DEF createPendingBYOKKeyIfNeeded, New
  <2>3. UNCHANGED <<primary, linked, jobs, crypto, proc>> /\ used \subseteq used'
    BY <2>1, Zenon DEF createPendingBYOKKeyIfNeeded, AtOnce
  <2>4. rows \in [Keys -> Row \union {NoRow}]
    BY Parts, Zenon DEF Calm, RowsInv
  <2>5. rows'[k].state # "DISABLED" /\ \A j \in Keys \ {k} : rows'[j].state = rows[j].state
    BY <2>1, <2>4, SMTT(30) DEF createPendingBYOKKeyIfNeeded, NewRow
  <2>6. Asked' = Asked
    BY <2>3, Zenon DEF Asked
  <2>7. \A q \in Procs : proc'[q] = proc[q]
    BY <2>3, Zenon
  <2>8. linked' \subseteq linked /\ \A d \in linked' : primary'[d] = primary[d]
    BY <2>3, Zenon
  <2> QED BY <2>2, <2>3, <2>5, <2>6, <2>7, <2>8, Unasked, ZenonT(40)
<1>2. CASE SyncPendingCreationKey(p, k)
  <2>1. UNCHANGED <<tables, jobs, crypto, used>>
    BY <1>2, Zenon DEF SyncPendingCreationKey
  <2>2. CASE Begin(p, "pending", k, None, rows[k], "NONE", "get")
    <3>1. "get" # "write" /\ "pending" # "create"
      BY Zenon
    <3> QED BY <2>1, <2>2, <3>1, BeginOps, ZenonT(40)
  <2>3. CASE AtOnce(p)
    <3>1. UNCHANGED <<rows, primary, linked, proc>>
      BY <2>1, <2>3, Zenon DEF AtOnce, tables
    <3>2. Asked' = Asked
      BY <2>1, Zenon DEF Asked
    <3>3. linked' \subseteq linked /\ used \subseteq used' /\ (\A d \in linked' : primary'[d] = primary[d])
          /\ (\A q \in Procs : proc'[q] = proc[q]) /\ \A j \in Keys : rows'[j].state = rows[j].state
      BY <2>1, <3>1, Zenon
    <3> QED BY <2>1, <3>2, <3>3, Untouched, ZenonT(40)
  <2> QED BY <1>2, <2>2, <2>3, ZenonT(40) DEF SyncPendingCreationKey
<1> QED BY <1>1, <1>2, ZenonT(40)

(* Systems are connected, or switched to another key, which may be used then. *)
LEMMA SwitchOps ==
    ASSUME Calm, NEW k \in Keys, rows[k].state = "ENABLED", crypto' = [crypto EXCEPT ![k] = TRUE],
           UNCHANGED <<rows, jobs, used, proc>>,
           \A c \in linked' : primary'[c] = k \/ (c \in linked /\ primary'[c] = primary[c])
    PROVE  JobsInv'
<1>1. AskedOk /\ NewOk /\ (\A p \in Procs : Recovers(proc[p])) /\ LinkedOk
  BY JobParts, Zenon DEF Calm
<1>2. Asked' = Asked
  BY Zenon DEF Asked
<1>3. \A j : NoJob(j)' <=> NoJob(j)
  BY <1>2, Zenon DEF NoJob
<1>4. crypto \in [Keys -> BOOLEAN]
  BY Parts, Zenon DEF Calm, SystemsOk
<1>5. \A j \in Keys : crypto'[j] = IF j = k THEN TRUE ELSE crypto[j]
  BY <1>4, Zenon
<1>6. AskedOk'
  BY <1>1, <1>2, Zenon DEF AskedOk
<1>7. \A j \in Keys : New(j)' => New(j)
  BY Zenon DEF New
<1>8. NewOk'
  BY <1>1, <1>3, <1>5, <1>7, ZenonT(40) DEF NewOk
<1>9. LinkedOk'
  <2> SUFFICES ASSUME NEW c \in linked', rows[primary'[c]].state \in {"ENABLED", "DISABLED"}, NoJob(primary[c])'
               PROVE  crypto'[primary'[c]] = (rows[primary'[c]].state = "ENABLED")
    BY Zenon DEF LinkedOk
  <2>1. CASE primary'[c] = k
    BY <1>5, <2>1, Zenon
  <2>2. CASE primary'[c] # k
    <3>1. c \in linked /\ primary'[c] = primary[c] /\ primary[c] \in Keys
      BY <2>2, LinkedPrimary, Zenon
    <3>2. NoJob(primary[c])
      BY <1>2, <3>1, Zenon DEF NoJob
    <3>3. crypto[primary[c]] = (rows[primary[c]].state = "ENABLED")
      BY <1>1, <3>1, <3>2, ZenonT(40) DEF LinkedOk
    <3> QED BY <1>5, <2>2, <3>1, <3>3, ZenonT(40)
  <2> QED BY <2>1, <2>2, Zenon
<1>10. (\A p \in Procs : Recovers(proc[p]))'
  BY <1>1, Zenon DEF Recovers
<1> QED BY <1>6, <1>8, <1>9, <1>10, JobParts, PTL, ZenonT(40)

(* Configurations and their systems. *)
LEMMA ConfigsOps ==
    ASSUME Calm, NEW p \in Procs, NEW c \in Configs,
           Connect(p, c) \/ Disconnect(p, c) \/ \E k \in Keys : UpdateKeyConfigurationByID(p, c, k)
    PROVE  JobsInv'
<1>1. TablesOk
  BY Parts, Zenon DEF Calm
<1>2. UNCHANGED <<rows, jobs, used, proc>>
  BY Zenon DEF Connect, Disconnect, UpdateKeyConfigurationByID, AtOnce, queues
<1>3. Asked' = Asked
  BY <1>2, Zenon DEF Asked
<1>4. ASSUME UNCHANGED crypto, linked' \subseteq linked, \A d \in linked' : primary'[d] = primary[d]
      PROVE  JobsInv'
  <2>1. /\ used \subseteq used' /\ (\A q \in Procs : proc'[q] = proc[q])
        /\ \A j \in Keys : rows'[j].state = rows[j].state
    BY <1>2, Zenon
  <2> QED BY <1>3, <1>4, <2>1, Untouched, ZenonT(40)
<1>5. CASE Connect(p, c)
  <2>1. primary[c] \in Keys /\ rows[primary[c]].state = "ENABLED"
    BY <1>1, <1>5, SMTT(30) DEF Connect, CanConnectSystems, TablesOk
  <2>2. crypto' = [crypto EXCEPT ![primary[c]] = TRUE] /\ linked' = linked \union {c} /\ UNCHANGED primary
    BY <1>5, Zenon DEF Connect, switchSystems
  <2>3. \A d \in linked' : primary'[d] = primary[c] \/ (d \in linked /\ primary'[d] = primary[d])
    BY <2>2, Zenon
  <2> PICK k : k = primary[c]
    BY Zenon
  <2> QED BY <1>2, <2>1, <2>2, <2>3, SwitchOps, ZenonT(40)
<1>6. CASE Disconnect(p, c)
  <2>1. UNCHANGED <<crypto, primary>> /\ linked' = linked \ {c}
    BY <1>6, Zenon DEF Disconnect
  <2> QED BY <1>4, <2>1, Zenon
<1>7. CASE \E k \in Keys : UpdateKeyConfigurationByID(p, c, k)
  <2>1. PICK k \in Keys : UpdateKeyConfigurationByID(p, c, k)
    BY <1>7, Zenon
  <2>2. rows[k].state = "ENABLED" /\ primary' = [primary EXCEPT ![c] = k] /\ UNCHANGED linked
    BY <2>1, Zenon DEF UpdateKeyConfigurationByID, validateKeyForPrimarySwitch
  <2>3. \A d \in linked : primary'[d] = IF d = c THEN k ELSE primary[d]
    BY <1>1, <2>2, Zenon DEF TablesOk
  <2>4. CASE c \in linked
    <3>1. crypto' = [crypto EXCEPT ![k] = TRUE]
      BY <2>1, <2>4, Zenon DEF UpdateKeyConfigurationByID, switchSystems
    <3>2. \A d \in linked' : primary'[d] = k \/ (d \in linked /\ primary'[d] = primary[d])
      BY <2>2, <2>3, Zenon
    <3> QED BY <1>2, <2>2, <3>1, <3>2, SwitchOps, ZenonT(40)
  <2>5. CASE c \notin linked
    <3>1. UNCHANGED crypto
      BY <2>1, <2>5, Zenon DEF UpdateKeyConfigurationByID
    <3>2. \A d \in linked' : primary'[d] = primary[d]
      BY <2>2, <2>3, <2>5, Zenon
    <3> QED BY <1>4, <2>2, <3>1, <3>2, ZenonT(40)
  <2> QED BY <2>4, <2>5, Zenon
<1> QED BY <1>5, <1>6, <1>7, Zenon

(* The operators apply an enabling or disabling job. *)
LEMMA KeyJobOps ==
    ASSUME Calm, NEW i \in DOMAIN jobs, KeyJob(i), faults' = 0
    PROVE  JobsInv'
<1> PICK k, type : k = jobs[i].k /\ type = jobs[i].type
  BY Zenon
<1>1. AskedOk /\ NewOk /\ (\A p \in Procs : Recovers(proc[p])) /\ LinkedOk
  BY JobParts, Zenon DEF Calm
<1>2. type \in {"KEY_ENABLE", "KEY_DISABLE"} /\ jobs' = Without(i)
      /\ UNCHANGED <<rows, primary, linked, proc, used>>
  BY Zenon DEF KeyJob, tables
<1>3. jobs \in Seq(Job)
  BY Parts, Zenon DEF Calm, QueuesOk
<1>4. Asked' \subseteq Asked /\ \A x \in Asked : x = jobs[i] \/ x \in Asked'
  BY <1>2, <1>3, AskedWithout, Zenon
<1>5. type # "KEY_DETACH"
  BY <1>2, Zenon
<1>6. jobs[i] \in Asked
  BY <1>5, Zenon DEF Asked
<1>7. k \in Keys
  BY <1>6, AskedOfKeys, Zenon
<1>8. \/ getRegionsByKeyID(k) /\ crypto' = [crypto EXCEPT ![k] = (type = "KEY_ENABLE")]
      \/ ~getRegionsByKeyID(k) /\ crypto' = crypto
  <2>1. ~Fault
    BY Parts DEF Calm, Fault, BoundsOk
  <2> QED BY <2>1, Zenon DEF KeyJob
<1>9. crypto \in [Keys -> BOOLEAN]
  BY Parts, Zenon DEF Calm, SystemsOk
<1>10. /\ \A j \in Keys \ {k} : crypto'[j] = crypto[j]
       /\ getRegionsByKeyID(k) => crypto'[k] = (type = "KEY_ENABLE")
  BY <1>7, <1>8, <1>9, SMTT(30)
<1>11. \A j : NoJob(j) => NoJob(j)'
  BY <1>4, Zenon DEF NoJob
<1>12. \A j \in Keys \ {k} : NoJob(j)' => NoJob(j)
  BY <1>4, Zenon DEF NoJob
<1>13. AskedOk'
  BY <1>1, <1>2, <1>4, Zenon DEF AskedOk
<1>14. \A j \in Keys : New(j)' => New(j)
  BY <1>2, Zenon DEF New
<1>15. ~New(k)
  BY <1>1, <1>6, <1>7, Zenon DEF NewOk, NoJob
<1>16. NewOk'
  BY <1>1, <1>10, <1>11, <1>14, <1>15, ZenonT(40) DEF NewOk
<1>17. LinkedOk'
  <2> SUFFICES ASSUME NEW c \in linked, rows[primary[c]].state \in {"ENABLED", "DISABLED"}, NoJob(primary[c])'
               PROVE  crypto'[primary[c]] = (rows[primary[c]].state = "ENABLED")
    BY <1>2, Zenon DEF LinkedOk
  <2>1. primary[c] \in Keys /\ rows[primary[c]] # NoRow /\ rows[primary[c]].cfg = c
    BY LinkedPrimary, Zenon
  <2>2. CASE primary[c] = k
    <3>1. getRegionsByKeyID(k)
      BY <2>1, <2>2, Zenon DEF getRegionsByKeyID, Exists
    <3>2. /\ rows[k].state = "ENABLED" => type = "KEY_ENABLE"
          /\ rows[k].state = "DISABLED" => type = "KEY_DISABLE"
      BY <1>1, <1>6, Zenon DEF AskedOk
    <3> QED BY <1>10, <2>2, <3>1, <3>2, ZenonT(40)
  <2>3. CASE primary[c] # k
    <3>1. NoJob(primary[c])
      <4> PICK x : x = primary[c]
        BY Zenon
      <4>1. NoJob(x)'
        BY <1>2, Zenon DEF NoJob
      <4> QED BY <1>12, <2>1, <2>3, <4>1, ZenonT(40)
    <3> QED BY <1>1, <1>10, <2>1, <2>3, <3>1, ZenonT(40) DEF LinkedOk
  <2> QED BY <2>2, <2>3, Zenon
<1>18. (\A p \in Procs : Recovers(proc[p]))'
  BY <1>1, <1>2, Zenon DEF Recovers
<1> QED BY <1>13, <1>16, <1>17, <1>18, JobParts, PTL, ZenonT(40)

(* What goes on beside the processes. *)
LEMMA BackgroundOps ==
    ASSUME Calm,
           \/ \E i \in DOMAIN jobs : ConfirmDetach(i) \/ EndDetach(i)
           \/ \E k \in Keys : \/ CreateOrUpdateLabel(k) \/ DeleteLabel(k) \/ ImportParamsExpire(k)
                              \/ Late(k) \/ Customer(k)
    PROVE  JobsInv'
<1>1. RowsInv /\ QueuesOk
  BY Parts, Zenon DEF Calm
<1>2. UNCHANGED <<primary, linked, crypto, proc, used>>
  BY Zenon DEF ConfirmDetach, EndDetach, CreateOrUpdateLabel, DeleteLabel, ImportParamsExpire, Late, Customer, tables
<1>3. /\ linked' \subseteq linked /\ used \subseteq used' /\ (\A d \in linked' : primary'[d] = primary[d])
      /\ \A q \in Procs : proc'[q] = proc[q]
  BY <1>2, Zenon
<1>4. Asked' = Asked
  <2>1. CASE \E i \in DOMAIN jobs : ConfirmDetach(i) \/ EndDetach(i)
    <3>1. PICK i \in DOMAIN jobs : ConfirmDetach(i) \/ EndDetach(i)
      BY <2>1, Zenon
    <3>2. PICK st : jobs[i].type = "KEY_DETACH" /\ jobs' = [jobs EXCEPT ![i].st = st]
      BY <3>1, Zenon DEF ConfirmDetach, EndDetach
    <3> QED BY <1>1, <3>2, AskedMoved, ZenonT(40) DEF QueuesOk
  <2>2. CASE UNCHANGED jobs
    BY <2>2, Zenon DEF Asked
  <2> QED BY <2>1, <2>2, ZenonT(40) DEF CreateOrUpdateLabel, DeleteLabel, ImportParamsExpire, Late, Customer, queues
<1>5. \A j \in Keys : rows'[j].state = rows[j].state
  <2>1. CASE UNCHANGED rows
    BY <2>1, Zenon
  <2>2. ASSUME NEW k \in Keys, CreateOrUpdateLabel(k) \/ DeleteLabel(k) \/ ImportParamsExpire(k)
        PROVE  \A j \in Keys : rows'[j].state = rows[j].state
    <3>1. rows[k] # NoRow
      BY <2>2, SMTT(30) DEF CreateOrUpdateLabel, DeleteLabel, ImportParamsExpire, Exists, NoRow
    <3>2. rows[k] \in Row
      BY <1>1, <3>1, Zenon DEF RowsInv
    <3>3. PICK w : /\ w \in {[rows[k] EXCEPT !.labels = TRUE], [rows[k] EXCEPT !.labels = FALSE],
                             [rows[k] EXCEPT !.params = "expired"]}
                   /\ rows' = [rows EXCEPT ![k] = w]
      BY <2>2, Zenon DEF CreateOrUpdateLabel, DeleteLabel, ImportParamsExpire
    <3>4. w.state = rows[k].state
      BY <3>2, <3>3, SMTT(30) DEF Row
    <3>5. rows \in [Keys -> Row \union {NoRow}]
      BY <1>1, Zenon DEF RowsInv
    <3> QED BY <3>3, <3>4, <3>5, ZenonT(40)
  <2> QED BY <2>1, <2>2, Zenon DEF ConfirmDetach, EndDetach, Late, Customer, tables
<1> QED BY <1>2, <1>3, <1>4, <1>5, Untouched, ZenonT(40)

(* Faults are counted and never forgotten. *)
LEMMA FaultsGrow ==
    ASSUME BaseInv, Next
    PROVE  faults' = 0 => faults = 0
<1>1. Fault => faults' # 0
  BY Parts DEF BoundsOk, Fault
<1>2. ASSUME NEW p \in Procs, Step(p) \/ Dies(p) PROVE faults' = faults \/ Fault
  <2>1. CASE /\ ~persistCreatedKey(p) /\ ~getKeyFromProvider(p) /\ ~syncKeyVersions(p) /\ ~syncHYOKKeyState(p)
             /\ ~applyKeyPatch(p) /\ ~deleteProviderKey(p) /\ ~deleteRows(p) /\ ~fetchImportParams(p)
    BY <1>2, <2>1, ZenonT(40) DEF Step, importProviderKeyMaterial, persistImport, initProviderForPendingKey,
         createOrRecoverProviderKey, persistPendingKey, Detach, updateKey, deleteConfigRow, Dies, bounds
  <2>2. CASE \/ persistCreatedKey(p) \/ getKeyFromProvider(p) \/ syncKeyVersions(p) \/ syncHYOKKeyState(p)
             \/ applyKeyPatch(p) \/ deleteProviderKey(p) \/ deleteRows(p) \/ fetchImportParams(p)
    BY <2>2, ZenonT(40) DEF persistCreatedKey, getKeyFromProvider, syncKeyVersions, syncHYOKKeyState,
         applyKeyPatch, enableKey, deleteProviderKey, deleteRows, fetchImportParams, bounds
  <2> QED BY <2>1, <2>2, ZenonT(40)
<1>3. ASSUME NEW p \in Procs, NEW k \in Keys,
             \/ Get(p, "sync", k) \/ UpdateKey(p, k) \/ Delete(p, k)
             \/ GetImportParams(p, k) \/ ImportKeyMaterial(p, k)
             \/ SyncPendingCreationKey(p, k) \/ detachPrimaryKeys(p, k)
      PROVE  faults' = faults
  BY <1>3, Zenon DEF Get, UpdateKey, Delete, GetImportParams, ImportKeyMaterial, Read, SyncPendingCreationKey,
       detachPrimaryKeys
<1>4. ASSUME NEW p \in Procs, NEW k \in Keys, NEW c \in Configs,
             \/ createPendingBYOKKeyIfNeeded(p, k, c) \/ createOrRegisterProviderKey(p, k, c)
             \/ UpdateKeyConfigurationByID(p, c, k)
      PROVE  faults' = faults \/ Fault
  BY <1>4, Zenon DEF createPendingBYOKKeyIfNeeded, enqueuePendingStateSync, createOrRegisterProviderKey,
       UpdateKeyConfigurationByID
<1>5. ASSUME NEW p \in Procs, NEW c \in Configs, DeleteKeyConfigurationByID(p, c) \/ Connect(p, c) \/ Disconnect(p, c)
      PROVE  faults' = faults
  BY <1>5, Zenon DEF DeleteKeyConfigurationByID, Connect, Disconnect
<1>6. ASSUME NEW p \in Procs, NEW i \in DOMAIN jobs, terminate(p, i) PROVE faults' = faults
  BY <1>6, Zenon DEF terminate
<1>7. ASSUME NEW i \in DOMAIN jobs, KeyJob(i) \/ ConfirmDetach(i) \/ EndDetach(i) PROVE faults' = faults \/ Fault
  BY <1>7, ZenonT(40) DEF KeyJob, ConfirmDetach, EndDetach, bounds
<1>8. ASSUME NEW k \in Keys, \/ CreateOrUpdateLabel(k) \/ DeleteLabel(k) \/ ImportParamsExpire(k)
                             \/ Late(k) \/ Customer(k)
      PROVE  faults' = faults
  BY <1>8, Zenon DEF CreateOrUpdateLabel, DeleteLabel, ImportParamsExpire, Late, Customer, bounds
<1> QED BY <1>1, <1>2, <1>3, <1>4, <1>5, <1>6, <1>7, <1>8, ZenonT(40) DEF Next

(* So is whether a key ever had two jobs at a time. *)
LEMMA CrowdedStays ==
    ASSUME Next
    PROVE  ~crowded' => ~crowded
<1>1. ASSUME NEW type, NEW k, SendEvent(type, k) PROVE ~crowded' => ~crowded
  BY <1>1, ZenonT(40) DEF SendEvent
<1>2. ASSUME NEW k, NEW state, handleKeyStateTransition(k, state) PROVE ~crowded' => ~crowded
  BY <1>2, <1>1, ZenonT(40) DEF handleKeyStateTransition
<1>3. ASSUME NEW p \in Procs, Step(p) \/ Dies(p) PROVE ~crowded' => ~crowded
  <2>1. CASE /\ ~persistCreatedKey(p) /\ ~getKeyFromProvider(p) /\ ~syncKeyVersions(p) /\ ~syncHYOKKeyState(p)
             /\ ~applyKeyPatch(p) /\ ~deleteProviderKey(p) /\ ~deleteRows(p) /\ ~fetchImportParams(p) /\ ~Detach(p)
    BY <1>3, <2>1, ZenonT(40) DEF Step, importProviderKeyMaterial, persistImport, initProviderForPendingKey,
         createOrRecoverProviderKey, persistPendingKey, updateKey, deleteConfigRow, Dies, queues
  <2>2. CASE \/ persistCreatedKey(p) \/ getKeyFromProvider(p) \/ syncKeyVersions(p)
             \/ deleteProviderKey(p) \/ deleteRows(p) \/ fetchImportParams(p)
    BY <2>2, Zenon DEF persistCreatedKey, getKeyFromProvider, syncKeyVersions,
         deleteProviderKey, deleteRows, fetchImportParams, queues
  <2>3. CASE syncHYOKKeyState(p)
    BY <2>3, <1>2, Zenon DEF syncHYOKKeyState, queues
  <2>4. CASE applyKeyPatch(p)
    BY <2>4, <1>2, Zenon DEF applyKeyPatch, enableKey, queues
  <2>5. CASE Detach(p)
    BY <2>5, <1>1, ZenonT(40) DEF Detach, queues
  <2> QED BY <2>1, <2>2, <2>3, <2>4, <2>5, ZenonT(40)
<1>4. ASSUME NEW p \in Procs, NEW k \in Keys,
             \/ Get(p, "sync", k) \/ UpdateKey(p, k) \/ Delete(p, k)
             \/ GetImportParams(p, k) \/ ImportKeyMaterial(p, k)
             \/ SyncPendingCreationKey(p, k) \/ detachPrimaryKeys(p, k)
      PROVE  crowded' = crowded
  BY <1>4, ZenonT(40) DEF Get, UpdateKey, Delete, GetImportParams, ImportKeyMaterial, Read, SyncPendingCreationKey,
       detachPrimaryKeys, queues
<1>5. ASSUME NEW p \in Procs, NEW k \in Keys, NEW c \in Configs,
             \/ createPendingBYOKKeyIfNeeded(p, k, c) \/ createOrRegisterProviderKey(p, k, c)
             \/ UpdateKeyConfigurationByID(p, c, k)
      PROVE  crowded' = crowded
  BY <1>5, Zenon DEF createPendingBYOKKeyIfNeeded, createOrRegisterProviderKey, createManagedProviderKey,
       registerHYOKKey, UpdateKeyConfigurationByID, queues
<1>6. ASSUME NEW p \in Procs, NEW c \in Configs, DeleteKeyConfigurationByID(p, c) \/ Connect(p, c) \/ Disconnect(p, c)
      PROVE  crowded' = crowded
  BY <1>6, Zenon DEF DeleteKeyConfigurationByID, Connect, Disconnect, queues
<1>7. ASSUME NEW p \in Procs, NEW i \in DOMAIN jobs, terminate(p, i) PROVE crowded' = crowded
  BY <1>7, Zenon DEF terminate, queues
<1>8. ASSUME NEW i \in DOMAIN jobs, KeyJob(i) \/ ConfirmDetach(i) \/ EndDetach(i) PROVE crowded' = crowded
  BY <1>8, Zenon DEF KeyJob, ConfirmDetach, EndDetach, queues
<1>9. ASSUME NEW k \in Keys, \/ CreateOrUpdateLabel(k) \/ DeleteLabel(k) \/ ImportParamsExpire(k)
                             \/ Late(k) \/ Customer(k)
      PROVE  crowded' = crowded
  BY <1>9, Zenon DEF CreateOrUpdateLabel, DeleteLabel, ImportParamsExpire, Late, Customer, queues
<1> QED BY <1>3, <1>4, <1>5, <1>6, <1>7, <1>8, <1>9, ZenonT(40) DEF Next

(* Every step keeps what is known about the jobs and the operators. *)
LEMMA NextOps ==
    ASSUME KeysInv, OperatorsInv, [Next]_vars
    PROVE  OperatorsInv'
<1> SUFFICES ASSUME OwnPrimary, overlaps' = 0, faults' = 0, ~crowded'
             PROVE  JobsInv'
  BY Zenon DEF OperatorsInv
<1>1. BaseInv /\ (overlaps = 0 => SerialInv)
  BY Zenon DEF KeysInv
<1>2. CASE UNCHANGED vars
  <2>1. Calm
    BY <1>1, <1>2, Zenon DEF vars, Calm, OperatorsInv
  <2>2. UNCHANGED <<rows, primary, linked, jobs, crypto, proc, used>>
    BY <1>2, Zenon DEF vars
  <2>3. /\ Asked' = Asked /\ used \subseteq used' /\ linked' \subseteq linked
        /\ \A q \in Procs : proc'[q] = proc[q]
        /\ \A c \in linked' : primary'[c] = primary[c]
        /\ \A j \in Keys : rows'[j].state = rows[j].state
    BY <2>2, Zenon DEF Asked
  <2> QED BY <2>1, <2>2, <2>3, Untouched, ZenonT(40)
<1>3. CASE Next
  <2>1. overlaps = 0 /\ faults = 0 /\ ~crowded
    BY <1>1, <1>3, OverlapsGrow, FaultsGrow, CrowdedStays, ZenonT(40)
  <2>2. Calm
    BY <1>1, <2>1, Zenon DEF Calm, OperatorsInv
  <2>3. ASSUME NEW p \in Procs, Step(p) \/ Dies(p) PROVE JobsInv'
    <3>1. ~Dies(p)
      BY Parts, <1>1, SMTT(30) DEF Dies, Fault, BoundsOk
    <3> QED BY <2>2, <2>3, <3>1, StepOps, ZenonT(40)
  <2>4. ASSUME NEW i \in DOMAIN jobs, KeyJob(i) \/ ConfirmDetach(i) \/ EndDetach(i) PROVE JobsInv'
    BY <2>2, <2>4, KeyJobOps, BackgroundOps, ZenonT(40)
  <2> QED BY <1>3, <2>2, <2>3, <2>4, StartsOps, TasksOps, ConfigsOps, BackgroundOps, ZenonT(40) DEF Next
<1> QED BY <1>2, <1>3, ZenonT(40)

(* At first there are no keys, no jobs and nothing is connected. *)
LEMMA InitOps == Init => OperatorsInv
<1> SUFFICES ASSUME Init PROVE JobsInv
  BY Zenon DEF OperatorsInv
<1>1. Asked = {}
  BY DEF Init, Asked
<1>2. AskedOk /\ \A k : NoJob(k)
  BY <1>1, Zenon DEF AskedOk, NoJob
<1>3. NewOk
  BY <1>2, Zenon DEF NewOk, Init
<1>4. LinkedOk
  BY Zenon DEF LinkedOk, Init
<1>5. \A p \in Procs : Recovers(proc[p])
  BY Zenon DEF Recovers, Init, Idle
<1> QED BY <1>2, <1>3, <1>4, <1>5, JobParts, ZenonT(40)

(* While operations do not overlap, nothing fails and no key has two jobs at  *)
(* a time: an open job asks for what the state of its key says, a key that    *)
(* was never usable has none, and the operators use a connected primary key   *)
(* without a job exactly when it is enabled.  For any number of keys,         *)
(* configurations and processes.                                              *)
THEOREM OperatorsInvariance == Spec => []OperatorsInv
<1>1. Init => OperatorsInv
  BY InitOps, Zenon
<1>2. KeysInv /\ OperatorsInv /\ [Next]_vars => OperatorsInv'
  BY NextOps, Zenon
<1> QED BY <1>1, <1>2, KeysInvariance, PTL, ZenonT(40) DEF Spec

(* handleKeyStateTransition: once the jobs of a connected configuration's     *)
(* primary key are done, the operators follow the state of its row.           *)
THEOREM OperatorsFollowHolds == Spec => []OperatorsFollow
<1>1. OperatorsInv => OperatorsFollow
  <2> SUFFICES ASSUME OperatorsInv, OwnPrimary, overlaps = 0, faults = 0, ~crowded, NEW c \in linked,
                      \A i \in DOMAIN jobs : jobs[i].k # primary[c],
                      rows[primary[c]].state \in {"ENABLED", "DISABLED"}
               PROVE  crypto[primary[c]] = (rows[primary[c]].state = "ENABLED")
    BY Zenon DEF OperatorsFollow
  <2>1. NoJob(primary[c])
    BY Zenon DEF NoJob, Asked
  <2>2. LinkedOk
    BY JobParts, Zenon DEF OperatorsInv
  <2> QED BY <2>1, <2>2, Zenon DEF LinkedOk
<1> QED BY <1>1, OperatorsInvariance, PTL
=============================================================================
