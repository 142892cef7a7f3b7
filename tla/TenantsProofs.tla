--------------------------- MODULE TenantsProofs ---------------------------
(***************************************************************************)
(* Proofs about Tenants: what the registry is told about a tenant is true, *)
(* and the operator deletes a tenant only when it is offboarded, for any   *)
(* number of workers, systems, keys and issuers, however often a request   *)
(* is delivered again and wherever a handler fails.                        *)
(***************************************************************************)
EXTENDS Tenants, TLAPS

Task == [action : TenantActions \cup AuthActions, issuer : Issuers \cup {None},
         status : {"none", "open", "done", "failed"}]
Worker == [kind : Kinds, step : Steps \cup {"idle"}]

(* TypeOK in parts. *)
TasksOk == task \in [Kinds -> Task] /\ worker \in [Workers -> Worker]
DataOk ==
    /\ row \in Issuers \cup {None} /\ mapping \in Issuers \cup {None}
    /\ known \in BOOLEAN /\ schema \in BOOLEAN /\ groups \in BOOLEAN
    /\ row # None => known
    /\ groups => schema
    /\ sys \in [Systems -> SystemStates] /\ key \in [Keys -> KeyStates]
    /\ job \in [Keys -> {"none", "open", "confirmed"}] /\ synced \subseteq Keys
    /\ registry \in [groups : BOOLEAN, systems : SUBSET Systems]
CountsOk == cli \in {"idle", "groups", "row"} /\ used \in [tasks : Nat, faults : Nat, uses : Nat]

(* TypeOK is its parts. *)
LEMMA TypeParts == TypeOK <=> TasksOk /\ DataOk /\ CountsOk
BY Zenon DEF TypeOK, TasksOk, DataOk, CountsOk, Task, Worker

Ended ==
    /\ Completed("PROVISION") => known /\ schema /\ groups /\ registry.groups
    /\ Completed("APPLY_AUTH") /\ task["tenant"].action # "TERMINATE" =>
         row = task["auth"].issuer /\ mapping = row
    /\ Completed("TERMINATE") => Linked = {} /\ mapping = None /\ Unmapped

Orders ==
    /\ task["tenant"].action \in TenantActions /\ task["auth"].action \in AuthActions
    /\ Open("auth") => task["tenant"].action # "TERMINATE"

StepsOk == \A w \in Workers : StepInv(w)

(* The inductive invariant is its parts. *)
LEMMA InvParts == TenantInv <=> TypeOK /\ Ended /\ Orders /\ StepsOk /\ JobInv
BY Zenon DEF TenantInv, CompletedIsTrue, Ended, Orders, StepsOk

Gone(k) == key[k] \in {"absent", "DETACHED"} \/ k \in synced

(* What every step leaves alone as long as the registry asks for nothing new. *)
SameTasks ==
    /\ task' \in [Kinds -> Task]
    /\ \A kind \in Kinds :
         /\ task'[kind].action = task[kind].action /\ task'[kind].issuer = task[kind].issuer
         /\ task'[kind].status = "open" => task[kind].status = "open"

NothingDone == \A kind \in Kinds : task'[kind].status = "done" => task[kind].status = "done"

Preserves ==
    /\ task["tenant"].action # "TERMINATE" /\ known => known'
    /\ schema => schema'
    /\ groups => groups'
    /\ registry.groups => registry'.groups
    /\ \/ mapping' = mapping
       \/ task["tenant"].action = "TERMINATE" /\ mapping' = None
       \/ /\ task["tenant"].action # "TERMINATE"
          /\ task["auth"].action = "APPLY_AUTH" => mapping' = task["auth"].issuer
    /\ row' = row \/ task["tenant"].action = "TERMINATE" \/ row' = task["auth"].issuer
    /\ mapping = None =>
         /\ Linked = {} => Linked' = {}
         /\ Unmapped => Unmapped'
         /\ (\A k \in Primary : Gone(k)) => (\A k \in Primary : Gone(k))'

(* A worker that does not move still knows what it knew. *)
LEMMA StepKept ==
    ASSUME TenantInv, SameTasks, Preserves, NEW v \in Workers, worker'[v] = worker[v]
    PROVE  StepInv(v)'
<1>1. StepInv(v) /\ Orders
  BY InvParts, Zenon DEF StepsOk
<1>2. task'["tenant"].action = task["tenant"].action /\ task'["auth"].action = task["auth"].action
      /\ task'["auth"].issuer = task["auth"].issuer
  BY Zenon DEF SameTasks, Kinds
<1> PICK step, kind : step = worker[v].step /\ kind = worker[v].kind
  BY Zenon
<1>3. worker'[v].step = step /\ worker'[v].kind = kind
  BY Zenon
<1>4. step # "idle" /\ kind = "auth" => task'["tenant"].action # "TERMINATE" /\ step \in {"start", "commit"}
  BY <1>1, <1>2, Zenon DEF StepInv
<1>5. step \in Provisions => task'["tenant"].action = "PROVISION"
  BY <1>1, <1>2, Zenon DEF StepInv
<1>6. step = "finish" => known' /\ schema' /\ groups'
  <2>1. step = "finish" => task["tenant"].action = "PROVISION"
    BY <1>1, Zenon DEF StepInv, Provisions
  <2> QED BY <1>1, <2>1, Zenon DEF StepInv, Preserves
<1>7. step = "commit" =>
         /\ kind = "auth" /\ task'["auth"].action = "APPLY_AUTH"
         /\ known' /\ mapping' = task'["auth"].issuer
  BY <1>1, <1>2, Zenon DEF StepInv, Preserves
<1>8. step \in Offboards => task'["tenant"].action = "TERMINATE" /\ mapping' = None
  BY <1>1, <1>2, Zenon DEF StepInv, Preserves
<1>9. step \in Offboards \ {"offboard", "unlinked"} => Linked' = {}
  BY <1>1, Zenon DEF StepInv, Preserves
<1>10. step \in {"detached", "delete"} => Unmapped' /\ step \in Offboards
  BY <1>1, Zenon DEF StepInv, Preserves, Offboards
<1>11. step = "delete" => \A k \in Primary : key'[k] \in {"absent", "DETACHED"} \/ k \in synced'
  <2>1. step = "delete" => mapping = None
    BY <1>1, Zenon DEF StepInv, Offboards
  <2>2. step = "delete" => \A k \in Primary : Gone(k)
    BY <1>1, Zenon DEF StepInv, Gone
  <2> QED BY <2>1, <2>2, Zenon DEF Preserves, Gone
<1> QED BY <1>3, <1>4, <1>5, <1>6, <1>7, <1>8, <1>9, <1>10, <1>11, Zenon DEF StepInv

(* What completed tasks promise stays true when nothing completes. *)
LEMMA EndedKept ==
    ASSUME TenantInv, SameTasks, Preserves, NothingDone
    PROVE  Ended'
<1>1. Ended /\ Orders
  BY InvParts, Zenon
<1>2. \A action : Completed(action)' => Completed(action)
  BY Zenon DEF SameTasks, NothingDone, Completed
<1>3. task'["tenant"].action = task["tenant"].action /\ task'["auth"].issuer = task["auth"].issuer
  BY Zenon DEF SameTasks, Kinds
<1>4. /\ Completed("PROVISION") => task["tenant"].action # "TERMINATE"
      /\ Completed("APPLY_AUTH") => task["auth"].action = "APPLY_AUTH"
      /\ Completed("TERMINATE") => task["tenant"].action = "TERMINATE"
  BY <1>1, Zenon DEF Completed, Kinds, Orders, TenantActions, AuthActions
<1>5. Completed("PROVISION")' => known' /\ schema' /\ groups' /\ registry'.groups
  BY <1>1, <1>2, <1>4, Zenon DEF Ended, Preserves
<1>6. Completed("APPLY_AUTH")' /\ task'["tenant"].action # "TERMINATE" =>
         row' = task'["auth"].issuer /\ mapping' = row'
  BY <1>1, <1>2, <1>3, <1>4 DEF Ended, Preserves
<1>7. Completed("TERMINATE")' => Linked' = {} /\ mapping' = None /\ Unmapped'
  BY <1>1, <1>2, <1>4, Zenon DEF Ended, Preserves
<1> QED BY <1>5, <1>6, <1>7, Zenon DEF Ended

(* TenantInv, put together after a step that takes nothing back. *)
LEMMA Assemble ==
    ASSUME TenantInv, DataOk', TasksOk', CountsOk', SameTasks, Preserves, JobInv',
           \A v \in Workers : worker'[v] = worker[v] \/ StepInv(v)',
           NothingDone \/ Ended'
    PROVE  TenantInv'
<1>1. Orders
  BY InvParts, Zenon
<1>2. Orders'
  BY <1>1, Zenon DEF Orders, SameTasks, Open, Kinds
<1>3. StepsOk'
  BY StepKept, Zenon DEF StepsOk
<1>4. Ended'
  BY EndedKept, Zenon
<1>5. TypeOK'
  BY TypeParts, PTL
<1> QED BY <1>2, <1>3, <1>4, <1>5, InvParts, PTL

(* An idle worker relies on nothing. *)
LEMMA IdleOk ==
    ASSUME NEW w \in Workers, worker'[w] = Idle
    PROVE  StepInv(w)'
BY DEF StepInv, Idle, Provisions, Offboards

(* The answer of a handler changes the status of its own task only, and only *)
(* of one that is open.                                                      *)
LEMMA AnswerFacts ==
    ASSUME TypeOK, NEW w \in Workers, NEW status \in {"open", "done", "failed"}, Answer(w, status)
    PROVE  /\ TasksOk' /\ SameTasks
           /\ worker'[w] = Idle /\ \A v \in Workers : worker'[v] = worker[v] \/ StepInv(v)'
           /\ status # "done" => NothingDone
<1>1. task \in [Kinds -> Task] /\ worker \in [Workers -> Worker]
  BY TypeParts, Zenon DEF TasksOk
<1>2. worker' = [worker EXCEPT ![w] = Idle] /\ Idle \in Worker
  BY Zenon DEF Answer, Idle, Worker, Kinds
<1>3. worker' \in [Workers -> Worker] /\ worker'[w] = Idle /\ \A v \in Workers \ {w} : worker'[v] = worker[v]
  BY <1>1, <1>2, Zenon
<1>4. \A v \in Workers : worker'[v] = worker[v] \/ StepInv(v)'
  BY <1>3, IdleOk, Zenon
<1>5. worker[w].kind \in Kinds
  BY <1>1, Zenon DEF Worker
<1> PICK t : t = [task[worker[w].kind] EXCEPT !.status = status]
  BY Zenon
<1>6. /\ t \in Task /\ t.action = task[worker[w].kind].action /\ t.issuer = task[worker[w].kind].issuer
      /\ t.status = status
  BY <1>1, <1>5, Zenon DEF Task
<1>7. \/ task' = task
      \/ task[worker[w].kind].status = "open" /\ task' = [task EXCEPT ![worker[w].kind] = t]
  BY Zenon DEF Answer, TaskOf
<1>11. \A k \in Kinds : \/ task'[k] = task[k]
                        \/ k = worker[w].kind /\ task[k].status = "open" /\ task'[k] = t
  BY <1>1, <1>5, <1>7, Zenon
<1>12. task' \in [Kinds -> Task]
  BY <1>1, <1>5, <1>6, <1>7, Zenon
<1>8. \A k \in Kinds :
         /\ task'[k].action = task[k].action /\ task'[k].issuer = task[k].issuer
         /\ task'[k].status = task[k].status \/ (task'[k].status = status /\ task[k].status = "open")
  <2> TAKE k \in Kinds
  <2>1. CASE task'[k] = task[k]
    BY <2>1, Zenon
  <2>2. CASE k = worker[w].kind /\ task[k].status = "open" /\ task'[k] = t
    BY <1>6, <2>2, Zenon
  <2> QED BY <1>11, <2>1, <2>2, Zenon
<1>9. SameTasks
  BY <1>12, <1>8, Zenon DEF SameTasks
<1>10. status # "done" => NothingDone
  BY <1>8, Zenon DEF NothingDone
<1> QED BY <1>3, <1>4, <1>12, <1>9, <1>10, Zenon DEF TasksOk

(* A handler goes on with its next step. *)
LEMMA GoFacts ==
    ASSUME TypeOK, NEW w \in Workers, NEW step \in Steps, Go(w, step), UNCHANGED task
    PROVE  /\ TasksOk' /\ SameTasks /\ NothingDone
           /\ worker'[w].step = step /\ worker'[w].kind = worker[w].kind
           /\ \A v \in Workers \ {w} : worker'[v] = worker[v]
<1>1. task \in [Kinds -> Task] /\ worker \in [Workers -> Worker]
  BY TypeParts, Zenon DEF TasksOk
<1>2. /\ worker' \in [Workers -> Worker]
      /\ worker'[w].step = step /\ worker'[w].kind = worker[w].kind
      /\ \A v \in Workers \ {w} : worker'[v] = worker[v]
  BY <1>1, Zenon DEF Go, Worker
<1>3. SameTasks /\ NothingDone
  BY <1>1, Zenon DEF SameTasks, NothingDone
<1> QED BY <1>1, <1>2, <1>3, Zenon DEF TasksOk

(* The counters of faults. *)
LEMMA Counted ==
    ASSUME TypeOK, Fault \/ NoFault, UNCHANGED cli
    PROVE  CountsOk'
<1>1. CountsOk
  BY TypeParts, Zenon
<1> QED BY <1>1 DEF CountsOk, Fault, NoFault

(* A step that leaves the data alone. *)
LEMMA Quiet ==
    ASSUME TenantInv, UNCHANGED database, UNCHANGED outside
    PROVE  DataOk' /\ Preserves /\ JobInv'
<1>1. DataOk /\ JobInv
  BY InvParts, TypeParts, Zenon
<1>2. UNCHANGED <<row, known, schema, groups, sys, key, job, synced, mapping, registry>>
  BY Zenon DEF database, outside, content
<1>3. Preserves
  BY <1>2, Zenon DEF Preserves, Linked, Unmapped, Gone
<1> QED BY <1>1, <1>2, <1>3, Zenon DEF DataOk, JobInv

(* A handler answers without having changed anything, and not that it is done. *)
LEMMA QuietAnswer ==
    ASSUME TenantInv, NEW w \in Workers, NEW status \in {"open", "failed"}, Answer(w, status),
           UNCHANGED database, UNCHANGED outside, Fault \/ NoFault, UNCHANGED cli
    PROVE  TenantInv'
<1>1. TypeOK
  BY InvParts, Zenon
<1>2. status \in {"open", "done", "failed"} /\ status # "done"
  BY Zenon
<1> QED BY <1>1, <1>2, AnswerFacts, Quiet, Counted, Assemble, Zenon

(* A worker stops: it crashes, or its answer is lost. *)
LEMMA CrashInv ==
    ASSUME TenantInv, NEW w \in Workers, Crash(w)
    PROVE  TenantInv'
<1>1. TypeOK
  BY InvParts, Zenon
<1>2. worker \in [Workers -> Worker] /\ task \in [Kinds -> Task]
  BY <1>1, TypeParts, Zenon DEF TasksOk
<1>3. worker' = [worker EXCEPT ![w] = Idle] /\ Idle \in Worker /\ UNCHANGED task
  BY Zenon DEF Crash, Idle, Worker, Kinds
<1>4. TasksOk' /\ worker'[w] = Idle /\ \A v \in Workers \ {w} : worker'[v] = worker[v]
  BY <1>2, <1>3, Zenon DEF TasksOk
<1>5. \A v \in Workers : worker'[v] = worker[v] \/ StepInv(v)'
  BY <1>4, IdleOk, Zenon
<1>6. SameTasks /\ NothingDone
  BY <1>2, <1>3, Zenon DEF SameTasks, NothingDone
<1>7. DataOk' /\ Preserves /\ JobInv' /\ CountsOk'
  BY <1>1, Quiet, Counted, Zenon DEF Crash
<1> QED BY <1>4, <1>5, <1>6, <1>7, Assemble, Zenon

(* The deliveries that are refused, that fail and that have to wait. *)
LEMMA RefusedInv ==
    ASSUME TenantInv, NEW w \in Workers,
           \/ Fail(w) \/ unmarshalTenantData(w) \/ extractOIDCConfig(w) \/ TerminationTimeout(w) \/ OffboardGone(w)
    PROVE  TenantInv'
<1>1. CASE Fail(w) \/ OffboardGone(w)
  <2>1. /\ Answer(w, "open") /\ (Fault \/ NoFault) /\ UNCHANGED database /\ UNCHANGED outside /\ UNCHANGED cli
    BY <1>1, Zenon DEF Fail, OffboardGone, setErrorStateAndContinue, NoFault
  <2> QED BY <2>1, QuietAnswer, Zenon
<1>2. CASE unmarshalTenantData(w) \/ extractOIDCConfig(w) \/ TerminationTimeout(w)
  <2>1. /\ Answer(w, "failed") /\ Fault /\ UNCHANGED database /\ UNCHANGED outside /\ UNCHANGED cli
    BY <1>2, Zenon DEF unmarshalTenantData, extractOIDCConfig, TerminationTimeout, setErrorStateAndFail
  <2> QED BY <2>1, QuietAnswer, Zenon
<1> QED BY <1>1, <1>2, Zenon

(* A handler goes on without having changed anything. *)
LEMMA QuietGo ==
    ASSUME TenantInv, NEW w \in Workers, NEW step \in Steps, Go(w, step), UNCHANGED task,
           UNCHANGED database, UNCHANGED outside, Fault \/ NoFault, UNCHANGED cli, StepInv(w)'
    PROVE  TenantInv'
<1>1. TypeOK
  BY InvParts, Zenon
<1>2. \A v \in Workers : worker'[v] = worker[v] \/ StepInv(v)'
  BY <1>1, GoFacts, Zenon
<1> QED BY <1>1, <1>2, GoFacts, Quiet, Counted, Assemble, Zenon

(* What a task that is done says is true, if it is true of the one that the *)
(* step completes.                                                          *)
LEMMA DoneKept ==
    ASSUME TenantInv, SameTasks, Preserves,
           task'["tenant"].status = "done" =>
             \/ task["tenant"].status = "done"
             \/ /\ task["tenant"].action = "PROVISION" => known' /\ schema' /\ groups' /\ registry'.groups
                /\ task["tenant"].action = "TERMINATE" => Linked' = {} /\ mapping' = None /\ Unmapped',
           task'["auth"].status = "done" =>
             \/ task["auth"].status = "done"
             \/ task["auth"].action = "APPLY_AUTH" => row' = task["auth"].issuer /\ mapping' = row'
    PROVE  Ended'
<1>1. Ended /\ Orders
  BY InvParts, Zenon
<1>2. \A kind \in Kinds : task'[kind].action = task[kind].action /\ task'[kind].issuer = task[kind].issuer
  BY Zenon DEF SameTasks
<1>3. /\ task'["tenant"].action = task["tenant"].action /\ task'["auth"].action = task["auth"].action
      /\ task'["auth"].issuer = task["auth"].issuer
  BY <1>2, Zenon DEF Kinds
<1>4. /\ Completed("PROVISION")' =>
           task'["tenant"].status = "done" /\ task["tenant"].action = "PROVISION"
      /\ Completed("APPLY_AUTH")' => task'["auth"].status = "done" /\ task["auth"].action = "APPLY_AUTH"
      /\ Completed("TERMINATE")' =>
           task'["tenant"].status = "done" /\ task["tenant"].action = "TERMINATE"
  BY <1>1, <1>3, Zenon DEF Completed, Kinds, Orders, TenantActions, AuthActions
<1>5. /\ task["tenant"].status = "done" /\ task["tenant"].action = "PROVISION" => Completed("PROVISION")
      /\ task["tenant"].status = "done" /\ task["tenant"].action = "TERMINATE" => Completed("TERMINATE")
      /\ task["auth"].status = "done" /\ task["auth"].action = "APPLY_AUTH" => Completed("APPLY_AUTH")
  BY Zenon DEF Completed, Kinds
<1>6. Completed("PROVISION")' => known' /\ schema' /\ groups' /\ registry'.groups
  BY <1>1, <1>4, <1>5, Zenon DEF Ended, Preserves
<1>7. Completed("APPLY_AUTH")' /\ task'["tenant"].action # "TERMINATE" =>
         row' = task'["auth"].issuer /\ mapping' = row'
  BY <1>1, <1>3, <1>4, <1>5 DEF Ended, Preserves
<1>8. Completed("TERMINATE")' => Linked' = {} /\ mapping' = None /\ Unmapped'
  BY <1>1, <1>4, <1>5, Zenon DEF Ended, Preserves
<1> QED BY <1>6, <1>7, <1>8, Zenon DEF Ended

(* CreateTenant of the tenant manager, also when its transaction fails after *)
(* the migrations.                                                           *)
LEMMA CreateTenantData ==
    ASSUME TenantInv, NEW failed \in BOOLEAN, CreateTenant(failed), UNCHANGED outside
    PROVE  DataOk' /\ Preserves /\ JobInv'
<1>1. DataOk /\ JobInv
  BY InvParts, TypeParts, Zenon
<1>2. CASE known
  BY <1>2, Quiet, Zenon DEF CreateTenant
<1>3. CASE ~known /\ schema
  <2>1. UNCHANGED <<row, schema, groups, sys, key, job, synced, mapping, registry>> /\ known' \in BOOLEAN
    BY <1>1, <1>3, Zenon DEF CreateTenant, runMigration, outside, DataOk
  <2>2. Preserves
    BY <1>3, <2>1, Zenon DEF Preserves, Linked, Unmapped, Gone
  <2>3. row' = None
    BY <1>1, <1>3, <2>1, Zenon DEF DataOk
  <2> QED BY <1>1, <2>1, <2>2, <2>3, Zenon DEF DataOk, JobInv
<1>4. CASE ~known /\ ~schema
  <2>1. /\ UNCHANGED <<row, groups, job, synced, mapping, registry>> /\ known' \in BOOLEAN /\ schema' = TRUE
        /\ sys' = [s \in Systems |-> "absent"] /\ key' = [k \in Keys |-> "absent"]
    BY <1>1, <1>4, Zenon DEF CreateTenant, runMigration, outside, DataOk
  <2>2. row' = None /\ groups' = FALSE /\ \A k \in Keys : job'[k] = "none"
    BY <1>1, <1>4, <2>1, Zenon DEF DataOk, JobInv
  <2>3. Linked' = {} /\ Unmapped' /\ \A k \in Keys : key'[k] = "absent"
    BY <2>1, Zenon DEF Linked, Unmapped
  <2>4. (\A k \in Primary : Gone(k))'
    BY <2>3, TenantAssumption, Zenon DEF Gone
  <2>5. Preserves
    BY <1>4, <1>1, <2>1, <2>3, <2>4, Zenon DEF Preserves, DataOk
  <2>6. DataOk'
    BY <1>1, <2>1, <2>2, Zenon DEF DataOk, SystemStates, KeyStates
  <2>7. JobInv'
    BY <2>2, <2>3, Zenon DEF JobInv
  <2> QED BY <2>5, <2>6, <2>7, Zenon
<1> QED BY <1>2, <1>3, <1>4, Zenon

(* The default groups are added, or nothing is. *)
LEMMA DefaultGroupsData ==
    ASSUME TenantInv, UNCHANGED outside,
           IF known /\ schema THEN CreateDefaultGroups ELSE UNCHANGED database
    PROVE  DataOk' /\ Preserves /\ JobInv'
<1>1. DataOk /\ JobInv
  BY InvParts, TypeParts, Zenon
<1>2. CASE known /\ schema
  <2>1. UNCHANGED <<row, known, schema, sys, key, job, synced, mapping, registry>> /\ groups' = TRUE
    BY <1>2, Zenon DEF CreateDefaultGroups, outside
  <2>2. Preserves
    BY <2>1, Zenon DEF Preserves, Linked, Unmapped, Gone
  <2> QED BY <1>1, <1>2, <2>1, <2>2, Zenon DEF DataOk, JobInv
<1>3. CASE ~(known /\ schema)
  BY <1>3, Quiet, Zenon
<1> QED BY <1>2, <1>3, Zenon

(* The steps that provision a tenant. *)
LEMMA ProvisionInv ==
    ASSUME TenantInv, NEW w \in Workers,
           \/ handleCreateTenant(w) \/ createTenantSchema(w) \/ createTenantGroups(w) \/ finalizeTenantProvisioning(w)
    PROVE  TenantInv'
<1>1. TypeOK /\ Orders /\ StepInv(w) /\ DataOk /\ JobInv
  BY InvParts, TypeParts, Zenon DEF StepsOk
<1>2. CASE handleCreateTenant(w)
  <2>1. CASE ~Check
    <3>1. Answer(w, "open") /\ UNCHANGED database /\ UNCHANGED outside /\ UNCHANGED cli /\ NoFault
      BY <1>2, <2>1, Zenon DEF handleCreateTenant, setErrorStateAndContinue, NoFault
    <3> QED BY <3>1, QuietAnswer, Zenon
  <2>2. CASE Check
    <3>1. PICK step \in {"finish", "create", "groups"} :
            /\ Go(w, step) /\ UNCHANGED task
            /\ step = "finish" => isProvisioningComplete
      BY <1>2, <2>2, Zenon DEF handleCreateTenant
    <3>2. /\ worker[w].kind = "tenant" /\ task["tenant"].action = "PROVISION"
          /\ UNCHANGED database /\ UNCHANGED outside /\ UNCHANGED cli /\ NoFault
      BY <1>2, Zenon DEF handleCreateTenant, NoFault, TaskOf
    <3>3. step \in Steps
      BY <3>1, Zenon DEF Steps
    <3>4. step = "finish" => known' /\ schema' /\ groups'
      BY <2>2, <3>1, <3>2, Zenon DEF isProvisioningComplete, Check, schemaExists, checkTenantGroupsExistenceStatus,
           database, content
    <3>5. worker'[w].step = step /\ worker'[w].kind = "tenant"
      BY <1>1, <3>1, <3>2, <3>3, GoFacts, Zenon
    <3>6. StepInv(w)'
      BY <3>1, <3>2, <3>4, <3>5, Zenon DEF StepInv, Offboards
    <3> QED BY <3>1, <3>2, <3>3, <3>6, QuietGo, Zenon
  <2> QED BY <2>1, <2>2, Zenon
<1>3. CASE createTenantSchema(w)
  <2>1. worker[w].step = "create" /\ UNCHANGED outside /\ UNCHANGED cli
    BY <1>3, Zenon DEF createTenantSchema, At
  <2>2. worker[w].kind = "tenant" /\ task["tenant"].action = "PROVISION"
    BY <1>1, <2>1, Zenon DEF StepInv, Provisions, TypeOK, Kinds
  <2>3. CASE CreateTenant(FALSE) /\ NoFault /\ Go(w, "groups") /\ UNCHANGED task
    <3>1. DataOk' /\ Preserves /\ JobInv' /\ CountsOk'
      BY <1>1, <2>1, <2>3, CreateTenantData, Counted, Zenon
    <3>2. "groups" \in Steps
      BY Zenon DEF Steps
    <3>3. /\ TasksOk' /\ SameTasks /\ NothingDone /\ worker'[w].step = "groups" /\ worker'[w].kind = "tenant"
          /\ \A v \in Workers \ {w} : worker'[v] = worker[v]
      BY <1>1, <2>2, <2>3, <3>2, GoFacts, Zenon
    <3>4. StepInv(w)'
      BY <2>2, <2>3, <3>3, Zenon DEF StepInv, Offboards
    <3> QED BY <3>1, <3>3, <3>4, Assemble, Zenon
  <2>4. CASE CreateTenant(TRUE) /\ Fault /\ setErrorState(w, FALSE)
    <3>1. DataOk' /\ Preserves /\ JobInv' /\ CountsOk'
      BY <1>1, <2>1, <2>4, CreateTenantData, Counted, Zenon
    <3>2. Answer(w, "open")
      BY <2>4, Zenon DEF setErrorState, setErrorStateAndContinue
    <3>3. /\ TasksOk' /\ SameTasks /\ NothingDone /\ \A v \in Workers : worker'[v] = worker[v] \/ StepInv(v)'
      BY <1>1, <3>2, AnswerFacts, Zenon
    <3> QED BY <3>1, <3>3, Assemble, Zenon
  <2>5. CASE Fault /\ setErrorState(w, TRUE) /\ UNCHANGED database
    <3>1. Answer(w, "failed")
      BY <2>5, Zenon DEF setErrorState, setErrorStateAndFail
    <3> QED BY <2>1, <2>5, <3>1, QuietAnswer, Zenon
  <2> QED BY <1>3, <2>3, <2>4, <2>5, Zenon DEF createTenantSchema
<1>4. CASE createTenantGroups(w)
  <2>1. /\ Answer(w, "open") /\ UNCHANGED outside /\ UNCHANGED cli /\ NoFault
        /\ IF known /\ schema THEN CreateDefaultGroups ELSE UNCHANGED database
    BY <1>4, Zenon DEF createTenantGroups, setErrorStateAndContinue, NoFault
  <2>2. DataOk' /\ Preserves /\ JobInv' /\ CountsOk'
    BY <1>1, <2>1, DefaultGroupsData, Counted, Zenon
  <2>3. /\ TasksOk' /\ SameTasks /\ NothingDone /\ \A v \in Workers : worker'[v] = worker[v] \/ StepInv(v)'
    BY <1>1, <2>1, AnswerFacts, Zenon
  <2> QED BY <2>2, <2>3, Assemble, Zenon
<1>5. CASE finalizeTenantProvisioning(w)
  <2>1. worker[w].step = "finish" /\ UNCHANGED database /\ UNCHANGED mapping /\ UNCHANGED cli
        /\ registry' = [registry EXCEPT !.groups = TRUE] /\ (Fault \/ NoFault)
    BY <1>5, Zenon DEF finalizeTenantProvisioning, At, sendTenantUserGroupsToRegistry
  <2>2. worker[w].kind = "tenant" /\ task["tenant"].action = "PROVISION" /\ known /\ schema /\ groups
    BY <1>1, <2>1, Zenon DEF StepInv, Provisions, TypeOK, Kinds
  <2>3. PICK status \in {"open", "done", "failed"} : Answer(w, status)
    BY <1>5, Zenon DEF finalizeTenantProvisioning, Complete, setErrorStateAndContinue
  <2>4. /\ TasksOk' /\ SameTasks /\ \A v \in Workers : worker'[v] = worker[v] \/ StepInv(v)'
    BY <1>1, <2>3, AnswerFacts, Zenon
  <2>5. UNCHANGED <<row, known, schema, groups, sys, key, job, synced>>
    BY <2>1, Zenon DEF database, content
  <2>6. registry'.groups = TRUE /\ registry'.systems = registry.systems /\ registry' \in [groups : BOOLEAN, systems : SUBSET Systems]
    BY <1>1, <2>1, Zenon DEF DataOk
  <2>7. DataOk' /\ JobInv'
    BY <1>1, <2>1, <2>5, <2>6, Zenon DEF DataOk, JobInv
  <2>8. Preserves
    BY <2>1, <2>5, <2>6, Zenon DEF Preserves, Linked, Unmapped, Gone
  <2>9. task'["auth"].status = "done" => task["auth"].status = "done"
    BY <1>1, <2>2, <2>3, Zenon DEF Answer, TypeOK, Kinds
  <2>10. Ended'
    BY <2>2, <2>4, <2>5, <2>6, <2>8, <2>9, DoneKept, Zenon
  <2>11. CountsOk'
    BY <1>1, <2>1, Counted, Zenon
  <2> QED BY <2>4, <2>7, <2>8, <2>10, <2>11, Assemble, Zenon
<1> QED BY <1>2, <1>3, <1>4, <1>5, Zenon

(* The session manager's mapping changes as the task of the step says. *)
LEMMA MappingData ==
    ASSUME TenantInv, UNCHANGED database, UNCHANGED registry, mapping' \in Issuers \cup {None},
           \/ mapping' = mapping
           \/ task["tenant"].action = "TERMINATE" /\ mapping' = None
           \/ /\ task["tenant"].action # "TERMINATE"
              /\ task["auth"].action = "APPLY_AUTH" => mapping' = task["auth"].issuer
    PROVE  DataOk' /\ Preserves /\ JobInv'
<1>1. DataOk /\ JobInv
  BY InvParts, TypeParts, Zenon
<1>2. UNCHANGED <<row, known, schema, groups, sys, key, job, synced, registry>>
  BY Zenon DEF database, content
<1>3. Linked' = Linked /\ Unmapped' = Unmapped /\ \A k : Gone(k)' = Gone(k)
  BY <1>2, Zenon DEF Linked, Unmapped, Gone
<1>4. Preserves
  BY <1>2, <1>3, Zenon DEF Preserves
<1> QED BY <1>1, <1>2, <1>4, Zenon DEF DataOk, JobInv

(* A handler answers after it changed the mapping, and what it says is true. *)
LEMMA MappingAnswer ==
    ASSUME TenantInv, NEW w \in Workers, NEW status \in {"open", "done", "failed"}, Answer(w, status),
           DataOk', Preserves, JobInv', Fault \/ NoFault, UNCHANGED cli, status # "done" \/ Ended'
    PROVE  TenantInv'
<1>1. TypeOK
  BY InvParts, Zenon
<1> QED BY <1>1, AnswerFacts, Counted, Assemble, Zenon

(* APPLY_AUTH and REMOVE_AUTH. *)
LEMMA AuthInv ==
    ASSUME TenantInv, NEW w \in Workers, applyOIDC(w) \/ handleApplyTenantAuth(w) \/ handleRemoveTenantAuth(w)
    PROVE  TenantInv'
<1>1. TypeOK /\ Orders /\ StepInv(w) /\ DataOk /\ JobInv
  BY InvParts, TypeParts, Zenon DEF StepsOk
<1>2. task["auth"].issuer \in Issuers \cup {None} /\ mapping \in Issuers \cup {None}
  BY <1>1, Zenon DEF TypeOK, Kinds
<1>3. CASE applyOIDC(w)
  <2>1. /\ worker[w].kind = "auth" /\ worker[w].step = "start" /\ task["auth"].action = "APPLY_AUTH"
        /\ UNCHANGED database /\ UNCHANGED registry /\ UNCHANGED cli
    BY <1>3, Zenon DEF applyOIDC, At, TaskOf
  <2>2. task["tenant"].action # "TERMINATE"
    BY <1>1, <2>1, Zenon DEF StepInv
  <2>3. mapping' = mapping \/ mapping' = task["auth"].issuer
    BY <1>3, <2>1, Zenon DEF applyOIDC, TaskOf
  <2>4. DataOk' /\ Preserves /\ JobInv'
    BY <1>2, <2>1, <2>2, <2>3, MappingData, Zenon
  <2>5. CASE known /\ mapping' = TaskOf(w).issuer /\ NoFault /\ Go(w, "commit") /\ UNCHANGED task
    <3>1. "commit" \in Steps
      BY Zenon DEF Steps
    <3>2. /\ TasksOk' /\ SameTasks /\ NothingDone /\ worker'[w].step = "commit" /\ worker'[w].kind = "auth"
          /\ \A v \in Workers \ {w} : worker'[v] = worker[v]
      BY <1>1, <2>1, <2>5, <3>1, GoFacts, Zenon
    <3>3. known' /\ mapping' = task["auth"].issuer /\ UNCHANGED task
      BY <2>1, <2>5, Zenon DEF TaskOf, database
    <3>4. StepInv(w)'
      BY <2>1, <2>2, <3>2, <3>3, Zenon DEF StepInv, Provisions, Offboards
    <3>5. CountsOk'
      BY <1>1, <2>1, <2>5, Counted, Zenon
    <3> QED BY <2>4, <3>2, <3>4, <3>5, Assemble, Zenon
  <2>6. CASE (Fault \/ NoFault) /\ (setErrorStateAndContinue(w) \/ setErrorStateAndFail(w))
    <3>1. PICK status \in {"open", "done", "failed"} : Answer(w, status) /\ status # "done"
      BY <2>6, Zenon DEF setErrorStateAndContinue, setErrorStateAndFail
    <3> QED BY <2>1, <2>4, <2>6, <3>1, MappingAnswer, Zenon
  <2> QED BY <1>3, <2>5, <2>6, Zenon DEF applyOIDC, NoFault
<1>4. CASE handleApplyTenantAuth(w)
  <2>1. /\ worker[w].step = "commit" /\ Answer(w, "done") /\ row' = TaskOf(w).issuer
        /\ UNCHANGED <<known, schema, groups, sys, key, job, synced, mapping, registry>> /\ UNCHANGED cli /\ NoFault
    BY <1>4, Zenon DEF handleApplyTenantAuth, At, content, outside, Complete, NoFault
  <2>2. worker[w].kind = "auth" /\ known /\ mapping = task["auth"].issuer /\ task["tenant"].action # "TERMINATE"
    BY <1>1, <2>1, Zenon DEF StepInv
  <2>3. row' = task["auth"].issuer
    BY <2>1, <2>2, Zenon DEF TaskOf
  <2>4. DataOk' /\ JobInv'
    BY <1>1, <1>2, <2>1, <2>2, <2>3, Zenon DEF DataOk, JobInv
  <2>5. Linked' = Linked /\ Unmapped' = Unmapped /\ \A k : Gone(k)' = Gone(k)
    BY <2>1, Zenon DEF Linked, Unmapped, Gone
  <2>6. Preserves
    BY <2>1, <2>3, <2>5, Zenon DEF Preserves
  <2>7. task'["tenant"].status = task["tenant"].status
    BY <1>1, <2>1, <2>2, Zenon DEF Answer, TypeOK, Kinds
  <2>8. SameTasks
    BY <1>1, <2>1, AnswerFacts, Zenon
  <2>9. Ended'
    BY <2>1, <2>2, <2>3, <2>6, <2>7, <2>8, DoneKept, Zenon
  <2>10. "done" \in {"open", "done", "failed"}
    BY Zenon
  <2> QED BY <2>1, <2>4, <2>6, <2>9, <2>10, MappingAnswer, Zenon
<1>5. CASE handleRemoveTenantAuth(w)
  <2>1. /\ worker[w].kind = "auth" /\ worker[w].step = "start" /\ task["auth"].action = "REMOVE_AUTH"
        /\ removeOIDCMapping(w, Complete(w))
        /\ UNCHANGED database /\ UNCHANGED registry /\ UNCHANGED cli
    BY <1>5, Zenon DEF handleRemoveTenantAuth, At, TaskOf
  <2>2. task["tenant"].action # "TERMINATE"
    BY <1>1, <2>1, Zenon DEF StepInv
  <2>3. mapping' \in {mapping, None} /\ (Fault \/ NoFault)
    BY <2>1, Zenon DEF removeOIDCMapping
  <2>4. DataOk' /\ Preserves /\ JobInv'
    BY <1>2, <2>1, <2>2, <2>3, MappingData, Zenon
  <2>5. PICK status \in {"open", "done", "failed"} : Answer(w, status)
    BY <2>1, Zenon DEF removeOIDCMapping, Complete, setErrorStateAndContinue, setErrorStateAndFail
  <2>6. SameTasks
    BY <1>1, <2>5, AnswerFacts, Zenon
  <2>7. task'["tenant"].status = task["tenant"].status
    BY <1>1, <2>1, <2>5, Zenon DEF Answer, TypeOK, Kinds
  <2>8. Ended'
    BY <2>1, <2>4, <2>6, <2>7, DoneKept, Zenon
  <2> QED BY <2>1, <2>3, <2>4, <2>5, <2>8, MappingAnswer, Zenon
<1> QED BY <1>3, <1>4, <1>5, Zenon

(* BLOCK_TENANT and UNBLOCK_TENANT. *)
LEMMA BlockInv ==
    ASSUME TenantInv, NEW w \in Workers, handleBlockTenant(w)
    PROVE  TenantInv'
<1>1. TypeOK
  BY InvParts, Zenon
<1>2. /\ worker[w].kind = "tenant" /\ task["tenant"].action \in {"BLOCK", "UNBLOCK"}
      /\ UNCHANGED database /\ UNCHANGED outside /\ UNCHANGED cli /\ (Fault \/ NoFault)
  BY Zenon DEF handleBlockTenant, TaskOf
<1>3. PICK status \in {"open", "done", "failed"} : Answer(w, status)
  BY Zenon DEF handleBlockTenant, Complete, setErrorStateAndContinue, setErrorStateAndFail
<1>4. SameTasks
  BY <1>1, <1>3, AnswerFacts, Zenon
<1>5. DataOk' /\ Preserves /\ JobInv'
  BY <1>2, Quiet, Zenon
<1>6. task'["auth"].status = task["auth"].status
  BY <1>1, <1>2, <1>3, Zenon DEF Answer, TypeOK, Kinds
<1>7. Ended'
  BY <1>2, <1>4, <1>5, <1>6, DoneKept, Zenon
<1> QED BY <1>2, <1>3, <1>5, <1>7, MappingAnswer, Zenon

(* The first step of a termination removes the mapping. *)
LEMMA TerminateInv ==
    ASSUME TenantInv, NEW w \in Workers, handleTerminateTenant(w)
    PROVE  TenantInv'
<1>1. TypeOK /\ DataOk
  BY InvParts, TypeParts, Zenon
<1>2. /\ worker[w].kind = "tenant" /\ worker[w].step = "start" /\ task["tenant"].action = "TERMINATE"
      /\ removeOIDCMapping(w, Go(w, "offboard") /\ UNCHANGED task)
      /\ UNCHANGED database /\ UNCHANGED registry /\ UNCHANGED cli
  BY Zenon DEF handleTerminateTenant, At, TaskOf
<1>3. mapping' \in {mapping, None} /\ mapping \in Issuers \cup {None} /\ (Fault \/ NoFault)
  BY <1>1, <1>2, Zenon DEF removeOIDCMapping, DataOk
<1>4. DataOk' /\ Preserves /\ JobInv'
  BY <1>2, <1>3, MappingData, Zenon
<1>5. CASE mapping' = None /\ NoFault /\ Go(w, "offboard") /\ UNCHANGED task
  <2>1. "offboard" \in Steps
    BY Zenon DEF Steps
  <2>2. /\ TasksOk' /\ SameTasks /\ NothingDone /\ worker'[w].step = "offboard" /\ worker'[w].kind = "tenant"
        /\ \A v \in Workers \ {w} : worker'[v] = worker[v]
    BY <1>1, <1>2, <1>5, <2>1, GoFacts, Zenon
  <2>3. StepInv(w)'
    BY <1>2, <1>5, <2>2, Zenon DEF StepInv, Provisions
  <2>4. CountsOk'
    BY <1>1, <1>2, <1>5, Counted, Zenon
  <2> QED BY <1>4, <2>2, <2>3, <2>4, Assemble, Zenon
<1>6. CASE setErrorStateAndContinue(w) \/ setErrorStateAndFail(w)
  <2>1. PICK status \in {"open", "done", "failed"} : Answer(w, status) /\ status # "done"
    BY <1>6, Zenon DEF setErrorStateAndContinue, setErrorStateAndFail
  <2> QED BY <1>2, <1>3, <1>4, <2>1, MappingAnswer, Zenon
<1> QED BY <1>2, <1>5, <1>6, Zenon DEF removeOIDCMapping

(* What an offboarding step can rely on. *)
LEMMA Offboarded ==
    ASSUME TenantInv, NEW w \in Workers, worker[w].step \in Offboards
    PROVE  /\ worker[w].kind = "tenant" /\ task["tenant"].action = "TERMINATE" /\ mapping = None
           /\ worker[w].step \notin {"offboard", "unlinked"} => Linked = {}
           /\ worker[w].step \in {"detached", "delete"} => Unmapped
           /\ worker[w].step = "delete" => \A k \in Primary : Gone(k)
<1>1. TypeOK /\ StepInv(w)
  BY InvParts, Zenon DEF StepsOk
<1>2. worker[w].kind = "tenant"
  BY <1>1, Zenon DEF StepInv, TypeOK, Kinds, Offboards
<1> QED BY <1>1, <1>2, Zenon DEF StepInv, Gone

(* A step of the offboarding that did what it had to do. *)
LEMMA OffboardGo ==
    ASSUME TenantInv, NEW w \in Workers, worker[w].step \in Offboards, NEW step \in Offboards,
           Go(w, step), UNCHANGED task, UNCHANGED mapping,
           DataOk', Preserves, JobInv', Fault \/ NoFault, UNCHANGED cli,
           step \notin {"offboard", "unlinked"} => Linked' = {},
           step \in {"detached", "delete"} => Unmapped',
           step = "delete" => (\A k \in Primary : Gone(k))'
    PROVE  TenantInv'
<1>1. TypeOK
  BY InvParts, Zenon
<1>2. worker[w].kind = "tenant" /\ task["tenant"].action = "TERMINATE" /\ mapping = None
  BY Offboarded, Zenon
<1>3. step \in Steps
  BY Zenon DEF Steps, Offboards
<1>4. /\ TasksOk' /\ SameTasks /\ NothingDone /\ worker'[w].step = step /\ worker'[w].kind = "tenant"
      /\ \A v \in Workers \ {w} : worker'[v] = worker[v]
  BY <1>1, <1>2, <1>3, GoFacts, Zenon
<1>5. step = "delete" => \A k \in Primary : key'[k] \in {"absent", "DETACHED"} \/ k \in synced'
  BY Zenon DEF Gone
<1>6. StepInv(w)'
  BY <1>2, <1>4, <1>5, Zenon DEF StepInv, Provisions, Offboards
<1>7. CountsOk'
  BY <1>1, Counted, Zenon
<1> QED BY <1>4, <1>6, <1>7, Assemble, Zenon

(* The three counts that let the offboarding go on or wait. *)
LEMMA WaitInv ==
    ASSUME TenantInv, NEW w \in Workers,
           checkAllSystemsUnlinked(w) \/ checkAllPrimaryKeysProcessed(w) \/ checkAllPrimaryKeysDetached(w)
    PROVE  TenantInv'
<1>1. ASSUME NEW step \in Offboards, NEW passed, NEW next \in Offboards, Wait(w, step, passed, next),
             passed => /\ next \notin {"offboard", "unlinked"} => Linked = {}
                       /\ next \in {"detached", "delete"} => Unmapped
                       /\ next = "delete" => (\A k \in Primary : Gone(k))
      PROVE  TenantInv'
  <2>1. worker[w].step \in Offboards /\ UNCHANGED database /\ UNCHANGED outside /\ UNCHANGED cli /\ NoFault
    BY <1>1, Zenon DEF Wait, Offboarding, At, NoFault
  <2>2. CASE passed
    <3>1. Go(w, next) /\ UNCHANGED task
      BY <1>1, <2>2, Zenon DEF Wait
    <3>2. UNCHANGED <<sys, key, synced, registry, mapping>>
      BY <2>1, Zenon DEF database, content, outside
    <3>3. DataOk' /\ Preserves /\ JobInv'
      BY <2>1, Quiet, Zenon
    <3>4. /\ next \notin {"offboard", "unlinked"} => Linked' = {}
          /\ next \in {"detached", "delete"} => Unmapped'
          /\ next = "delete" => (\A k \in Primary : Gone(k))'
      BY <1>1, <2>2, <3>2, Zenon DEF Linked, Unmapped, Gone
    <3> QED BY <2>1, <3>1, <3>2, <3>3, <3>4, OffboardGo, Zenon
  <2>3. CASE ~passed
    <3>1. Answer(w, "open")
      BY <1>1, <2>3, Zenon DEF Wait, setErrorStateAndContinue
    <3> QED BY <2>1, <3>1, QuietAnswer, Zenon
  <2> QED BY <2>2, <2>3, Zenon
<1>2. CASE checkAllSystemsUnlinked(w)
  <2>1. "unlinked" \in Offboards /\ "detach" \in Offboards /\ "detach" \notin {"detached", "delete"}
    BY Zenon DEF Offboards
  <2> QED BY <1>1, <1>2, <2>1, Zenon DEF checkAllSystemsUnlinked
<1>3. CASE checkAllPrimaryKeysProcessed(w)
  <2>1. "processed" \in Offboards /\ "unmap" \in Offboards /\ "unmap" \notin {"detached", "delete"}
        /\ "processed" \notin {"offboard", "unlinked"}
    BY Zenon DEF Offboards
  <2>2. worker[w].step = "processed"
    BY <1>3, Zenon DEF checkAllPrimaryKeysProcessed, Wait, Offboarding, At
  <2>3. Linked = {}
    BY <2>1, <2>2, Offboarded, Zenon
  <2> QED BY <1>1, <1>3, <2>1, <2>3, Zenon DEF checkAllPrimaryKeysProcessed
<1>4. CASE checkAllPrimaryKeysDetached(w)
  <2>1. "detached" \in Offboards /\ "delete" \in Offboards /\ "detached" \notin {"offboard", "unlinked"}
        /\ "detached" \in {"detached", "delete"}
    BY Zenon DEF Offboards
  <2>2. worker[w].step = "detached"
    BY <1>4, Zenon DEF checkAllPrimaryKeysDetached, Wait, Offboarding, At
  <2>3. Linked = {} /\ Unmapped
    BY <2>1, <2>2, Offboarded, Zenon
  <2>4. (\A k \in Primary : key[k] \in {"absent", "DETACHED"}) => \A k \in Primary : Gone(k)
    BY Zenon DEF Gone
  <2> QED BY <1>1, <1>4, <2>1, <2>3, <2>4, Zenon DEF checkAllPrimaryKeysDetached
<1> QED BY <1>2, <1>3, <1>4, Zenon

(* An offboarding step that has to be called again, or that ends the task as *)
(* failed, after what it did for some of the systems or keys.                *)
LEMMA OffboardAnswer ==
    ASSUME TenantInv, NEW w \in Workers, NEW status \in {"open", "failed"}, Answer(w, status),
           DataOk', Preserves, JobInv', Fault \/ NoFault, UNCHANGED cli
    PROVE  TenantInv'
<1>1. TypeOK
  BY InvParts, Zenon
<1>2. status \in {"open", "done", "failed"} /\ status # "done"
  BY Zenon
<1> QED BY <1>1, <1>2, AnswerFacts, Counted, Assemble, Zenon

(* Systems are only unlinked by the offboarding. *)
LEMMA UnlinkInv ==
    ASSUME TenantInv, NEW w \in Workers, sendUnlinkForConnectedSystems(w)
    PROVE  TenantInv'
<1>1. DataOk /\ JobInv
  BY InvParts, TypeParts, Zenon
<1>2. PICK done \in SUBSET {s \in Systems : sys[s] \in {"connected", "failed"}} :
        /\ sys' = [s \in Systems |-> IF s \in done THEN "unlinking" ELSE sys[s]]
        /\ \/ NoFault /\ Go(w, "unlinked") /\ UNCHANGED task
           \/ Fault /\ setErrorStateAndContinue(w)
  BY Zenon DEF sendUnlinkForConnectedSystems
<1>3. /\ UNCHANGED <<row, known, schema, groups, key, job, synced, mapping, registry, cli>>
      /\ worker[w].step = "offboard" /\ "offboard" \in Offboards /\ "unlinked" \in Offboards
  BY Zenon DEF sendUnlinkForConnectedSystems, outside, Offboarding, At, Offboards
<1>4. \A s \in Systems : /\ sys'[s] \in SystemStates
                         /\ sys'[s] = sys[s] \/ (sys[s] \in {"connected", "failed"} /\ sys'[s] = "unlinking")
  <2>1. sys \in [Systems -> SystemStates] /\ "unlinking" \in SystemStates
    BY <1>1, Zenon DEF DataOk, SystemStates
  <2>2. \A s \in done : s \in Systems /\ sys[s] \in {"connected", "failed"}
    BY <1>2, Zenon
  <2>3. \A s \in Systems : sys'[s] = IF s \in done THEN "unlinking" ELSE sys[s]
    BY <1>2, Zenon
  <2> TAKE s \in Systems
  <2>4. CASE s \in done
    BY <2>1, <2>2, <2>3, <2>4, Zenon
  <2>5. CASE s \notin done
    <3>1. sys'[s] = sys[s]
      BY <2>3, <2>5, Zenon
    <3>2. sys[s] \in SystemStates
      BY <2>1, Zenon
    <3> QED BY <3>1, <3>2, Zenon
  <2> QED BY <2>4, <2>5, Zenon
<1>5. sys' \in [Systems -> SystemStates]
  BY <1>2, <1>4, Zenon
<1>6. DataOk'
  BY <1>1, <1>3, <1>5, Zenon DEF DataOk
<1>7. JobInv'
  BY <1>1, <1>3, Zenon DEF JobInv
<1>8. Linked = {} => Linked' = {}
  BY <1>4, Zenon DEF Linked
<1>9. Unmapped => Unmapped'
  BY <1>3, <1>4, Zenon DEF Unmapped
<1>10. (\A k \in Primary : Gone(k)) => (\A k \in Primary : Gone(k))'
  BY <1>3, Zenon DEF Gone
<1>11. Preserves
  BY <1>3, <1>8, <1>9, <1>10, Zenon DEF Preserves
<1>12. CASE NoFault /\ Go(w, "unlinked") /\ UNCHANGED task
  <2>1. "unlinked" \in {"offboard", "unlinked"} /\ "unlinked" \notin {"detached", "delete"} /\ "unlinked" # "delete"
    BY Zenon
  <2> QED BY <1>3, <1>6, <1>7, <1>11, <1>12, <2>1, OffboardGo, Zenon
<1>13. CASE Fault /\ setErrorStateAndContinue(w)
  BY <1>3, <1>6, <1>7, <1>11, <1>13, OffboardAnswer, Zenon DEF setErrorStateAndContinue
<1> QED BY <1>2, <1>12, <1>13, Zenon

(* A key that is detached again was written by a sync. *)
LEMMA DetachInv ==
    ASSUME TenantInv, NEW w \in Workers, detachPrimaryKeys(w)
    PROVE  TenantInv'
<1>1. DataOk /\ JobInv
  BY InvParts, TypeParts, Zenon
<1>2. PICK done \in SUBSET checkKeyDetatchingQuery :
        /\ Detach(done)
        /\ \/ NoFault /\ Go(w, "processed") /\ UNCHANGED task
           \/ Fault /\ setErrorStateAndContinue(w)
  BY Zenon DEF detachPrimaryKeys
<1>3. /\ UNCHANGED <<row, known, schema, groups, sys, synced, mapping, registry, cli>>
      /\ worker[w].step = "detach" /\ "detach" \in Offboards /\ "processed" \in Offboards
      /\ "detach" \notin {"offboard", "unlinked"} /\ schema
  BY Zenon DEF detachPrimaryKeys, outside, Offboarding, At, Offboards
<1>4. Linked = {} /\ Linked' = {} /\ (Unmapped => Unmapped')
  <2>1. Linked = {}
    BY <1>3, Offboarded, Zenon
  <2> QED BY <1>3, <2>1, Zenon DEF Linked, Unmapped
<1>5. \A k \in Keys :
        \/ key'[k] = key[k] /\ job'[k] = job[k]
        \/ /\ k \in checkKeyDetatchingQuery /\ key'[k] = "DETACHING" /\ job'[k] \in {job[k], "open"}
  BY <1>2, Zenon DEF Detach
<1>6. \A k \in Keys : key'[k] \in KeyStates /\ job'[k] \in {"none", "open", "confirmed"}
  BY <1>1, <1>5, Zenon DEF DataOk, KeyStates
<1>7. key' \in [Keys -> KeyStates] /\ job' \in [Keys -> {"none", "open", "confirmed"}]
  BY <1>2, <1>6, Zenon DEF Detach
<1>8. DataOk'
  BY <1>1, <1>3, <1>7, Zenon DEF DataOk
<1>9. JobInv'
  <2>1. \A k \in Keys : job'[k] = "open" => key'[k] = "DETACHING" \/ k \in synced'
    BY <1>1, <1>3, <1>5, Zenon DEF JobInv
  <2>2. \A k \in Keys : ~schema' \/ key'[k] = "absent" => job'[k] = "none"
    BY <1>1, <1>3, <1>5, Zenon DEF JobInv
  <2> QED BY <2>1, <2>2, Zenon DEF JobInv
<1>10. (\A k \in Primary : Gone(k)) => (\A k \in Primary : Gone(k))'
  <2>1. \A k \in Primary : k \in Keys
    BY TenantAssumption, Zenon
  <2> QED BY <1>3, <1>5, <2>1, Zenon DEF Gone, checkKeyDetatchingQuery
<1>11. Preserves
  BY <1>3, <1>4, <1>10, Zenon DEF Preserves
<1>12. CASE NoFault /\ Go(w, "processed") /\ UNCHANGED task
  <2>1. "processed" \notin {"detached", "delete"} /\ "processed" # "delete"
    BY Zenon
  <2> QED BY <1>3, <1>4, <1>8, <1>9, <1>11, <1>12, <2>1, OffboardGo, Zenon
<1>13. CASE Fault /\ setErrorStateAndContinue(w)
  BY <1>3, <1>8, <1>9, <1>11, <1>13, OffboardAnswer, Zenon DEF setErrorStateAndContinue
<1> QED BY <1>2, <1>12, <1>13, Zenon

(* The offboarding goes on when the registry maps no system any more. *)
LEMMA UnmapInv ==
    ASSUME TenantInv, NEW w \in Workers, unmapAllSystemsFromRegistry(w)
    PROVE  TenantInv'
<1>1. DataOk /\ JobInv
  BY InvParts, TypeParts, Zenon
<1>2. PICK status \in [{s \in Systems : sys[s] # "absent"} -> unmapSystemErrorCanContinue] :
        /\ registry' = [registry EXCEPT !.systems =
             {s \in @ : s \in DOMAIN status => status[s] # "OffboardingGoToNextStep"}]
        /\ LET worst == escalateOffboardingStatus({status[s] : s \in DOMAIN status}) IN
           CASE worst = "OffboardingGoToNextStep" -> NoFault /\ Go(w, "detached") /\ UNCHANGED task
             [] worst = "OffboardingContinueAndWait" -> Fault /\ setErrorStateAndContinue(w)
             [] worst = "OffboardingFailed" -> Fault /\ setErrorStateAndFail(w)
  BY Zenon DEF unmapAllSystemsFromRegistry
<1>13. \/ /\ escalateOffboardingStatus({status[s] : s \in DOMAIN status}) = "OffboardingGoToNextStep"
          /\ NoFault /\ Go(w, "detached") /\ UNCHANGED task
       \/ Fault /\ setErrorStateAndContinue(w)
       \/ Fault /\ setErrorStateAndFail(w)
  <2>1. \A ss : escalateOffboardingStatus(ss) \in
              {"OffboardingGoToNextStep", "OffboardingContinueAndWait", "OffboardingFailed"}
    BY Zenon DEF escalateOffboardingStatus
  <2>2. PICK worst : worst = escalateOffboardingStatus({status[s] : s \in DOMAIN status})
    BY Zenon
  <2>3. worst \in {"OffboardingGoToNextStep", "OffboardingContinueAndWait", "OffboardingFailed"}
    BY <2>1, <2>2, Zenon
  <2>4. (CASE worst = "OffboardingGoToNextStep" -> NoFault /\ Go(w, "detached") /\ UNCHANGED task
           [] worst = "OffboardingContinueAndWait" -> Fault /\ setErrorStateAndContinue(w)
           [] worst = "OffboardingFailed" -> Fault /\ setErrorStateAndFail(w))
    BY <1>2, <2>2, Zenon
  <2>5. \/ worst = "OffboardingGoToNextStep" /\ NoFault /\ Go(w, "detached") /\ UNCHANGED task
        \/ Fault /\ setErrorStateAndContinue(w)
        \/ Fault /\ setErrorStateAndFail(w)
    BY <2>3, <2>4, Zenon
  <2> QED BY <2>2, <2>5, Zenon
<1>3. /\ UNCHANGED <<row, known, schema, groups, sys, key, job, synced, mapping, cli>>
      /\ worker[w].step = "unmap" /\ "unmap" \in Offboards /\ "detached" \in Offboards
      /\ "unmap" \notin {"offboard", "unlinked"}
  BY Zenon DEF unmapAllSystemsFromRegistry, database, content, Offboarding, At, Offboards
<1>4. Linked = {} /\ Linked' = {}
  <2>1. Linked = {}
    BY <1>3, Offboarded, Zenon
  <2> QED BY <1>3, <2>1, Zenon DEF Linked
<1>5. /\ registry' \in [groups : BOOLEAN, systems : SUBSET Systems]
      /\ registry'.groups = registry.groups
      /\ registry'.systems = {s \in registry.systems : s \in DOMAIN status => status[s] # "OffboardingGoToNextStep"}
  BY <1>1, <1>2, Zenon DEF DataOk
<1>6. DataOk' /\ JobInv'
  BY <1>1, <1>3, <1>5, Zenon DEF DataOk, JobInv
<1>7. Unmapped => Unmapped'
  BY <1>3, <1>5, Zenon DEF Unmapped
<1>8. (\A k \in Primary : Gone(k)) => (\A k \in Primary : Gone(k))'
  BY <1>3, Zenon DEF Gone
<1>9. Preserves
  BY <1>3, <1>4, <1>5, <1>7, <1>8, Zenon DEF Preserves
<1>10. CASE /\ escalateOffboardingStatus({status[s] : s \in DOMAIN status}) = "OffboardingGoToNextStep"
            /\ NoFault /\ Go(w, "detached") /\ UNCHANGED task
  <2>1. /\ "OffboardingFailed" \notin {status[s] : s \in DOMAIN status}
        /\ "OffboardingContinueAndWait" \notin {status[s] : s \in DOMAIN status}
    BY <1>10, Zenon DEF escalateOffboardingStatus
  <2>2. \A s \in DOMAIN status : status[s] = "OffboardingGoToNextStep"
    <3> TAKE s \in DOMAIN status
    <3>1. status[s] \in unmapSystemErrorCanContinue
      BY Zenon
    <3>2. status[s] # "OffboardingFailed" /\ status[s] # "OffboardingContinueAndWait"
      BY <2>1, Zenon
    <3> QED BY <3>1, <3>2, Zenon DEF unmapSystemErrorCanContinue
  <2>3. Unmapped'
    <3> SUFFICES ASSUME NEW s \in Systems, sys'[s] # "absent" PROVE s \notin registry'.systems
      BY Zenon DEF Unmapped
    <3>1. s \in DOMAIN status
      BY <1>3, Zenon
    <3> QED BY <1>5, <2>2, <3>1, Zenon
  <2>4. "detached" # "delete"
    BY Zenon
  <2> QED BY <1>3, <1>4, <1>6, <1>9, <1>10, <2>3, <2>4, OffboardGo, Zenon
<1>11. CASE Fault /\ setErrorStateAndContinue(w)
  BY <1>3, <1>6, <1>9, <1>11, OffboardAnswer, Zenon DEF setErrorStateAndContinue
<1>12. CASE Fault /\ setErrorStateAndFail(w)
  BY <1>3, <1>6, <1>9, <1>12, OffboardAnswer, Zenon DEF setErrorStateAndFail
<1> QED BY <1>13, <1>10, <1>11, <1>12, Zenon

(* The tenant is deleted when nothing is connected to it any more. *)
LEMMA DeleteTenantInv ==
    ASSUME TenantInv, NEW w \in Workers, DeleteTenant(w) \/ DeleteTenantUnanswered(w)
    PROVE  TenantInv'
<1>1. TypeOK /\ DataOk /\ JobInv /\ task \in [Kinds -> Task] /\ worker \in [Workers -> Worker]
  BY InvParts, TypeParts, Zenon DEF TasksOk
<1>2. /\ worker[w].step = "delete" /\ "delete" \in Offboards /\ "delete" \in {"detached", "delete"}
      /\ "delete" \notin {"offboard", "unlinked"} /\ (Fault \/ NoFault) /\ UNCHANGED cli
      /\ known' = FALSE /\ row' = None /\ UNCHANGED <<schema, groups, sys, key, job, synced, mapping, registry>>
  BY Zenon DEF DeleteTenant, DeleteTenantUnanswered, Offboarding, At, Offboards, NoFault, content, outside
<1>3. /\ worker[w].kind = "tenant" /\ task["tenant"].action = "TERMINATE" /\ mapping = None
      /\ Linked = {} /\ Unmapped
  BY <1>2, Offboarded, Zenon
<1>4. Linked' = {} /\ Unmapped' /\ mapping' = None
  BY <1>2, <1>3, Zenon DEF Linked, Unmapped
<1>5. (\A k \in Primary : Gone(k)) => (\A k \in Primary : Gone(k))'
  BY <1>2, Zenon DEF Gone
<1>6. Preserves
  BY <1>2, <1>3, <1>4, <1>5, Zenon DEF Preserves
<1>7. DataOk' /\ JobInv'
  BY <1>1, <1>2, Zenon DEF DataOk, JobInv
<1>8. CountsOk'
  BY <1>1, <1>2, Counted, Zenon
<1>9. CASE DeleteTenant(w)
  <2>1. Answer(w, "done")
    BY <1>9, Zenon DEF DeleteTenant, Complete
  <2>2. TasksOk' /\ SameTasks /\ \A v \in Workers : worker'[v] = worker[v] \/ StepInv(v)'
    BY <1>1, <2>1, AnswerFacts, Zenon
  <2>3. task'["auth"].status = "done" => task["auth"].status = "done"
    BY <1>1, <1>3, <2>1, Zenon DEF Answer, Kinds
  <2>4. Ended'
    BY <1>3, <1>4, <1>6, <2>2, <2>3, DoneKept, Zenon
  <2> QED BY <1>6, <1>7, <1>8, <2>2, <2>4, Assemble, Zenon
<1>10. CASE DeleteTenantUnanswered(w)
  <2>1. worker' = [worker EXCEPT ![w] = Idle] /\ Idle \in Worker /\ UNCHANGED task
    BY <1>10, Zenon DEF DeleteTenantUnanswered, Idle, Worker, Kinds
  <2>2. TasksOk' /\ worker'[w] = Idle /\ \A v \in Workers \ {w} : worker'[v] = worker[v]
    BY <1>1, <2>1, Zenon DEF TasksOk
  <2>3. \A v \in Workers : worker'[v] = worker[v] \/ StepInv(v)'
    BY <2>2, IdleOk, Zenon
  <2>4. SameTasks /\ NothingDone
    BY <1>1, <2>1, Zenon DEF SameTasks, NothingDone
  <2> QED BY <1>6, <1>7, <1>8, <2>2, <2>3, <2>4, Assemble, Zenon
<1> QED BY <1>9, <1>10, Zenon

(* A request is delivered, for the first time or again: the worker that takes *)
(* it relies only on the task that is open.                                   *)
LEMMA ReceiveInv ==
    ASSUME TenantInv, NEW w \in Workers, NEW kind \in Kinds, Receive(w, kind)
    PROVE  TenantInv'
<1>1. TypeOK /\ Orders /\ task \in [Kinds -> Task] /\ worker \in [Workers -> Worker] /\ CountsOk
  BY InvParts, TypeParts, Zenon DEF TasksOk
<1>2. /\ worker' = [worker EXCEPT ![w] = [kind |-> kind, step |-> "start"]]
      /\ UNCHANGED database /\ UNCHANGED outside /\ UNCHANGED task /\ UNCHANGED cli /\ UNCHANGED used
      /\ task[kind].status = "open"
  BY Zenon DEF Receive, Open
<1>3. [kind |-> kind, step |-> "start"] \in Worker
  BY Zenon DEF Worker, Steps
<1>4. /\ TasksOk' /\ worker'[w].kind = kind /\ worker'[w].step = "start"
      /\ \A v \in Workers \ {w} : worker'[v] = worker[v]
  BY <1>1, <1>2, <1>3, Zenon DEF TasksOk
<1>5. kind = "auth" => task'["tenant"].action # "TERMINATE"
  BY <1>1, <1>2, Zenon DEF Orders, Open
<1>6. StepInv(w)'
  BY <1>4, <1>5, Zenon DEF StepInv, Provisions, Offboards
<1>7. SameTasks /\ NothingDone
  BY <1>1, <1>2, Zenon DEF SameTasks, NothingDone
<1>8. CountsOk'
  BY <1>1, <1>2, Zenon DEF CountsOk
<1>9. \A v \in Workers : worker'[v] = worker[v] \/ StepInv(v)'
  BY <1>4, <1>6, Zenon
<1> QED BY <1>2, <1>4, <1>7, <1>8, <1>9, Quiet, Assemble, Zenon

(* A step of the events, the users, the syncs and the command line tool that *)
(* leaves the tasks and the workers alone.                                   *)
LEMMA EventKept ==
    ASSUME TenantInv, UNCHANGED task, UNCHANGED worker, DataOk', Preserves, JobInv', CountsOk'
    PROVE  TenantInv'
<1>1. TasksOk
  BY InvParts, TypeParts, Zenon
<1>2. TasksOk' /\ SameTasks /\ NothingDone
  BY <1>1, Zenon DEF TasksOk, SameTasks, NothingDone
<1>3. \A v \in Workers : worker'[v] = worker[v] \/ StepInv(v)'
  BY Zenon
<1> QED BY <1>2, <1>3, Assemble, Zenon

(* The job of a system ends. *)
LEMMA SystemJobInv ==
    ASSUME TenantInv, NEW s \in Systems, NEW canceled \in BOOLEAN, SystemJobEnds(s, canceled)
    PROVE  TenantInv'
<1>1. TypeOK /\ DataOk /\ JobInv
  BY InvParts, TypeParts, Zenon
<1>2. /\ UNCHANGED <<row, known, schema, groups, key, job, synced, mapping, registry, task, worker, cli>>
      /\ (Fault \/ NoFault) /\ sys[s] \in {"linking", "unlinking"}
      /\ \E st \in {"failed", "connected", "free"} : sys' = [sys EXCEPT ![s] = st]
  BY Zenon DEF SystemJobEnds, outside
<1>3. PICK st \in {"failed", "connected", "free"} : sys' = [sys EXCEPT ![s] = st]
  BY <1>2, Zenon
<1>4. sys' \in [Systems -> SystemStates] /\ \A r \in Systems \ {s} : sys'[r] = sys[r]
  BY <1>1, <1>3, Zenon DEF DataOk, SystemStates
<1>5. DataOk' /\ JobInv'
  BY <1>1, <1>2, <1>4, Zenon DEF DataOk, JobInv
<1>6. Linked # {}
  BY <1>2, Zenon DEF Linked
<1>7. Unmapped => Unmapped'
  <2> SUFFICES ASSUME Unmapped, NEW r \in Systems, sys'[r] # "absent" PROVE r \notin registry'.systems
    BY Zenon DEF Unmapped
  <2>1. sys[r] # "absent"
    BY <1>2, <1>4, Zenon
  <2> QED BY <1>2, <2>1, Zenon DEF Unmapped
<1>8. (\A k \in Primary : Gone(k)) => (\A k \in Primary : Gone(k))'
  BY <1>2, Zenon DEF Gone
<1>9. Preserves
  BY <1>2, <1>6, <1>7, <1>8, Zenon DEF Preserves
<1>10. CountsOk'
  BY <1>1, <1>2, Counted, Zenon
<1> QED BY <1>2, <1>5, <1>9, <1>10, EventKept, Zenon

(* The job of a key goes on or ends. *)
LEMMA KeyJobInv ==
    ASSUME TenantInv, NEW k \in Keys, KeyDetachConfirm(k) \/ KeyDetachEnds(k)
    PROVE  TenantInv'
<1>1. DataOk /\ JobInv /\ CountsOk
  BY InvParts, TypeParts, Zenon
<1>2. /\ UNCHANGED <<row, known, schema, groups, sys, mapping, registry, task, worker, cli, used>> /\ schema
      /\ job[k] # "none"
  BY Zenon DEF KeyDetachConfirm, KeyDetachEnds, Terminate, outside
<1>3. key[k] # "absent"
  BY <1>1, <1>2, Zenon DEF JobInv
<1>4. \/ /\ job[k] = "open" /\ key[k] = "DETACHING"
         /\ job' = [job EXCEPT ![k] = "confirmed"] /\ UNCHANGED <<key, synced>>
      \/ /\ k \in synced /\ synced' = synced
         /\ key' = [key EXCEPT ![k] = "UNKNOWN"] /\ job' = [job EXCEPT ![k] = "none"]
      \/ /\ synced' = synced \ {k}
         /\ key' = [key EXCEPT ![k] = "DETACHED"] /\ job' = [job EXCEPT ![k] = "none"]
  BY <1>1, Zenon DEF KeyDetachConfirm, KeyDetachEnds, Terminate, JobInv
<1>5. /\ key' \in [Keys -> KeyStates] /\ job' \in [Keys -> {"none", "open", "confirmed"}] /\ synced' \subseteq Keys
      /\ \A j \in Keys \ {k} : key'[j] = key[j] /\ job'[j] = job[j] /\ (j \in synced' <=> j \in synced)
      /\ job'[k] # "open" /\ (job'[k] = "none" \/ key'[k] # "absent")
      /\ key'[k] \in {"absent", "DETACHED"} \/ k \in synced' \/ (key'[k] = key[k] /\ synced' = synced)
  BY <1>1, <1>3, <1>4, Zenon DEF DataOk, KeyStates
<1>6. DataOk'
  BY <1>1, <1>2, <1>5, Zenon DEF DataOk
<1>7. JobInv'
  BY <1>1, <1>2, <1>5, Zenon DEF JobInv
<1>8. Linked' = Linked /\ (Unmapped => Unmapped')
  BY <1>2, Zenon DEF Linked, Unmapped
<1>9. (\A j \in Primary : Gone(j)) => (\A j \in Primary : Gone(j))'
  <2> SUFFICES ASSUME \A j \in Primary : Gone(j), NEW j \in Primary
               PROVE  key'[j] \in {"absent", "DETACHED"} \/ j \in synced'
    BY Zenon DEF Gone
  <2>1. j \in Keys /\ (key[j] \in {"absent", "DETACHED"} \/ j \in synced)
    BY TenantAssumption, Zenon DEF Gone
  <2> QED BY <1>5, <2>1, Zenon
<1>10. Preserves
  BY <1>2, <1>8, <1>9, Zenon DEF Preserves
<1>11. CountsOk'
  BY <1>1, <1>2, Zenon DEF CountsOk
<1> QED BY <1>2, <1>6, <1>7, <1>10, <1>11, EventKept, Zenon

(* A user links a system: nobody does while the tenant is offboarded. *)
LEMMA LinkInv ==
    ASSUME TenantInv, NEW s \in Systems, LinkSystemAction(s)
    PROVE  TenantInv'
<1>1. DataOk /\ JobInv /\ CountsOk
  BY InvParts, TypeParts, Zenon
<1>2. /\ UNCHANGED <<row, known, schema, groups, job, mapping, task, worker, cli, synced>> /\ mapping # None
      /\ schema /\ used' = [used EXCEPT !.uses = @ + 1]
      /\ sys' = [sys EXCEPT ![s] = "linking"]
      /\ key' = [k \in Keys |-> IF key[k] = "absent" THEN "ENABLED" ELSE key[k]]
      /\ registry' = [registry EXCEPT !.systems = @ \cup {s}]
  BY Zenon DEF LinkSystemAction, Use
<1>3. CountsOk'
  BY <1>1, <1>2 DEF CountsOk
<1>4. /\ registry' \in [groups : BOOLEAN, systems : SUBSET Systems] /\ registry'.groups = registry.groups
  BY <1>1, <1>2, Zenon DEF DataOk
<1>5. sys' \in [Systems -> SystemStates]
  BY <1>1, <1>2, Zenon DEF DataOk, SystemStates
<1>6. \A k \in Keys : key'[k] # "absent" /\ key'[k] \in KeyStates /\ (key'[k] = key[k] \/ key[k] = "absent")
  BY <1>1, <1>2, Zenon DEF DataOk, KeyStates
<1>7. key' \in [Keys -> KeyStates]
  BY <1>2, <1>6, Zenon
<1>8. DataOk'
  BY <1>1, <1>2, <1>4, <1>5, <1>7, Zenon DEF DataOk
<1>9. JobInv'
  BY <1>1, <1>2, <1>6, Zenon DEF JobInv
<1>10. Preserves
  BY <1>2, <1>4, Zenon DEF Preserves
<1> QED BY <1>2, <1>3, <1>8, <1>9, <1>10, EventKept, Zenon

(* A sync of the tenant's keys. *)
LEMMA SyncInv ==
    ASSUME TenantInv, NEW k \in Keys, NEW state \in {"ENABLED", "UNKNOWN"}, SyncHYOKKeys(k, state)
    PROVE  TenantInv'
<1>1. DataOk /\ JobInv /\ CountsOk
  BY InvParts, TypeParts, Zenon
<1>2. /\ UNCHANGED <<row, known, schema, groups, sys, job, mapping, registry, task, worker, cli>>
      /\ schema /\ used' = [used EXCEPT !.uses = @ + 1]
      /\ key' = [key EXCEPT ![k] = state] /\ synced' = synced \cup {k}
  BY Zenon DEF SyncHYOKKeys, Use
<1>3. CountsOk'
  BY <1>1, <1>2 DEF CountsOk
<1>4. /\ key' \in [Keys -> KeyStates] /\ synced' \subseteq Keys
      /\ \A j \in Keys \ {k} : key'[j] = key[j]
      /\ key'[k] # "absent"
  BY <1>1, <1>2, Zenon DEF DataOk, KeyStates
<1>5. DataOk'
  BY <1>1, <1>2, <1>4, Zenon DEF DataOk
<1>6. JobInv'
  BY <1>1, <1>2, <1>4, Zenon DEF JobInv
<1>7. Linked' = Linked /\ (Unmapped => Unmapped')
  BY <1>2, Zenon DEF Linked, Unmapped
<1>8. (\A j \in Primary : Gone(j)) => (\A j \in Primary : Gone(j))'
  <2> SUFFICES ASSUME \A j \in Primary : Gone(j), NEW j \in Primary
               PROVE  key'[j] \in {"absent", "DETACHED"} \/ j \in synced'
    BY Zenon DEF Gone
  <2>1. j \in Keys /\ (key[j] \in {"absent", "DETACHED"} \/ j \in synced)
    BY TenantAssumption, Zenon DEF Gone
  <2> QED BY <1>2, <1>4, <2>1, Zenon
<1>9. Preserves
  BY <1>2, <1>7, <1>8, Zenon DEF Preserves
<1> QED BY <1>2, <1>3, <1>5, <1>6, <1>9, EventKept, Zenon

(* The command line tool creates a tenant. *)
LEMMA CreateCmdInv ==
    ASSUME TenantInv, NewCreateTenantCmd
    PROVE  TenantInv'
<1>1. CountsOk
  BY InvParts, TypeParts, Zenon
<1>2. UNCHANGED outside /\ UNCHANGED task /\ UNCHANGED worker
  BY Zenon DEF NewCreateTenantCmd
<1>3. CountsOk'
  <2>1. /\ cli' = "groups" \/ cli' = "idle"
        /\ used' = [used EXCEPT !.tasks = @ + 1] \/ used' = used
    BY Zenon DEF NewCreateTenantCmd, NoFault
  <2> QED BY <1>1, <2>1 DEF CountsOk
<1>4. \/ CreateTenant(FALSE)
      \/ IF known /\ schema THEN CreateDefaultGroups ELSE UNCHANGED database
  BY Zenon DEF NewCreateTenantCmd
<1>5. DataOk' /\ Preserves /\ JobInv'
  BY <1>2, <1>4, CreateTenantData, DefaultGroupsData, Zenon
<1> QED BY <1>2, <1>3, <1>5, EventKept, Zenon

(* A step taken while every worker is idle, of the registry or of the command *)
(* line tool: no step of a handler relies on what it changes.                 *)
LEMMA AllIdle ==
    ASSUME \A w \in Workers : ~Busy(w), UNCHANGED worker
    PROVE  StepsOk'
<1> SUFFICES ASSUME NEW w \in Workers PROVE StepInv(w)'
  BY Zenon DEF StepsOk
<1>1. worker'[w].step = "idle"
  BY Zenon DEF Busy
<1> QED BY <1>1, Zenon DEF StepInv, Provisions, Offboards

(* What the registry's new task is. *)
LEMMA NewTaskFacts ==
    ASSUME TenantInv, NEW kind \in Kinds, NEW action \in TenantActions \cup AuthActions,
           NEW issuer \in Issuers \cup {None}, NewTask(kind, action, issuer)
    PROVE  /\ TypeOK' /\ StepsOk' /\ JobInv'
           /\ UNCHANGED <<row, known, schema, groups, mapping, registry>>
           /\ task'[kind].action = action /\ task'[kind].issuer = issuer
           /\ kind = "tenant" => /\ task'["tenant"].status = "open"
                                 /\ task'["auth"].action = task["auth"].action
                                 /\ task'["auth"].issuer = task["auth"].issuer
                                 /\ action = "PROVISION" => task'["auth"].status = "none"
                                 /\ action # "PROVISION" => task'["auth"].status = task["auth"].status
           /\ kind = "auth" => /\ task'["tenant"] = task["tenant"]
                               /\ action # "PROVISION" => task'["auth"].status = "open"
<1>1. DataOk /\ JobInv /\ CountsOk /\ task \in [Kinds -> Task] /\ worker \in [Workers -> Worker]
  BY InvParts, TypeParts, Zenon DEF TasksOk
<1>2. /\ UNCHANGED database /\ UNCHANGED outside /\ UNCHANGED worker /\ UNCHANGED cli
      /\ used' = [used EXCEPT !.tasks = @ + 1] /\ \A w \in Workers : ~Busy(w)
  BY Zenon DEF NewTask
<1>3. task' = [task EXCEPT ![kind] = [action |-> action, issuer |-> issuer, status |-> "open"],
                           !["auth"].status = IF action = "PROVISION" THEN "none" ELSE @]
  BY Zenon DEF NewTask
<1>4. task' \in [Kinds -> Task]
  BY <1>1, <1>3, Zenon DEF Kinds, Task
<1>5. /\ task'[kind].action = action /\ task'[kind].issuer = issuer
      /\ kind = "tenant" => /\ task'["tenant"].status = "open"
                            /\ task'["auth"].action = task["auth"].action
                            /\ task'["auth"].issuer = task["auth"].issuer
                            /\ action = "PROVISION" => task'["auth"].status = "none"
                            /\ action # "PROVISION" => task'["auth"].status = task["auth"].status
      /\ kind = "auth" => /\ task'["tenant"] = task["tenant"]
                          /\ action # "PROVISION" => task'["auth"].status = "open"
  BY <1>1, <1>3 DEF Kinds, Task
<1>6. TasksOk' /\ CountsOk'
  BY <1>1, <1>2, <1>4 DEF TasksOk, CountsOk
<1>7. DataOk' /\ JobInv'
  BY <1>2, Quiet, Zenon
<1>8. TypeOK'
  BY <1>6, <1>7, TypeParts, PTL
<1>9. StepsOk'
  BY <1>2, AllIdle, Zenon
<1>10. UNCHANGED <<row, known, schema, groups, mapping, registry>>
  BY <1>2, Zenon DEF database, content, outside
<1> QED BY <1>5, <1>7, <1>8, <1>9, <1>10, Zenon

(* A tenant's task comes in the registry's order, so that what the last one *)
(* left is still true.                                                      *)
LEMMA TenantTaskInv ==
    ASSUME TenantInv, NEW action \in TenantActions, RequestTenantTask(action)
    PROVE  TenantInv'
<1>1. Ended /\ Orders
  BY InvParts, Zenon
<1>2. "tenant" \in Kinds /\ action \in TenantActions \cup AuthActions /\ None \in Issuers \cup {None}
  BY Zenon DEF Kinds
<1>3. NewTask("tenant", action, None)
  BY Zenon DEF RequestTenantTask
<1>4. /\ TypeOK' /\ StepsOk' /\ JobInv'
      /\ UNCHANGED <<row, known, schema, groups, mapping, registry>>
      /\ task'["tenant"].action = action /\ task'["tenant"].status = "open"
      /\ task'["auth"].action = task["auth"].action /\ task'["auth"].issuer = task["auth"].issuer
      /\ action = "PROVISION" => task'["auth"].status = "none"
      /\ action # "PROVISION" => task'["auth"].status = task["auth"].status
  BY <1>2, <1>3, NewTaskFacts, Zenon
<1>5. /\ action = "TERMINATE" => ~Open("auth")
      /\ action \notin {"PROVISION", "TERMINATE"} => task["tenant"].action # "TERMINATE"
  BY Zenon DEF RequestTenantTask
<1>6. Orders'
  BY <1>1, <1>4, <1>5, Zenon DEF Orders, Open
<1>7. Ended'
  <2>1. ~Completed("PROVISION")' /\ ~Completed("TERMINATE")'
    BY <1>1, <1>4, Zenon DEF Completed, Kinds, Orders, AuthActions
  <2>2. Completed("APPLY_AUTH")' => action # "PROVISION" /\ Completed("APPLY_AUTH")
    BY <1>4, Zenon DEF Completed, Kinds, TenantActions
  <2>3. Completed("APPLY_AUTH")' /\ task'["tenant"].action # "TERMINATE" =>
           row' = task'["auth"].issuer /\ mapping' = row'
    BY <1>1, <1>4, <1>5, <2>2, Zenon DEF Ended
  <2> QED BY <2>1, <2>3, Zenon DEF Ended
<1> QED BY <1>4, <1>6, <1>7, InvParts, PTL

(* The task of the authentication. *)
LEMMA AuthTaskInv ==
    ASSUME TenantInv, NEW action \in AuthActions, NEW issuer \in Issuers \cup {None},
           RequestAuthTask(action, issuer)
    PROVE  TenantInv'
<1>1. Ended /\ Orders
  BY InvParts, Zenon
<1>2. "auth" \in Kinds /\ action \in TenantActions \cup AuthActions /\ action # "PROVISION" /\ "auth" # "tenant"
  BY Zenon DEF Kinds, AuthActions
<1>3. NewTask("auth", action, issuer) /\ task["tenant"].action # "TERMINATE"
  BY Zenon DEF RequestAuthTask
<1>4. /\ TypeOK' /\ StepsOk' /\ JobInv'
      /\ UNCHANGED <<row, known, schema, groups, mapping, registry>>
      /\ task'["auth"].action = action /\ task'["auth"].status = "open" /\ task'["tenant"] = task["tenant"]
  BY <1>2, <1>3, NewTaskFacts, Zenon
<1>5. Orders'
  BY <1>1, <1>3, <1>4, Zenon DEF Orders, Open
<1>6. Ended'
  <2>1. ~Completed("APPLY_AUTH")' /\ ~Completed("TERMINATE")'
    BY <1>1, <1>3, <1>4, Zenon DEF Completed, Kinds, Orders, TenantActions
  <2>2. Completed("PROVISION")' => Completed("PROVISION")
    BY <1>4, Zenon DEF Completed, Kinds
  <2> QED BY <1>1, <1>4, <2>1, <2>2, Zenon DEF Ended
<1> QED BY <1>4, <1>5, <1>6, InvParts, PTL

(* The command line tool deletes a tenant that the registry has no task for. *)
LEMMA DeleteCmdInv ==
    ASSUME TenantInv, NewDeleteTenantCmd
    PROVE  TenantInv'
<1>1. DataOk /\ JobInv /\ CountsOk /\ task \in [Kinds -> Task] /\ worker \in [Workers -> Worker] /\ Orders
  BY InvParts, TypeParts, Zenon DEF TasksOk
<1>2. /\ \A w \in Workers : ~Busy(w)
      /\ task' = [task EXCEPT !["tenant"] = [action |-> "TERMINATE", issuer |-> None, status |-> "none"],
                              !["auth"].status = "none"]
      /\ UNCHANGED <<synced, mapping, registry, worker>>
  BY Zenon DEF NewDeleteTenantCmd, outside
<1>3. \/ /\ schema' = FALSE /\ groups' = FALSE
         /\ sys' = [s \in Systems |-> "absent"] /\ key' = [k \in Keys |-> "absent"]
         /\ job' = [k \in Keys |-> "none"] /\ cli' = "row" /\ used' = [used EXCEPT !.tasks = @ + 1]
         /\ UNCHANGED <<row, known>>
      \/ /\ known' = FALSE /\ row' = None /\ cli' = "idle" /\ used' = used
         /\ UNCHANGED <<schema, groups, sys, key, job>>
  BY Zenon DEF NewDeleteTenantCmd, NoFault
<1>4. CountsOk'
  BY <1>1, <1>3 DEF CountsOk
<1>5. DataOk' /\ JobInv'
  <2>1. CASE /\ schema' = FALSE /\ groups' = FALSE
             /\ sys' = [s \in Systems |-> "absent"] /\ key' = [k \in Keys |-> "absent"]
             /\ job' = [k \in Keys |-> "none"] /\ UNCHANGED <<row, known>>
    <3>1. /\ sys' \in [Systems -> SystemStates] /\ key' \in [Keys -> KeyStates]
          /\ job' \in [Keys -> {"none", "open", "confirmed"}] /\ \A k \in Keys : job'[k] = "none"
      BY <2>1, Zenon DEF SystemStates, KeyStates
    <3>2. DataOk'
      BY <1>1, <1>2, <2>1, <3>1, Zenon DEF DataOk
    <3> QED BY <3>1, <3>2, Zenon DEF JobInv
  <2>2. CASE known' = FALSE /\ row' = None /\ UNCHANGED <<schema, groups, sys, key, job>>
    BY <1>1, <1>2, <2>2, Zenon DEF DataOk, JobInv
  <2> QED BY <1>3, <2>1, <2>2, Zenon
<1>6. task' \in [Kinds -> Task]
  BY <1>1, <1>2, Zenon DEF Kinds, Task, TenantActions
<1>7. /\ task'["tenant"].status = "none" /\ task'["auth"].status = "none"
      /\ task'["tenant"].action = "TERMINATE" /\ task'["auth"].action = task["auth"].action
  BY <1>1, <1>2, Zenon DEF Kinds, Task
<1>8. TypeOK'
  <2>1. TasksOk'
    BY <1>1, <1>2, <1>6, Zenon DEF TasksOk
  <2> QED BY <1>4, <1>5, <2>1, TypeParts, PTL
<1>9. StepsOk'
  BY <1>2, AllIdle, Zenon
<1>10. Orders'
  BY <1>1, <1>7, Zenon DEF Orders, Open, TenantActions
<1>11. \A action : ~Completed(action)'
  BY <1>7, Zenon DEF Completed, Kinds
<1>12. Ended'
  BY <1>11, Zenon DEF Ended
<1> QED BY <1>5, <1>8, <1>9, <1>10, <1>12, InvParts, PTL

(* Every step of the tenant's life keeps the invariant. *)
LEMMA NextInv ==
    ASSUME TenantInv, [Next]_vars
    PROVE  TenantInv'
<1>1. CASE UNCHANGED vars
  <2>1. UNCHANGED database /\ UNCHANGED outside /\ UNCHANGED task /\ UNCHANGED worker /\ UNCHANGED cli /\ NoFault
    BY <1>1, Zenon DEF vars, database, content, outside, NoFault
  <2>2. TypeOK
    BY InvParts, Zenon
  <2> QED BY <2>1, <2>2, Quiet, Counted, EventKept, Zenon
<1>2. CASE Registry
  BY <1>2, TenantTaskInv, AuthTaskInv, Zenon DEF Registry
<1>3. CASE \E w \in Workers, kind \in Kinds : Receive(w, kind)
  BY <1>3, ReceiveInv, Zenon
<1>4. ASSUME NEW w \in Workers, Handle(w) PROVE TenantInv'
  <2>1. CASE \/ handleCreateTenant(w) \/ createTenantSchema(w) \/ createTenantGroups(w)
             \/ finalizeTenantProvisioning(w)
    BY <2>1, ProvisionInv, Zenon
  <2>2. CASE applyOIDC(w) \/ handleApplyTenantAuth(w) \/ handleRemoveTenantAuth(w)
    BY <2>2, AuthInv, Zenon
  <2>3. CASE handleBlockTenant(w)
    BY <2>3, BlockInv, Zenon
  <2>4. CASE handleTerminateTenant(w)
    BY <2>4, TerminateInv, Zenon
  <2>5. CASE OffboardGone(w)
    BY <2>5, RefusedInv, Zenon
  <2>6. CASE sendUnlinkForConnectedSystems(w)
    BY <2>6, UnlinkInv, Zenon
  <2>7. CASE checkAllSystemsUnlinked(w) \/ checkAllPrimaryKeysProcessed(w) \/ checkAllPrimaryKeysDetached(w)
    BY <2>7, WaitInv, Zenon
  <2>8. CASE detachPrimaryKeys(w)
    BY <2>8, DetachInv, Zenon
  <2>9. CASE unmapAllSystemsFromRegistry(w)
    BY <2>9, UnmapInv, Zenon
  <2>10. CASE DeleteTenant(w)
    BY <2>10, DeleteTenantInv, Zenon
  <2> QED BY <1>4, <2>1, <2>2, <2>3, <2>4, <2>5, <2>6, <2>7, <2>8, <2>9, <2>10, Zenon DEF Handle
<1>5. ASSUME NEW w \in Workers, Disturb(w) PROVE TenantInv'
  BY <1>5, CrashInv, RefusedInv, DeleteTenantInv, Zenon DEF Disturb
<1>6. CASE Events
  BY <1>6, SystemJobInv, KeyJobInv, Zenon DEF Events
<1>7. CASE \E s \in Systems : LinkSystemAction(s)
  BY <1>7, LinkInv, Zenon
<1>8. CASE \E k \in Keys, state \in {"ENABLED", "UNKNOWN"} : SyncHYOKKeys(k, state)
  BY <1>8, SyncInv, Zenon
<1>9. CASE NewCreateTenantCmd \/ NewDeleteTenantCmd
  BY <1>9, CreateCmdInv, DeleteCmdInv, Zenon
<1> QED BY <1>1, <1>2, <1>3, <1>4, <1>5, <1>6, <1>7, <1>8, <1>9, Zenon DEF Next

(* Before the first task there is no tenant and nothing is claimed of it. *)
LEMMA InitInv == Init => TenantInv
<1> SUFFICES ASSUME Init PROVE TenantInv
  BY Zenon
<1>1. DataOk
  BY Zenon DEF Init, DataOk, SystemStates, KeyStates
<1>2. CountsOk
  BY Zenon DEF Init, CountsOk
<1>3. task \in [Kinds -> Task] /\ \A kind \in Kinds : task[kind].status = "none"
  BY Zenon DEF Init, NoTask, Kinds, Task, TenantActions, AuthActions
<1>4. worker \in [Workers -> Worker] /\ \A w \in Workers : worker[w].step = "idle"
  BY Zenon DEF Init, Idle, Worker, Kinds
<1>5. TypeOK
  BY <1>1, <1>2, <1>3, <1>4, TypeParts, Zenon DEF TasksOk
<1>6. \A action : ~Completed(action)
  BY <1>3, Zenon DEF Completed
<1>7. Ended
  BY <1>6, Zenon DEF Ended
<1>8. Orders
  BY Zenon DEF Init, NoTask, Kinds, Orders, Open, TenantActions, AuthActions
<1>9. StepsOk
  BY <1>4, Zenon DEF StepsOk, StepInv, Provisions, Offboards
<1>10. JobInv
  BY Zenon DEF Init, JobInv
<1> QED BY <1>5, <1>7, <1>8, <1>9, <1>10, InvParts, Zenon

(* The inductive invariant holds of every behaviour: a worker's step tells    *)
(* which task it works for, and what an earlier step found or made is still   *)
(* so, however often the request was delivered and whoever else works on it.  *)
THEOREM TenantInvariance == Spec => []TenantInv
BY InitInv, NextInv, PTL DEF Spec

(* What the operator tells the registry is true: a provisioned tenant is      *)
(* complete, an applied issuer is in the row and in the session manager's     *)
(* mapping, and a terminated tenant has no linked system, no system in the    *)
(* registry and no login.                                                     *)
THEOREM CompletedIsTrueHolds == Spec => []CompletedIsTrue
<1>1. TenantInv => CompletedIsTrue
  BY Zenon DEF TenantInv
<1> QED BY <1>1, TenantInvariance, PTL

(* The operator removes a tenant's row only when its systems are unlinked and *)
(* its primary keys were seen detached.                                       *)
THEOREM DeletesOnlyOffboardedHolds == Spec => DeletesOnlyOffboarded
<1>1. ASSUME TenantInv, [Next]_vars
      PROVE  [(\E w \in Workers : DeleteTenant(w) \/ DeleteTenantUnanswered(w)) =>
                 /\ Linked = {}
                 /\ \A k \in Primary : key[k] \in {"absent", "DETACHED"} \/ k \in synced]_vars
  <2> SUFFICES ASSUME NEW w \in Workers, DeleteTenant(w) \/ DeleteTenantUnanswered(w)
               PROVE  /\ Linked = {}
                      /\ \A k \in Primary : key[k] \in {"absent", "DETACHED"} \/ k \in synced
    BY Zenon
  <2>1. worker[w].step = "delete" /\ "delete" \in Offboards /\ "delete" \notin {"offboard", "unlinked"}
    BY Zenon DEF DeleteTenant, DeleteTenantUnanswered, Offboarding, At, Offboards
  <2> QED BY <1>1, <2>1, Offboarded, Zenon DEF Gone
<1> QED BY <1>1, TenantInvariance, PTL DEF Spec, DeletesOnlyOffboarded
=============================================================================
