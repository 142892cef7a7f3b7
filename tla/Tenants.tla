------------------------------ MODULE Tenants ------------------------------
(***************************************************************************)
(* The life of one tenant: the tenant operator (internal/operator), the    *)
(* tenant manager (internal/manager/tenant.go), the migrator, the command  *)
(* line tool, and what they change in the registry and in the session      *)
(* manager.  The registry hands out tasks, of the tenant and of its        *)
(* authentication; a request may be delivered again at any time, also      *)
(* while it is being handled, and a handler may crash between two steps.   *)
(***************************************************************************)
EXTENDS Integers, FiniteSets

CONSTANTS
    Workers,      \* handlers of the operator's processes
    Systems,
    Keys,
    Primary,      \* the keys whose configuration has a primary key
    Issuers,
    None,
    CommandLine,  \* the command line tool is used
    MaxTasks,     \* bound: tasks of the registry
    MaxFaults,    \* bound: failed calls and crashes
    MaxUses       \* bound: links by users and syncs of keys

ASSUME TenantAssumption ==
    /\ Primary \subseteq Keys /\ None \notin Issuers
    /\ CommandLine \in BOOLEAN
    /\ MaxTasks \in Nat /\ MaxFaults \in Nat /\ MaxUses \in Nat

VARIABLES
    row,        \* the tenant's row in the public schema: its issuer, or None
    known,      \* there is such a row
    schema,     \* the tenant's schema exists
    groups,     \* the default groups are in it
    sys,        \* each system in it
    key,        \* the state of each key
    job,        \* the KEY_DETACH job of each key
    mapping,    \* the session manager's mapping: its issuer, or None
    registry,   \* what the registry has: the groups, the systems of the tenant
    task,       \* the last task of each kind
    worker,     \* what each worker is doing
    cli,        \* the step of the command line tool
    synced,     \* history: the keys whose state a sync wrote since they were last detached
    used        \* bounds: tasks, faults and uses so far

vars == <<row, known, schema, groups, sys, key, job, mapping, registry, task, worker, cli, synced, used>>
content == <<groups, sys, key, job, synced>>
database == <<row, known, schema, content>>
outside == <<mapping, registry>>

Kinds == {"tenant", "auth"}
TenantActions == {"PROVISION", "BLOCK", "UNBLOCK", "TERMINATE"}
AuthActions == {"APPLY_AUTH", "REMOVE_AUTH"}
SystemStates == {"absent", "free", "linking", "connected", "failed", "unlinking"}
KeyStates == {"absent", "ENABLED", "UNKNOWN", "DETACHING", "DETACHED"}
Steps == {"start", "create", "groups", "finish", "offboard", "unlinked", "detach", "processed",
          "unmap", "detached", "delete", "commit"}

Idle == [kind |-> "tenant", step |-> "idle"]
Busy(w) == worker[w].step # "idle"
At(w, step) == worker[w].step = step
Open(kind) == task[kind].status = "open"
TaskOf(w) == task[worker[w].kind]
Linked == {s \in Systems : sys[s] \in {"linking", "connected", "failed", "unlinking"}}

Go(w, step) == worker' = [worker EXCEPT ![w].step = step]

\* A call fails, or a process dies: the bound on failures.
Fault ==
    /\ used.faults < MaxFaults
    /\ used' = [used EXCEPT !.faults = @ + 1]

NoFault == UNCHANGED used

---------------------------------------------------------------------------
(* The registry and its tasks                                              *)

NewTask(kind, action, issuer) ==
    /\ used.tasks < MaxTasks
    /\ \A w \in Workers : ~Busy(w)
    /\ task' = [task EXCEPT ![kind] = [action |-> action, issuer |-> issuer, status |-> "open"],
                            !["auth"].status = IF action = "PROVISION" THEN "none" ELSE @]
    /\ used' = [used EXCEPT !.tasks = @ + 1]
    /\ UNCHANGED <<database, outside, worker, cli>>

\* The order the registry keeps: a tenant is provisioned when it is not there,
\* and only then blocked, unblocked or terminated; while it is terminated
\* nothing is done to its authentication.
RequestTenantTask(action) ==
    /\ ~Open("tenant")
    /\ LET last == task["tenant"] IN
       CASE action = "PROVISION" -> last.action = "TERMINATE" /\ last.status # "failed"
         [] action = "TERMINATE" -> last.action # "TERMINATE" \/ last.status = "failed"
         [] OTHER -> last.action # "TERMINATE"
    /\ action = "TERMINATE" => ~Open("auth")
    /\ NewTask("tenant", action, None)

RequestAuthTask(action, issuer) ==
    /\ ~Open("auth")
    /\ task["tenant"].action # "TERMINATE"
    /\ action = "REMOVE_AUTH" => issuer = None
    /\ action = "APPLY_AUTH" => issuer # None
    /\ NewTask("auth", action, issuer)

Receive(w, kind) ==
    /\ ~Busy(w) /\ Open(kind)
    /\ worker' = [worker EXCEPT ![w] = [kind |-> kind, step |-> "start"]]
    /\ UNCHANGED <<database, outside, task, cli, used>>

\* The answer of a handler; one that comes after the task was closed is ignored.
Answer(w, status) ==
    /\ worker' = [worker EXCEPT ![w] = Idle]
    /\ task' = IF TaskOf(w).status = "open"
                 THEN [task EXCEPT ![worker[w].kind].status = status] ELSE task

Complete(w) == Answer(w, "done")
setErrorStateAndFail(w) == Answer(w, "failed")
setErrorStateAndContinue(w) == Answer(w, "open")

\* Only a validation error is irrecoverable.
setErrorState(w, irrecoverable) ==
    IF irrecoverable THEN setErrorStateAndFail(w) ELSE setErrorStateAndContinue(w)

\* A crash, a lost answer, or the panic of finalizeTenantProvisioning when the
\* registry answers without success: setWorkingState reads a nil error.
Crash(w) ==
    /\ Busy(w) /\ Fault
    /\ worker' = [worker EXCEPT ![w] = Idle]
    /\ UNCHANGED <<database, outside, task, cli>>

\* Any call to the database or to a service may fail without an effect; every
\* handler then answers that it wants to be called again.
Fail(w) ==
    /\ Busy(w) /\ ~At(w, "start") /\ Fault
    /\ setErrorStateAndContinue(w)
    /\ UNCHANGED <<database, outside, cli>>

---------------------------------------------------------------------------
(* PROVISION_TENANT                                                        *)

\* schemaExists asks for the row, groupExists reads the schema; a row without
\* a schema makes the second one fail.
schemaExists == known
checkTenantGroupsExistenceStatus == groups

\* The probe gives an answer.
Check == schemaExists => schema

isProvisioningComplete == schemaExists /\ checkTenantGroupsExistenceStatus

MutantCreateTenant(w) ==
    /\ worker[w].kind = "tenant" /\ At(w, "start") /\ TaskOf(w).action = "PROVISION"
    /\ IF ~Check \/ (schemaExists /\ ~isProvisioningComplete) THEN setErrorStateAndContinue(w)
       ELSE /\ Go(w, IF isProvisioningComplete THEN "finish" ELSE "create")
            /\ UNCHANGED task
    /\ UNCHANGED <<database, outside, cli, used>>

handleCreateTenant(w) ==
    /\ worker[w].kind = "tenant" /\ At(w, "start") /\ TaskOf(w).action = "PROVISION"
    /\ IF ~Check THEN setErrorStateAndContinue(w)
       ELSE /\ Go(w, IF isProvisioningComplete THEN "finish"
                     ELSE IF ~schemaExists THEN "create" ELSE "groups")
            /\ UNCHANGED task
    /\ UNCHANGED <<database, outside, cli, used>>

\* unmarshalTenantData: task data or a tenant ID that cannot be encoded.
unmarshalTenantData(w) ==
    /\ worker[w].kind = "tenant" /\ At(w, "start") /\ TaskOf(w).action = "PROVISION"
    /\ ~known /\ Fault
    /\ setErrorStateAndFail(w)
    /\ UNCHANGED <<database, outside, cli>>

\* CREATE SCHEMA IF NOT EXISTS and the migrations run on a connection of their
\* own: what a schema of that name holds stays, and so does the schema when
\* the transaction of CreateTenant fails.
runMigration ==
    /\ schema' = TRUE
    /\ IF schema THEN UNCHANGED <<sys, key>>
       ELSE /\ sys' = [s \in Systems |-> "absent"]
            /\ key' = [k \in Keys |-> "absent"]
    /\ UNCHANGED <<groups, job, synced>>

\* CreateTenant: a row with that ID is ErrOnboardingInProgress, which the
\* operator and the command line tool take for success.
CreateTenant(failed) ==
    IF known THEN ~failed /\ UNCHANGED database
    ELSE /\ runMigration
         /\ known' = ~failed
         /\ UNCHANGED row

\* A status or role that does not validate is irrecoverable.
createTenantSchema(w) ==
    /\ At(w, "create")
    /\ \/ CreateTenant(FALSE) /\ NoFault /\ Go(w, "groups") /\ UNCHANGED task
       \/ CreateTenant(TRUE) /\ Fault /\ setErrorState(w, FALSE)
       \/ Fault /\ setErrorState(w, TRUE) /\ UNCHANGED database
    /\ UNCHANGED <<outside, cli>>

\* CreateDefaultGroups: both groups in one transaction; groups that exist are
\* ErrOnboardingInProgress.  AuthzRepo refuses a tenant without a row.
CreateDefaultGroups ==
    /\ groups' = TRUE
    /\ UNCHANGED <<row, known, schema, sys, key, job, synced>>

createTenantGroups(w) ==
    /\ At(w, "groups")
    /\ IF known /\ schema THEN CreateDefaultGroups ELSE UNCHANGED database
    /\ setErrorStateAndContinue(w)
    /\ UNCHANGED <<outside, cli, used>>

sendTenantUserGroupsToRegistry == registry' = [registry EXCEPT !.groups = TRUE]

finalizeTenantProvisioning(w) ==
    /\ At(w, "finish")
    /\ \/ sendTenantUserGroupsToRegistry /\ Complete(w) /\ NoFault
       \/ sendTenantUserGroupsToRegistry /\ setErrorStateAndContinue(w) /\ Fault
    /\ UNCHANGED <<database, mapping, cli>>

---------------------------------------------------------------------------
(* APPLY_AUTH, REMOVE_AUTH, BLOCK_TENANT and UNBLOCK_TENANT                *)

\* extractOIDCConfig: properties without an issuer.
extractOIDCConfig(w) ==
    /\ worker[w].kind = "auth" /\ At(w, "start") /\ TaskOf(w).action = "APPLY_AUTH"
    /\ Fault
    /\ setErrorStateAndFail(w)
    /\ UNCHANGED <<database, outside, cli>>

MutantApplyOIDC(w) ==
    /\ worker[w].kind = "auth" /\ At(w, "start") /\ TaskOf(w).action = "APPLY_AUTH"
    /\ IF ~known THEN setErrorStateAndFail(w) /\ UNCHANGED <<mapping, used>>
       ELSE \/ /\ mapping' = TaskOf(w).issuer
               /\ NoFault /\ Go(w, "commit") /\ UNCHANGED task
            \/ /\ Fault /\ Complete(w)
               /\ UNCHANGED mapping
    /\ UNCHANGED <<database, registry, cli>>

\* applyOIDC, first part: the issuer is written in a transaction, in which the
\* session manager is called.  A tenant without a row and an answer without
\* success end the task.  An error of the call, which may have had its effect,
\* does not.
applyOIDC(w) ==
    /\ worker[w].kind = "auth" /\ At(w, "start") /\ TaskOf(w).action = "APPLY_AUTH"
    /\ IF ~known THEN setErrorStateAndFail(w) /\ UNCHANGED <<mapping, used>>
       ELSE \/ /\ mapping' = TaskOf(w).issuer
               /\ NoFault /\ Go(w, "commit") /\ UNCHANGED task
            \/ /\ mapping' \in {mapping, TaskOf(w).issuer}
               /\ Fault /\ setErrorStateAndContinue(w)
            \/ /\ Fault /\ setErrorStateAndFail(w)
               /\ UNCHANGED mapping
    /\ UNCHANGED <<database, registry, cli>>

\* Its end: the transaction is committed.
handleApplyTenantAuth(w) ==
    /\ At(w, "commit")
    /\ row' = TaskOf(w).issuer
    /\ Complete(w)
    /\ UNCHANGED <<known, schema, content, outside, cli, used>>

\* removeOIDCMapping: an answer without success ends the task, and so does an
\* error with the code Internal, whose answer is nil; any other error has the
\* handler called again.
removeOIDCMapping(w, next) ==
    \/ /\ mapping' = None
       /\ NoFault /\ next
    \/ /\ mapping' \in {mapping, None}
       /\ Fault
       /\ setErrorStateAndContinue(w) \/ setErrorStateAndFail(w)

handleRemoveTenantAuth(w) ==
    /\ worker[w].kind = "auth" /\ At(w, "start") /\ TaskOf(w).action = "REMOVE_AUTH"
    /\ removeOIDCMapping(w, Complete(w))
    /\ UNCHANGED <<database, registry, cli>>

\* handleBlockTenant and handleUnblockTenant: one call of the session manager,
\* whose blocking is not modelled.
handleBlockTenant(w) ==
    /\ worker[w].kind = "tenant" /\ At(w, "start") /\ TaskOf(w).action \in {"BLOCK", "UNBLOCK"}
    /\ \/ NoFault /\ Complete(w)
       \/ Fault /\ (setErrorStateAndContinue(w) \/ setErrorStateAndFail(w))
    /\ UNCHANGED <<database, outside, cli>>

---------------------------------------------------------------------------
(* TERMINATE_TENANT                                                        *)

\* The mapping is removed before anything else, so that no user can log in.
handleTerminateTenant(w) ==
    /\ worker[w].kind = "tenant" /\ At(w, "start") /\ TaskOf(w).action = "TERMINATE"
    /\ removeOIDCMapping(w, Go(w, "offboard") /\ UNCHANGED task)
    /\ UNCHANGED <<database, registry, cli>>

\* The task is older than the termination timeout.
TerminationTimeout(w) ==
    /\ worker[w].kind = "tenant" /\ At(w, "start") /\ TaskOf(w).action = "TERMINATE"
    /\ Fault
    /\ setErrorStateAndFail(w)
    /\ UNCHANGED <<database, outside, cli>>

\* Every step of the offboarding reads the tenant through AuthzRepo.
Offboarding(w, step) == At(w, step) /\ known /\ schema

\* The tenant is gone: another delivery of the request removed it.
OffboardGone(w) ==
    /\ worker[w].step \in {"offboard", "unlinked", "detach", "processed", "unmap", "detached",
                           "delete"}
    /\ ~(known /\ schema)
    /\ setErrorStateAndContinue(w)
    /\ UNCHANGED <<database, outside, cli, used>>

MutantUnlink(w) ==
    /\ Offboarding(w, "offboard")
    /\ sys' = [s \in Systems |-> IF sys[s] = "connected" THEN "unlinking" ELSE sys[s]]
    /\ NoFault /\ Go(w, "unlinked") /\ UNCHANGED task
    /\ UNCHANGED <<row, known, schema, groups, key, job, synced, outside, cli>>

\* UnlinkSystemAction for each system that is linked and not processing; the
\* first error ends the batch.
sendUnlinkForConnectedSystems(w) ==
    /\ Offboarding(w, "offboard")
    /\ LET batch == {s \in Systems : sys[s] \in {"connected", "failed"}} IN
       \E done \in SUBSET batch :
          /\ sys' = [s \in Systems |-> IF s \in done THEN "unlinking" ELSE sys[s]]
          /\ IF done = batch THEN NoFault /\ Go(w, "unlinked") /\ UNCHANGED task
                             ELSE Fault /\ setErrorStateAndContinue(w)
    /\ UNCHANGED <<row, known, schema, groups, key, job, synced, outside, cli>>

\* A count over the tenant's rows lets the offboarding go on, or the handler
\* answers OffboardingContinueAndWait.
Wait(w, step, passed, next) ==
    /\ Offboarding(w, step)
    /\ IF passed THEN Go(w, next) /\ UNCHANGED task ELSE setErrorStateAndContinue(w)
    /\ UNCHANGED <<database, outside, cli, used>>

checkAllSystemsUnlinked(w) == Wait(w, "unlinked", Linked = {}, "detach")

\* Keys of a configuration with a primary key, in any state but these two.
checkKeyDetatchingQuery == {k \in Primary : key[k] \notin {"absent", "DETACHING", "DETACHED"}}

\* KeyManager.Detach for each of them: an open KEY_DETACH job is kept.
Detach(ks) ==
    /\ key' = [k \in Keys |-> IF k \in ks THEN "DETACHING" ELSE key[k]]
    /\ job' = [k \in Keys |-> IF k \in ks /\ job[k] = "none" THEN "open" ELSE job[k]]

detachPrimaryKeys(w) ==
    /\ Offboarding(w, "detach")
    /\ \E done \in SUBSET checkKeyDetatchingQuery :
          /\ Detach(done)
          /\ IF done = checkKeyDetatchingQuery
               THEN NoFault /\ Go(w, "processed") /\ UNCHANGED task
               ELSE Fault /\ setErrorStateAndContinue(w)
    /\ UNCHANGED <<row, known, schema, groups, sys, synced, outside, cli>>

checkAllPrimaryKeysProcessed(w) == Wait(w, "processed", checkKeyDetatchingQuery = {}, "unmap")

\* The worst answer for one of the systems is that of the batch: one that
\* cannot be retried ends the task, and the others are asked for all the same.
escalateOffboardingStatus(statuses) ==
    IF "OffboardingFailed" \in statuses THEN "OffboardingFailed"
    ELSE IF "OffboardingContinueAndWait" \in statuses THEN "OffboardingContinueAndWait"
    ELSE "OffboardingGoToNextStep"

\* A system the registry no longer maps is not an error.
unmapSystemErrorCanContinue ==
    {"OffboardingFailed", "OffboardingContinueAndWait", "OffboardingGoToNextStep"}

unmapAllSystemsFromRegistry(w) ==
    /\ Offboarding(w, "unmap")
    /\ \E status \in [{s \in Systems : sys[s] # "absent"} -> unmapSystemErrorCanContinue] :
         LET worst == escalateOffboardingStatus({status[s] : s \in DOMAIN status}) IN
         /\ registry' = [registry EXCEPT !.systems =
              {s \in @ : s \in DOMAIN status => status[s] # "OffboardingGoToNextStep"}]
         /\ CASE worst = "OffboardingGoToNextStep" ->
                   NoFault /\ Go(w, "detached") /\ UNCHANGED task
              [] worst = "OffboardingContinueAndWait" -> Fault /\ setErrorStateAndContinue(w)
              [] worst = "OffboardingFailed" -> Fault /\ setErrorStateAndFail(w)
    /\ UNCHANGED <<database, mapping, cli>>

MutantDetached(w) ==
    Wait(w, "detached", \A k \in Primary : key[k] \in {"absent", "DETACHING", "DETACHED"}, "delete")

checkAllPrimaryKeysDetached(w) ==
    Wait(w, "detached", \A k \in Primary : key[k] \in {"absent", "DETACHED"}, "delete")

\* DeleteTenant removes the row.  OffboardTenant of the repository drops the
\* schema named by the tenant's ID; the tenant's schema has an encoded name.
DeleteTenant(w) ==
    /\ Offboarding(w, "delete")
    /\ known' = FALSE
    /\ row' = None
    /\ Complete(w)
    /\ UNCHANGED <<schema, content, outside, cli, used>>

\* The transaction is committed and the answer is lost.
DeleteTenantUnanswered(w) ==
    /\ Offboarding(w, "delete") /\ Fault
    /\ known' = FALSE
    /\ row' = None
    /\ worker' = [worker EXCEPT ![w] = Idle]
    /\ UNCHANGED <<schema, content, outside, task, cli>>

---------------------------------------------------------------------------
(* Users, events and syncs of the tenant                                   *)

Use ==
    /\ known /\ schema
    /\ used.uses < MaxUses
    /\ used' = [used EXCEPT !.uses = @ + 1]
    /\ UNCHANGED <<row, known, schema, groups, job, mapping, task, worker, cli>>

\* A user, who is logged in through the mapping, links a system to a key
\* configuration; the system and the keys may be new.
LinkSystemAction(s) ==
    /\ Use /\ mapping # None
    /\ sys[s] \in {"absent", "free"}
    /\ sys' = [sys EXCEPT ![s] = "linking"]
    /\ key' = [k \in Keys |-> IF key[k] = "absent" THEN "ENABLED" ELSE key[k]]
    /\ registry' = [registry EXCEPT !.systems = @ \cup {s}]
    /\ UNCHANGED synced

\* The HYOK sync writes the state the provider reports over any state.
SyncHYOKKeys(k, state) ==
    /\ Use
    /\ key[k] # "absent" /\ key[k] # state
    /\ key' = [key EXCEPT ![k] = state]
    /\ synced' = synced \cup {k}
    /\ UNCHANGED <<sys, registry>>

\* The end of the job of a system; a decommission disconnects a system also
\* when it failed, and makes it FAILED when it was canceled.
SystemJobEnds(s, canceled) ==
    /\ known /\ schema
    /\ \/ /\ sys[s] = "linking"
          /\ sys' = [sys EXCEPT ![s] = IF canceled THEN "failed" ELSE "connected"]
       \/ /\ sys[s] = "unlinking"
          /\ sys' = [sys EXCEPT ![s] = IF canceled THEN "failed" ELSE "free"]
    /\ IF canceled THEN Fault ELSE NoFault
    /\ UNCHANGED <<row, known, schema, groups, key, job, synced, outside, task, worker, cli>>

Terminate(k, state) ==
    /\ known /\ schema
    /\ key' = [key EXCEPT ![k] = state]
    /\ job' = [job EXCEPT ![k] = "none"]
    /\ synced' = IF state = "DETACHED" THEN synced \ {k} ELSE synced

\* A KEY_DETACH job is canceled when its key is not DETACHING any more, and
\* the key made UNKNOWN, to be detached again.
KeyDetachConfirm(k) ==
    /\ job[k] = "open" /\ known /\ schema
    /\ IF key[k] = "DETACHING"
         THEN job' = [job EXCEPT ![k] = "confirmed"] /\ UNCHANGED <<key, synced>>
         ELSE Terminate(k, "UNKNOWN")
    /\ UNCHANGED <<row, known, schema, groups, sys, outside, task, worker, cli, used>>

\* Done or failed: the key is detached.
KeyDetachEnds(k) ==
    /\ job[k] = "confirmed"
    /\ Terminate(k, "DETACHED")
    /\ UNCHANGED <<row, known, schema, groups, sys, outside, task, worker, cli, used>>

---------------------------------------------------------------------------
(* The command line tool                                                   *)

\* The tool creates the tenant and then its groups.
NewCreateTenantCmd ==
    /\ CommandLine /\ used.tasks < MaxTasks
    /\ \/ /\ cli = "idle"
          /\ CreateTenant(FALSE)
          /\ cli' = "groups"
          /\ used' = [used EXCEPT !.tasks = @ + 1]
       \/ /\ cli = "groups"
          /\ IF known /\ schema THEN CreateDefaultGroups ELSE UNCHANGED database
          /\ cli' = "idle"
          /\ NoFault
    /\ UNCHANGED <<outside, task, worker>>

\* It deletes the schema and then the row, of a tenant the registry has no
\* task for; jobs of keys that are gone do nothing any more.
NewDeleteTenantCmd ==
    /\ CommandLine
    /\ \A kind \in Kinds : ~Open(kind)
    /\ \A w \in Workers : ~Busy(w)
    /\ \/ /\ cli = "idle" /\ known /\ used.tasks < MaxTasks
          /\ schema' = FALSE
          /\ groups' = FALSE
          /\ sys' = [s \in Systems |-> "absent"]
          /\ key' = [k \in Keys |-> "absent"]
          /\ job' = [k \in Keys |-> "none"]
          /\ cli' = "row"
          /\ used' = [used EXCEPT !.tasks = @ + 1]
          /\ UNCHANGED <<row, known>>
       \/ /\ cli = "row"
          /\ known' = FALSE /\ row' = None
          /\ cli' = "idle"
          /\ NoFault
          /\ UNCHANGED <<schema, groups, sys, key, job>>
    /\ task' = [task EXCEPT !["tenant"] = [action |-> "TERMINATE", issuer |-> None,
                                           status |-> "none"],
                            !["auth"].status = "none"]
    /\ UNCHANGED <<synced, outside, worker>>

---------------------------------------------------------------------------

NoTask(action) == [action |-> action, issuer |-> None, status |-> "none"]

\* No tenant; the schema may be that of an earlier tenant with the same ID.
Init ==
    /\ row = None /\ known = FALSE /\ schema \in BOOLEAN /\ groups = schema
    /\ sys = [s \in Systems |-> "absent"]
    /\ key = [k \in Keys |-> "absent"]
    /\ job = [k \in Keys |-> "none"]
    /\ mapping = None
    /\ registry = [groups |-> FALSE, systems |-> {}]
    /\ task = [kind \in Kinds |-> NoTask(IF kind = "tenant" THEN "TERMINATE" ELSE "REMOVE_AUTH")]
    /\ worker = [w \in Workers |-> Idle]
    /\ cli = "idle" /\ synced = {}
    /\ used = [tasks |-> 0, faults |-> 0, uses |-> 0]

Registry ==
    \/ \E action \in TenantActions : RequestTenantTask(action)
    \/ \E action \in AuthActions, issuer \in Issuers \cup {None} : RequestAuthTask(action, issuer)

\* A step of a handler that nothing disturbs, and one that goes wrong.
Handle(w) ==
    \/ handleCreateTenant(w) \/ createTenantSchema(w) \/ createTenantGroups(w) \/ finalizeTenantProvisioning(w)
    \/ applyOIDC(w) \/ handleApplyTenantAuth(w) \/ handleRemoveTenantAuth(w) \/ handleBlockTenant(w)
    \/ handleTerminateTenant(w) \/ OffboardGone(w)
    \/ sendUnlinkForConnectedSystems(w) \/ checkAllSystemsUnlinked(w)
    \/ detachPrimaryKeys(w) \/ checkAllPrimaryKeysProcessed(w) \/ unmapAllSystemsFromRegistry(w)
    \/ checkAllPrimaryKeysDetached(w) \/ DeleteTenant(w)

Disturb(w) ==
    \/ Crash(w) \/ Fail(w) \/ unmarshalTenantData(w) \/ extractOIDCConfig(w)
    \/ TerminationTimeout(w) \/ DeleteTenantUnanswered(w)

Events ==
    \/ \E s \in Systems, canceled \in BOOLEAN : SystemJobEnds(s, canceled)
    \/ \E k \in Keys : KeyDetachConfirm(k) \/ KeyDetachEnds(k)

Next ==
    \/ Registry
    \/ \E w \in Workers, kind \in Kinds : Receive(w, kind)
    \/ \E w \in Workers : Handle(w) \/ Disturb(w)
    \/ Events
    \/ \E s \in Systems : LinkSystemAction(s)
    \/ \E k \in Keys, state \in {"ENABLED", "UNKNOWN"} : SyncHYOKKeys(k, state)
    \/ NewCreateTenantCmd \/ NewDeleteTenantCmd

Spec == Init /\ [][Next]_vars

\* Requests that are not answered are delivered again, handlers run, and the
\* jobs of orbital are worked off.
FairSpec ==
    /\ Spec
    /\ WF_vars(\E w \in Workers, kind \in Kinds : Receive(w, kind))
    /\ \A w \in Workers : WF_vars(Handle(w))
    /\ WF_vars(Events)

---------------------------------------------------------------------------
(* Properties                                                              *)

TypeOK ==
    /\ row \in Issuers \cup {None} /\ mapping \in Issuers \cup {None}
    /\ known \in BOOLEAN /\ schema \in BOOLEAN /\ groups \in BOOLEAN
    /\ row # None => known
    /\ groups => schema
    /\ sys \in [Systems -> SystemStates] /\ key \in [Keys -> KeyStates]
    /\ job \in [Keys -> {"none", "open", "confirmed"}] /\ synced \subseteq Keys
    /\ registry \in [groups : BOOLEAN, systems : SUBSET Systems]
    /\ task \in [Kinds -> [action : TenantActions \cup AuthActions, issuer : Issuers \cup {None},
                           status : {"none", "open", "done", "failed"}]]
    /\ worker \in [Workers -> [kind : Kinds, step : Steps \cup {"idle"}]]
    /\ cli \in {"idle", "groups", "row"}
    /\ used \in [tasks : Nat, faults : Nat, uses : Nat]

Unmapped == \A s \in Systems : sys[s] # "absent" => s \notin registry.systems

Completed(action) ==
    \E k \in Kinds : task[k].action = action /\ task[k].status = "done"

\* What the registry is told is true, whatever deliveries overlapped, whatever
\* earlier attempts left behind and wherever a call failed in between.  A
\* provisioned tenant is complete: its row, its schema and both groups are
\* there, and the registry knows the groups.  When APPLY_AUTH completed, the
\* issuer of the row and that of the session manager's mapping are the one that
\* was applied.  A tenant whose termination completed has nothing connected to
\* it: no system is linked, none is mapped in the registry, and nobody can log
\* in.
CompletedIsTrue ==
    /\ TypeOK
    /\ Completed("PROVISION") => known /\ schema /\ groups /\ registry.groups
    /\ Completed("APPLY_AUTH") /\ task["tenant"].action # "TERMINATE" =>
         row = task["auth"].issuer /\ mapping = row
    /\ Completed("TERMINATE") => Linked = {} /\ mapping = None /\ Unmapped

\* The row of a tenant is deleted by the operator only when its systems are
\* unlinked and its primary keys were seen detached: between the checks and
\* the deletion no user links a system.
DeletesOnlyOffboarded ==
    [][(\E w \in Workers : DeleteTenant(w) \/ DeleteTenantUnanswered(w)) =>
          /\ Linked = {}
          /\ \A k \in Primary : key[k] \in {"absent", "DETACHED"} \/ k \in synced]_vars

\* The inductive invariant behind these two.  While a worker is busy the
\* registry asks for nothing new and the command line tool deletes nothing, so
\* that a worker's step tells which task it works for; and what a step has
\* found or made is still so when the next step relies on it.
Provisions == {"create", "groups", "finish"}
Offboards == {"offboard", "unlinked", "detach", "processed", "unmap", "detached", "delete"}

StepInv(w) ==
    LET step == worker[w].step IN
    /\ step # "idle" /\ worker[w].kind = "auth" =>
         task["tenant"].action # "TERMINATE" /\ step \in {"start", "commit"}
    /\ step \in Provisions => task["tenant"].action = "PROVISION"
    /\ step = "finish" => known /\ schema /\ groups
    /\ step = "commit" =>
         /\ worker[w].kind = "auth" /\ task["auth"].action = "APPLY_AUTH"
         /\ known /\ mapping = task["auth"].issuer
    /\ step \in Offboards => task["tenant"].action = "TERMINATE" /\ mapping = None
    /\ step \in Offboards \ {"offboard", "unlinked"} => Linked = {}
    /\ step \in {"detached", "delete"} => Unmapped
    /\ step = "delete" => \A k \in Primary : key[k] \in {"absent", "DETACHED"} \/ k \in synced

JobInv ==
    /\ \A k \in Keys : job[k] = "open" => key[k] = "DETACHING" \/ k \in synced
    /\ \A k \in Keys : ~schema \/ key[k] = "absent" => job[k] = "none"

TenantInv ==
    /\ CompletedIsTrue
    /\ task["tenant"].action \in TenantActions /\ task["auth"].action \in AuthActions
    /\ Open("auth") => task["tenant"].action # "TERMINATE"
    /\ \A w \in Workers : StepInv(w)
    /\ JobInv

\* A termination ends, or has already removed the tenant (a delivery after
\* that is an error until the termination times out).
TerminationEnds ==
    (task["tenant"].action = "TERMINATE" /\ Open("tenant")) ~> (~Open("tenant") \/ ~known)

\* A provisioning ends, unless the command line tool stopped between the
\* deletion of the schema and that of the row.
ProvisioningEnds ==
    (task["tenant"].action = "PROVISION" /\ Open("tenant")) ~> (~Open("tenant") \/ cli = "row")

=============================================================================
