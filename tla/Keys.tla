-------------------------------- MODULE Keys --------------------------------
(***************************************************************************)
(* The life of a key: internal/manager/key.go and keyversion.go, the       *)
(* configurations keys belong to (manager/keyconfiguration.go), the task   *)
(* that completes a pending key (async/tasks/pending_state_sync.go) and    *)
(* the key jobs (event-processor/handlers_key.go).                         *)
(*                                                                         *)
(* A BYOK key is created in the keystore by CMK and gets its material      *)
(* imported; while the tenant's keystore is not provisioned only its row   *)
(* is stored, PENDING_CREATION, and a task completes it.  A HYOK key       *)
(* belongs to the customer; CMK follows its state and its versions.        *)
(*                                                                         *)
(* Every operation reads the row, talks to the keystore and writes its     *)
(* copy of the row back: these are separate steps of a process (a request, *)
(* a task or a job handler), between which other processes run.  There are *)
(* no foreign keys between keys and configurations.                        *)
(***************************************************************************)
EXTENDS Naturals, FiniteSets, Sequences

CONSTANTS
    Keys,          \* key IDs; an ID is used for one key only
    Byok,          \* the BYOK keys, the others are HYOK
    Configs,       \* key configurations
    Procs,         \* requests, tasks and handlers that run at a time
    None,
    Labelled,      \* keys that may be labelled
    MaxKeys,       \* bound on the keys that are created
    MaxVersion,    \* bound on the versions of a HYOK key
    MaxCustomer,   \* bound on what the customer does to the HYOK keys
    MaxOverlaps,   \* bound on operations that start while another one runs
    MaxJobs,       \* bound on the jobs there are when one more is asked for
    MaxFaults,     \* bound on processes that die and transactions that fail
    Timed,         \* the keystores report when a version was created
    Offboarding,   \* the tenant may be offboarded, which detaches keys
    OwnPrimary     \* requests name a primary key of the same configuration

ASSUME KeysAssumption == Byok \subseteq Keys /\ Labelled \subseteq Keys /\ None \notin Keys \union Configs
ASSUME BoundsAssumption ==
    /\ MaxKeys \in Nat /\ MaxVersion \in Nat \ {0} /\ MaxCustomer \in Nat /\ MaxOverlaps \in Nat
    /\ MaxFaults \in Nat /\ MaxJobs \in Nat /\ Timed \in BOOLEAN /\ Offboarding \in BOOLEAN
    /\ OwnPrimary \in BOOLEAN

VARIABLES
    rows,         \* the keys table
    versions,     \* the key_versions table: version numbers of each key
    configs,      \* the key_configurations table: the IDs in it
    primary,      \* its PrimaryKeyID
    linked,       \* configurations that systems have as KeyConfigurationID
    keystore,     \* provider: the state of each key there
    latest,       \* provider: the number of versions of each key
    provisioned,  \* the tenant's default keystore has its management role
    tasks,        \* keys with a pending-state-sync task in the queue
    late,         \* pending keys older than pendingCreationTimeout
    jobs,         \* orbital: key jobs that are not over, oldest first
    crypto,       \* operators: whether the key may be used
    told,         \* the version the systems were last told to rotate to
    proc,         \* what each process is doing
    used,         \* key IDs handed out
    customer, overlaps, faults,
    crowded       \* a key job was asked for while another of that key was open

vars == <<rows, versions, configs, primary, linked, keystore, latest, provisioned,
          tasks, late, jobs, crypto, told, proc, used, customer, overlaps, faults, crowded>>
tables == <<rows, versions, configs, primary, linked>>
provider == <<keystore, latest, provisioned>>
queues == <<tasks, jobs, crowded>>
bounds == <<customer, overlaps, faults>>

Hyok == Keys \ Byok

States == {"PENDING_CREATION", "PENDING_IMPORT", "ENABLED", "DISABLED", "ERROR", "UNKNOWN",
           "FORBIDDEN", "DELETED", "PENDING_DELETION", "DETACHING", "DETACHED"}

(* A row: its configuration, its state, whether NativeID is set, the import   *)
(* parameters and whether labels refer to it.                                 *)
Row == [ cfg : Configs, state : States, native : BOOLEAN,
         params : {"none", "valid", "expired"}, labels : BOOLEAN ]

NoRow == [cfg |-> None, state |-> "NONE", native |-> FALSE, params |-> "none", labels |-> FALSE]
Exists(k) == rows[k] # NoRow
NewRow(c, state, native) ==
    [cfg |-> c, state |-> state, native |-> native, params |-> "none", labels |-> FALSE]

KeystoreStates == {"absent", "PENDING_IMPORT", "ENABLED", "DISABLED", "PENDING_DELETION"}

Ops == {"create", "sync", "update", "delete", "params", "import",
        "pending", "detach", "terminate", "deleteConfig"}

(* `copy` is the row as it was read, `to` what it is to become and `pc` the   *)
(* next step.                                                                 *)
Proc == [ op : Ops \union {"idle"}, k : Keys \union {None}, c : Configs \union {None},
          copy : Row \union {NoRow}, to : States \union {"NONE"},
          pc : {"idle", "get", "versions", "write", "commit", "check", "rows"} ]

Idle == [op |-> "idle", k |-> None, c |-> None, copy |-> NoRow, to |-> "NONE", pc |-> "idle"]

JobTypes == {"KEY_ENABLE", "KEY_DISABLE", "KEY_DETACH"}
Job == [type : JobTypes, k : Keys, st : {"created", "confirmed", "DETACHED", "UNKNOWN"}]

(* A key has its first so many versions stored. *)
VersionSets == {1..n : n \in 0..MaxVersion}

(* Types of the tables, the keystore, the queues and the processes. *)
TypeOK ==
    /\ rows \in [Keys -> Row \union {NoRow}]
    /\ versions \in [Keys -> VersionSets]
    /\ configs \subseteq Configs /\ linked \subseteq Configs
    /\ primary \in [Configs -> Keys \union {None}]
    /\ keystore \in [Keys -> KeystoreStates] /\ latest \in [Keys -> 1..MaxVersion]
    /\ provisioned \in BOOLEAN
    /\ tasks \subseteq Keys /\ late \subseteq Keys /\ used \subseteq Keys
    /\ jobs \in Seq(Job) /\ crypto \in [Keys -> BOOLEAN] /\ told \in [Keys -> 0..MaxVersion]
    /\ proc \in [Procs -> Proc]
    /\ customer \in Nat /\ overlaps \in Nat /\ faults \in Nat /\ crowded \in BOOLEAN

Init ==
    /\ rows = [k \in Keys |-> NoRow] /\ versions = [k \in Keys |-> {}]
    /\ configs = Configs /\ primary = [c \in Configs |-> None] /\ linked = {}
    /\ keystore = [k \in Keys |-> IF k \in Byok THEN "absent" ELSE "ENABLED"]
    /\ latest = [k \in Keys |-> 1]
    /\ provisioned \in BOOLEAN
    /\ tasks = {} /\ late = {} /\ jobs = << >> /\ crypto = [k \in Keys |-> TRUE]
    /\ told = [k \in Keys |-> 0]
    /\ proc = [p \in Procs |-> Idle] /\ used = {}
    /\ customer = 0 /\ overlaps = 0 /\ faults = 0 /\ crowded = FALSE

-----------------------------------------------------------------------------
(* Processes. *)

Others(p) == \E q \in Procs \ {p} : proc[q] # Idle

(* Something starts in p, maybe while another process is not done. *)
Overlap(p) ==
    /\ proc[p] = Idle
    /\ Others(p) => overlaps < MaxOverlaps
    /\ overlaps' = IF Others(p) THEN overlaps + 1 ELSE overlaps

AtOnce(p) == Overlap(p) /\ UNCHANGED proc

Begin(p, op, k, c, copy, to, pc) ==
    /\ Overlap(p)
    /\ proc' = [proc EXCEPT ![p] = [op |-> op, k |-> k, c |-> c, copy |-> copy,
                                    to |-> to, pc |-> pc]]

At(p, ops, pc) == proc[p].op \in ops /\ proc[p].pc = pc
Done(p) == proc' = [proc EXCEPT ![p] = Idle]
Fault == faults < MaxFaults /\ faults' = faults + 1

(* A process dies, or its transaction is rolled back. *)
Dies(p) ==
    /\ proc[p] # Idle
    /\ Fault
    /\ Done(p)
    /\ UNCHANGED <<tables, provider, queues, late, crypto, used, told, customer, overlaps>>

-----------------------------------------------------------------------------
(* Helpers of the operations. *)

HasKeys(c) == \E k \in Keys : rows[k].cfg = c

(* IsPrimaryKey looks at the key's own configuration. *)
IsPrimary(k) == rows[k].cfg \in configs /\ primary[rows[k].cfg] = k

(* Only the first key of a configuration becomes primary, and not one that is *)
(* pending; a Patch of a configuration that is gone does nothing.  (For a     *)
(* DISABLED key it is an error, see persistPendingKey.)                       *)
setPrimaryIfFirstKey(k, row) ==
    IF HasKeys(row.cfg) \/ row.state = "PENDING_CREATION" \/ row.cfg \notin configs
    THEN primary ELSE [primary EXCEPT ![row.cfg] = k]

(* A Patch with UpdateAll writes every column of the copy; import parameters  *)
(* and labels are tables of their own.  A row that is gone stays so.          *)
PatchAll(k, row) ==
    IF Exists(k)
    THEN [rows EXCEPT ![k] = [row EXCEPT !.params = rows[k].params, !.labels = rows[k].labels]]
    ELSE rows

(* Without it a column that is nil in the copy keeps its value: NativeID.     *)
Patch(k, row) == PatchAll(k, [row EXCEPT !.native = row.native \/ rows[k].native])

OpenJob(k, types) ==
    \E i \in DOMAIN jobs :
        jobs[i].k = k /\ jobs[i].type \in types /\ jobs[i].st \in {"created", "confirmed"}

(* PrepareJob, and ErrJobAlreadyExists taken as success. *)
SendEvent(type, k) ==
    /\ jobs' = IF OpenJob(k, {type}) THEN jobs
               ELSE Append(jobs, [type |-> type, k |-> k, st |-> "created"])
    /\ crowded' = (crowded \/ OpenJob(k, JobTypes))

MutantNoDisableEvent(k, state) ==
    \/ state = "ENABLED" /\ SendEvent("KEY_ENABLE", k)
    \/ state # "ENABLED" /\ UNCHANGED <<jobs, crowded>>

handleKeyStateTransition(k, state) ==
    \/ state = "ENABLED" /\ SendEvent("KEY_ENABLE", k)
    \/ state = "DISABLED" /\ SendEvent("KEY_DISABLE", k)
    \/ state \notin {"ENABLED", "DISABLED"} /\ UNCHANGED <<jobs, crowded>>

-----------------------------------------------------------------------------
(* Creation.  Only the row is stored while the keystore is not provisioned;   *)
(* an error of the queue is only logged, and then there is no task.           *)
enqueuePendingStateSync(k) ==
    \/ tasks' = tasks \union {k} /\ UNCHANGED faults
    \/ Fault /\ UNCHANGED tasks

createPendingBYOKKeyIfNeeded(p, k, c) ==
    /\ k \in Byok \ used /\ Cardinality(used) < MaxKeys
    /\ c \in configs /\ ~provisioned
    /\ rows' = [rows EXCEPT ![k] = NewRow(c, "PENDING_CREATION", FALSE)]
    /\ used' = used \union {k}
    /\ enqueuePendingStateSync(k)
    /\ AtOnce(p)
    /\ UNCHANGED <<versions, configs, primary, linked, provider, jobs, crowded, late, crypto, told, customer>>

(* Otherwise the keystore comes first: CreateKey for a BYOK key, and for a    *)
(* HYOK key GetKey, which has to report it ENABLED.                           *)
createManagedProviderKey(p, k, c) ==
    /\ k \in Byok /\ provisioned
    /\ keystore' = [keystore EXCEPT ![k] = "PENDING_IMPORT"]
    /\ Begin(p, "create", k, c, NewRow(c, "PENDING_IMPORT", TRUE), "NONE", "write")

registerHYOKKey(p, k, c) ==
    /\ k \in Hyok /\ keystore[k] = "ENABLED"
    /\ Begin(p, "create", k, c, NewRow(c, "ENABLED", TRUE), "NONE", "write")
    /\ UNCHANGED keystore

createOrRegisterProviderKey(p, k, c) ==
    /\ k \notin used /\ Cardinality(used) < MaxKeys
    /\ c \in configs
    /\ used' = used \union {k}
    /\ createManagedProviderKey(p, k, c) \/ registerHYOKKey(p, k, c)
    /\ UNCHANGED <<tables, latest, provisioned, queues, late, crypto, told, customer, faults>>

persistCreatedKey(p) ==
    LET k == proc[p].k  row == proc[p].copy IN
    /\ At(p, {"create"}, "write")
    /\ primary' = setPrimaryIfFirstKey(k, row)
    /\ rows' = [rows EXCEPT ![k] = row]
    /\ versions' = IF k \in Hyok THEN [versions EXCEPT ![k] = 1..latest[k]] ELSE versions
    /\ Done(p)
    /\ UNCHANGED <<configs, linked, provider, queues, late, crypto, used, told, bounds>>

-----------------------------------------------------------------------------
(* Synchronisation of a HYOK key: by the periodic task, or as the first part  *)
(* (Get) of an update or a deletion.  `c` remembers whether it was primary.   *)
Get(p, op, k) ==
    /\ k \in Hyok /\ Exists(k)
    /\ Begin(p, op, k, IF IsPrimary(k) THEN rows[k].cfg ELSE None, rows[k], "NONE", "get")
    /\ UNCHANGED <<tables, provider, queues, late, crypto, used, told, customer, faults>>

(* What an error makes of the state: the key is gone, or access is denied, or *)
(* the keystore cannot be reached, or the error is not known.                 *)
getKeyStateOnSyncError(k, copy) ==
    (IF keystore[k] = "absent" THEN {"DELETED"} ELSE {}) \union {"FORBIDDEN", "UNKNOWN", copy.state}

getKeyFromProvider(p) ==
    LET k == proc[p].k IN
    /\ At(p, {"sync", "update", "delete"}, "get")
    /\ \/ /\ keystore[k] # "absent"
          /\ proc' = [proc EXCEPT ![p].to = keystore[k], ![p].pc = "versions"]
       \/ \E s \in getKeyStateOnSyncError(k, proc[p].copy) :
            proc' = [proc EXCEPT ![p].to = s, ![p].pc = "write"]
    /\ UNCHANGED <<tables, provider, queues, late, crypto, used, told, bounds>>

Newest(k) == CHOOSE n \in 0..MaxVersion : versions[k] = 1..n

(* handleSystemsOnKeyRotation: the link and rotate tasks carry the newest     *)
(* stored version.                                                            *)
Notified(k) == IsPrimary(k) /\ rows[k].cfg \in linked

MutantSyncVersions(p) ==
    LET k == proc[p].k IN
    /\ At(p, {"sync", "update", "delete"}, "versions")
    /\ versions' = IF Exists(k) THEN [versions EXCEPT ![k] = 1..latest[k]] ELSE versions
    /\ told' \in {told, IF Notified(k) /\ versions' # versions
                        THEN [told EXCEPT ![k] = latest[k]] ELSE told}
    /\ proc' = [proc EXCEPT ![p].pc = "write"]
    /\ UNCHANGED <<rows, configs, primary, linked, provider, queues, late, crypto, used, bounds>>

(* Every version is stored, known ones too, and the systems of a primary key  *)
(* are told each time.  Without creation times a known version is an error of *)
(* the unique index, which ends it before that.  Any error is only logged.    *)
UpdateVersions(k) == Exists(k) /\ versions' = [versions EXCEPT ![k] = 1..latest[k]]

syncKeyVersions(p) ==
    LET k == proc[p].k
        Reached == Timed \/ versions[k] = {} IN
    /\ At(p, {"sync", "update", "delete"}, "versions")
    /\ \/ /\ UpdateVersions(k) /\ Reached /\ Notified(k)
          /\ told' = [told EXCEPT ![k] = latest[k]]
       \/ UpdateVersions(k) /\ UNCHANGED told
       \/ UNCHANGED <<versions, told>>
    /\ proc' = [proc EXCEPT ![p].pc = "write"]
    /\ UNCHANGED <<rows, configs, primary, linked, provider, queues, late, crypto, used, bounds>>

(* syncHYOKKeyState writes a state that differs from the one it read over     *)
(* whatever is stored, with the event for it.  An update or a deletion goes   *)
(* on from there.                                                             *)
syncHYOKKeyState(p) ==
    LET k == proc[p].k  to == proc[p].to  next == [proc[p].copy EXCEPT !.state = to] IN
    /\ At(p, {"sync", "update", "delete"}, "write")
    /\ IF to = proc[p].copy.state
       THEN UNCHANGED <<rows, jobs, crowded>>
       ELSE rows' = Patch(k, next) /\ handleKeyStateTransition(k, to)
    /\ proc' = [proc EXCEPT ![p] =
                  CASE @.op = "sync"   -> Idle
                    [] @.op = "update" -> [@ EXCEPT !.copy = next, !.to = "NONE", !.pc = "commit"]
                    [] @.op = "delete" -> [@ EXCEPT !.copy = next, !.to = "NONE", !.pc = "check"]]
    /\ UNCHANGED <<versions, configs, primary, linked, provider, tasks, late, crypto, used, told, bounds>>

-----------------------------------------------------------------------------
(* Requests on a BYOK key start by reading the row; `to` is NONE for an       *)
(* update that only renames.                                                  *)
Read(p, op, k, to, pc) ==
    /\ k \in Byok /\ Exists(k)
    /\ Begin(p, op, k, IF IsPrimary(k) THEN rows[k].cfg ELSE None, rows[k], to, pc)
    /\ UNCHANGED <<tables, provider, queues, late, crypto, used, told, customer, faults>>

UpdateKey(p, k) ==
    \/ Get(p, "update", k)
    \/ \E to \in {"NONE", "ENABLED", "DISABLED"} :
         /\ rows[k].state = "PENDING_CREATION" => to = "NONE"
         /\ Read(p, "update", k, to, "commit")

(* A request to enable an enabled key changes nothing. *)
copyFieldsToModelKey(copy, to) == IF to = "NONE" THEN copy ELSE [copy EXCEPT !.state = to]

(* EnableKey or DisableKey, which fails for a key without material, and the   *)
(* event.                                                                     *)
enableKey(k, copy) ==
    /\ copy.native /\ keystore[k] \in {"ENABLED", "DISABLED"}
    /\ keystore' = [keystore EXCEPT ![k] = copy.state]
    /\ handleKeyStateTransition(k, copy.state)
    /\ UNCHANGED faults

(* The whole copy is written; when the enablement changes, the keystore is    *)
(* called and the event sent within the transaction.  The keystore's answer   *)
(* may be an error, or NativeID nil: the transaction is rolled back, which    *)
(* does not undo what the keystore did.                                       *)
applyKeyPatch(p) ==
    LET k == proc[p].k
        copy == copyFieldsToModelKey(proc[p].copy, proc[p].to)
        Enablement == copy # proc[p].copy IN
    /\ At(p, {"update"}, "commit")
    /\ \/ ~Enablement /\ rows' = PatchAll(k, copy) /\ UNCHANGED <<keystore, jobs, crowded, faults>>
       \/ Enablement /\ rows' = PatchAll(k, copy) /\ enableKey(k, copy)
       \/ /\ Enablement /\ copy.native /\ keystore[k] \in {"ENABLED", "DISABLED"}
          /\ Fault
          /\ keystore' = [keystore EXCEPT ![k] = copy.state]
          /\ UNCHANGED <<rows, jobs, crowded>>
       \/ Enablement /\ UNCHANGED <<rows, keystore, jobs, crowded, faults>>
    /\ Done(p)
    /\ UNCHANGED <<versions, configs, primary, linked, latest, provisioned, tasks, late, crypto,
                   used, told, customer, overlaps>>

-----------------------------------------------------------------------------
(* Deletion. *)

Delete(p, k) == Get(p, "delete", k) \/ Read(p, "delete", k, "NONE", "check")

MutantDeleteUnimported(p) ==
    LET k == proc[p].k  copy == proc[p].copy
        Refused == proc[p].c # None /\ proc[p].c \in linked
        InKeystore == k \in Byok /\ copy.state \notin {"PENDING_CREATION", "PENDING_IMPORT"} IN
    /\ At(p, {"delete"}, "check")
    /\ IF Refused THEN Done(p) ELSE proc' = [proc EXCEPT ![p].pc = "rows"]
    /\ keystore' = IF ~Refused /\ InKeystore THEN [keystore EXCEPT ![k] = "absent"] ELSE keystore
    /\ UNCHANGED <<tables, latest, provisioned, queues, late, crypto, used, told, bounds>>

MutantDeleteInUse(p) ==
    /\ At(p, {"delete"}, "check")
    /\ keystore' = IF proc[p].k \in Byok THEN [keystore EXCEPT ![proc[p].k] = "absent"] ELSE keystore
    /\ proc' = [proc EXCEPT ![p].pc = "rows"]
    /\ UNCHANGED <<tables, latest, provisioned, queues, late, crypto, used, told, bounds>>

(* The primary key of a configuration with systems is not deleted, as it was  *)
(* when the row was read; then the keystore's key goes.                       *)
deleteProviderKey(p) ==
    LET k == proc[p].k  copy == proc[p].copy
        Refused == proc[p].c # None /\ proc[p].c \in linked
        InKeystore == k \in Byok /\ copy.state # "PENDING_CREATION" /\ copy.native IN
    /\ At(p, {"delete"}, "check")
    /\ \/ (Refused \/ (InKeystore /\ keystore[k] = "absent")) /\ Done(p) /\ UNCHANGED keystore
       \/ /\ ~Refused /\ InKeystore /\ keystore[k] # "absent"
          /\ keystore' = [keystore EXCEPT ![k] = "absent"]
          /\ proc' = [proc EXCEPT ![p].pc = "rows"]
       \/ /\ ~Refused /\ ~InKeystore
          /\ proc' = [proc EXCEPT ![p].pc = "rows"]
          /\ UNCHANGED keystore
    /\ UNCHANGED <<tables, latest, provisioned, queues, late, crypto, used, told, bounds>>

(* Versions and import parameters go with the row; the foreign key of a label *)
(* makes the transaction fail.                                                *)
deleteRows(p) ==
    LET k == proc[p].k IN
    /\ At(p, {"delete"}, "rows")
    /\ IF rows[k].labels
       THEN UNCHANGED <<rows, versions>>
       ELSE /\ rows' = [rows EXCEPT ![k] = NoRow]
            /\ versions' = [versions EXCEPT ![k] = {}]
    /\ Done(p)
    /\ UNCHANGED <<configs, primary, linked, provider, queues, late, crypto, used, told, bounds>>

(* manager/key_label.go *)
CreateOrUpdateLabel(k) ==
    /\ k \in Labelled /\ Exists(k) /\ ~rows[k].labels
    /\ rows' = [rows EXCEPT ![k].labels = TRUE]
    /\ UNCHANGED <<versions, configs, primary, linked, provider, queues, late, crypto, told, proc, used, bounds>>

DeleteLabel(k) ==
    /\ Exists(k) /\ rows[k].labels
    /\ rows' = [rows EXCEPT ![k].labels = FALSE]
    /\ UNCHANGED <<versions, configs, primary, linked, provider, queues, late, crypto, told, proc, used, bounds>>

-----------------------------------------------------------------------------
(* Import of key material. *)

validateBYOKKey(k) == k \in Byok /\ rows[k].state = "PENDING_IMPORT"

GetImportParams(p, k) ==
    /\ validateBYOKKey(k) /\ rows[k].params # "valid"
    /\ Read(p, "params", k, "NONE", "write")

(* Asks the keystore, and stores the parameters if the row is still there     *)
(* (foreign key).                                                             *)
fetchImportParams(p) ==
    LET k == proc[p].k IN
    /\ At(p, {"params"}, "write")
    /\ rows' = IF keystore[k] # "absent" /\ Exists(k)
               THEN [rows EXCEPT ![k].params = "valid"] ELSE rows
    /\ Done(p)
    /\ UNCHANGED <<versions, configs, primary, linked, provider, queues, late, crypto, used, told, bounds>>

ImportParamsExpire(k) ==
    /\ rows[k].params = "valid"
    /\ rows' = [rows EXCEPT ![k].params = "expired"]
    /\ UNCHANGED <<versions, configs, primary, linked, provider, queues, late, crypto, told, proc, used, bounds>>

ImportKeyMaterial(p, k) ==
    /\ validateBYOKKey(k) /\ rows[k].params = "valid"
    /\ Read(p, "import", k, "NONE", "check")

importProviderKeyMaterial(p) ==
    LET k == proc[p].k IN
    /\ At(p, {"import"}, "check")
    /\ \/ /\ keystore[k] = "PENDING_IMPORT"
          /\ keystore' = [keystore EXCEPT ![k] = "ENABLED"]
          /\ proc' = [proc EXCEPT ![p].copy.state = "ENABLED", ![p].pc = "write"]
       \/ keystore[k] # "PENDING_IMPORT" /\ Done(p) /\ UNCHANGED keystore
    /\ UNCHANGED <<tables, latest, provisioned, queues, late, crypto, used, told, bounds>>

persistImport(p) ==
    LET k == proc[p].k IN
    /\ At(p, {"import"}, "write")
    /\ rows' = IF Exists(k) THEN [Patch(k, proc[p].copy) EXCEPT ![k].params = "none"] ELSE rows
    /\ Done(p)
    /\ UNCHANGED <<versions, configs, primary, linked, provider, queues, late, crypto, used, told, bounds>>

-----------------------------------------------------------------------------
(* The task that completes a pending key.  It stays queued when it fails.     *)

Late(k) ==
    /\ rows[k].state = "PENDING_CREATION" /\ k \notin late
    /\ late' = late \union {k}
    /\ UNCHANGED <<tables, provider, queues, crypto, told, proc, used, bounds>>

(* SyncPendingCreationKey: nothing to do for a key that is gone or not        *)
(* pending.                                                                   *)
SyncPendingCreationKey(p, k) ==
    /\ k \in tasks
    /\ \/ /\ rows[k].state = "PENDING_CREATION"
          /\ Begin(p, "pending", k, None, rows[k], "NONE", "get")
          /\ UNCHANGED tasks
       \/ /\ rows[k].state # "PENDING_CREATION"
          /\ AtOnce(p)
          /\ tasks' = tasks \ {k}
    /\ UNCHANGED <<tables, provider, jobs, crowded, late, crypto, used, told, customer, faults>>

transitionPendingKeyToError(p) ==
    LET k == proc[p].k IN
    /\ rows' = PatchAll(k, [proc[p].copy EXCEPT !.state = "ERROR"])
    /\ tasks' = tasks \ {k}
    /\ Done(p)
    /\ UNCHANGED provisioned

MutantInitProvider(p) ==
    LET k == proc[p].k IN
    /\ At(p, {"pending"}, "get")
    /\ \/ /\ k \notin late
          /\ \/ /\ provisioned' = TRUE
                /\ proc' = [proc EXCEPT ![p].pc = "check"]
                /\ UNCHANGED <<rows, tasks>>
             \/ ~provisioned /\ Done(p) /\ UNCHANGED <<rows, tasks, provisioned>>
       \/ k \in late /\ tasks' = tasks \ {k} /\ Done(p) /\ UNCHANGED <<rows, provisioned>>
    /\ UNCHANGED <<versions, configs, primary, linked, keystore, latest, jobs, crowded, late, crypto,
                   used, told, bounds>>

(* After the hard timeout the key is ERROR.  The keystore is initialised,     *)
(* which provisions it; without a trust yet the task is retried, with a       *)
(* drained pool the key is ERROR.                                             *)
initProviderForPendingKey(p) ==
    LET k == proc[p].k IN
    /\ At(p, {"pending"}, "get")
    /\ \/ k \in late /\ transitionPendingKeyToError(p)
       \/ /\ k \notin late
          /\ \/ /\ provisioned' = TRUE
                /\ proc' = [proc EXCEPT ![p].pc = "check"]
                /\ UNCHANGED <<rows, tasks>>
             \/ ~provisioned /\ Done(p) /\ UNCHANGED <<rows, tasks, provisioned>>
             \/ ~provisioned /\ transitionPendingKeyToError(p)
    /\ UNCHANGED <<versions, configs, primary, linked, keystore, latest, jobs, crowded, late, crypto,
                   used, told, bounds>>

(* CreateKey, or GetKey when an earlier attempt created it; an error of       *)
(* either is retried with the task.                                           *)
recoverExistingProviderKey(k) == keystore[k]

createOrRecoverProviderKey(p) ==
    LET k == proc[p].k
        state == IF keystore[k] = "absent" THEN "PENDING_IMPORT" ELSE recoverExistingProviderKey(k)
        next == [proc[p].copy EXCEPT !.state = state, !.native = TRUE] IN
    /\ At(p, {"pending"}, "check")
    /\ \/ /\ keystore' = [keystore EXCEPT ![k] = state]
          /\ proc' = [proc EXCEPT ![p].copy = next, ![p].pc = "write"]
       \/ Done(p) /\ UNCHANGED keystore
    /\ UNCHANGED <<tables, latest, provisioned, queues, late, crypto, used, told, bounds>>

(* The key's own row exists, so setPrimaryIfFirstKey finds a key, except when *)
(* the row was deleted meanwhile.                                             *)
persistPendingKey(p) ==
    LET k == proc[p].k  copy == proc[p].copy IN
    /\ At(p, {"pending"}, "write")
    /\ IF ~HasKeys(copy.cfg) /\ copy.state = "DISABLED"
       THEN UNCHANGED <<primary, rows, tasks>>
       ELSE /\ primary' = setPrimaryIfFirstKey(k, copy)
            /\ rows' = PatchAll(k, copy)
            /\ tasks' = tasks \ {k}
    /\ Done(p)
    /\ UNCHANGED <<versions, configs, linked, provider, jobs, crowded, late, crypto, used, told, bounds>>

-----------------------------------------------------------------------------
(* Offboarding: once no system is linked, the keys of configurations that     *)
(* have a primary key are detached (manager/tenant.go, detachPrimaryKeys).    *)

Detachable(k) ==
    /\ rows[k].cfg \in configs /\ primary[rows[k].cfg] # None
    /\ rows[k].state \notin {"DETACHING", "DETACHED"}

detachPrimaryKeys(p, k) ==
    /\ Offboarding /\ linked = {} /\ Detachable(k) /\ Len(jobs) < MaxJobs
    /\ Begin(p, "detach", k, None, rows[k], "NONE", "write")
    /\ UNCHANGED <<tables, provider, queues, late, crypto, used, told, customer, faults>>

Detach(p) ==
    LET k == proc[p].k IN
    /\ At(p, {"detach"}, "write")
    /\ rows' = Patch(k, [proc[p].copy EXCEPT !.state = "DETACHING"])
    /\ SendEvent("KEY_DETACH", k)
    /\ Done(p)
    /\ UNCHANGED <<versions, configs, primary, linked, provider, tasks, late, crypto, used, told, bounds>>

-----------------------------------------------------------------------------
(* Key jobs (event-processor/handlers_key.go). *)

Without(i) == SubSeq(jobs, 1, i - 1) \o SubSeq(jobs, i + 1, Len(jobs))

(* Regions with connected systems; resolveTasks cancels the job without any.  *)
getRegionsByKeyID(k) == Exists(k) /\ rows[k].cfg \in linked

(* Nobody waits for the outcome of these: the operators of the regions apply  *)
(* the job, or fail.                                                          *)
KeyJob(i) ==
    LET k == jobs[i].k  type == jobs[i].type IN
    /\ type \in {"KEY_ENABLE", "KEY_DISABLE"}
    /\ jobs' = Without(i)
    /\ \/ /\ getRegionsByKeyID(k)
          /\ crypto' = [crypto EXCEPT ![k] = type = "KEY_ENABLE"]
          /\ UNCHANGED faults
       \/ getRegionsByKeyID(k) /\ Fault /\ UNCHANGED crypto
       \/ ~getRegionsByKeyID(k) /\ UNCHANGED <<crypto, faults>>
    /\ UNCHANGED <<tables, provider, tasks, late, proc, used, told, customer, overlaps, crowded>>

(* HandleJobConfirm cancels a detachment that is no longer wanted. *)
ConfirmDetach(i) ==
    /\ jobs[i].type = "KEY_DETACH" /\ jobs[i].st = "created"
    /\ jobs' = [jobs EXCEPT ![i].st = IF rows[jobs[i].k].state = "DETACHING"
                                      THEN "confirmed" ELSE "UNKNOWN"]
    /\ UNCHANGED <<crowded, tables, provider, tasks, late, crypto, told, proc, used, bounds>>

(* The operators finish or fail, which is the same to the handlers; the       *)
(* resolver, or orbital, may cancel the job.                                  *)
EndDetach(i) ==
    /\ jobs[i].type = "KEY_DETACH" /\ jobs[i].st = "confirmed"
    /\ \/ jobs' = [jobs EXCEPT ![i].st = "DETACHED"] /\ UNCHANGED faults
       \/ jobs' = [jobs EXCEPT ![i].st = "UNKNOWN"] /\ Fault
    /\ UNCHANGED <<crowded, tables, provider, tasks, late, crypto, told, proc, used, customer, overlaps>>

(* terminate reads the row (without one it fails, and is called again) and    *)
(* writes all of it.                                                          *)
terminate(p, i) ==
    /\ jobs[i].st \in {"DETACHED", "UNKNOWN"}
    /\ Exists(jobs[i].k)
    /\ \A q \in Procs : ~(proc[q].op = "terminate" /\ proc[q].k = jobs[i].k)
    /\ Begin(p, "terminate", jobs[i].k, None, rows[jobs[i].k], jobs[i].st, "write")
    /\ UNCHANGED <<tables, provider, queues, late, crypto, used, told, customer, faults>>

updateKey(p) ==
    LET k == proc[p].k IN
    /\ At(p, {"terminate"}, "write")
    /\ rows' = PatchAll(k, [proc[p].copy EXCEPT !.state = proc[p].to])
    /\ \E i \in DOMAIN jobs :
         /\ jobs[i] = [type |-> "KEY_DETACH", k |-> k, st |-> proc[p].to]
         /\ \A j \in 1..(i - 1) : jobs[j] # jobs[i]
         /\ jobs' = Without(i)
    /\ Done(p)
    /\ UNCHANGED <<crowded, versions, configs, primary, linked, provider, tasks, late, crypto, used, told, bounds>>

-----------------------------------------------------------------------------
(* Configurations (manager/keyconfiguration.go), the systems that use them,   *)
(* and the customer.                                                          *)

(* The new primary key is looked up by its ID alone, whatever configuration   *)
(* it belongs to, and must be ENABLED; so must the old one, if there is one.  *)
validateKeyForPrimarySwitch(c, k) ==
    /\ rows[k].state = "ENABLED"
    /\ primary[c] # None => rows[primary[c]].state = "ENABLED"

(* A link or switch job makes the key usable, with its newest version. *)
switchSystems(k) ==
    /\ told' = [told EXCEPT ![k] = Newest(k)]
    /\ crypto' = [crypto EXCEPT ![k] = TRUE]

UpdateKeyConfigurationByID(p, c, k) ==
    /\ c \in configs /\ primary[c] # k
    /\ OwnPrimary => rows[k].cfg = c
    /\ validateKeyForPrimarySwitch(c, k)
    /\ AtOnce(p)
    /\ primary' = [primary EXCEPT ![c] = k]
    /\ IF c \in linked THEN switchSystems(k) ELSE UNCHANGED <<told, crypto>>
    /\ UNCHANGED <<rows, versions, configs, linked, provider, queues, late, used, customer, faults>>

DeleteKeyConfigurationByID(p, c) ==
    /\ c \in configs /\ c \notin linked /\ ~HasKeys(c)
    /\ Begin(p, "deleteConfig", None, c, NoRow, "NONE", "rows")
    /\ UNCHANGED <<tables, provider, queues, late, crypto, used, told, customer, faults>>

deleteConfigRow(p) ==
    /\ At(p, {"deleteConfig"}, "rows")
    /\ configs' = configs \ {proc[p].c}
    /\ primary' = [primary EXCEPT ![proc[p].c] = None]
    /\ Done(p)
    /\ UNCHANGED <<rows, versions, linked, provider, queues, late, crypto, used, told, bounds>>

CanConnectSystems(c) == c \in configs /\ primary[c] # None /\ rows[primary[c]].state = "ENABLED"

Connect(p, c) ==
    /\ c \notin linked /\ CanConnectSystems(c)
    /\ AtOnce(p)
    /\ linked' = linked \union {c}
    /\ switchSystems(primary[c])
    /\ UNCHANGED <<rows, versions, configs, primary, provider, queues, late, used, customer, faults>>

Disconnect(p, c) ==
    /\ c \in linked
    /\ AtOnce(p)
    /\ linked' = linked \ {c}
    /\ UNCHANGED <<rows, versions, configs, primary, provider, queues, late, crypto, used, told, customer, faults>>

(* The customer rotates, disables, enables and deletes a HYOK key. *)
Customer(k) ==
    /\ k \in Hyok /\ customer < MaxCustomer /\ keystore[k] # "absent"
    /\ customer' = customer + 1
    /\ \/ \E s \in {"ENABLED", "DISABLED", "PENDING_DELETION", "absent"} \ {keystore[k]} :
            keystore' = [keystore EXCEPT ![k] = s] /\ UNCHANGED latest
       \/ latest[k] < MaxVersion /\ latest' = [latest EXCEPT ![k] = @ + 1] /\ UNCHANGED keystore
    /\ UNCHANGED <<tables, provisioned, queues, late, crypto, told, proc, used, overlaps, faults>>

-----------------------------------------------------------------------------
(* What a process does next once it has started. *)
Step(p) ==
    \/ persistCreatedKey(p)
    \/ getKeyFromProvider(p) \/ syncKeyVersions(p) \/ syncHYOKKeyState(p)
    \/ applyKeyPatch(p) \/ deleteProviderKey(p) \/ deleteRows(p)
    \/ fetchImportParams(p) \/ importProviderKeyMaterial(p) \/ persistImport(p)
    \/ initProviderForPendingKey(p) \/ createOrRecoverProviderKey(p) \/ persistPendingKey(p)
    \/ Detach(p) \/ updateKey(p) \/ deleteConfigRow(p)

Next ==
    \/ \E p \in Procs : Step(p) \/ Dies(p)
    \/ \E p \in Procs, k \in Keys, c \in Configs :
         \/ createPendingBYOKKeyIfNeeded(p, k, c) \/ createOrRegisterProviderKey(p, k, c)
         \/ UpdateKeyConfigurationByID(p, c, k)
    \/ \E p \in Procs, k \in Keys :
         \/ Get(p, "sync", k) \/ UpdateKey(p, k) \/ Delete(p, k)
         \/ GetImportParams(p, k) \/ ImportKeyMaterial(p, k)
         \/ SyncPendingCreationKey(p, k) \/ detachPrimaryKeys(p, k)
    \/ \E p \in Procs, c \in Configs :
         DeleteKeyConfigurationByID(p, c) \/ Connect(p, c) \/ Disconnect(p, c)
    \/ \E p \in Procs, i \in DOMAIN jobs : terminate(p, i)
    \/ \E i \in DOMAIN jobs : KeyJob(i) \/ ConfirmDetach(i) \/ EndDetach(i)
    \/ \E k \in Keys :
         \/ CreateOrUpdateLabel(k) \/ DeleteLabel(k) \/ ImportParamsExpire(k)
         \/ Late(k) \/ Customer(k)

Spec == Init /\ [][Next]_vars

(* Requests end; a queued task is taken up again and again; the HYOK task     *)
(* comes round for every key, and its calls do not fail for ever.  Time       *)
(* passes.                                                                    *)
Fairness ==
    /\ \A p \in Procs : WF_vars(Step(p))
    /\ \A k \in Byok : WF_vars(Late(k)) /\ SF_vars(\E p \in Procs : SyncPendingCreationKey(p, k))
    /\ \A k \in Hyok :
         /\ SF_vars(\E p \in Procs : Get(p, "sync", k))
         /\ SF_vars(\E p \in Procs : getKeyFromProvider(p) /\ proc'[p].pc = "versions" /\ proc[p].k = k)
         /\ SF_vars(\E p \in Procs : syncKeyVersions(p) /\ told'[k] = latest[k] /\ proc[p].k = k)

FairSpec == Spec /\ Fairness

-----------------------------------------------------------------------------
(* Properties.                                                                *)

Working(k) == \E p \in Procs : proc[p].k = k
Usable == {"PENDING_IMPORT", "ENABLED", "DISABLED"}

(* The rows and the keystore agree.                                           *)
(* - UpdateKey, GetImportParams, ImportKeyMaterial and the synchronisation    *)
(*   dereference NativeID without looking at it.  They do that for keys in    *)
(*   these states, as stored or as a process read them, and such a key has    *)
(*   one, whatever the order of requests, tasks and jobs and wherever they    *)
(*   die.                                                                     *)
(* - When nothing is in progress the stored state of a BYOK key is the one in *)
(*   the keystore, which CMK never asks again: every operation that changes   *)
(*   one changes the other, as long as operations do not overlap and none     *)
(*   dies half way.  (Only a labelled key may be gone from the keystore: the  *)
(*   second half of its deletion fails.)                                      *)
(* - CMK never forgets a key it made in the keystore: it has a row with its   *)
(*   NativeID, an operation on it goes on, or its task is still queued and    *)
(*   will recover it (recoverExistingProviderKey), even if a task died in     *)
(*   between.  One that died is forgotten only when the creation request      *)
(*   died, or when the key becomes ERROR, is deleted or is detached before    *)
(*   the task is taken up again.                                              *)
KeystoreAgrees ==
    /\ TypeOK
    /\ \A k \in Keys : rows[k].state \in Usable => rows[k].native
    /\ \A p \in Procs : proc[p].copy.state \in Usable => proc[p].copy.native
    /\ overlaps = 0 /\ faults = 0 =>
         \A k \in Byok : ~Working(k) /\ rows[k].state \in Usable =>
             keystore[k] = rows[k].state \/ (k \in Labelled /\ keystore[k] = "absent")
    /\ overlaps = 0 =>
         \A k \in Byok : keystore[k] # "absent" =>
             \/ Working(k)
             \/ Exists(k) /\ rows[k].native
             \/ faults > 0 /\ (k \in tasks \/ rows[k].state \notin Usable \union {"PENDING_CREATION"})

(* Nothing dangles, as long as a check and the deletion it allows are not     *)
(* overtaken.  Delete refuses the primary key of a configuration that systems *)
(* use, so such a configuration has its primary key, if that is a key of its  *)
(* own.  And a configuration is deleted only without keys.                    *)
NothingDangles ==
    overlaps = 0 =>
        /\ OwnPrimary => \A c \in linked : primary[c] # None /\ Exists(primary[c])
        /\ \A k \in Keys : Exists(k) => rows[k].cfg \in configs

(* The operators of a linked configuration end up with what the state of the  *)
(* primary key, a key of its own, says, once its jobs are over, unless one    *)
(* failed or was asked for while another one was open (it may overtake that,  *)
(* or be dropped).                                                            *)
OperatorsFollow ==
    OwnPrimary /\ overlaps = 0 /\ faults = 0 /\ ~crowded =>
        \A c \in linked :
            LET k == primary[c] IN
            /\ k # None
            /\ \A i \in DOMAIN jobs : jobs[i].k # k
            /\ rows[k].state \in {"ENABLED", "DISABLED"}
            => crypto[k] = (rows[k].state = "ENABLED")

-----------------------------------------------------------------------------
(* The inductive invariant behind these (KeysProofs).                         *)

(* What holds of every row, and of every copy of one, in all interleavings.   *)
Consistent(k, row) ==
    /\ row.state \in Usable \/ k \in Hyok => row.native
    /\ row.state = "PENDING_CREATION" => ~row.native

RowOk(k, row) ==
    row # NoRow => row \in Row /\ Consistent(k, row) /\ (row.labels => k \in Labelled)

(* What a process that works on a key holds at each of its steps. *)
ProcOk(r) ==
    /\ r.op \in Ops \ {"deleteConfig"} /\ r.k \in Keys /\ r.copy \in Row /\ Consistent(r.k, r.copy)
    /\ r.op \in {"params", "import", "pending"} => r.k \in Byok
    /\ r.op \in {"sync", "update", "delete"} /\ r.pc \in {"get", "versions", "write"} => r.k \in Hyok
    /\ r.op \in {"sync", "update", "delete"} /\ r.pc \in {"versions", "write"} =>
         r.to \in States \ {"PENDING_CREATION"}
    /\ r.op = "update" /\ r.pc = "commit" => r.to \in {"NONE", "ENABLED", "DISABLED"}
    /\ r.op = "terminate" => r.to \in {"DETACHED", "UNKNOWN"}
    /\ r.op = "create" =>
         ~r.copy.labels /\ r.copy.state = IF r.k \in Byok THEN "PENDING_IMPORT" ELSE "ENABLED"
    /\ r.op = "import" => r.copy.state = IF r.pc = "write" THEN "ENABLED" ELSE "PENDING_IMPORT"
    /\ r.op = "pending" => IF r.pc = "write" THEN r.copy.native /\ r.copy.state \in KeystoreStates
                            ELSE r.copy.state = "PENDING_CREATION"

DeletesConfig(r) ==
    r.op = "deleteConfig" /\ r.k = None /\ r.c \in Configs /\ r.copy = NoRow /\ r.pc = "rows"

BaseInv ==
    /\ TypeOK
    /\ \A k \in Keys : RowOk(k, rows[k]) /\ (Exists(k) => k \in used)
    /\ \A p \in Procs : proc[p] = Idle \/ DeletesConfig(proc[p]) \/ ProcOk(proc[p])
    /\ \A p \in Procs : proc[p].k # None => proc[p].k \in used
    /\ \A c \in Configs : primary[c] # None => primary[c] \in used

(* A key ID that was not handed out is not in the keystore. *)
Unused == \A k \in Byok \ used : keystore[k] = "absent"

(* Without overlaps a process finds what it read, but for what it changed.    *)
Unsaved(r) == r.op \in {"import", "pending"} /\ r.pc = "write"

Fresh(r) ==
    /\ r.op = "create" =>
         /\ ~Exists(r.k) /\ r.copy.cfg \in configs
         /\ r.k \in Byok => keystore[r.k] = "PENDING_IMPORT"
         /\ \A c \in Configs : primary[c] # r.k
    /\ r.op \in Ops \ {"create", "deleteConfig"} =>
         /\ Exists(r.k) /\ rows[r.k].cfg = r.copy.cfg
         /\ ~Unsaved(r) => rows[r.k].state = r.copy.state /\ rows[r.k].native = r.copy.native
         /\ Unsaved(r) =>
              /\ keystore[r.k] = r.copy.state
              /\ rows[r.k].state = IF r.op = "import" THEN "PENDING_IMPORT" ELSE "PENDING_CREATION"
    /\ r.op = "pending" => r.k \in tasks
    /\ r.op = "delete" =>
         /\ IsPrimary(r.k) => r.c = rows[r.k].cfg
         /\ r.pc = "rows" =>
              /\ r.c \notin linked
              /\ r.k \in Byok /\ rows[r.k].native => keystore[r.k] = "absent"
    /\ r.op = "deleteConfig" => r.c \notin linked /\ ~HasKeys(r.c)

(* Between its call of the keystore and the write of the row a process may    *)
(* leave the two apart.                                                       *)
Apart(r) ==
    r.op = "create" \/ (r.op = "import" /\ r.pc = "write") \/ (r.op = "delete" /\ r.pc = "rows")

Agrees(k) ==
    faults = 0 /\ rows[k].state \in Usable /\ (\A p \in Procs : proc[p].k = k => ~Apart(proc[p])) =>
        keystore[k] = rows[k].state \/ (k \in Labelled /\ keystore[k] = "absent")

Makes(r) == r.op = "create" \/ (r.op = "pending" /\ r.pc = "write")

Remembered(k) ==
    keystore[k] # "absent" =>
        \/ \E p \in Procs : proc[p].k = k /\ Makes(proc[p])
        \/ Exists(k) /\ rows[k].native
        \/ faults > 0 /\ (k \in tasks \/ rows[k].state \notin Usable \union {"PENDING_CREATION"})

SerialInv ==
    /\ \A p, q \in Procs : proc[p] # Idle /\ proc[q] # Idle => p = q
    /\ \A p \in Procs : Fresh(proc[p])
    /\ \A k \in Byok : Agrees(k) /\ Remembered(k)
    /\ \A k \in Keys : Exists(k) => rows[k].cfg \in configs
    /\ OwnPrimary =>
         /\ \A c \in Configs : primary[c] # None /\ Exists(primary[c]) => rows[primary[c]].cfg = c
         /\ \A c \in linked : c \in configs /\ primary[c] # None /\ Exists(primary[c])

KeysInv == BaseInv /\ Unused /\ (overlaps = 0 => SerialInv)

(* And for the operators: an enabling or disabling job is the one the key's   *)
(* state asks for; a key that never had material has none, and may be used.   *)
Asked == {jobs[i] : i \in {j \in DOMAIN jobs : jobs[j].type # "KEY_DETACH"}}
NoJob(k) == \A job \in Asked : job.k # k
New(k) ==
    \/ k \notin used
    \/ k \in Byok /\ rows[k].state \in {"PENDING_CREATION", "PENDING_IMPORT"}
    \/ \E p \in Procs : proc[p].op = "create" /\ proc[p].k = k

JobsInv ==
    /\ \A job \in Asked :
         /\ job.st = "created"
         /\ rows[job.k].state = "ENABLED" => job.type = "KEY_ENABLE"
         /\ rows[job.k].state = "DISABLED" => job.type = "KEY_DISABLE"
    /\ \A k \in Keys : New(k) => crypto[k] /\ NoJob(k)
    /\ \A p \in Procs : proc[p].op = "pending" /\ proc[p].pc = "write" =>
         proc[p].copy.state = "PENDING_IMPORT"
    /\ \A c \in linked :
         rows[primary[c]].state \in {"ENABLED", "DISABLED"} /\ NoJob(primary[c]) =>
            crypto[primary[c]] = (rows[primary[c]].state = "ENABLED")

OperatorsInv == OwnPrimary /\ overlaps = 0 /\ faults = 0 /\ ~crowded => JobsInv

(* A pending key whose task is queued leaves PENDING_CREATION, to             *)
(* PENDING_IMPORT or to ERROR at the latest after pendingCreationTimeout, or  *)
(* is deleted, even if a task dies.                                           *)
PendingEnds ==
    \A k \in Byok : rows[k].state = "PENDING_CREATION" /\ k \in tasks
                        ~> rows[k].state # "PENDING_CREATION"

(* "Systems will get updated on next scheduled sync": a new version of a HYOK *)
(* key reaches the systems that use it as their primary key.                  *)
RotationReaches ==
    \A k \in Hyok : Notified(k) /\ told[k] < latest[k]
                        ~> told[k] = latest[k] \/ ~Notified(k) \/ keystore[k] = "absent"
=============================================================================
