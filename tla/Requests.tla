------------------------------ MODULE Requests ------------------------------
(***************************************************************************)
(* Requests to the API server of one tenant, served concurrently: the      *)
(* workflow settings of the tenant (GET and PATCH), the check and the      *)
(* creation of a workflow, the lists of systems and workflows, POST /keys, *)
(* and the answer every failed request gets from the error mapper.         *)
(*                                                                         *)
(* A handler reads and writes the settings row in separate statements, and *)
(* the mapper stores the context of an error in the one APIError object of *)
(* its table entry, from which the answer is written afterwards: these are *)
(* the steps of the requests below.  A request of kind "any" is any other  *)
(* handler: it fails with the error chain of some table entry, with or     *)
(* without an error of the repository below it.                            *)
(***************************************************************************)
EXTENDS Errors, Queries, KeyBodies, WorkflowChecks, Integers

CONSTANTS Slots,             \* requests served at the same time
          Deployment,        \* defaults of the deployment, 0 where not set
          Updates,           \* bodies of PATCH /tenant/configurations/workflow
          Underlying,        \* errors found below an error of a handler
          SystemFilters, WorkflowFilters, Viewers,
          Landscapes, BaseLand, WorkflowBodies,
          SharedBodies       \* the workflows other requests run beside

VARIABLES role,      \* the role of the tenant
          config,    \* the settings row: no or one member
          context,   \* for every table entry, the request whose context it holds
          reqs

vars == <<role, config, context, reqs>>

Roles == {"ROLE_LIVE", "ROLE_TEST", "ROLE_TRIAL"}

Settings == {"Enabled", "MinimumApprovals", "RetentionPeriodDays",
             "DefaultExpiryPeriodDays", "MaxExpiryPeriodDays"}

(* A PATCH body: for every setting no value or one. *)
NoUpdate == [f \in Settings |-> {}]

NoConf == [f \in Settings |-> IF f = "Enabled" THEN FALSE ELSE 0]
NoWorkflow == [ArtifactType |-> "OTHER", ActionType |-> "DELETE", ArtifactID |-> "gone",
               Parameters |-> "bad", ExpiresAt |-> 0]
Anyone == [id |-> "alice", groups |-> {}, filtered |-> FALSE]

Idle == [op |-> "none", pc |-> "idle", err |-> {}, entry |-> 0, ctx |-> 0, conf |-> NoConf,
         update |-> NoUpdate, wf |-> NoWorkflow, land |-> BaseLand, status |-> NoStatus({}),
         created |-> FALSE, filter |-> << >>, user |-> Anyone, rows |-> {},
         raced |-> FALSE]

-----------------------------------------------------------------------------
(* The settings. *)

minimumRetentionPeriodDays == 30

Overridden(value, override) == IF override > 0 THEN override ELSE value

getDefaultWorkflowConfig(enabled) ==
    [Enabled                 |-> enabled,
     MinimumApprovals        |-> Overridden(2, Deployment.MinimumApprovals),
     RetentionPeriodDays     |-> Overridden(30, Deployment.RetentionPeriodDays),
     DefaultExpiryPeriodDays |-> Overridden(7, Deployment.DefaultExpiryPeriodDays),
     MaxExpiryPeriodDays     |-> Overridden(30, Deployment.MaxExpiryPeriodDays)]

DefaultConfig == getDefaultWorkflowConfig(role = "ROLE_LIVE")

(* What SetWorkflowConfig refuses. *)
MutantSettingsErrors(c) ==
    FirstError(<<
        Check(c.RetentionPeriodDays < minimumRetentionPeriodDays,
              {"manager.ErrSetWorkflowConfig", "manager.ErrRetentionLessThanMinimum"}),
        Check(c.MinimumApprovals < 2,
              {"manager.ErrSetWorkflowConfig", "manager.ErrMinimumApprovalsTooLow"}) >>)

SettingsErrors(c) ==
    FirstError(<<
        Check(c.RetentionPeriodDays < minimumRetentionPeriodDays,
              {"manager.ErrSetWorkflowConfig", "manager.ErrRetentionLessThanMinimum"}),
        Check(c.DefaultExpiryPeriodDays > c.MaxExpiryPeriodDays,
              {"manager.ErrSetWorkflowConfig", "manager.ErrDefaultExpiryExceedsMax"}),
        Check(c.MinimumApprovals < 2,
              {"manager.ErrSetWorkflowConfig", "manager.ErrMinimumApprovalsTooLow"}) >>)

mergeWorkflowConfig(c, update) ==
    [f \in Settings |-> IF update[f] = {} THEN c[f] ELSE CHOOSE v \in update[f] : TRUE]

(* Only a test tenant may change whether workflows are required. *)
RoleErrors(c, update) ==
    IF update.Enabled \subseteq {c.Enabled} \/ role = "ROLE_TEST" THEN {}
    ELSE {"manager.ErrSetWorkflowConfig", "manager.ErrWorkflowEnableDisableNotAllowed"}

Current == CHOOSE c \in config : TRUE

(* The error the controller of the request wraps around that of the        *)
(* manager.                                                                *)
Wrapped(r, err) ==
    CASE r.op = "get"   -> {"ErrGetWorkflowConfig"} \cup err
      [] r.op = "patch" -> {"ErrSetWorkflowConfig"} \cup err
      [] OTHER          -> {"ErrTransformWorkflowFromAPI", "manager.ErrGetWorkflowConfig"} \cup err

Returned(r, err) ==
    [r EXCEPT !.err = err, !.pc = IF err = {} THEN "answered" ELSE "failed"]

(* The step of request s to r; a change of the settings marks the other    *)
(* requests that have read them.                                           *)
Step(s, r) == reqs' = [reqs EXCEPT ![s] = r]

StepWriting(s, r) ==
    reqs' = [t \in Slots |->
                IF t = s THEN r
                ELSE [reqs[t] EXCEPT !.raced = @ \/ (reqs[t].pc \notin {"idle", "read"}
                                                     /\ reqs[t].op \in {"patch", "workflow"})]]

(* GetWorkflowConfig: the row, or the default, which is stored.            *)
AfterRead(r, c) ==
    CASE r.op = "get"   -> Returned([r EXCEPT !.conf = c], {})
      [] r.op = "patch" -> [r EXCEPT !.conf = c, !.pc = "merge"]
      [] OTHER          -> [r EXCEPT !.conf = c, !.pc = "checkFrom"]

GetWorkflowConfig(s) ==
    /\ reqs[s].pc = "read"
    /\ Step(s, IF config = {} THEN [reqs[s] EXCEPT !.pc = "default"] ELSE AfterRead(reqs[s], Current))
    /\ UNCHANGED <<role, config, context>>

SetDefaultConfig(s) ==
    /\ reqs[s].pc = "default"
    /\ IF SettingsErrors(DefaultConfig) = {}
       THEN /\ config' = {DefaultConfig}
            /\ StepWriting(s, AfterRead(reqs[s], DefaultConfig))
       ELSE /\ Step(s, Returned(reqs[s], Wrapped(reqs[s], SettingsErrors(DefaultConfig))))
            /\ UNCHANGED config
    /\ UNCHANGED <<role, context>>

(* The rest of UpdateWorkflowConfig: the whole row is written from the     *)
(* copy read before.                                                       *)
UpdateWorkflowConfig(s) ==
    LET merged == mergeWorkflowConfig(reqs[s].conf, reqs[s].update)
        roleErrors == RoleErrors(reqs[s].conf, reqs[s].update)
        err == IF roleErrors # {} THEN roleErrors ELSE SettingsErrors(merged)
    IN  /\ reqs[s].pc = "merge"
        /\ IF err = {}
           THEN /\ config' = {merged}
                /\ StepWriting(s, [Returned(reqs[s], {}) EXCEPT !.conf = merged])
           ELSE /\ Step(s, Returned(reqs[s], Wrapped(reqs[s], err)))
                /\ UNCHANGED config
        /\ UNCHANGED <<role, context>>

-----------------------------------------------------------------------------
(* A client checks a workflow and creates it where the check did not fail. *)

(* The controller's FromAPI, then the manager reads whether workflows are  *)
(* enabled.                                                                *)
CheckEnabled(s) ==
    LET err == FromAPIWorkflow(reqs[s].wf, reqs[s].conf)
    IN  /\ reqs[s].pc = "checkFrom"
        /\ Step(s, IF err # {} THEN Returned(reqs[s], err)
                   ELSE [reqs[s] EXCEPT !.conf.Enabled = Current.Enabled, !.pc = "check"])
        /\ UNCHANGED <<role, config, context>>

(* The checks, with the number of approvals read once more. *)
AtLastRead(r) == [Current EXCEPT !.Enabled = r.conf.Enabled]

PostCheck(s) ==
    LET r == reqs[s]
        status == CheckWorkflow(r.land, r.wf, AtLastRead(r))
    IN  /\ r.pc = "check"
        /\ Step(s, IF status.err # {} THEN Returned(r, status.err)
                   ELSE [r EXCEPT !.status = status, !.pc = "checked"])
        /\ UNCHANGED <<role, config, context>>

PostWorkflow(s) ==
    /\ reqs[s].pc = "checked"
    /\ Step(s, [reqs[s] EXCEPT !.conf = Current, !.pc = "createFrom"])
    /\ UNCHANGED <<role, config, context>>

(* CreateWorkflow takes a snapshot of the number of approvals, then        *)
(* performs the check.                                                     *)
CreateSnapshot(s) ==
    LET err == FromAPIWorkflow(reqs[s].wf, reqs[s].conf)
    IN  /\ reqs[s].pc = "createFrom"
        /\ Step(s, IF err # {} THEN Returned(reqs[s], err)
                   ELSE [reqs[s] EXCEPT !.conf.MinimumApprovals = Current.MinimumApprovals,
                                        !.pc = "snapshot"])
        /\ UNCHANGED <<role, config, context>>

CreateEnabled(s) ==
    /\ reqs[s].pc = "snapshot"
    /\ Step(s, [reqs[s] EXCEPT !.conf.Enabled = Current.Enabled, !.pc = "create"])
    /\ UNCHANGED <<role, config, context>>

PostCreate(s) ==
    LET r == reqs[s]
        err == CreateWorkflow(r.land, r.wf, AtLastRead(r))
    IN  /\ r.pc = "create"
        /\ Step(s, [Returned(r, err) EXCEPT !.created = err = {}])
        /\ UNCHANGED <<role, config, context>>

-----------------------------------------------------------------------------
(* The answer to a failed request. *)

HasContext(i) == i # 0 /\ APIErrors[i].ContextGetter = "error"

(* ErrorMapper.Transform selects the entry and stores the context in it.   *)
Transform(s) ==
    LET i == Selected(reqs[s].err)
    IN  /\ reqs[s].pc = "failed"
        /\ Step(s, [reqs[s] EXCEPT !.entry = i, !.pc = "mapped"])
        /\ context' = IF HasContext(i) THEN [context EXCEPT ![i] = s] ELSE context
        /\ UNCHANGED <<role, config>>

(* write.ErrorResponse encodes the shared object. *)
ErrorResponse(s) ==
    /\ reqs[s].pc = "mapped"
    /\ Step(s, [reqs[s] EXCEPT !.ctx = IF HasContext(reqs[s].entry) THEN context[reqs[s].entry] ELSE 0,
                               !.pc = "answered"])
    /\ UNCHANGED <<role, config, context>>

-----------------------------------------------------------------------------
(* The requests.  Bounds: a second request starts beside a first one only  *)
(* where the two can meet, in the settings row or in a table entry with a  *)
(* context.  What does not depend on the settings is examined one request  *)
(* at a time, in the first slot, for a live tenant with the default ones;  *)
(* the landscapes other than the base one with the default settings of the *)
(* two roles that differ in them.                                          *)

Others(s) == {reqs[t] : t \in Slots \ {s}}
Free(s)   == reqs[s].pc = "idle"
Alone(s)  == (\A t \in Slots : s <= t) /\ \A t \in Slots : Free(t)

AtDefaults == config = {DefaultConfig} /\ role # "ROLE_TRIAL"
Sole(s)    == Alone(s) /\ AtDefaults /\ role = "ROLE_LIVE"

Receive(s, r) ==
    /\ Step(s, r)
    /\ UNCHANGED <<role, config, context>>

SharesSettings(s) ==
    /\ Free(s)
    /\ \A r \in Others(s) : r.op \in {"none", "get", "patch"}
                               \/ (r.op = "workflow" /\ r.land = BaseLand /\ r.wf \in SharedBodies)

ReceiveGet(s) ==
    SharesSettings(s) /\ Receive(s, [Idle EXCEPT !.op = "get", !.pc = "read"])

ReceivePatch(s) ==
    /\ SharesSettings(s)
    /\ \E u \in Updates : Receive(s, [Idle EXCEPT !.op = "patch", !.pc = "read", !.update = u])

ReceiveWorkflow(s) ==
    /\ Alone(s)
    /\ \E l \in (IF AtDefaults THEN Landscapes ELSE {BaseLand}),
          w \in (IF AtDefaults THEN WorkflowBodies ELSE SharedBodies) :
           Receive(s, [Idle EXCEPT !.op = "workflow", !.pc = "read", !.land = l, !.wf = w])

(* getAllSystems and getWorkflows hold no lock and write nothing. *)
ReceiveSystems(s) ==
    /\ Sole(s)
    /\ \E f \in SystemFilters :
        LET answer == GetAllSystems(f) IN
        Receive(s, [Returned(Idle, answer.err) EXCEPT !.op = "systems", !.filter = f, !.rows = answer.rows])

ReceiveWorkflows(s) ==
    /\ Sole(s)
    /\ \E f \in WorkflowFilters, u \in Viewers :
        LET answer == GetWorkflows(f, u) IN
        Receive(s, [Returned(Idle, answer.err) EXCEPT !.op = "workflows", !.filter = f, !.user = u,
                                                         !.rows = answer.rows])

PostKeyErrors == {PostKeys(b, p) : b \in Bodies, p \in Plugins}

ReceiveKey(s) ==
    /\ Sole(s)
    /\ \E err \in PostKeyErrors : Receive(s, [Returned(Idle, err) EXCEPT !.op = "key"])

AnyErrors    == {APIErrors[i].InternalErrorChain \cup u : i \in DOMAIN APIErrors, u \in Underlying}
ContextErrors == {APIErrors[i].InternalErrorChain : i \in {j \in DOMAIN APIErrors : HasContext(j)}}

ReceiveAny(s) ==
    \/ /\ Sole(s)
       /\ \E err \in AnyErrors : Receive(s, [Returned(Idle, err) EXCEPT !.op = "any"])
    \/ /\ Free(s) /\ \A r \in Others(s) : r.op = "any" /\ r.err \in ContextErrors
       /\ \E err \in ContextErrors : Receive(s, [Returned(Idle, err) EXCEPT !.op = "any"])

(* The answer is read; a client may also leave it at the check.  The       *)
(* context that stays behind is never seen: Transform stores one whenever  *)
(* it selects the entry.                                                   *)
Finish(s) ==
    /\ reqs[s].pc \in {"answered", "checked"}
    /\ Step(s, Idle)
    /\ context' = [i \in DOMAIN context |-> IF context[i] = s THEN 0 ELSE context[i]]
    /\ UNCHANGED <<role, config>>

Init ==
    /\ role \in Roles
    /\ config \in {{}, {DefaultConfig}}
    /\ SettingsErrors(DefaultConfig) # {} => config = {}
    /\ context = [i \in {j \in DOMAIN APIErrors : HasContext(j)} |-> 0]
    /\ reqs = [s \in Slots |-> Idle]

Next ==
    \E s \in Slots :
        \/ ReceiveGet(s) \/ ReceivePatch(s) \/ ReceiveWorkflow(s) \/ ReceiveSystems(s)
        \/ ReceiveWorkflows(s) \/ ReceiveKey(s) \/ ReceiveAny(s)
        \/ GetWorkflowConfig(s) \/ SetDefaultConfig(s) \/ UpdateWorkflowConfig(s)
        \/ CheckEnabled(s) \/ PostCheck(s) \/ PostWorkflow(s)
        \/ CreateSnapshot(s) \/ CreateEnabled(s) \/ PostCreate(s)
        \/ Transform(s) \/ ErrorResponse(s) \/ Finish(s)

Spec == Init /\ [][Next]_vars

-----------------------------------------------------------------------------
(* Properties. *)

Answered(r) == r.pc = "answered"

Answer(r) == IF containsAsPriority(r.err) THEN PriorityError(r.err)
             ELSE IF r.entry = 0 THEN DefaultError ELSE APIErrors[r.entry]

(* Every request is where its handler can be, holds a row and an entry     *)
(* that exist, and the contexts belong to requests being answered.         *)
TypeOK ==
    /\ role \in Roles
    /\ Cardinality(config) <= 1
    /\ \A s \in Slots :
          /\ reqs[s].pc \in {"idle", "read", "default", "merge", "checkFrom", "check", "checked",
                             "createFrom", "snapshot", "create", "failed", "mapped", "answered"}
          /\ reqs[s].entry \in 0 .. Len(APIErrors)
          /\ reqs[s].pc \in {"check", "checked", "createFrom", "snapshot", "create", "merge"}
                => config # {}
    /\ \A i \in DOMAIN context :
          context[i] # 0 => reqs[context[i]].pc \in {"mapped", "answered"}

(* SetWorkflowConfig validates what it stores: whatever PATCH and GET      *)
(* requests overlap, the stored settings keep the retention minimum, a     *)
(* default expiry within the maximum and at least two approvals.  Only a   *)
(* test tenant can switch workflows on or off: with any other role they    *)
(* stay as SetWorkflowConfig chose by the role (required exactly for a     *)
(* live tenant), also when a stale copy is written back.                   *)
SettingsValid ==
    /\ TypeOK
    /\ \A c \in config :
        /\ c.RetentionPeriodDays >= minimumRetentionPeriodDays
        /\ c.DefaultExpiryPeriodDays <= c.MaxExpiryPeriodDays
        /\ c.MinimumApprovals >= 2
        /\ role # "ROLE_TEST" => c.Enabled = (role = "ROLE_LIVE")

(* What the client got wrong is answered with a 4xx status: a filter, a    *)
(* key body or settings the handlers refuse, and a workflow refused for    *)
(* its date, its caller, its approvers or an open rival, are not reported  *)
(* as a failure of the server, whichever errors are wrapped around.        *)
ServerFaults == {"ErrDefaultKeystoreNotFound", "manager.ErrGetWorkflowConfig"}

RefusedWorkflow == {"ErrTransformWorkflowFromAPI", "manager.ErrWorkflowCreationNotAllowed",
                    "manager.ErrOngoingWorkflowExist",
                    "workflowpkg.ErrWorkflowGroupNotSufficientMembers"}

RefusedIsClientError ==
    \A s \in Slots :
        LET r == reqs[s] IN
        /\ r.pc \in {"mapped", "answered"} /\ r.err # {} /\ r.err \cap ServerFaults = {}
        /\ \/ r.op \in {"systems", "workflows", "key", "patch"}
           \/ r.op = "workflow" /\ r.err \cap RefusedWorkflow # {}
        => Answer(r).Status \in 400 .. 499

(* The comparisons a filter makes, read off its tokens. *)
Comparisons(f) ==
    {<<f[k - 1].text, f[k + 1].text>> : k \in {j \in 2 .. Len(f) - 1 : f[j] = Op("eq")}}

Unescaped(t) == IF t = "a''b" THEN "a'b" ELSE t

Wanted(schema, c) ==
    LET e == EntryOf(schema, c[1]) IN IF e.ToUpper THEN ToUpper(c[2]) ELSE Unescaped(c[2])

Compares(schema, row, c) == row[EntryOf(schema, c[1]).DBName] = Wanted(schema, c)

(* A list has what was asked for.  The systems listed are those that       *)
(* satisfy every comparison of the filter, whatever operators, quotes and  *)
(* cases went through the parser, the schema and the query builder; a text *)
(* that is a keyword of the query builder is left out, since it is taken   *)
(* for the keyword.  The workflows listed satisfy the filter (a field      *)
(* compared twice, an empty text and the nil UUID set aside: the manager's *)
(* filter keeps one value per field and takes these for none).             *)
Once(f) == \A c, d \in Comparisons(f) : c[1] = d[1] => c = d

Listed(r, texts) ==
    Answered(r) /\ r.err = {} /\ \A c \in Comparisons(r.filter) : c[2] \notin texts

ListedSatisfy ==
    \A s \in Slots :
        LET r == reqs[s] IN
        /\ r.op = "systems" /\ Listed(r, Keywords) =>
              r.rows = {x \in Systems : \A c \in Comparisons(r.filter) :
                                           Compares(getSystemsSchema, JoinedSystem(x), c)}
        /\ r.op = "workflows" /\ Listed(r, Keywords \cup {"", NilUUID}) /\ Once(r.filter) =>
              \A x \in r.rows, c \in Comparisons(r.filter) : Compares(GetWorkflowsSchema, x, c)

(* A user whose view is restricted sees a workflow only as its initiator   *)
(* or one of its approvers, and then only if it has no approver group or   *)
(* one of the user's: the two OR groups of the query must not absorb each  *)
(* other or the filter.                                                    *)
VisibleOnly ==
    \A s \in Slots :
        LET r == reqs[s] IN
        Answered(r) /\ r.op = "workflows" /\ r.user.filtered =>
            \A x \in r.rows :
                /\ x.initiator_id = r.user.id \/ r.user.id \in x.approvers
                /\ x.groups = {} \/ x.groups \cap r.user.groups # {}

(* The check foretells the creation: as long as the settings stay, a       *)
(* workflow the check allows is created if its artifact exists and its     *)
(* parameters can be read by the caller, and one it refuses is not.  With  *)
(* workflows switched off the check says no to all and creation to none.   *)
Readable(r) ==
    populateArtifact(r.land, r.wf) = {} /\ populateParametersResource(r.land, r.wf) = {}

CheckForetells ==
    \A s \in Slots :
        LET r == reqs[s] IN
        /\ r.op = "workflow" /\ ~ r.raced /\ r.status.Enabled
        /\ r.pc \in {"failed", "mapped", "answered"}
        /\ r.status # NoStatus({})
        => /\ r.status.CanCreate /\ Readable(r) => r.created
           /\ ~ r.status.CanCreate => ~ r.created

=============================================================================
