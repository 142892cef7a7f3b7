--------------------------- MODULE WorkflowChecks ---------------------------
(***************************************************************************)
(* What POST /workflows/check and POST /workflows decide about a workflow  *)
(* before it is stored (manager/workflow.go), as functions of the request  *)
(* and of what the database holds.                                         *)
(*                                                                         *)
(* A landscape is what the checks read: for every key configuration its    *)
(* primary key, whether the caller's groups administer it and the members  *)
(* of its admin group other than the caller; the keys; one system;         *)
(* whether an open workflow exists for the artifact; whether the caller is *)
(* an auditor.  "nil" is a NULL column, "gone" an identifier without a     *)
(* row, "bad" a text that is no UUID.  The workflow configuration cfg is   *)
(* the tenant's current one.  Errors are sets of sentinels as in Errors;   *)
(* a nil dereference is the sentinel "panic", which the recovery           *)
(* middleware answers with the default error.                              *)
(***************************************************************************)
EXTENDS Naturals, Sequences, FiniteSets

ArtifactTypes == {"KEY", "KEY_CONFIGURATION", "SYSTEM", "OTHER"}
Actions       == {"UPDATE_STATE", "UPDATE_PRIMARY", "LINK", "UNLINK", "SWITCH", "DELETE"}
Configurations == {"c1", "c2"}
Keys          == {"k1", "k2"}
System        == "s1"

Found(configs) == [err |-> {}, configs |-> configs]
Failed(err)    == [err |-> err, configs |-> << >>]

-----------------------------------------------------------------------------
(* Reading the artifact. *)

(* GetKeyConfigurationByID: HasKeyConfigAccess counts the configurations   *)
(* with this ID the caller's groups administer, so a missing one is not    *)
(* allowed; an auditor may read every one and finds out.                   *)
GetKeyConfigurationByID(land, c) ==
    IF land.auditor
    THEN IF c \in Configurations THEN {} ELSE {"manager.ErrGettingKeyConfigByID", "repo.ErrNotFound"}
    ELSE IF c \in land.allowed THEN {} ELSE {"manager.ErrKeyConfigurationNotAllowed"}

KeyGet(land, k) ==
    IF k \notin Keys THEN {"manager.ErrGetKeyDB", "repo.ErrNotFound"}
    ELSE GetKeyConfigurationByID(land, land.keyConfig[k])

GetSystemByID(s) == IF s = System THEN {} ELSE {"manager.ErrGettingSystemByID", "repo.ErrNotFound"}

Then(result, next) == IF result.err # {} THEN result ELSE
                      IF next.err # {} THEN next ELSE Found(result.configs \o next.configs)

ConfigFound(land, c) ==
    LET err == GetKeyConfigurationByID(land, c)
    IN  IF err = {} THEN Found(<<c>>) ELSE Failed({"manager.ErrGetKeyConfigFromArtifact"} \cup err)

getKeyConfigFromSystem(land, wf) ==
    LET source == CASE wf.ActionType \notin {"UNLINK", "SWITCH"} -> Found(<< >>)
                    [] wf.ActionType \in {"UNLINK", "SWITCH"} /\ GetSystemByID(wf.ArtifactID) # {} ->
                           Failed({"manager.ErrGetKeyConfigFromArtifact"} \cup GetSystemByID(wf.ArtifactID))
                    [] wf.ActionType \in {"UNLINK", "SWITCH"} /\ wf.ArtifactID = System
                       /\ land.systemConfig = "nil" -> Failed({"panic"})
                    [] OTHER -> ConfigFound(land, land.systemConfig)
        target == CASE wf.ActionType \notin {"LINK", "SWITCH"} -> Found(<< >>)
                    [] wf.ActionType \in {"LINK", "SWITCH"} /\ wf.Parameters = "bad" ->
                           Failed({"manager.ErrGetKeyConfigFromArtifact"})
                    [] OTHER -> ConfigFound(land, wf.Parameters)
    IN  Then(source, target)

getKeyConfigFromKey(land, wf) ==
    IF KeyGet(land, wf.ArtifactID) # {}
    THEN Failed({"manager.ErrGetKeyConfigFromArtifact"} \cup KeyGet(land, wf.ArtifactID))
    ELSE ConfigFound(land, land.keyConfig[wf.ArtifactID])

getKeyConfigurationsFromArtifact(land, wf) ==
    CASE wf.ArtifactType = "KEY_CONFIGURATION" -> ConfigFound(land, wf.ArtifactID)
      [] wf.ArtifactType = "SYSTEM"            -> getKeyConfigFromSystem(land, wf)
      [] wf.ArtifactType = "KEY"               -> getKeyConfigFromKey(land, wf)
      [] OTHER                                 -> Failed({"manager.ErrGetKeyConfigFromArtifact"})

-----------------------------------------------------------------------------
(* The checks. *)

(* The caller must see the configurations concerned and be no auditor.     *)
checkPermissionToCreateWorkflow(land, wf) ==
    LET err == getKeyConfigurationsFromArtifact(land, wf).err
    IN  CASE err \cap {"manager.ErrKeyConfigurationNotAllowed", "repo.ErrNotFound"} # {} ->
                 [allowed |-> FALSE, err |-> {}]
          [] err # {} /\ err \cap {"manager.ErrKeyConfigurationNotAllowed", "repo.ErrNotFound"} = {} ->
                 [allowed |-> FALSE, err |-> err]
          [] OTHER -> [allowed |-> ~ land.auditor, err |-> {}]

isSupportedWorkflow(wf) ==
    <<wf.ArtifactType, wf.ActionType>> \in
        ({"KEY"} \X {"UPDATE_STATE", "DELETE"}) \cup ({"SYSTEM"} \X {"LINK", "UNLINK", "SWITCH"})
        \cup {<<"KEY_CONFIGURATION", "UPDATE_PRIMARY">>}

(* An enabled key; First reports a missing row. *)
KeyEnabled(land, k, disabled) ==
    IF k \notin Keys THEN {"repo.ErrNotFound"}
    ELSE IF land.keyState[k] # "ENABLED" THEN {disabled} ELSE {}

SystemConnectErrors(land, configs) ==
    LET Of(c) == IF land.primary[c] = "nil" THEN {"manager.ErrConnectSystemNoPrimaryKey"}
                 ELSE KeyEnabled(land, land.primary[c], "manager.ErrConnectSystemNoPrimaryKey")
        failing == {i \in DOMAIN configs : Of(configs[i]) # {}}
    IN  IF failing = {} THEN {} ELSE Of(configs[CHOOSE i \in failing : \A j \in failing : i <= j])

PrimaryKeySwitchErrors(land, wf, c) ==
    CASE wf.Parameters = "bad" -> {"uuid"}
      [] wf.Parameters # "bad" /\ land.primary[c] = "nil" -> {"manager.ErrPrimaryKeyDisabled"}
      [] OTHER ->
         LET target == KeyEnabled(land, wf.Parameters, "manager.ErrPrimaryKeyDisabled")
             source == KeyEnabled(land, land.primary[c], "manager.ErrPrimaryKeyDisabled")
         IN  CASE target # {} -> target
               [] target = {} /\ source # {} -> source
               [] target = {} /\ source = {} /\ land.primary[c] = wf.Parameters ->
                      {"manager.ErrAlreadyPrimaryKey"}
               [] target = {} /\ source = {} /\ land.primary[c] # wf.Parameters
                  /\ land.systemConfig = c /\ land.systemStatus # "CONNECTED" ->
                      {"manager.ErrNotAllSystemsConnected"}
               [] OTHER -> {}

validateWorkflow(land, wf) ==
    LET found == getKeyConfigurationsFromArtifact(land, wf)
    IN  CASE found.err # {} -> found.err
          [] found.err = {} /\ wf.ArtifactType = "SYSTEM" /\ wf.ActionType \in {"LINK", "SWITCH"} ->
                 SystemConnectErrors(land, found.configs)
          [] found.err = {} /\ wf.ArtifactType = "KEY_CONFIGURATION" /\ wf.ActionType = "UPDATE_PRIMARY" ->
                 PrimaryKeySwitchErrors(land, wf, found.configs[1])
          [] found.err = {} /\ wf.ArtifactType = "KEY" /\ wf.ActionType = "UPDATE_STATE" ->
                 IF land.keyType[wf.ArtifactID] # "BYOK" THEN {"manager.ErrUpdateNonBYOKKeyStatus"} ELSE {}
          [] OTHER -> {}

(* The members of the admin groups, the caller left out: each counts once. *)
validateApproverCount(land, wf, min) ==
    LET found == getKeyConfigurationsFromArtifact(land, wf)
        approvers == UNION {land.admins[found.configs[i]] : i \in DOMAIN found.configs}
    IN  CASE found.err # {} -> {"manager.ErrCheckWorkflow"} \cup found.err
          [] found.err = {} /\ Cardinality(approvers) < min -> {"workflowpkg.ErrWorkflowGroupNotSufficientMembers"}
          [] OTHER -> {}

Status(enabled, exists, valid, canCreate, details, err) ==
    [Enabled |-> enabled, Exists |-> exists, Valid |-> valid, CanCreate |-> canCreate,
     ErrDetails |-> details, err |-> err]

checkWorkflow(land, wf, cfg) ==
    LET invalid == validateWorkflow(land, wf)
        few     == validateApproverCount(land, wf, cfg.MinimumApprovals)
    IN  CASE ~ cfg.Enabled -> Status(FALSE, FALSE, FALSE, FALSE, {}, {})
          [] cfg.Enabled /\ ~ isSupportedWorkflow(wf) ->
                 Status(TRUE, FALSE, FALSE, FALSE, {}, {"manager.ErrUnsuportedWorkflow"})
          [] cfg.Enabled /\ isSupportedWorkflow(wf) /\ invalid # {} ->
                 Status(TRUE, FALSE, FALSE, FALSE, {}, invalid)
          [] cfg.Enabled /\ isSupportedWorkflow(wf) /\ invalid = {} /\ land.ongoing ->
                 Status(TRUE, TRUE, TRUE, FALSE, {}, {})
          [] OTHER ->
                 IF few \subseteq {"workflowpkg.ErrWorkflowGroupNotSufficientMembers"}
                 THEN Status(TRUE, FALSE, TRUE, few = {}, few, {})
                 ELSE Status(TRUE, FALSE, TRUE, FALSE, {}, few)

isInvalidAction(err) ==
    err \cap {"manager.ErrConnectSystemNoPrimaryKey", "manager.ErrNotAllSystemsConnected",
              "manager.ErrAlreadyPrimaryKey", "manager.ErrUpdateNonBYOKKeyStatus",
              "manager.ErrPrimaryKeyDisabled", "manager.ErrUnsuportedWorkflow"} # {}

transformCheckWorkflowError(status) ==
    CASE ~ status.CanCreate /\ status.Exists ->
             [status EXCEPT !.ErrDetails = {"manager.ErrOngoingWorkflowExist"}, !.err = {}]
      [] (status.CanCreate \/ ~ status.Exists) /\ status.err = {} -> status
      [] (status.CanCreate \/ ~ status.Exists) /\ status.err # {} /\ isInvalidAction(status.err) ->
             [status EXCEPT !.ErrDetails = status.err, !.CanCreate = FALSE, !.err = {}]
      [] OTHER -> [status EXCEPT !.err = @ \cup {"manager.ErrCheckWorkflow"}]

NoStatus(err) == Status(FALSE, FALSE, FALSE, FALSE, {}, err)

CheckWorkflow(land, wf, cfg) ==
    LET allowed == checkPermissionToCreateWorkflow(land, wf)
    IN  CASE "panic" \in allowed.err -> NoStatus(allowed.err)
          [] allowed.err # {} /\ "panic" \notin allowed.err ->
                 NoStatus({"manager.ErrCheckWorkflow"} \cup allowed.err)
          [] allowed.err = {} /\ ~ allowed.allowed ->
                 NoStatus({"manager.ErrCheckWorkflow", "manager.ErrWorkflowCreationNotAllowed"})
          [] OTHER -> transformCheckWorkflowError(checkWorkflow(land, wf, cfg))

-----------------------------------------------------------------------------
(* The creation. *)

populateArtifact(land, wf) ==
    CASE wf.ArtifactType = "KEY"               -> KeyGet(land, wf.ArtifactID)
      [] wf.ArtifactType = "KEY_CONFIGURATION" -> GetKeyConfigurationByID(land, wf.ArtifactID)
      [] wf.ArtifactType = "SYSTEM"            -> GetSystemByID(wf.ArtifactID)
      [] OTHER                                 -> {}

populateParametersResource(land, wf) ==
    CASE wf.ArtifactType = "KEY_CONFIGURATION" /\ wf.ActionType = "UPDATE_PRIMARY" ->
             IF wf.Parameters = "bad" THEN {"uuid"} ELSE KeyGet(land, wf.Parameters)
      [] wf.ArtifactType = "SYSTEM" /\ wf.ActionType \in {"LINK", "SWITCH"} ->
             IF wf.Parameters = "bad" THEN {"uuid"} ELSE GetKeyConfigurationByID(land, wf.Parameters)
      [] OTHER -> {}

(* The error CreateWorkflow returns before it opens its transaction, {}    *)
(* where the workflow is stored.                                           *)
MutantCreate(land, wf, cfg) ==
    LET status == CheckWorkflow(land, wf, cfg)
    IN  CASE status.err # {} -> status.err
          [] status.err = {} /\ status.Exists -> {"manager.ErrOngoingWorkflowExist"}
          [] OTHER -> IF populateArtifact(land, wf) # {} THEN populateArtifact(land, wf)
                      ELSE populateParametersResource(land, wf)

CreateWorkflow(land, wf, cfg) ==
    LET status == CheckWorkflow(land, wf, cfg)
    IN  CASE status.err # {} -> status.err
          [] status.err = {} /\ status.Exists -> {"manager.ErrOngoingWorkflowExist"}
          [] status.err = {} /\ ~ status.Exists /\ status.ErrDetails # {} -> status.ErrDetails
          [] OTHER -> IF populateArtifact(land, wf) # {} THEN populateArtifact(land, wf)
                      ELSE populateParametersResource(land, wf)

(* FromAPI refuses a date beyond the tenant's maximum; without a date the  *)
(* tenant's default is taken.                                              *)
FromAPIWorkflow(wf, cfg) ==
    LET expiry == IF wf.ExpiresAt = 0 THEN cfg.DefaultExpiryPeriodDays ELSE wf.ExpiresAt
    IN  IF expiry > cfg.MaxExpiryPeriodDays
        THEN {"ErrTransformWorkflowFromAPI", "wfTransform.ErrExpiryGreaterThanMaximum"} ELSE {}

=============================================================================
