----------------------------- MODULE RepoCalls -----------------------------
(***************************************************************************)
(* What the managers and the API handlers ask of the repository.           *)
(*                                                                         *)
(* An operation is the set of the calls it can make on some path, each a   *)
(* triple <<how, resource, action>>.  The permission check of every call   *)
(* is made by AuthzRepo, for the resource and for the tables it joins.  A  *)
(* call that "must" succeed fails the operation when it is denied; the     *)
(* denial of one that is only a "try" is logged and the operation goes on. *)
(* The resource "user" stands for the operations of the user manager,      *)
(* which decide by themselves which callers they serve.                    *)
(***************************************************************************)
EXTENDS Policies

---------------------------------------------------------------------------
(* AuthzRepo: the actions each call is checked for                         *)

Must(tables, actions) == {"must"} \X tables \X actions
Logged(calls) == {<<"try", c[2], c[3]>> : c \in calls}

First(t) == Must({t}, {"first"})
List(t) == Must({t}, {"list"})
Count(t) == Must({t}, {"count"})
Create(t) == Must({t}, {"create"})
Patch(t) == Must({t}, {"update"})
Delete(t) == Must({t}, {"delete"})
Set(t) == Must({t}, {"update", "create"})
ListAndCount(t) == List(t) \cup Count(t)
ProcessInBatch(t) == List(t)
Joined(action, tables) == Must(tables, {action})

GetTenant == First("tenant")
IsPrimaryKey == First("keyconfig")
GetKeyConfigPrimaryKey == First("keyconfig")
HasConnectedKeys == Count("key")
HasConnectedSystems == Count("system")

\* The list is repeated with joins to read the properties and the last event.
ListAndCountSystemWithProperties ==
    ListAndCount("system") \cup ProcessInBatch("system")
      \cup Joined("list", {"systemproperty", "keyconfig", "event"})

---------------------------------------------------------------------------
(* The user manager                                                        *)

User(op) == Must({"user"}, {op})

\* What it asks for business users, under InternalBusinessAuthzRole.
GetRoleFromIAM == List("group")
hasKeyConfigAccess == GetRoleFromIAM \cup Count("keyconfig") \cup Joined("count", {"group"})

NeedsGroupFiltering == GetRoleFromIAM
HasKeyAccess == hasKeyConfigAccess
HasKeyConfigAccess == hasKeyConfigAccess
HasSystemAccess == hasKeyConfigAccess
GetBusinessUserInfo == GetRoleFromIAM
HasTenantAccess == Count("group")

UserCalls ==
    [NeedsGroupFiltering |-> NeedsGroupFiltering, HasKeyAccess |-> HasKeyAccess,
     HasKeyConfigAccess |-> HasKeyConfigAccess, HasSystemAccess |-> HasSystemAccess,
     GetBusinessUserInfo |-> GetBusinessUserInfo, HasTenantAccess |-> HasTenantAccess]

\* ensureBusinessUserOpsAllowed: the internal roles that are let through
\* without a check; all others are refused.
BypassRoles ==
    [NeedsGroupFiltering |-> {"WorkflowApprovers", "WorkflowExpiration", "TenantProvisioning"},
     HasKeyAccess |-> {"WorkflowApprovers", "TenantProvisioning", "PendingStateSync"},
     HasKeyConfigAccess |-> {"WorkflowApprovers", "TenantProvisioning"},
     HasSystemAccess |-> {"WorkflowApprovers", "TenantProvisioning"},
     GetBusinessUserInfo |-> {"WorkflowApprovers", "WorkflowExpiration", "TenantProvisioning"},
     HasTenantAccess |-> {}]

---------------------------------------------------------------------------
(* Certificates, tenant configuration and keystores                        *)

getCertificateByPurpose == First("certificate")
getNewCertificate == Create("certificate")
UpdateCertificate == First("certificate") \cup getCertificateByPurpose \cup Patch("certificate")
RotateCertificate == getNewCertificate \cup UpdateCertificate
RequestNewCertificate == Count("certificate") \cup getNewCertificate
getDefaultHYOKClientCert == getCertificateByPurpose \cup RequestNewCertificate \cup RotateCertificate
getDefaultKeystoreClientCert == getCertificateByPurpose \cup RequestNewCertificate
RotateExpiredCertificates == ProcessInBatch("certificate") \cup RotateCertificate

SetWorkflowConfig == GetTenant \cup Set("tenantconfig")
GetWorkflowConfig == First("tenantconfig") \cup SetWorkflowConfig
UpdateWorkflowConfig == GetWorkflowConfig \cup GetTenant \cup SetWorkflowConfig

getStoredDefaultKeystoreConfig == First("tenantconfig")
GetTenantsKeystores == getStoredDefaultKeystoreConfig
NeedsDefaultKeystoreProvisioning == getStoredDefaultKeystoreConfig
Pop == First("keystore") \cup Delete("keystore")
initDefaultKeystoreFromPool == Pop \cup Set("tenantconfig")
ensureKeystoreProvisioned == getDefaultKeystoreClientCert
GetDefaultKeystoreConfig ==
    getStoredDefaultKeystoreConfig \cup initDefaultKeystoreFromPool
      \cup ensureKeystoreProvisioned \cup Set("tenantconfig")

FillKeystorePool == Count("keystore") \cup Create("keystore")

\* GetOrInitProvider, by the type of the key.
InitDefaultProvider == GetDefaultKeystoreConfig \cup getDefaultKeystoreClientCert
InitHYOKProvider == getDefaultHYOKClientCert
InitProvider == InitDefaultProvider \cup InitHYOKProvider

---------------------------------------------------------------------------
(* Events and keys                                                         *)

\* A system event patches the system and then stores itself; the factory
\* logs that the event could not be stored.
SystemEvent == Patch("system") \cup Logged(Set("event"))
SystemKeyRotate == Logged(Set("event"))
GetLastEvent == First("event")

UpdateVersions == Set("keyversion") \cup Create("keyversion")
handleSystemsOnKeyRotation == Logged(ProcessInBatch("system") \cup SystemKeyRotate)
syncKeyVersions == UpdateVersions \cup IsPrimaryKey \cup handleSystemsOnKeyRotation

\* A provider that cannot be set up leaves the key in another state instead
\* of failing; so does a failed update of its versions.
syncHYOKKeyState == Logged(InitHYOKProvider \cup syncKeyVersions) \cup Patch("key")
SyncHYOKKeys == ProcessInBatch("key") \cup syncHYOKKeyState

setEditableStatus == ProcessInBatch("system")

ReadKey ==
    First("key") \cup Joined("first", {"keyversion"}) \cup IsPrimaryKey \cup User("HasKeyAccess")

\* Reading a HYOK key synchronises it with its keystore.
GetKey == ReadKey \cup syncHYOKKeyState \cup setEditableStatus

GetKeys ==
    User("HasKeyAccess") \cup GetKeyConfigPrimaryKey \cup ListAndCount("key")

setPrimaryIfFirstKey == First("key") \cup Patch("keyconfig")
validateKeyCreation == User("HasKeyAccess") \cup First("keyconfig")
createPendingBYOKKeyIfNeeded == NeedsDefaultKeystoreProvisioning \cup Create("key")
persistCreatedKey == setPrimaryIfFirstKey \cup Create("key") \cup syncKeyVersions

CreateKey ==
    validateKeyCreation \cup createPendingBYOKKeyIfNeeded \cup InitProvider \cup persistCreatedKey

applyKeyPatch == Patch("key") \cup InitProvider
UpdateKey == GetKey \cup applyKeyPatch

DeleteKey ==
    GetKey \cup HasConnectedSystems \cup InitProvider \cup Delete("keyversion") \cup Delete("key")

validateBYOKKey == First("key") \cup User("HasKeyAccess")
GetImportParams == validateBYOKKey \cup InitDefaultProvider \cup Set("importparam")
ImportKeyMaterial ==
    validateBYOKKey \cup InitDefaultProvider \cup Patch("key") \cup Delete("importparam")

\* The key is one of the default keystore.
SyncPendingCreationKey ==
    ReadKey \cup InitDefaultProvider \cup setPrimaryIfFirstKey \cup Patch("key")

Detach == Patch("key")

GetKeyVersions == ListAndCount("keyversion")
GetLatestVersion == First("keyversion")

DeleteLabel == First("key") \cup Delete("keylabel")
CreateOrUpdateLabel ==
    First("key") \cup First("keylabel") \cup Create("keylabel") \cup Patch("keylabel")
GetKeyLabels == First("key") \cup ListAndCount("keylabel")

DeleteTags == Delete("tag")
SetTags == Set("tag") \cup DeleteTags
GetTags == First("tag")

---------------------------------------------------------------------------
(* Key configurations                                                      *)

KeyConfigTotals(action) == Joined(action, {"system", "key"})

CanConnectSystems == First("key")

GetKeyConfigurations ==
    User("HasKeyConfigAccess") \cup ListAndCount("keyconfig")
      \cup KeyConfigTotals("list") \cup KeyConfigTotals("count")
      \cup Joined("list", {"group"}) \cup Joined("count", {"group"})

PostKeyConfigurations == First("group") \cup User("HasKeyConfigAccess") \cup Create("keyconfig")

DeleteKeyConfigurationByID ==
    User("HasKeyConfigAccess") \cup HasConnectedSystems \cup HasConnectedKeys
      \cup Delete("keyconfig") \cup DeleteTags

GetKeyConfigurationByID ==
    User("HasKeyConfigAccess") \cup First("keyconfig") \cup KeyConfigTotals("first")

updatePrimaryKeySystemEvents == ProcessInBatch("event") \cup Patch("event")
handleUpdatePrimaryKey ==
    First("key") \cup updatePrimaryKeySystemEvents \cup ProcessInBatch("system") \cup SystemEvent

UpdateKeyConfigurationByID ==
    User("HasKeyConfigAccess") \cup First("keyconfig") \cup handleUpdatePrimaryKey
      \cup Patch("keyconfig")

GetClientCertificates == getDefaultHYOKClientCert

---------------------------------------------------------------------------
(* Systems                                                                 *)

GetSystemByID == ListAndCountSystemWithProperties
GetAllSystems == First("keyconfig") \cup ListAndCountSystemWithProperties
GetFilters == List("system") \cup Joined("list", {"keyconfig"})

\* UpdateSystemProperties makes a check of its own for the properties.
updateSystem == GetSystemByID \cup Patch("systemproperty") \cup Patch("system")
UpdateSystems == ProcessInBatch("system") \cup updateSystem

createSystemIfNotExists == Logged(Count("system") \cup updateSystem) \cup Create("system")
removeSystemsNotInRegistry == ProcessInBatch("system") \cup Delete("system")
RefreshSystemsData == Logged(createSystemIfNotExists \cup removeSystemsNotInRegistry)

\* A key that may not be read counts as one the user does not administer.
hasKeyAdminAccess == Logged(First("key") \cup User("HasKeyAccess"))
GetRecoveryActions == GetSystemByID \cup GetLastEvent \cup hasKeyAdminAccess

cancelSystemAction == GetLastEvent \cup Patch("system")
retrySystemAction == GetLastEvent \cup Patch("system")
SendRecoveryActions ==
    GetSystemByID \cup User("HasSystemAccess") \cup cancelSystemAction \cup retrySystemAction

LinkSystemAction ==
    GetSystemByID \cup First("keyconfig") \cup User("HasSystemAccess")
      \cup CanConnectSystems \cup Patch("system") \cup SystemEvent

\* With the trigger of a decommission no event is stored.
Unlink(sendSystemUnlinkEvent) ==
    First("system") \cup User("HasSystemAccess") \cup First("keyconfig") \cup sendSystemUnlinkEvent
UnlinkSystemAction == Unlink(SystemEvent)

---------------------------------------------------------------------------
(* Groups and tenants                                                      *)

GetGroups == User("NeedsGroupFiltering") \cup ListAndCount("group")
CreateGroup == Create("group")
GetGroupByID == User("NeedsGroupFiltering") \cup First("group")
DeleteGroupByID == GetGroupByID \cup First("keyconfig") \cup Delete("group")
UpdateGroup == GetGroupByID \cup Patch("group")
CreateDefaultGroups == CreateGroup

GetTenantInfo == User("HasTenantAccess") \cup GetTenant
ListTenantInfo == ListAndCount("tenant")
CreateTenant == Create("tenant")
DeleteTenant == Delete("tenant")

sendUnlinkForConnectedSystems == ProcessInBatch("system") \cup Unlink(Patch("system"))
checkAllSystemsUnlinked == Count("system")
detachPrimaryKeys == ProcessInBatch("key") \cup Joined("list", {"keyconfig"}) \cup Detach
checkAllPrimaryKeys == Count("key") \cup Joined("count", {"keyconfig"})
\* An error here does not end the offboarding, but keeps it waiting for ever.
unmapAllSystemsFromRegistry == ProcessInBatch("system")

OffboardTenant ==
    sendUnlinkForConnectedSystems \cup checkAllSystemsUnlinked \cup detachPrimaryKeys
      \cup checkAllPrimaryKeys \cup unmapAllSystemsFromRegistry

---------------------------------------------------------------------------
(* Workflows                                                               *)

\* Callers that are not filtered by group read the workflows alone.
getAllWorkflows == User("NeedsGroupFiltering") \cup List("workflow") \cup Count("workflow")
filterByInitiatorOrApprover ==
    Joined("list", {"approver", "workflow", "group"})
      \cup Joined("count", {"approver", "workflow", "group"})
getWorkflows == getAllWorkflows \cup filterByInitiatorOrApprover

\* The groups of a workflow are found over a table that counts as workflow.
GetWorkflowApproverGroups ==
    List("group") \cup Joined("list", {"workflow"}) \cup GetGroupByID

\* Read only for workflows that were stored without a minimum of approvals.
getWorkflowLifecycle == GetWorkflowConfig
GetAllApprovers == ListAndCount("approver")

queryGroupMembersFromIAM == GetGroupByID
getEligibleUserIDsForWorkflow == GetWorkflowApproverGroups \cup queryGroupMembersFromIAM
checkWorkflowEligibility ==
    getEligibleUserIDsForWorkflow \cup getWorkflowLifecycle \cup GetAllApprovers

GetWorkflowByID == getWorkflows \cup checkWorkflowEligibility
ListWorkflowApprovers == GetWorkflowByID \cup ListAndCount("approver")
GetWorkflowAvailableTransitions == getWorkflowLifecycle \cup GetAllApprovers
GetWorkflowApprovalSummary == getWorkflowLifecycle \cup GetAllApprovers

getKeyConfigurationsFromArtifact == GetKeyConfigurationByID \cup GetSystemByID \cup GetKey
checkPermissionToCreateWorkflow ==
    getKeyConfigurationsFromArtifact \cup User("GetBusinessUserInfo")
validateWorkflow == getKeyConfigurationsFromArtifact \cup First("key") \cup ProcessInBatch("system")
checkOngoingWorkflowForArtifact == Count("workflow")
checkWorkflow ==
    validateWorkflow \cup checkOngoingWorkflowForArtifact \cup Logged(GetWorkflowConfig)
      \cup getKeyConfigurationsFromArtifact
CheckWorkflow == GetWorkflowConfig \cup checkPermissionToCreateWorkflow \cup checkWorkflow

populateArtifact == GetKey \cup GetKeyConfigurationByID \cup GetSystemByID
handleNewWorkflow == Patch("system") \cup Patch("key")
CreateWorkflow ==
    Logged(GetWorkflowConfig) \cup CheckWorkflow \cup populateArtifact \cup Create("workflow")
      \cup handleNewWorkflow

addApproversAndGroupAssociations ==
    getWorkflowLifecycle \cup Set("approver") \cup Set("workflow") \cup Patch("workflow")
createWorkflowTransitionNotificationTask == Logged(GetTenant)
AutoAssignApprovers ==
    First("workflow") \cup getKeyConfigurationsFromArtifact \cup addApproversAndGroupAssociations
      \cup createWorkflowTransitionNotificationTask

\* HandleTerminalWorkflow, by the type of the artifact.
HandleTerminalSystem == Patch("system")
HandleTerminalKey == Patch("key")
HandleTerminalWorkflow == HandleTerminalSystem \cup HandleTerminalKey

ExpireWorkflow(HandleTerminal) == First("workflow") \cup Patch("workflow") \cup HandleTerminal

\* What is executed when an approved workflow is confirmed.
ExecuteWorkflowAction ==
    UpdateKey \cup DeleteKey \cup UpdateKeyConfigurationByID \cup LinkSystemAction \cup UnlinkSystemAction

fetchAndValidateApprover == First("approver") \cup getEligibleUserIDsForWorkflow
applyTransition ==
    Logged(getEligibleUserIDsForWorkflow) \cup getWorkflowLifecycle \cup GetWorkflowApproverGroups
      \cup List("group") \cup fetchAndValidateApprover \cup Patch("approver") \cup GetAllApprovers
      \cup ExecuteWorkflowAction \cup Patch("workflow") \cup HandleTerminalWorkflow
TransitionWorkflow ==
    First("workflow") \cup applyTransition \cup createWorkflowTransitionNotificationTask

CleanupTerminalWorkflows == GetWorkflowConfig \cup ProcessInBatch("workflow") \cup Delete("workflow")
=============================================================================
