----------------------------- MODULE Endpoints -----------------------------
(***************************************************************************)
(* The handlers of the API and of the tasks: which repository calls each   *)
(* of them leads to, and what it takes to be let in.  A handler of the API *)
(* is admitted by one pair <<resource type, action>> of the API policies;  *)
(* a task runs under the internal role of its handler.                     *)
(***************************************************************************)
M == INSTANCE RepoCalls

---------------------------------------------------------------------------
(* The controllers                                                         *)

IsWorkflowRequired == M!GetWorkflowConfig

PostKeys == M!CreateKey \cup M!GetKey
GetKeys == M!GetKeys
DeleteKeysKeyID == M!GetKey \cup IsWorkflowRequired \cup M!DeleteKey
GetKeysKeyID == M!GetKey
UpdateKey == M!GetKey \cup IsWorkflowRequired \cup M!UpdateKey
GetKeyImportParams == M!GetImportParams
ImportKeyMaterial == M!ImportKeyMaterial
GetKeyVersions == M!GetKey \cup M!GetLatestVersion \cup M!GetKeyVersions

GetKeyLabels == M!GetKeyLabels
CreateOrUpdateLabels == M!CreateOrUpdateLabel
DeleteLabel == M!DeleteLabel

GetKeyConfigurations == M!GetKeyConfigurations
PostKeyConfigurations == M!PostKeyConfigurations
DeleteKeyConfigurationByID == M!DeleteKeyConfigurationByID
GetKeyConfigurationByID == M!GetKeyConfigurationByID
UpdateKeyConfigurationByID ==
    IsWorkflowRequired \cup M!GetKeyConfigurationByID \cup M!UpdateKeyConfigurationByID
GetKeyConfigurationCertificates == M!GetClientCertificates
GetTagsForKeyConfiguration == M!GetTags
AddTagsToKeyConfiguration == M!SetTags

handleSystemUnderWorkflow ==
    M!getWorkflows \cup M!ListWorkflowApprovers \cup M!GetWorkflowApproverGroups
      \cup M!User("GetBusinessUserInfo") \cup M!GetWorkflowAvailableTransitions
      \cup M!GetWorkflowApprovalSummary

GetAllSystems == M!RefreshSystemsData \cup M!GetAllSystems
GetSystemByID == M!GetSystemByID \cup handleSystemUnderWorkflow
LinkSystemAction == IsWorkflowRequired \cup M!LinkSystemAction
GetRecoveryActions == M!GetRecoveryActions
SendRecoveryActions == M!SendRecoveryActions
UnlinkSystemAction == IsWorkflowRequired \cup M!UnlinkSystemAction
GetFilters == M!GetFilters

CheckWorkflow == M!GetWorkflowConfig \cup M!CheckWorkflow
GetWorkflows == M!getWorkflows
CreateWorkflow == M!GetWorkflowConfig \cup M!CreateWorkflow
GetWorkflowByID ==
    M!GetWorkflowByID \cup M!ListWorkflowApprovers \cup M!GetWorkflowApproverGroups
      \cup M!GetWorkflowAvailableTransitions \cup M!GetWorkflowApprovalSummary
TransitionWorkflow == M!TransitionWorkflow

GetGroups == M!GetGroups
CreateGroup == M!CreateGroup
DeleteGroupByID == M!DeleteGroupByID
GetGroupByID == M!GetGroupByID
UpdateGroup == M!UpdateGroup
CheckGroupsIAM == {}

GetTenantInfo == M!GetTenantInfo
GetTenantKeystores == M!GetTenantsKeystores
GetTenantWorkflowConfiguration == M!GetWorkflowConfig
UpdateTenantWorkflowConfiguration == M!UpdateWorkflowConfig

---------------------------------------------------------------------------
(* RestrictionsByAPI, by the handler of each pattern                       *)

On(resource, action, calls) == [resource |-> resource, action |-> action, calls |-> calls]

KeyAPI ==
    [GetKeys |-> On("Key", "read", GetKeys),
     PostKeys |-> On("Key", "create", PostKeys),
     GetKeysKeyID |-> On("Key", "read", GetKeysKeyID),
     UpdateKey |-> On("Key", "update", UpdateKey),
     DeleteKeysKeyID |-> On("Key", "delete", DeleteKeysKeyID),
     GetKeyImportParams |-> On("Key", "read", GetKeyImportParams),
     ImportKeyMaterial |-> On("Key", "update", ImportKeyMaterial),
     GetKeyVersions |-> On("Key", "read", GetKeyVersions),
     GetKeyLabels |-> On("Key", "read", GetKeyLabels),
     CreateOrUpdateLabels |-> On("Key", "create", CreateOrUpdateLabels),
     DeleteLabel |-> On("Key", "delete", DeleteLabel)]

KeyConfigurationAPI ==
    [GetKeyConfigurations |-> On("KeyConfiguration", "read", GetKeyConfigurations),
     PostKeyConfigurations |-> On("KeyConfiguration", "create", PostKeyConfigurations),
     GetKeyConfigurationByID |-> On("KeyConfiguration", "read", GetKeyConfigurationByID),
     UpdateKeyConfigurationByID |-> On("KeyConfiguration", "update", UpdateKeyConfigurationByID),
     DeleteKeyConfigurationByID |-> On("KeyConfiguration", "delete", DeleteKeyConfigurationByID),
     GetTagsForKeyConfiguration |-> On("KeyConfiguration", "read", GetTagsForKeyConfiguration),
     AddTagsToKeyConfiguration |-> On("KeyConfiguration", "update", AddTagsToKeyConfiguration),
     GetKeyConfigurationCertificates |->
        On("KeyConfiguration", "read", GetKeyConfigurationCertificates)]

SystemAPI ==
    [GetAllSystems |-> On("System", "read", GetAllSystems),
     GetFilters |-> On("System", "read", GetFilters),
     GetSystemByID |-> On("System", "read", GetSystemByID),
     LinkSystemAction |-> On("System", "ModifySystemLink", LinkSystemAction),
     UnlinkSystemAction |-> On("System", "ModifySystemLink", UnlinkSystemAction),
     SendRecoveryActions |-> On("System", "ModifySystemLink", SendRecoveryActions),
     GetRecoveryActions |-> On("System", "ModifySystemLink", GetRecoveryActions)]

WorkflowAPI ==
    [CreateWorkflow |-> On("Workflow", "create", CreateWorkflow),
     GetWorkflows |-> On("Workflow", "read", GetWorkflows),
     CheckWorkflow |-> On("Workflow", "update", CheckWorkflow),
     GetWorkflowByID |-> On("Workflow", "read", GetWorkflowByID),
     TransitionWorkflow |-> On("Workflow", "update", TransitionWorkflow)]

GroupAPI ==
    [GetGroups |-> On("UserGroup", "read", GetGroups),
     CreateGroup |-> On("UserGroup", "create", CreateGroup),
     CheckGroupsIAM |-> On("UserGroup", "read", CheckGroupsIAM),
     GetGroupByID |-> On("UserGroup", "read", GetGroupByID),
     UpdateGroup |-> On("UserGroup", "update", UpdateGroup),
     DeleteGroupByID |-> On("UserGroup", "delete", DeleteGroupByID)]

TenantAPI ==
    [GetTenantKeystores |-> On("TenantSettings", "read", GetTenantKeystores),
     GetTenantWorkflowConfiguration |->
        On("TenantSettings", "read", GetTenantWorkflowConfiguration),
     UpdateTenantWorkflowConfiguration |->
        On("TenantSettings", "update", UpdateTenantWorkflowConfiguration),
     GetTenantInfo |-> On("Tenant", "read", GetTenantInfo)]

---------------------------------------------------------------------------
(* The task handlers                                                       *)

T(role, calls) == [role |-> role, calls |-> calls]

\* ProcessTask of the auto-assignment: a failure is stored in the workflow.
putWorkflowInFailedState ==
    M!First("workflow") \cup M!Patch("workflow") \cup M!HandleTerminalWorkflow

CertRotator == T("CertRotation", M!RotateExpiredCertificates)
keystorePoolFiller == T("KeystorePool", M!FillKeystorePool)
SystemsRefresher == T("SystemRefresh", M!UpdateSystems)
WorkflowCleaner == T("WorkflowCleanup", M!CleanupTerminalWorkflows)
TenantNameRefresher == T("TenantRefresh", M!Patch("tenant"))
HYOKSync == T("HYOKSync", M!SyncHYOKKeys)
PendingStateSync == T("PendingStateSync", M!SyncPendingCreationKey)

\* The workflows are those that record their minimum of approvals.
WorkflowProcessor ==
    T("WorkflowApprovers",
      (M!AutoAssignApprovers \ M!getWorkflowLifecycle) \cup putWorkflowInFailedState)
WorkflowExpiryProcessor(HandleTerminal) ==
    T("WorkflowExpiration", M!getAllWorkflows \cup M!ExpireWorkflow(HandleTerminal))

TaskHandlers ==
    [CertRotator |-> CertRotator,
     KeystorePoolFiller |-> keystorePoolFiller,
     SystemsRefresher |-> SystemsRefresher,
     WorkflowProcessor |-> WorkflowProcessor,
     ExpirySystem |-> WorkflowExpiryProcessor(M!HandleTerminalSystem),
     ExpiryKey |-> WorkflowExpiryProcessor(M!HandleTerminalKey),
     WorkflowCleaner |-> WorkflowCleaner,
     TenantNameRefresher |-> TenantNameRefresher,
     HYOKSync |-> HYOKSync,
     PendingStateSync |-> PendingStateSync]
=============================================================================
