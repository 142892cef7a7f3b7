---------------------------- MODULE AccessProofs ----------------------------
(***************************************************************************)
(* Proofs about Access, for any tenants, groups, tokens, requests and      *)
(* tasks and any number of changes: a cache grants nothing older than its  *)
(* last reload; a request that the middlewares let through acts for        *)
(* exactly one role of its tenant; whom the API lets in, the repository    *)
(* does not turn away; and the tasks are granted their calls.              *)
(*                                                                         *)
(* The first part compares the tables of Endpoints and RepoCalls with the  *)
(* policies, the second shows that AccessInv is inductive.                 *)
(***************************************************************************)
EXTENDS Access, FiniteSetTheorems, TLAPS

-----------------------------------------------------------------------------
(* The tables: what the handlers and the tasks ask for, against the policies. *)

(* The calls that must succeed are all in P. *)
Within(calls, P) == \A c \in calls : c[1] = "must" => Pair(c) \in P

UserOps == {"user"} \X DOMAIN M!UserCalls

ReadsOf(t, P) ==
    /\ Within(E!M!First(t), P) /\ Within(E!M!List(t), P) /\ Within(E!M!Count(t), P)
    /\ Within(E!M!ListAndCount(t), P) /\ Within(E!M!ProcessInBatch(t), P)

WritesOf(t, P) == Within(E!M!Create(t), P) /\ Within(E!M!Patch(t), P) /\ Within(E!M!Set(t), P)

AllOf(t, P) == ReadsOf(t, P) /\ WritesOf(t, P) /\ Within(E!M!Delete(t), P)

(* A call that must succeed, on tables and with actions that are granted. *)
LEMMA MustWithin ==
    ASSUME NEW P, NEW tables, NEW actions, tables \X actions \subseteq P
    PROVE  Within(E!M!Must(tables, actions), P)
<1> SUFFICES ASSUME NEW c \in {"must"} \X tables \X actions PROVE <<c[2], c[3]>> \in P
  BY Zenon DEF Within, E!M!Must, Pair
<1>1. c[2] \in tables /\ c[3] \in actions
  BY Zenon
<1>2. <<c[2], c[3]>> \in tables \X actions
  BY <1>1, Zenon
<1> QED BY <1>2, Zenon

(* The calls on one table. *)
LEMMA TableWithin ==
    ASSUME NEW P, NEW t
    PROVE  /\ (\A a \in Reads : <<t, a>> \in P) => ReadsOf(t, P)
           /\ (\A a \in {"create", "update"} : <<t, a>> \in P) => WritesOf(t, P)
           /\ <<t, "delete">> \in P => Within(E!M!Delete(t), P)
<1>1. \A a : <<t, a>> \in P => Within(E!M!Must({t}, {a}), P)
  <2> SUFFICES ASSUME NEW a, <<t, a>> \in P PROVE Within(E!M!Must({t}, {a}), P)
    BY Zenon
  <2>1. {t} \X {a} \subseteq P
    OBVIOUS
  <2> QED BY <2>1, MustWithin, Zenon
<1>2. ASSUME \A a \in Reads : <<t, a>> \in P PROVE ReadsOf(t, P)
  <2>1. Within(E!M!First(t), P) /\ Within(E!M!List(t), P) /\ Within(E!M!Count(t), P)
    BY <1>1, <1>2, Zenon DEF Reads, E!M!First, E!M!List, E!M!Count
  <2> QED BY <2>1, Zenon DEF ReadsOf, Within, E!M!ListAndCount, E!M!ProcessInBatch
<1>3. ASSUME \A a \in {"create", "update"} : <<t, a>> \in P PROVE WritesOf(t, P)
  <2>1. Within(E!M!Create(t), P) /\ Within(E!M!Patch(t), P)
    BY <1>1, <1>3, Zenon DEF E!M!Create, E!M!Patch
  <2>2. {t} \X {"update", "create"} \subseteq P
    BY <1>3
  <2>3. Within(E!M!Set(t), P)
    BY <2>2, MustWithin, Zenon DEF E!M!Set
  <2> QED BY <2>1, <2>3, Zenon DEF WritesOf
<1>4. <<t, "delete">> \in P => Within(E!M!Delete(t), P)
  BY <1>1, Zenon DEF E!M!Delete
<1> QED BY <1>2, <1>3, <1>4, Zenon

(* Calls of the user manager, and calls that may be denied. *)
LEMMA OtherWithin ==
    ASSUME NEW P
    PROVE  /\ UserOps \subseteq P => \A op \in DOMAIN M!UserCalls : Within(E!M!User(op), P)
           /\ \A calls : Within(E!M!Logged(calls), P)
<1>1. ASSUME UserOps \subseteq P, NEW op \in DOMAIN M!UserCalls PROVE Within(E!M!User(op), P)
  <2>1. {"user"} \X {op} \subseteq P
    BY <1>1, Zenon DEF UserOps
  <2> QED BY <2>1, MustWithin, Zenon DEF E!M!User
<1>2. ASSUME NEW calls PROVE Within(E!M!Logged(calls), P)
  BY DEF Within, E!M!Logged
<1> QED BY <1>1, <1>2, Zenon

KeyAdminMay == RepoKeyAdmin \cup UserOps

(* What the handlers that a key administrator may call ask for. *)
LEMMA KeyAdminCalls ==
    \A calls \in {E!GetKeys, E!PostKeys, E!GetKeysKeyID, E!UpdateKey, E!DeleteKeysKeyID,
         E!GetKeyImportParams, E!ImportKeyMaterial, E!GetKeyVersions, E!GetKeyLabels,
         E!CreateOrUpdateLabels, E!DeleteLabel, E!GetKeyConfigurations, E!PostKeyConfigurations,
         E!GetKeyConfigurationByID, E!UpdateKeyConfigurationByID, E!DeleteKeyConfigurationByID,
         E!GetTagsForKeyConfiguration, E!AddTagsToKeyConfiguration,
         E!GetKeyConfigurationCertificates, E!GetAllSystems, E!GetFilters, E!GetSystemByID,
         E!LinkSystemAction, E!UnlinkSystemAction, E!SendRecoveryActions, E!GetRecoveryActions,
         E!CreateWorkflow, E!GetWorkflows, E!CheckWorkflow, E!GetWorkflowByID, E!TransitionWorkflow,
         E!GetGroups, E!GetGroupByID, E!GetTenantKeystores, E!GetTenantWorkflowConfiguration} :
         Within(calls, KeyAdminMay)
<1> DEFINE P == KeyAdminMay
<1>0. /\ \A t \in Tables \ {"group", "tenant", "tenantconfig"}, a \in repoActionList : <<t, a>> \in P
      /\ \A t \in Tables, a \in Reads : <<t, a>> \in P
      /\ \A a \in {"create", "update"} : <<"tenantconfig", a>> \in P
      /\ UserOps \subseteq P
  BY DEF KeyAdminMay, RepoKeyAdmin, On, Tables, Reads, repoActionList
<1> HIDE DEF P
<1>1. \A t \in Tables \ {"group", "tenant", "tenantconfig"} : AllOf(t, P)
  BY <1>0, TableWithin, Zenon DEF AllOf, Reads, repoActionList
<1>2. \A t \in Tables : ReadsOf(t, P)
  BY <1>0, TableWithin, Zenon
<1>approver. AllOf("approver", P)
  BY <1>1, Zenon DEF Tables
<1>certificate. AllOf("certificate", P)
  BY <1>1, Zenon DEF Tables
<1>event. AllOf("event", P)
  BY <1>1, Zenon DEF Tables
<1>group. ReadsOf("group", P)
  BY <1>2, Zenon DEF Tables
<1>importparam. AllOf("importparam", P)
  BY <1>1, Zenon DEF Tables
<1>key. AllOf("key", P)
  BY <1>1, Zenon DEF Tables
<1>keyconfig. AllOf("keyconfig", P)
  BY <1>1, Zenon DEF Tables
<1>keylabel. AllOf("keylabel", P)
  BY <1>1, Zenon DEF Tables
<1>keystore. AllOf("keystore", P)
  BY <1>1, Zenon DEF Tables
<1>keyversion. AllOf("keyversion", P)
  BY <1>1, Zenon DEF Tables
<1>system. AllOf("system", P)
  BY <1>1, Zenon DEF Tables
<1>systemproperty. AllOf("systemproperty", P)
  BY <1>1, Zenon DEF Tables
<1>tag. AllOf("tag", P)
  BY <1>1, Zenon DEF Tables
<1>tenant. ReadsOf("tenant", P)
  BY <1>2, Zenon DEF Tables
<1>tenantconfig. ReadsOf("tenantconfig", P) /\ WritesOf("tenantconfig", P)
  BY <1>0, <1>2, TableWithin, Zenon DEF Tables
<1>workflow. AllOf("workflow", P)
  BY <1>1, Zenon DEF Tables
<1>user. Within(E!M!User("NeedsGroupFiltering"), P) /\ Within(E!M!User("HasKeyAccess"), P)
         /\ Within(E!M!User("HasKeyConfigAccess"), P) /\ Within(E!M!User("HasSystemAccess"), P)
         /\ Within(E!M!User("GetBusinessUserInfo"), P) /\ Within(E!M!User("HasTenantAccess"), P)
  BY <1>0, OtherWithin, Zenon DEF M!UserCalls
<1>try. \A calls : Within(E!M!Logged(calls), P)
  BY <1>0, OtherWithin, Zenon
<1>join. \A action \in Reads, tables \in SUBSET Tables : Within(E!M!Joined(action, tables), P)
  <2> SUFFICES ASSUME NEW action \in Reads, NEW tables \in SUBSET Tables
               PROVE  Within(E!M!Joined(action, tables), P)
    BY Zenon
  <2>1. tables \X {action} \subseteq P
    BY <1>0
  <2> QED BY <2>1, MustWithin, Zenon DEF E!M!Joined
<1>ApiGetKeys. Within(E!GetKeys, P)
  BY <1>key, <1>keyconfig, <1>user, Zenon DEF E!GetKeys, E!M!GetKeys, E!M!GetKeyConfigPrimaryKey, Within, ReadsOf,
     WritesOf, AllOf
<1>RequestNewCertificate. Within(E!M!RequestNewCertificate, P)
  BY <1>certificate, Zenon DEF E!M!RequestNewCertificate, E!M!getNewCertificate, Within, ReadsOf, WritesOf, AllOf
<1>getDefaultKeystoreClientCert. Within(E!M!getDefaultKeystoreClientCert, P)
  BY <1>certificate, <1>RequestNewCertificate, Zenon DEF E!M!getDefaultKeystoreClientCert,
     E!M!getCertificateByPurpose, Within, ReadsOf, WritesOf, AllOf
<1>InitDefaultProvider. Within(E!M!InitDefaultProvider, P)
  BY <1>tenantconfig, <1>keystore, <1>getDefaultKeystoreClientCert, Zenon DEF E!M!InitDefaultProvider,
     E!M!GetDefaultKeystoreConfig, E!M!getStoredDefaultKeystoreConfig,
     E!M!initDefaultKeystoreFromPool, E!M!Pop, E!M!ensureKeystoreProvisioned, Within, ReadsOf, WritesOf, AllOf
<1>getDefaultHYOKClientCert. Within(E!M!getDefaultHYOKClientCert, P)
  BY <1>certificate, <1>RequestNewCertificate, Zenon DEF E!M!getDefaultHYOKClientCert,
     E!M!getCertificateByPurpose, E!M!RotateCertificate, E!M!getNewCertificate,
     E!M!UpdateCertificate, Within, ReadsOf, WritesOf, AllOf
<1>InitProvider. Within(E!M!InitProvider, P)
  BY <1>InitDefaultProvider, <1>getDefaultHYOKClientCert, Zenon DEF E!M!InitProvider, E!M!InitHYOKProvider,
     Within
<1>syncKeyVersions. Within(E!M!syncKeyVersions, P)
  BY <1>keyversion, <1>keyconfig, <1>system, <1>event, <1>try, Zenon DEF E!M!syncKeyVersions,
     E!M!UpdateVersions, E!M!IsPrimaryKey, E!M!handleSystemsOnKeyRotation, E!M!SystemKeyRotate,
     Within, ReadsOf, WritesOf, AllOf
<1>GetKey. Within(E!M!GetKey, P)
  BY <1>key, <1>keyconfig, <1>system, <1>getDefaultHYOKClientCert, <1>syncKeyVersions, <1>user,
     <1>try, <1>join, Zenon DEF E!M!GetKey, E!M!ReadKey, E!M!IsPrimaryKey, E!M!syncHYOKKeyState,
     E!M!InitHYOKProvider, E!M!setEditableStatus, Within, ReadsOf, WritesOf, AllOf, Tables, Reads
<1>ApiPostKeys. Within(E!PostKeys, P)
  BY <1>keyconfig, <1>key, <1>tenantconfig, <1>InitProvider, <1>syncKeyVersions, <1>GetKey, <1>user, Zenon
     DEF E!PostKeys, E!M!CreateKey, E!M!validateKeyCreation, E!M!createPendingBYOKKeyIfNeeded,
     E!M!NeedsDefaultKeystoreProvisioning, E!M!getStoredDefaultKeystoreConfig,
     E!M!persistCreatedKey, E!M!setPrimaryIfFirstKey, Within, ReadsOf, WritesOf, AllOf
<1>ApiGetKeysKeyID. Within(E!GetKeysKeyID, P)
  BY <1>GetKey, Zenon DEF E!GetKeysKeyID, Within
<1>GetWorkflowConfig. Within(E!M!GetWorkflowConfig, P)
  BY <1>tenantconfig, <1>tenant, Zenon DEF E!M!GetWorkflowConfig, E!M!SetWorkflowConfig, E!M!GetTenant,
     Within, ReadsOf, WritesOf, AllOf
<1>UpdateKey. Within(E!M!UpdateKey, P)
  BY <1>key, <1>GetKey, <1>InitProvider, Zenon DEF E!M!UpdateKey, E!M!applyKeyPatch, Within, ReadsOf, WritesOf, AllOf
<1>ApiUpdateKey. Within(E!UpdateKey, P)
  BY <1>GetKey, <1>GetWorkflowConfig, <1>UpdateKey, Zenon DEF E!UpdateKey, E!IsWorkflowRequired, Within
<1>DeleteKey. Within(E!M!DeleteKey, P)
  BY <1>keyversion, <1>key, <1>system, <1>GetKey, <1>InitProvider, Zenon DEF E!M!DeleteKey,
     E!M!HasConnectedSystems, Within, ReadsOf, WritesOf, AllOf
<1>ApiDeleteKeysKeyID. Within(E!DeleteKeysKeyID, P)
  BY <1>GetKey, <1>GetWorkflowConfig, <1>DeleteKey, Zenon DEF E!DeleteKeysKeyID, E!IsWorkflowRequired,
     Within
<1>validateBYOKKey. Within(E!M!validateBYOKKey, P)
  BY <1>key, <1>user, Zenon DEF E!M!validateBYOKKey, Within, ReadsOf, WritesOf, AllOf
<1>ApiGetKeyImportParams. Within(E!GetKeyImportParams, P)
  BY <1>importparam, <1>validateBYOKKey, <1>InitDefaultProvider, Zenon DEF E!GetKeyImportParams,
     E!M!GetImportParams, Within, ReadsOf, WritesOf, AllOf
<1>ApiImportKeyMaterial. Within(E!ImportKeyMaterial, P)
  BY <1>key, <1>importparam, <1>validateBYOKKey, <1>InitDefaultProvider, Zenon DEF E!ImportKeyMaterial,
     E!M!ImportKeyMaterial, Within, ReadsOf, WritesOf, AllOf
<1>ApiGetKeyVersions. Within(E!GetKeyVersions, P)
  BY <1>keyversion, <1>GetKey, Zenon DEF E!GetKeyVersions, E!M!GetLatestVersion, E!M!GetKeyVersions,
     Within, ReadsOf, WritesOf, AllOf
<1>ApiGetKeyLabels. Within(E!GetKeyLabels, P)
  BY <1>key, <1>keylabel, Zenon DEF E!GetKeyLabels, E!M!GetKeyLabels, Within, ReadsOf, WritesOf, AllOf
<1>ApiCreateOrUpdateLabels. Within(E!CreateOrUpdateLabels, P)
  BY <1>key, <1>keylabel, Zenon DEF E!CreateOrUpdateLabels, E!M!CreateOrUpdateLabel, Within, ReadsOf, WritesOf, AllOf
<1>ApiDeleteLabel. Within(E!DeleteLabel, P)
  BY <1>key, <1>keylabel, Zenon DEF E!DeleteLabel, E!M!DeleteLabel, Within, ReadsOf, WritesOf, AllOf
<1>ApiGetKeyConfigurations. Within(E!GetKeyConfigurations, P)
  BY <1>keyconfig, <1>user, <1>join, Zenon DEF E!GetKeyConfigurations, E!M!GetKeyConfigurations,
     E!M!KeyConfigTotals, Within, ReadsOf, WritesOf, AllOf, Tables, Reads
<1>ApiPostKeyConfigurations. Within(E!PostKeyConfigurations, P)
  BY <1>group, <1>keyconfig, <1>user, Zenon DEF E!PostKeyConfigurations, E!M!PostKeyConfigurations, Within, ReadsOf,
     WritesOf, AllOf
<1>GetKeyConfigurationByID. Within(E!M!GetKeyConfigurationByID, P)
  BY <1>keyconfig, <1>user, <1>join, Zenon DEF E!M!GetKeyConfigurationByID, E!M!KeyConfigTotals, Within, ReadsOf,
     WritesOf, AllOf, Tables, Reads
<1>ApiGetKeyConfigurationByID. Within(E!GetKeyConfigurationByID, P)
  BY <1>GetKeyConfigurationByID, Zenon DEF E!GetKeyConfigurationByID, Within
<1>SystemEvent. Within(E!M!SystemEvent, P)
  BY <1>system, <1>event, <1>try, Zenon DEF E!M!SystemEvent, Within, ReadsOf, WritesOf, AllOf
<1>UpdateKeyConfigurationByID. Within(E!M!UpdateKeyConfigurationByID, P)
  BY <1>keyconfig, <1>key, <1>system, <1>event, <1>SystemEvent, <1>user, Zenon DEF
     E!M!UpdateKeyConfigurationByID, E!M!handleUpdatePrimaryKey, E!M!updatePrimaryKeySystemEvents,
     Within, ReadsOf, WritesOf, AllOf
<1>ApiUpdateKeyConfigurationByID. Within(E!UpdateKeyConfigurationByID, P)
  BY <1>GetWorkflowConfig, <1>GetKeyConfigurationByID, <1>UpdateKeyConfigurationByID, Zenon DEF
     E!UpdateKeyConfigurationByID, E!IsWorkflowRequired, Within
<1>ApiDeleteKeyConfigurationByID. Within(E!DeleteKeyConfigurationByID, P)
  BY <1>keyconfig, <1>system, <1>key, <1>tag, <1>user, Zenon DEF E!DeleteKeyConfigurationByID,
     E!M!DeleteKeyConfigurationByID, E!M!HasConnectedSystems, E!M!HasConnectedKeys, E!M!DeleteTags,
     Within, ReadsOf, WritesOf, AllOf
<1>ApiGetTagsForKeyConfiguration. Within(E!GetTagsForKeyConfiguration, P)
  BY <1>tag, Zenon DEF E!GetTagsForKeyConfiguration, E!M!GetTags, Within, ReadsOf, WritesOf, AllOf
<1>ApiAddTagsToKeyConfiguration. Within(E!AddTagsToKeyConfiguration, P)
  BY <1>tag, Zenon DEF E!AddTagsToKeyConfiguration, E!M!SetTags, E!M!DeleteTags, Within, ReadsOf, WritesOf, AllOf
<1>ApiGetKeyConfigurationCertificates. Within(E!GetKeyConfigurationCertificates, P)
  BY <1>getDefaultHYOKClientCert, Zenon DEF E!GetKeyConfigurationCertificates, E!M!GetClientCertificates,
     Within
<1>ListAndCountSystemWithProperties. Within(E!M!ListAndCountSystemWithProperties, P)
  BY <1>system, <1>join, Zenon DEF E!M!ListAndCountSystemWithProperties, Within, ReadsOf, WritesOf, AllOf, Tables, Reads
<1>ApiGetAllSystems. Within(E!GetAllSystems, P)
  BY <1>system, <1>systemproperty, <1>keyconfig, <1>ListAndCountSystemWithProperties, <1>try, Zenon DEF
     E!GetAllSystems, E!M!RefreshSystemsData, E!M!createSystemIfNotExists, E!M!updateSystem,
     E!M!GetSystemByID, E!M!removeSystemsNotInRegistry, E!M!GetAllSystems, Within, ReadsOf, WritesOf, AllOf
<1>ApiGetFilters. Within(E!GetFilters, P)
  BY <1>system, <1>join, Zenon DEF E!GetFilters, E!M!GetFilters, Within, ReadsOf, WritesOf, AllOf, Tables, Reads
<1>getWorkflows. Within(E!M!getWorkflows, P)
  BY <1>workflow, <1>user, <1>join, Zenon DEF E!M!getWorkflows, E!M!getAllWorkflows,
     E!M!filterByInitiatorOrApprover, Within, ReadsOf, WritesOf, AllOf, Tables, Reads
<1>GetGroupByID. Within(E!M!GetGroupByID, P)
  BY <1>group, <1>user, Zenon DEF E!M!GetGroupByID, Within, ReadsOf, WritesOf, AllOf
<1>GetWorkflowApproverGroups. Within(E!M!GetWorkflowApproverGroups, P)
  BY <1>group, <1>GetGroupByID, <1>join, Zenon DEF E!M!GetWorkflowApproverGroups, Within, ReadsOf, WritesOf, AllOf, Tables,
     Reads
<1>getEligibleUserIDsForWorkflow. Within(E!M!getEligibleUserIDsForWorkflow, P)
  BY <1>GetWorkflowApproverGroups, <1>GetGroupByID, Zenon DEF E!M!getEligibleUserIDsForWorkflow,
     E!M!queryGroupMembersFromIAM, Within
<1>GetWorkflowByID. Within(E!M!GetWorkflowByID, P)
  BY <1>approver, <1>getWorkflows, <1>getEligibleUserIDsForWorkflow, <1>GetWorkflowConfig, Zenon DEF
     E!M!GetWorkflowByID, E!M!checkWorkflowEligibility, E!M!getWorkflowLifecycle,
     E!M!GetAllApprovers, Within, ReadsOf, WritesOf, AllOf
<1>ListWorkflowApprovers. Within(E!M!ListWorkflowApprovers, P)
  BY <1>approver, <1>GetWorkflowByID, Zenon DEF E!M!ListWorkflowApprovers, Within, ReadsOf, WritesOf, AllOf
<1>GetWorkflowAvailableTransitions. Within(E!M!GetWorkflowAvailableTransitions, P)
  BY <1>approver, <1>GetWorkflowConfig, Zenon DEF E!M!GetWorkflowAvailableTransitions,
     E!M!getWorkflowLifecycle, E!M!GetAllApprovers, Within, ReadsOf, WritesOf, AllOf
<1>GetWorkflowApprovalSummary. Within(E!M!GetWorkflowApprovalSummary, P)
  BY <1>approver, <1>GetWorkflowConfig, Zenon DEF E!M!GetWorkflowApprovalSummary, E!M!getWorkflowLifecycle,
     E!M!GetAllApprovers, Within, ReadsOf, WritesOf, AllOf
<1>ApiGetSystemByID. Within(E!GetSystemByID, P)
  BY <1>ListAndCountSystemWithProperties, <1>getWorkflows, <1>ListWorkflowApprovers,
     <1>GetWorkflowApproverGroups, <1>GetWorkflowAvailableTransitions,
     <1>GetWorkflowApprovalSummary, <1>user, Zenon DEF E!GetSystemByID, E!M!GetSystemByID,
     E!handleSystemUnderWorkflow, Within
<1>LinkSystemAction. Within(E!M!LinkSystemAction, P)
  BY <1>keyconfig, <1>system, <1>key, <1>ListAndCountSystemWithProperties, <1>SystemEvent, <1>user, Zenon
     DEF E!M!LinkSystemAction, E!M!GetSystemByID, E!M!CanConnectSystems, Within, ReadsOf, WritesOf, AllOf
<1>ApiLinkSystemAction. Within(E!LinkSystemAction, P)
  BY <1>GetWorkflowConfig, <1>LinkSystemAction, Zenon DEF E!LinkSystemAction, E!IsWorkflowRequired, Within
<1>UnlinkSystemAction. Within(E!M!UnlinkSystemAction, P)
  BY <1>system, <1>keyconfig, <1>SystemEvent, <1>user, SMTT(30) DEF E!M!UnlinkSystemAction, E!M!Unlink,
     Within, ReadsOf, WritesOf, AllOf
<1>ApiUnlinkSystemAction. Within(E!UnlinkSystemAction, P)
  BY <1>GetWorkflowConfig, <1>UnlinkSystemAction, Zenon DEF E!UnlinkSystemAction, E!IsWorkflowRequired,
     Within
<1>ApiSendRecoveryActions. Within(E!SendRecoveryActions, P)
  BY <1>system, <1>event, <1>ListAndCountSystemWithProperties, <1>user, Zenon DEF E!SendRecoveryActions,
     E!M!SendRecoveryActions, E!M!GetSystemByID, E!M!cancelSystemAction, E!M!GetLastEvent,
     E!M!retrySystemAction, Within, ReadsOf, WritesOf, AllOf
<1>ApiGetRecoveryActions. Within(E!GetRecoveryActions, P)
  BY <1>event, <1>key, <1>ListAndCountSystemWithProperties, <1>user, <1>try, Zenon DEF
     E!GetRecoveryActions, E!M!GetRecoveryActions, E!M!GetSystemByID, E!M!GetLastEvent,
     E!M!hasKeyAdminAccess, Within, ReadsOf, WritesOf, AllOf
<1>getKeyConfigurationsFromArtifact. Within(E!M!getKeyConfigurationsFromArtifact, P)
  BY <1>GetKeyConfigurationByID, <1>ListAndCountSystemWithProperties, <1>GetKey, Zenon DEF
     E!M!getKeyConfigurationsFromArtifact, E!M!GetSystemByID, Within
<1>CheckWorkflow. Within(E!M!CheckWorkflow, P)
  BY <1>key, <1>system, <1>workflow, <1>GetWorkflowConfig, <1>getKeyConfigurationsFromArtifact,
     <1>user, <1>try, Zenon DEF E!M!CheckWorkflow, E!M!checkPermissionToCreateWorkflow, E!M!checkWorkflow,
     E!M!validateWorkflow, E!M!checkOngoingWorkflowForArtifact, Within, ReadsOf, WritesOf, AllOf
<1>ApiCreateWorkflow. Within(E!CreateWorkflow, P)
  BY <1>workflow, <1>system, <1>key, <1>GetWorkflowConfig, <1>CheckWorkflow, <1>GetKey,
     <1>GetKeyConfigurationByID, <1>ListAndCountSystemWithProperties, <1>try, ZenonT(40) DEF E!CreateWorkflow,
     E!M!CreateWorkflow, E!M!populateArtifact, E!M!GetSystemByID, E!M!handleNewWorkflow, Within, ReadsOf,
     WritesOf, AllOf
<1>ApiGetWorkflows. Within(E!GetWorkflows, P)
  BY <1>getWorkflows, Zenon DEF E!GetWorkflows, Within
<1>ApiCheckWorkflow. Within(E!CheckWorkflow, P)
  BY <1>GetWorkflowConfig, <1>CheckWorkflow, Zenon DEF E!CheckWorkflow, Within
<1>ApiGetWorkflowByID. Within(E!GetWorkflowByID, P)
  BY <1>GetWorkflowByID, <1>ListWorkflowApprovers, <1>GetWorkflowApproverGroups,
     <1>GetWorkflowAvailableTransitions, <1>GetWorkflowApprovalSummary, Zenon DEF E!GetWorkflowByID, Within
<1>ApiTransitionWorkflow. Within(E!TransitionWorkflow, P)
  BY <1>workflow, <1>group, <1>approver, <1>system, <1>key, <1>tenant,
     <1>getEligibleUserIDsForWorkflow, <1>GetWorkflowConfig, <1>GetWorkflowApproverGroups,
     <1>UpdateKey, <1>DeleteKey, <1>UpdateKeyConfigurationByID, <1>LinkSystemAction,
     <1>UnlinkSystemAction, <1>try, ZenonT(40) DEF E!TransitionWorkflow, E!M!TransitionWorkflow,
     E!M!applyTransition, E!M!getWorkflowLifecycle, E!M!fetchAndValidateApprover,
     E!M!GetAllApprovers, E!M!ExecuteWorkflowAction, E!M!HandleTerminalWorkflow,
     E!M!HandleTerminalSystem, E!M!HandleTerminalKey, E!M!createWorkflowTransitionNotificationTask,
     E!M!GetTenant, Within, ReadsOf, WritesOf, AllOf
<1>ApiGetGroups. Within(E!GetGroups, P)
  BY <1>group, <1>user, Zenon DEF E!GetGroups, E!M!GetGroups, Within, ReadsOf, WritesOf, AllOf
<1>ApiGetGroupByID. Within(E!GetGroupByID, P)
  BY <1>GetGroupByID, Zenon DEF E!GetGroupByID, Within
<1>ApiGetTenantKeystores. Within(E!GetTenantKeystores, P)
  BY <1>tenantconfig, Zenon DEF E!GetTenantKeystores, E!M!GetTenantsKeystores,
     E!M!getStoredDefaultKeystoreConfig, Within, ReadsOf, WritesOf, AllOf
<1>ApiGetTenantWorkflowConfiguration. Within(E!GetTenantWorkflowConfiguration, P)
  BY <1>GetWorkflowConfig, Zenon DEF E!GetTenantWorkflowConfiguration, Within
<1> QED
  BY <1>ApiGetKeys, <1>ApiPostKeys, <1>ApiGetKeysKeyID, <1>ApiUpdateKey, <1>ApiDeleteKeysKeyID,
     <1>ApiGetKeyImportParams, <1>ApiImportKeyMaterial, <1>ApiGetKeyVersions, <1>ApiGetKeyLabels,
     <1>ApiCreateOrUpdateLabels, <1>ApiDeleteLabel, <1>ApiGetKeyConfigurations,
     <1>ApiPostKeyConfigurations, <1>ApiGetKeyConfigurationByID, <1>ApiUpdateKeyConfigurationByID,
     <1>ApiDeleteKeyConfigurationByID, <1>ApiGetTagsForKeyConfiguration,
     <1>ApiAddTagsToKeyConfiguration, <1>ApiGetKeyConfigurationCertificates, <1>ApiGetAllSystems,
     <1>ApiGetFilters, <1>ApiGetSystemByID, <1>ApiLinkSystemAction, <1>ApiUnlinkSystemAction,
     <1>ApiSendRecoveryActions, <1>ApiGetRecoveryActions, <1>ApiCreateWorkflow, <1>ApiGetWorkflows,
     <1>ApiCheckWorkflow, <1>ApiGetWorkflowByID, <1>ApiTransitionWorkflow, <1>ApiGetGroups,
     <1>ApiGetGroupByID, <1>ApiGetTenantKeystores, <1>ApiGetTenantWorkflowConfiguration, ZenonT(40) DEF P

TenantAdminMay == RepoTenantAdmin \cup UserOps

(* What the handlers that a tenant administrator may call ask for. *)
LEMMA TenantAdminCalls ==
    \A calls \in {E!GetGroups, E!CreateGroup, E!GetGroupByID, E!UpdateGroup, E!DeleteGroupByID,
         E!GetTenantKeystores, E!GetTenantWorkflowConfiguration,
         E!UpdateTenantWorkflowConfiguration, E!GetTenantInfo} : Within(calls, TenantAdminMay)
<1> DEFINE P == TenantAdminMay
<1>0. /\ \A t \in {"group", "tenant", "tenantconfig"}, a \in repoActionList : <<t, a>> \in P
      /\ <<"keyconfig", "first">> \in P
      /\ UserOps \subseteq P
  BY Zenon DEF TenantAdminMay, RepoTenantAdmin, On, repoActionList
<1> HIDE DEF P
<1>1. \A t \in {"group", "tenant", "tenantconfig"} : AllOf(t, P)
  BY <1>0, TableWithin, Zenon DEF AllOf, Reads, repoActionList
<1>group. AllOf("group", P)
  BY <1>1, Zenon
<1>tenant. AllOf("tenant", P)
  BY <1>1, Zenon
<1>tenantconfig. AllOf("tenantconfig", P)
  BY <1>1, Zenon
<1>keyconfig. Within(E!M!First("keyconfig"), P)
  <2>1. {"keyconfig"} \X {"first"} \subseteq P
    BY <1>0
  <2> QED BY <2>1, MustWithin, Zenon DEF E!M!First
<1>user. Within(E!M!User("NeedsGroupFiltering"), P) /\ Within(E!M!User("HasKeyAccess"), P)
         /\ Within(E!M!User("HasKeyConfigAccess"), P) /\ Within(E!M!User("HasSystemAccess"), P)
         /\ Within(E!M!User("GetBusinessUserInfo"), P) /\ Within(E!M!User("HasTenantAccess"), P)
  BY <1>0, OtherWithin, Zenon DEF M!UserCalls
<1>ApiGetGroups. Within(E!GetGroups, P)
  BY <1>group, <1>user, Zenon DEF E!GetGroups, E!M!GetGroups, Within, ReadsOf, WritesOf, AllOf
<1>ApiCreateGroup. Within(E!CreateGroup, P)
  BY <1>group, Zenon DEF E!CreateGroup, E!M!CreateGroup, Within, ReadsOf, WritesOf, AllOf
<1>GetGroupByID. Within(E!M!GetGroupByID, P)
  BY <1>group, <1>user, Zenon DEF E!M!GetGroupByID, Within, ReadsOf, WritesOf, AllOf
<1>ApiGetGroupByID. Within(E!GetGroupByID, P)
  BY <1>GetGroupByID, Zenon DEF E!GetGroupByID, Within
<1>ApiUpdateGroup. Within(E!UpdateGroup, P)
  BY <1>group, <1>GetGroupByID, Zenon DEF E!UpdateGroup, E!M!UpdateGroup, Within, ReadsOf, WritesOf, AllOf
<1>ApiDeleteGroupByID. Within(E!DeleteGroupByID, P)
  BY <1>keyconfig, <1>group, <1>GetGroupByID, Zenon DEF E!DeleteGroupByID, E!M!DeleteGroupByID, Within, ReadsOf,
     WritesOf, AllOf
<1>ApiGetTenantKeystores. Within(E!GetTenantKeystores, P)
  BY <1>tenantconfig, Zenon DEF E!GetTenantKeystores, E!M!GetTenantsKeystores,
     E!M!getStoredDefaultKeystoreConfig, Within, ReadsOf, WritesOf, AllOf
<1>SetWorkflowConfig. Within(E!M!SetWorkflowConfig, P)
  BY <1>tenantconfig, <1>tenant, Zenon DEF E!M!SetWorkflowConfig, E!M!GetTenant, Within, ReadsOf, WritesOf, AllOf
<1>GetWorkflowConfig. Within(E!M!GetWorkflowConfig, P)
  BY <1>tenantconfig, <1>SetWorkflowConfig, Zenon DEF E!M!GetWorkflowConfig, Within, ReadsOf, WritesOf, AllOf
<1>ApiGetTenantWorkflowConfiguration. Within(E!GetTenantWorkflowConfiguration, P)
  BY <1>GetWorkflowConfig, Zenon DEF E!GetTenantWorkflowConfiguration, Within
<1>ApiUpdateTenantWorkflowConfiguration. Within(E!UpdateTenantWorkflowConfiguration, P)
  BY <1>tenant, <1>GetWorkflowConfig, <1>SetWorkflowConfig, Zenon DEF E!UpdateTenantWorkflowConfiguration,
     E!M!UpdateWorkflowConfig, E!M!GetTenant, Within, ReadsOf, WritesOf, AllOf
<1>ApiGetTenantInfo. Within(E!GetTenantInfo, P)
  BY <1>tenant, <1>user, Zenon DEF E!GetTenantInfo, E!M!GetTenantInfo, E!M!GetTenant, Within, ReadsOf, WritesOf, AllOf
<1> QED
  BY <1>ApiGetGroups, <1>ApiCreateGroup, <1>ApiGetGroupByID, <1>ApiUpdateGroup,
     <1>ApiDeleteGroupByID, <1>ApiGetTenantKeystores, <1>ApiGetTenantWorkflowConfiguration,
     <1>ApiUpdateTenantWorkflowConfiguration, <1>ApiGetTenantInfo, Zenon DEF P

(* What an entry of RestrictionsByAPI asks for fits the policies that let a
   user in. *)
Fits(x) ==
    LET pair == <<x.resource, x.action>> IN
    /\ pair \in APIResourceTypeActions
    /\ pair \in APIKeyAdmin => Within(x.calls, KeyAdminMay)
    /\ pair \in APITenantAdmin => Within(x.calls, TenantAdminMay)
    /\ Within(x.calls, KeyAdminMay) \/ Within(x.calls, TenantAdminMay)

(* Every handler of the API fits. *)
LEMMA HandlersFit == \A h \in DOMAIN API : Fits(API[h])
<1>1. ASSUME NEW resource \in {"Key", "KeyConfiguration", "System", "Workflow"}, NEW action, NEW calls,
             <<resource, action>> \in APIResourceTypeActions, Within(calls, KeyAdminMay)
      PROVE  Fits(E!On(resource, action, calls))
  <2>1. <<resource, action>> \notin APITenantAdmin
    BY <1>1, Zenon DEF APITenantAdmin, On
  <2> QED BY <1>1, <2>1, Zenon DEF Fits, E!On
<1>2. ASSUME NEW resource \in {"UserGroup", "TenantSettings", "Tenant"}, NEW action, NEW calls,
             <<resource, action>> \in APIResourceTypeActions, Within(calls, TenantAdminMay),
             resource # "Tenant" /\ action = "read" => Within(calls, KeyAdminMay)
      PROVE  Fits(E!On(resource, action, calls))
  <2>1. resource = "Tenant" \/ action # "read" => <<resource, action>> \notin APIKeyAdmin
    BY <1>2, Zenon DEF APIKeyAdmin, On
  <2> QED BY <1>2, <2>1, Zenon DEF Fits, E!On
<1>3. \A action \in {"read", "create", "update", "delete"} :
        /\ <<"Key", action>> \in APIResourceTypeActions /\ <<"KeyConfiguration", action>> \in APIResourceTypeActions
        /\ <<"Workflow", action>> \in APIResourceTypeActions /\ <<"UserGroup", action>> \in APIResourceTypeActions
  BY Zenon DEF APIResourceTypeActions, On
<1>4. /\ <<"System", "read">> \in APIResourceTypeActions /\ <<"System", "ModifySystemLink">> \in APIResourceTypeActions
      /\ <<"TenantSettings", "read">> \in APIResourceTypeActions /\ <<"TenantSettings", "update">> \in APIResourceTypeActions
      /\ <<"Tenant", "read">> \in APIResourceTypeActions
  BY Zenon DEF APIResourceTypeActions, On
<1>5. \A h \in DOMAIN E!KeyAPI : Fits(E!KeyAPI[h])
  BY <1>1, <1>3, KeyAdminCalls, SMTT(30) DEF E!KeyAPI
<1>6. \A h \in DOMAIN E!KeyConfigurationAPI : Fits(E!KeyConfigurationAPI[h])
  BY <1>1, <1>3, KeyAdminCalls, SMTT(30) DEF E!KeyConfigurationAPI
<1>7. \A h \in DOMAIN E!SystemAPI : Fits(E!SystemAPI[h])
  BY <1>1, <1>4, KeyAdminCalls, SMTT(30) DEF E!SystemAPI
<1>8. \A h \in DOMAIN E!WorkflowAPI : Fits(E!WorkflowAPI[h])
  BY <1>1, <1>3, KeyAdminCalls DEF E!WorkflowAPI
<1>9. \A P : Within(E!CheckGroupsIAM, P)
  BY Zenon DEF Within, E!CheckGroupsIAM
<1>10. \A h \in DOMAIN E!GroupAPI : Fits(E!GroupAPI[h])
  BY <1>2, <1>3, <1>9, KeyAdminCalls, TenantAdminCalls, SMTT(30) DEF E!GroupAPI
<1>11. \A h \in DOMAIN E!TenantAPI : Fits(E!TenantAPI[h])
  BY <1>2, <1>4, KeyAdminCalls, TenantAdminCalls DEF E!TenantAPI
<1>12. \A f, g : \A h \in DOMAIN Joint(f, g) :
          \/ h \in DOMAIN f /\ Joint(f, g)[h] = f[h]
          \/ h \in DOMAIN g /\ Joint(f, g)[h] = g[h]
  BY Zenon DEF Joint
<1> QED BY <1>5, <1>6, <1>7, <1>8, <1>10, <1>11, <1>12, SMTT(30) DEF API

InternalMay(role) ==
    (RepoResourceTypeActions \cap RepoInternalPolicies[role])
      \cup {pair \in UserOps : role \in M!BypassRoles[pair[2]]}

(* One call on one table. *)
LEMMA CallWithin == ASSUME NEW P, NEW t, NEW a, <<t, a>> \in P PROVE Within(E!M!Must({t}, {a}), P)
<1>1. {t} \X {a} \subseteq P
  OBVIOUS
<1> QED BY <1>1, MustWithin, Zenon

(* The rotation of certificates. *)
LEMMA CertRotatorFits == Within(E!M!RotateExpiredCertificates, InternalMay("CertRotation"))
<1> DEFINE P == InternalMay("CertRotation")
<1>1. \A a \in Reads \cup {"create", "update"} : <<"certificate", a>> \in P
  BY Zenon DEF InternalMay, RepoResourceTypeActions, RepoInternalPolicies, CertRotation, On, Tables, Reads, repoActionList
<1> HIDE DEF P
<1>2. ReadsOf("certificate", P) /\ WritesOf("certificate", P)
  BY <1>1, TableWithin, Zenon
<1> QED BY <1>2, Zenon DEF P, Within, ReadsOf, WritesOf, E!M!RotateExpiredCertificates, E!M!RotateCertificate,
     E!M!getNewCertificate, E!M!UpdateCertificate, E!M!getCertificateByPurpose

(* The tasks with few calls: the keystore pool, the cleaning of workflows, the
   names of tenants and the synchronisation of HYOK keys. *)
LEMMA SmallTasksFit ==
    /\ Within(E!M!FillKeystorePool, InternalMay("KeystorePool"))
    /\ Within(E!M!CleanupTerminalWorkflows, InternalMay("WorkflowCleanup"))
    /\ Within(E!M!Patch("tenant"), InternalMay("TenantRefresh"))
    /\ Within(E!M!SyncHYOKKeys, InternalMay("HYOKSync"))
<1>1. Within(E!M!FillKeystorePool, InternalMay("KeystorePool"))
  <2> DEFINE P == InternalMay("KeystorePool")
  <2>1. <<"keystore", "count">> \in P /\ <<"keystore", "create">> \in P
    BY Zenon DEF InternalMay, RepoResourceTypeActions, RepoInternalPolicies, KeystorePool, On, Tables, repoActionList
  <2> HIDE DEF P
  <2>2. Within(E!M!Count("keystore"), P) /\ Within(E!M!Create("keystore"), P)
    BY <2>1, CallWithin, Zenon DEF E!M!Count, E!M!Create
  <2> QED BY <2>2, Zenon DEF P, Within, E!M!FillKeystorePool
<1>2. Within(E!M!CleanupTerminalWorkflows, InternalMay("WorkflowCleanup"))
  <2> DEFINE P == InternalMay("WorkflowCleanup")
  <2>1. /\ <<"tenantconfig", "first">> \in P /\ <<"tenant", "first">> \in P /\ <<"workflow", "list">> \in P
        /\ <<"workflow", "delete">> \in P /\ \A a \in {"create", "update"} : <<"tenantconfig", a>> \in P
    BY Zenon DEF InternalMay, RepoResourceTypeActions, RepoInternalPolicies, WorkflowCleanup, On, Tables, repoActionList
  <2> HIDE DEF P
  <2>2. /\ Within(E!M!First("tenantconfig"), P) /\ Within(E!M!First("tenant"), P)
        /\ Within(E!M!List("workflow"), P) /\ Within(E!M!Delete("workflow"), P)
    BY <2>1, CallWithin, Zenon DEF E!M!First, E!M!List, E!M!Delete
  <2>3. WritesOf("tenantconfig", P)
    BY <2>1, TableWithin, Zenon
  <2> QED BY <2>2, <2>3, Zenon DEF P, Within, WritesOf, E!M!CleanupTerminalWorkflows, E!M!GetWorkflowConfig,
       E!M!SetWorkflowConfig, E!M!GetTenant, E!M!ProcessInBatch
<1>3. Within(E!M!Patch("tenant"), InternalMay("TenantRefresh"))
  <2>1. <<"tenant", "update">> \in InternalMay("TenantRefresh")
    BY Zenon DEF InternalMay, RepoResourceTypeActions, RepoInternalPolicies, TenantRefresh, On, Tables, repoActionList
  <2> QED BY <2>1, CallWithin, Zenon DEF E!M!Patch
<1>4. Within(E!M!SyncHYOKKeys, InternalMay("HYOKSync"))
  <2> DEFINE P == InternalMay("HYOKSync")
  <2>1. <<"key", "list">> \in P /\ <<"key", "update">> \in P
    BY Zenon DEF InternalMay, RepoResourceTypeActions, RepoInternalPolicies, HYOKSync, On, Tables, Reads, repoActionList
  <2> HIDE DEF P
  <2>2. Within(E!M!List("key"), P) /\ Within(E!M!Patch("key"), P) /\ \A calls : Within(E!M!Logged(calls), P)
    BY <2>1, CallWithin, OtherWithin, Zenon DEF E!M!List, E!M!Patch
  <2> QED BY <2>2, Zenon DEF P, Within, E!M!SyncHYOKKeys, E!M!syncHYOKKeyState, E!M!ProcessInBatch
<1> QED BY <1>1, <1>2, <1>3, <1>4, Zenon

(* The expiry of a system's workflow. *)
LEMMA ExpirySystemFits ==
    Within(E!M!getAllWorkflows \cup E!M!ExpireWorkflow(E!M!HandleTerminalSystem), InternalMay("WorkflowExpiration"))
<1> DEFINE P == InternalMay("WorkflowExpiration")
<1>1. /\ \A a \in Reads \cup {"update"} : <<"workflow", a>> \in P
      /\ <<"system", "update">> \in P
  BY Zenon DEF InternalMay, RepoResourceTypeActions, RepoInternalPolicies, WorkflowExpiration, On, Tables, Reads, repoActionList
<1>2. <<"user", "NeedsGroupFiltering">> \in P
  BY Zenon DEF InternalMay, UserOps, M!UserCalls, M!BypassRoles
<1> HIDE DEF P
<1>3. /\ ReadsOf("workflow", P) /\ Within(E!M!Patch("workflow"), P) /\ Within(E!M!Patch("system"), P)
      /\ Within(E!M!User("NeedsGroupFiltering"), P)
  BY <1>1, <1>2, TableWithin, CallWithin, Zenon DEF E!M!Patch, E!M!User
<1> QED BY <1>3, Zenon DEF P, Within, ReadsOf, E!M!getAllWorkflows, E!M!ExpireWorkflow, E!M!HandleTerminalSystem

(* The assignment of approvers, without the configuration of old workflows. *)
LEMMA WorkflowProcessorFits ==
    Within((E!M!AutoAssignApprovers \ E!M!getWorkflowLifecycle) \cup E!putWorkflowInFailedState,
           InternalMay("WorkflowApprovers"))
<1> DEFINE P == InternalMay("WorkflowApprovers")
<1>1. /\ \A a \in {"create", "update"} : <<"workflow", a>> \in P /\ <<"approver", a>> \in P
      /\ <<"workflow", "first">> \in P
  BY Zenon DEF InternalMay, RepoResourceTypeActions, RepoInternalPolicies, WorkflowApprovers, On, Tables, Reads, repoActionList
<1>2. /\ <<"key", "first">> \in P /\ <<"key", "update">> \in P /\ <<"keyversion", "first">> \in P
      /\ \A a \in Reads \cup {"update"} : <<"system", a>> \in P
  BY Zenon DEF InternalMay, RepoResourceTypeActions, RepoInternalPolicies, WorkflowApprovers, On, Tables, Reads, repoActionList
<1>3. /\ <<"systemproperty", "list">> \in P /\ <<"event", "list">> \in P
      /\ <<"keyconfig", "list">> \in P /\ <<"keyconfig", "first">> \in P
  BY Zenon DEF InternalMay, RepoResourceTypeActions, RepoInternalPolicies, WorkflowApprovers, On, Tables, Reads, repoActionList
<1>4. <<"user", "HasKeyAccess">> \in P /\ <<"user", "HasKeyConfigAccess">> \in P
  BY Zenon DEF InternalMay, UserOps, M!UserCalls, M!BypassRoles
<1> HIDE DEF P
<1>5. /\ WritesOf("workflow", P) /\ WritesOf("approver", P) /\ Within(E!M!First("workflow"), P)
      /\ ReadsOf("system", P) /\ Within(E!M!Patch("system"), P)
  BY <1>1, <1>2, TableWithin, CallWithin, Zenon DEF E!M!First, E!M!Patch
<1>6. /\ Within(E!M!First("key"), P) /\ Within(E!M!Patch("key"), P) /\ Within(E!M!First("keyconfig"), P)
      /\ Within(E!M!User("HasKeyAccess"), P) /\ Within(E!M!User("HasKeyConfigAccess"), P)
      /\ \A calls : Within(E!M!Logged(calls), P)
  BY <1>2, <1>3, <1>4, CallWithin, OtherWithin, Zenon DEF E!M!First, E!M!Patch, E!M!User
<1>7. Within(E!M!Joined("first", {"keyversion"}), P)
  BY <1>2, CallWithin, Zenon DEF E!M!Joined
<1>8. Within(E!M!Joined("first", {"system", "key"}), P)
  <2>1. {"system", "key"} \X {"first"} \subseteq P
    BY <1>2 DEF Reads
  <2> QED BY <2>1, MustWithin, Zenon DEF E!M!Joined
<1>9. Within(E!M!Joined("list", {"systemproperty", "keyconfig", "event"}), P)
  <2>1. {"systemproperty", "keyconfig", "event"} \X {"list"} \subseteq P
    BY <1>3
  <2> QED BY <2>1, MustWithin, Zenon DEF E!M!Joined
<1>10. Within(E!M!GetKey, P)
  BY <1>5, <1>6, <1>7, Zenon DEF Within, ReadsOf, E!M!GetKey, E!M!ReadKey, E!M!IsPrimaryKey, E!M!syncHYOKKeyState,
     E!M!setEditableStatus
<1>11. Within(E!M!getKeyConfigurationsFromArtifact, P)
  BY <1>5, <1>6, <1>8, <1>9, <1>10, Zenon DEF Within, ReadsOf, E!M!getKeyConfigurationsFromArtifact, E!M!KeyConfigTotals,
     E!M!GetKeyConfigurationByID, E!M!GetSystemByID, E!M!ListAndCountSystemWithProperties
<1>12. Within(E!M!AutoAssignApprovers \ E!M!getWorkflowLifecycle, P)
  BY <1>5, <1>6, <1>11, Zenon DEF Within, WritesOf, E!M!AutoAssignApprovers, E!M!addApproversAndGroupAssociations,
     E!M!createWorkflowTransitionNotificationTask
<1>13. Within(E!putWorkflowInFailedState, P)
  BY <1>5, <1>6, Zenon DEF Within, WritesOf, E!putWorkflowInFailedState, E!M!HandleTerminalWorkflow,
     E!M!HandleTerminalSystem, E!M!HandleTerminalKey
<1> QED BY <1>12, <1>13, Zenon DEF P, Within

(* The tasks are granted what they cannot do without. *)
LEMMA TasksFit ==
    \A task \in GrantedTasks :
      /\ E!TaskHandlers[task].role \in InternalRoles
      /\ Within(E!TaskHandlers[task].calls, InternalMay(E!TaskHandlers[task].role))
<1>1. \A role, calls : E!T(role, calls).role = role /\ E!T(role, calls).calls = calls
  BY Zenon DEF E!T
<1>2. /\ E!TaskHandlers["CertRotator"] = E!CertRotator /\ E!TaskHandlers["KeystorePoolFiller"] = E!keystorePoolFiller
      /\ E!TaskHandlers["WorkflowProcessor"] = E!WorkflowProcessor
      /\ E!TaskHandlers["ExpirySystem"] = E!WorkflowExpiryProcessor(E!M!HandleTerminalSystem)
      /\ E!TaskHandlers["WorkflowCleaner"] = E!WorkflowCleaner /\ E!TaskHandlers["HYOKSync"] = E!HYOKSync
      /\ E!TaskHandlers["TenantNameRefresher"] = E!TenantNameRefresher
  BY Zenon DEF E!TaskHandlers
<1>3. {"CertRotation", "KeystorePool", "WorkflowApprovers", "WorkflowExpiration", "WorkflowCleanup", "TenantRefresh",
       "HYOKSync"} \subseteq InternalRoles
  BY Zenon DEF InternalRoles, RepoInternalPolicies
<1> QED BY <1>1, <1>2, <1>3, CertRotatorFits, SmallTasksFit, ExpirySystemFits, WorkflowProcessorFits, SMTT(30)
     DEF GrantedTasks, E!CertRotator, E!keystorePoolFiller, E!WorkflowProcessor, E!WorkflowExpiryProcessor,
         E!WorkflowCleaner, E!TenantNameRefresher, E!HYOKSync

-----------------------------------------------------------------------------
(* The invariant, step by step. *)

(* A set with one element at most. *)
LEMMA AtMostOne ==
    ASSUME NEW S, IsFiniteSet(S), Cardinality(S) <= 1, NEW x \in S, NEW y \in S
    PROVE  x = y
<1> SUFFICES ASSUME x # y PROVE FALSE
  BY Zenon
<1>1. IsFiniteSet(S \ {x}) /\ Cardinality(S \ {x}) = Cardinality(S) - 1
  BY FS_RemoveElement, Zenon
<1>2. Cardinality(S) \in Nat /\ Cardinality(S \ {x}) \in Nat
  BY <1>1, FS_CardinalityType, Zenon
<1>3. Cardinality(S \ {x}) = 0
  BY <1>1, <1>2
<1>4. S \ {x} = {}
  BY <1>1, <1>3, FS_EmptySet, Zenon
<1> QED BY <1>4, Zenon

(* Tasks run under internal roles. *)
LEMMA TaskRole == \A task \in DOMAIN E!TaskHandlers : E!TaskHandlers[task].role # Business
  BY DEF E!TaskHandlers, E!CertRotator, E!keystorePoolFiller, E!SystemsRefresher, E!WorkflowProcessor,
     E!WorkflowExpiryProcessor, E!WorkflowCleaner, E!TenantNameRefresher, E!HYOKSync, E!PendingStateSync, E!T, Business

(* A request in its next phase, and one that calls the repository. *)
Calls(q, n, call, phase) == n = [q EXCEPT !.call = call, !.phase = phase]
Moves(q, n, call, phase) == n = [q EXCEPT !.phase = phase] \/ Calls(q, n, call, phase)

(* A request that moves keeps everything else. *)
LEMMA Rephased ==
    ASSUME NEW q, IsRequest(q), NEW phase, NEW call, NEW n, Moves(q, n, call, phase)
    PROVE  /\ IsRequest(n) /\ n.phase = phase /\ n.tenant = q.tenant /\ n.iams = q.iams /\ n.handler = q.handler
           /\ n.role = q.role /\ n.disturbed = q.disturbed
           /\ Calls(q, n, call, phase) => n.call = call
<1>1. CASE Calls(q, n, call, phase)
  BY <1>1, Zenon DEF IsRequest, Calls
<1>2. CASE n = [q EXCEPT !.phase = phase] /\ ~Calls(q, n, call, phase)
  BY <1>2, Zenon DEF IsRequest
<1> QED BY <1>1, <1>2, Zenon DEF Moves

(* The caches take over groups of known tenants, as far as they do. *)
Loads ==
    \/ UNCHANGED <<loaded, keys>>
    \/ \E l \in Loaders, t \in tenants : loadTenantAllowedActions(l, t)

(* A tenant that is not too large is loaded with all its groups. *)
LEMMA AllGroups ==
    ASSUME GroupsInv, AccessAssumption, NEW t \in Tenants, NEW rows \in getGroups(t)
    PROVE  /\ rows \subseteq groups[t]
           /\ Cardinality(groups[t]) <= DefaultLimit => rows = groups[t]
<1>1. rows \in SUBSET groups[t] /\ IsFiniteSet(groups[t])
  BY Zenon DEF getGroups, GroupsInv
<1>2. CASE Cardinality(groups[t]) <= DefaultLimit
  <2>1. Cardinality(rows) = Cardinality(groups[t])
    BY <1>2, Zenon DEF getGroups
  <2>2. rows = groups[t]
    BY <1>1, <2>1, FS_Subset, Zenon
  <2> QED BY <2>2, Zenon
<1> QED BY <1>1, <1>2, Zenon

(* What one load does: the tenant is loaded and nothing else changes. *)
LEMMA LoadIs ==
    ASSUME AccessInv, NEW l \in Loaders, NEW t \in Tenants, t \notin loaded[l], NEW rows \in getGroups(t),
           loaded' = [loaded EXCEPT ![l] = @ \cup {t}], keys' = [keys EXCEPT ![l] = @ \cup AddUser(t, rows)],
           UNCHANGED <<tenants, groups, since>>
    PROVE  /\ loaded' \in [Loaders -> SUBSET Tenants]
           /\ keys' \in [Loaders -> SUBSET (Tenants \X Iams \X BusinessRoles)]
           /\ CachesInv'
           /\ \A m \in Loaders, u \in Tenants : \A iams :
                Cardinality(groups[u]) <= DefaultLimit /\ ~Stale(m, u, iams) => ~Stale(m, u, iams)'
<1>1. TypeOK /\ GroupsInv /\ CachesInv
  BY Zenon DEF AccessInv
<1>2. rows \subseteq groups[t] /\ (Cardinality(groups[t]) <= DefaultLimit => rows = groups[t])
  BY <1>1, AccessAssumption, AllGroups, Zenon
<1>3. groups[t] \subseteq Rows
  BY <1>1, Zenon DEF TypeOK
<1>4. AddUser(t, rows) \subseteq Tenants \X Iams \X BusinessRoles
  BY <1>2, <1>3 DEF AddUser, Rows
<1>5. AddUser(t, rows) \subseteq Triples
  <2> SUFFICES ASSUME NEW row \in rows PROVE <<t, row[1], row[2]>> \in Triples
    BY Zenon DEF AddUser
  <2>1. <<t, row>> \in AllRows
    BY <1>2 DEF AllRows
  <2> QED BY <2>1 DEF Triples
<1>6. loaded' \in [Loaders -> SUBSET Tenants]
  BY <1>1, Zenon DEF TypeOK
<1>7. keys' \in [Loaders -> SUBSET (Tenants \X Iams \X BusinessRoles)]
  BY <1>1, <1>4, Zenon DEF TypeOK
<1>8. /\ loaded'[l] = loaded[l] \cup {t} /\ keys'[l] = keys[l] \cup AddUser(t, rows)
      /\ \A m \in Loaders \ {l} : loaded'[m] = loaded[m] /\ keys'[m] = keys[m]
  BY <1>1, Zenon DEF TypeOK
<1>9. \A k \in AddUser(t, rows) : k[1] = t
  BY DEF AddUser
<1>10. CachesInv'
  <2> SUFFICES ASSUME NEW m \in Loaders PROVE keys'[m] \subseteq since[m] /\ \A k \in keys'[m] : k[1] \in loaded'[m]
    BY Zenon DEF CachesInv
  <2>1. keys[m] \subseteq since[m] /\ Triples \subseteq since[m] /\ \A k \in keys[m] : k[1] \in loaded[m]
    BY <1>1, Zenon DEF CachesInv, GroupsInv
  <2>2. CASE m = l
    BY <1>5, <1>8, <1>9, <2>1, <2>2, Zenon
  <2>3. CASE m # l
    BY <1>8, <2>1, <2>3, Zenon
  <2> QED BY <2>2, <2>3, Zenon
<1>11. ASSUME NEW m \in Loaders, NEW u \in Tenants, NEW iams, Cardinality(groups[u]) <= DefaultLimit,
              ~Stale(m, u, iams)
       PROVE  ~Stale(m, u, iams)'
  <2>1. CASE m # l
    BY <1>8, <1>11, <2>1, Zenon DEF Stale, Cached
  <2>2. CASE m = l /\ u # t
    <3>1. \A x \in keys'[l] : x[1] = u => x \in keys[l]
      BY <1>8, <1>9, <2>2, Zenon
    <3>2. Cached(l, u, iams)' = Cached(l, u, iams)
      BY <1>8, <3>1, Zenon DEF Cached
    <3> QED BY <1>8, <1>11, <2>2, <3>2, ZenonT(40) DEF Stale
  <2>3. CASE m = l /\ u = t
    <3>1. rows = groups[t]
      BY <1>2, <1>11, <2>3, Zenon
    <3>2. \A x \in keys[l] : x[1] # t
      BY <1>1, Zenon DEF CachesInv
    <3>3. {x \in keys'[l] : x[1] = t /\ x[2] \in iams} = {x \in AddUser(t, groups[t]) : x[2] \in iams}
      BY <1>8, <1>9, <3>1, <3>2, Zenon
    <3>4. \A row \in groups[t] : <<row[1], row[2]>> = row
      BY <1>3 DEF Rows
    <3>5. {<<k[2], k[3]>> : k \in {x \in AddUser(t, groups[t]) : x[2] \in iams}} = {row \in groups[t] : row[1] \in iams}
      <4>1. ASSUME NEW k \in AddUser(t, groups[t]), k[2] \in iams
            PROVE  <<k[2], k[3]>> \in groups[t] /\ <<k[2], k[3]>>[1] \in iams
        <5>1. PICK row \in groups[t] : k = <<t, row[1], row[2]>>
          BY <4>1, Zenon DEF AddUser
        <5> QED BY <3>4, <4>1, <5>1, Zenon
      <4>2. ASSUME NEW row \in groups[t], row[1] \in iams
            PROVE  \E k \in {x \in AddUser(t, groups[t]) : x[2] \in iams} : row = <<k[2], k[3]>>
        <5>1. <<t, row[1], row[2]>> \in AddUser(t, groups[t])
          BY Zenon DEF AddUser
        <5>2. <<t, row[1], row[2]>>[2] = row[1] /\ <<t, row[1], row[2]>>[3] = row[2]
          BY Zenon
        <5> QED BY <3>4, <4>2, <5>1, <5>2, Zenon
      <4> QED BY <4>1, <4>2, Zenon
    <3>6. Cached(l, t, iams)' = {row \in groups[t] : row[1] \in iams}
      BY <3>3, <3>5, Zenon DEF Cached
    <3> QED BY <2>3, <3>6, Zenon DEF Stale
  <2> QED BY <2>1, <2>2, <2>3, Zenon
<1> QED BY <1>6, <1>7, <1>10, <1>11, Zenon

(* A load adds its tenant to those that are loaded, and removes none. *)
LEMMA LoadedNow ==
    ASSUME TypeOK, NEW l \in Loaders, NEW t \in tenants, loadTenantAllowedActions(l, t)
    PROVE  t \in loaded'[l] /\ \A m \in Loaders : loaded[m] \subseteq loaded'[m]
<1>1. CASE t \in loaded[l]
  BY <1>1, Zenon DEF loadTenantAllowedActions
<1>2. CASE t \notin loaded[l]
  <2>1. loaded' = [loaded EXCEPT ![l] = @ \cup {t}]
    BY <1>2, Zenon DEF loadTenantAllowedActions
  <2> QED BY <2>1, Zenon DEF TypeOK
<1> QED BY <1>1, <1>2, Zenon

(* A step that changes no group leaves an admitted request admitted. *)
LEMMA StaysAdmitted ==
    ASSUME AccessInv, UNCHANGED <<tenants, groups, since>>, Loads, NEW q, Admitted(q)
    PROVE  Admitted(q)'
<1>1. TypeOK /\ q.tenant \in Tenants
  BY Zenon DEF AccessInv, Admitted, TypeOK
<1>2. \A l \in Loaders : ~Stale(l, q.tenant, q.iams)'
  <2>1. CASE UNCHANGED <<loaded, keys>>
    BY <2>1, Zenon DEF Admitted, Stale, Cached
  <2>2. ASSUME NEW l \in Loaders, NEW t \in tenants, loadTenantAllowedActions(l, t)
        PROVE  \A m \in Loaders : ~Stale(m, q.tenant, q.iams)'
    <3>1. CASE t \in loaded[l]
      <4>1. UNCHANGED <<loaded, keys>>
        BY <2>2, <3>1, Zenon DEF loadTenantAllowedActions
      <4> QED BY <2>1, <4>1, Zenon
    <3>2. CASE t \notin loaded[l]
      <4>1. PICK rows \in getGroups(t) : /\ loaded' = [loaded EXCEPT ![l] = @ \cup {t}]
                                         /\ keys' = [keys EXCEPT ![l] = @ \cup AddUser(t, rows)]
        BY <2>2, <3>2, Zenon DEF loadTenantAllowedActions
      <4>2. t \in Tenants
        BY <1>1, Zenon DEF TypeOK
      <4>3. \A m \in Loaders, u \in Tenants : \A iams :
              Cardinality(groups[u]) <= DefaultLimit /\ ~Stale(m, u, iams) => ~Stale(m, u, iams)'
        BY <3>2, <4>1, <4>2, LoadIs, Zenon
      <4> QED BY <1>1, <4>3, Zenon DEF Admitted
    <3> QED BY <3>1, <3>2, Zenon
  <2> QED BY <2>1, <2>2, Zenon DEF Loads
<1>3. RolesOf(q.tenant, q.iams)' = RolesOf(q.tenant, q.iams)
  BY Zenon DEF RolesOf
<1>4. \A l \in Loaders : loaded[l] \subseteq loaded'[l]
  BY <1>1, LoadedNow, Zenon DEF Loads
<1> QED BY <1>2, <1>3, <1>4, Zenon DEF Admitted, Loaders, Restriction

(* Nor does such a step touch what is known of any request. *)
LEMMA StaysOk ==
    ASSUME AccessInv, UNCHANGED <<tenants, groups, since>>, Loads, NEW q, RequestOk(q)
    PROVE  RequestOk(q)'
<1>1. Undisturbed(q) => Admitted(q)'
  BY StaysAdmitted, Zenon DEF RequestOk
<1>2. Justified(q) <=> Justified(q)'
  BY Zenon DEF Justified, RolesOf, Restriction, CallsOf
<1>3. Served(q) => Served(q)'
  BY Zenon DEF Served
<1> QED BY <1>1, <1>2, <1>3, Zenon DEF RequestOk, Undisturbed, InFlight, TasksGranted

(* A step of one request. *)
LEMMA RequestKept ==
    ASSUME AccessInv, UNCHANGED <<tenants, groups, since, changes>>, Loads, NEW r \in Requests, NEW n,
           req' = [req EXCEPT ![r] = n], IsRequest(n), n.phase \in Phases, n.disturbed \in BOOLEAN,
           n.phase = "repoCheck" => n.call \in CallsOf(n), RequestOk(n)'
    PROVE  AccessInv'
<1>1. TypeOK /\ GroupsInv /\ CachesInv /\ RequestsInv
  BY Zenon DEF AccessInv
<1>2. /\ req' = [s \in Requests |-> req'[s]] /\ req'[r] = n
      /\ \A s \in Requests \ {r} : req'[s] = req[s]
  BY <1>1, Zenon DEF TypeOK
<1>3. loaded' \in [Loaders -> SUBSET Tenants] /\ keys' \in [Loaders -> SUBSET (Tenants \X Iams \X BusinessRoles)]
      /\ CachesInv'
  <2>1. CASE UNCHANGED <<loaded, keys>>
    BY <1>1, <2>1, Zenon DEF TypeOK, CachesInv
  <2>2. ASSUME NEW l \in Loaders, NEW t \in tenants, loadTenantAllowedActions(l, t)
        PROVE  loaded' \in [Loaders -> SUBSET Tenants] /\ CachesInv'
               /\ keys' \in [Loaders -> SUBSET (Tenants \X Iams \X BusinessRoles)]
    <3>1. CASE t \in loaded[l]
      <4>1. UNCHANGED <<loaded, keys>>
        BY <2>2, <3>1, Zenon DEF loadTenantAllowedActions
      <4> QED BY <2>1, <4>1, Zenon
    <3>2. CASE t \notin loaded[l]
      <4>1. PICK rows \in getGroups(t) : /\ loaded' = [loaded EXCEPT ![l] = @ \cup {t}]
                                         /\ keys' = [keys EXCEPT ![l] = @ \cup AddUser(t, rows)]
        BY <2>2, <3>2, Zenon DEF loadTenantAllowedActions
      <4>2. t \in Tenants
        BY <1>1, Zenon DEF TypeOK
      <4> QED BY <3>2, <4>1, <4>2, LoadIs, Zenon
    <3> QED BY <3>1, <3>2, Zenon
  <2> QED BY <2>1, <2>2, Zenon DEF Loads
<1>4. \A s \in Requests : /\ IsRequest(req'[s]) /\ req'[s].phase \in Phases /\ req'[s].disturbed \in BOOLEAN
                          /\ req'[s].phase = "repoCheck" => req'[s].call \in CallsOf(req'[s])
  <2> TAKE s \in Requests
  <2>1. CASE s = r
    BY <1>2, <2>1, Zenon
  <2>2. CASE s # r
    <3>1. req'[s] = req[s]
      BY <1>2, <2>2, Zenon
    <3> QED BY <1>1, <3>1, Zenon DEF TypeOK
  <2> QED BY <2>1, <2>2, Zenon
<1>5. TypeOK'
  <2>1. \A t \in Tenants : \A x, y \in groups'[t] : x[1] = y[1] => x = y
    BY <1>1, Zenon DEF TypeOK
  <2>2. tenants' \subseteq Tenants /\ groups' \in [Tenants -> SUBSET Rows] /\ changes' \in 0..MaxChanges
    BY <1>1, Zenon DEF TypeOK
  <2> QED BY <1>2, <1>3, <1>4, <2>1, <2>2, Zenon DEF TypeOK, IsRequest, CallsOf
<1>6. GroupsInv'
  BY <1>1 DEF GroupsInv, Triples, AllRows
<1>7. RequestsInv'
  <2> SUFFICES ASSUME NEW s \in Requests PROVE RequestOk(req[s])'
    BY Zenon DEF RequestsInv
  <2>1. PICK q : q = req'[s]
    BY Zenon
  <2>2. RequestOk(q)'
    <3>1. CASE s = r
      BY <1>2, <2>1, <3>1, Zenon
    <3>2. CASE s # r
      <4>1. RequestOk(q)
        BY <1>1, <1>2, <2>1, <3>2, Zenon DEF RequestsInv
      <4> QED BY <4>1, StaysOk, Zenon
    <3> QED BY <3>1, <3>2, Zenon
  <2> QED BY <2>1, <2>2, Zenon DEF RequestOk, Undisturbed, InFlight, Admitted, Justified, Served,
       Restriction, CallsOf
<1> QED BY <1>3, <1>5, <1>6, <1>7, Zenon DEF AccessInv

(* What the API check lets through has a role that the policy allows. *)
LEMMA AllowedRole ==
    ASSUME AccessInv, NEW q, Admitted(q), ApiAllowed(q)
    PROVE  \E role \in RolesOf(q.tenant, q.iams) :
             Restriction(q) \in APIPolicies[role]
<1>1. q.tenant \in Tenants /\ \A k \in keys["api"] : k[1] \in loaded["api"]
  BY Zenon DEF AccessInv, Admitted, TypeOK, CachesInv, Loaders
<1>2. PICK row \in Cached("api", q.tenant, q.iams) :
        Restriction(q) \in APIPolicies[row[2]]
  BY Zenon DEF ApiAllowed, IsBusinessUserAllowed
<1>3. q.tenant \in loaded["api"]
  BY <1>1, <1>2, Zenon DEF Cached
<1>4. ~Stale("api", q.tenant, q.iams)
  BY Zenon DEF Admitted, Loaders
<1>5. row \in {x \in groups[q.tenant] : x[1] \in q.iams}
  BY <1>2, <1>3, <1>4, Zenon DEF Stale
<1>6. row[2] \in RolesOf(q.tenant, q.iams)
  BY <1>5, Zenon DEF RolesOf
<1> QED BY <1>2, <1>6, Zenon

(* Who may be refused: a request for which this is justified, and no task. *)
Refusable(q) ==
    (q.role = Business /\ Admitted(q) => Justified(q)) /\ (q.role # Business /\ TasksGranted => ~Served(q))

(* A request moves on to another phase: a handler is reached by a check only,
   or from a check of the repository; a check follows a load; and only who may
   be refused is. *)
LEMMA PhaseKept ==
    ASSUME AccessInv, UNCHANGED <<tenants, groups, since, changes>>, Loads, NEW r \in Requests,
           NEW phase \in Phases \ {"idle"}, NEW call, NEW n, Moves(req[r], n, call, phase),
           req' = [req EXCEPT ![r] = n], InFlight(req[r]),
           phase = "repoCheck" => call \in CallsOf(req[r]) /\ Calls(req[r], n, call, phase),
           phase \in {"handling", "repoCheck"} => \/ req[r].phase \in {"handling", "repoCheck"}
                                                  \/ ApiAllowed(req[r]),
           phase \in {"handling", "repoCheck", "denied"} \/ req[r].phase \notin {"handling", "repoCheck"},
           phase = "apiRecheck" => req[r].tenant \in loaded'["api"],
           phase = "repoCheck" => req[r].tenant \in loaded'["repo"],
           phase = "denied" => Refusable(req[r])
    PROVE  AccessInv'
<1>q. PICK q : q = req[r]
  BY Zenon
<1>1. IsRequest(q) /\ q.disturbed \in BOOLEAN /\ RequestOk(q)
  BY <1>q, ZenonT(40) DEF AccessInv, TypeOK, RequestsInv
<1>2. /\ IsRequest(n) /\ n.phase = phase /\ n.tenant = q.tenant /\ n.iams = q.iams /\ n.handler = q.handler
      /\ n.role = q.role /\ n.disturbed = q.disturbed
      /\ Calls(q, n, call, phase) => n.call = call
  <2>1. Moves(q, n, call, phase)
    BY <1>q, Zenon
  <2> QED BY <1>1, <2>1, Rephased
<1>3. n.phase = "repoCheck" => n.call \in CallsOf(n)
  BY <1>q, <1>2, Zenon DEF CallsOf
<1>4. ASSUME q.role = Business, ~q.disturbed PROVE Admitted(q) /\ q.tenant \in Tenants
  BY <1>q, <1>1, <1>4, ZenonT(40) DEF RequestOk, Undisturbed, Admitted, AccessInv, TypeOK
<1>5. ASSUME Undisturbed(n) PROVE Admitted(n)'
  <2>1. Admitted(q)
    BY <1>2, <1>4, <1>5, Zenon DEF Undisturbed
  <2>2. phase \in {"handling", "repoCheck"} => \E role \in RolesOf(q.tenant, q.iams) : Restriction(q) \in APIPolicies[role]
    <3>1. CASE q.phase \in {"handling", "repoCheck"}
      BY <2>1, <3>1, Zenon DEF Admitted
    <3>2. CASE ApiAllowed(q)
      BY <2>1, <3>2, AllowedRole, ZenonT(40)
    <3> QED BY <1>q, <3>1, <3>2, Zenon
  <2>3. Admitted(q)'
    BY <2>1, StaysAdmitted, Zenon
  <2>4. RolesOf(q.tenant, q.iams)' = RolesOf(q.tenant, q.iams)
    BY Zenon DEF RolesOf
  <2>5. /\ n.phase = "apiRecheck" => n.tenant \in loaded'["api"]
        /\ n.phase = "repoCheck" => n.tenant \in loaded'["repo"]
    BY <1>q, <1>2, Zenon
  <2>6. n.phase \in {"handling", "repoCheck"} =>
          \E role \in RolesOf(n.tenant, n.iams)' : Restriction(n) \in APIPolicies[role]
    BY <1>2, <2>2, <2>4, Zenon DEF Restriction
  <2> QED BY <1>2, <2>3, <2>5, <2>6, ZenonT(40) DEF Admitted
<1>6. ASSUME n.role = Business, n.phase = "denied", ~n.disturbed PROVE n.tenant \in Tenants /\ Justified(n)'
  <2>1. Justified(q) /\ q.tenant \in Tenants
    BY <1>q, <1>2, <1>4, <1>6, Zenon DEF Refusable
  <2> QED BY <1>2, <2>1, ZenonT(40) DEF Justified, RolesOf, Restriction, CallsOf
<1>7. ASSUME TasksGranted, n.role # Business, ~n.disturbed PROVE Served(n)'
  <2>1. Served(q)
    BY <1>1, <1>2, <1>7, Zenon DEF RequestOk
  <2>2. phase \in {"handling", "repoCheck"}
    BY <1>q, <1>2, <1>7, <2>1, ZenonT(40) DEF Served, Refusable
  <2> QED BY <1>2, <2>1, <2>2, Zenon DEF Served
<1>8. RequestOk(n)'
  BY <1>5, <1>6, <1>7, Zenon DEF RequestOk, TasksGranted, Undisturbed, InFlight
<1> QED BY <1>1, <1>2, <1>3, <1>8, RequestKept, Zenon

(* A tenant that is loaded, and not behind, has the one role in the cache. *)
LEMMA RoleCached ==
    ASSUME NEW q, Admitted(q), NEW l \in Loaders, q.tenant \in loaded[l], NEW role,
           RolesOf(q.tenant, q.iams) = {role}
    PROVE  \E row \in Cached(l, q.tenant, q.iams) : row[2] = role
<1>1. PICK row \in groups[q.tenant] : row[1] \in q.iams /\ row[2] = role
  BY Zenon DEF RolesOf
<1>2. Cached(l, q.tenant, q.iams) = {x \in groups[q.tenant] : x[1] \in q.iams}
  BY Zenon DEF Admitted, Stale
<1> QED BY <1>1, <1>2, Zenon

(* Without its tenant, nobody is admitted or served. *)
LEMMA UnknownRefusable ==
    ASSUME NEW q, ~isTenantKnown(q.tenant)
    PROVE  Refusable(q)
  BY Zenon DEF Refusable, Admitted, Served, isTenantKnown

(* The second check of the middleware refuses who has no role for the handler. *)
LEMMA RecheckRefusable ==
    ASSUME NEW q, q.phase = "apiRecheck", ~ApiAllowed(q)
    PROVE  Refusable(q)
<1>1. ~Served(q)
  BY Zenon DEF Served
<1>2. ASSUME Admitted(q), NEW role \in BusinessRoles, RolesOf(q.tenant, q.iams) = {role},
             Restriction(q) \in APIPolicies[role]
      PROVE  FALSE
  <2>1. q.tenant \in loaded["api"] /\ "api" \in Loaders /\ q.handler \in DOMAIN API
    BY <1>2, Zenon DEF Admitted, Loaders
  <2>2. \E row \in Cached("api", q.tenant, q.iams) : row[2] = role
    BY <1>2, <2>1, RoleCached, ZenonT(40)
  <2>3. Restriction(q) \in APIResourceTypeActions
    BY <2>1, HandlersFit, Zenon DEF Fits, Restriction
  <2> QED BY <1>2, <2>2, <2>3, Zenon DEF ApiAllowed, IsBusinessUserAllowed
<1> QED BY <1>1, <1>2, Zenon DEF Refusable, Justified

(* The user manager asks for business users what the role of the authorization
   may read. *)
LEMMA UserCallsGranted == \A op \in DOMAIN M!UserCalls : \A c \in M!UserCalls[op] : Pair(c) \in BusinessAuthz
<1>1. <<"group", "list">> \in BusinessAuthz /\ <<"group", "count">> \in BusinessAuthz /\ <<"keyconfig", "count">> \in BusinessAuthz
  BY Zenon DEF BusinessAuthz, On
<1>2. \A t, a : \A c \in M!Must({t}, {a}) : Pair(c) = <<t, a>>
  BY Zenon DEF M!Must, Pair
<1>3. \A c \in M!GetRoleFromIAM : Pair(c) \in BusinessAuthz
  BY <1>1, <1>2, Zenon DEF M!GetRoleFromIAM, M!List
<1>4. \A c \in M!hasKeyConfigAccess : Pair(c) \in BusinessAuthz
  BY <1>1, <1>2, <1>3, Zenon DEF M!hasKeyConfigAccess, M!Count, M!Joined
<1>5. \A c \in M!HasTenantAccess : Pair(c) \in BusinessAuthz
  BY <1>1, <1>2, Zenon DEF M!HasTenantAccess, M!Count
<1> QED BY <1>3, <1>4, <1>5, SMTT(30)
     DEF M!UserCalls, M!NeedsGroupFiltering, M!HasKeyAccess, M!HasKeyConfigAccess, M!HasSystemAccess,
         M!GetBusinessUserInfo

(* The check of the repository refuses a call that must succeed to an auditor
   only, and only a call that writes. *)
LEMMA CallRefusable ==
    ASSUME NEW q, q.phase = "repoCheck", q.call \in CallsOf(q), q.call[1] = "must", ~RepoAllowed(q)
    PROVE  Refusable(q)
<1>1. ASSUME q.role # Business, TasksGranted, Served(q) PROVE FALSE
  <2>1. q.handler \in GrantedTasks /\ q.role = E!TaskHandlers[q.handler].role /\ q.call \in E!TaskHandlers[q.handler].calls
    BY <1>1, Zenon DEF Served, CallsOf
  <2>2. Pair(q.call) \in InternalMay(q.role)
    BY <2>1, TasksFit, Zenon DEF Within
  <2>3. CASE Pair(q.call) \in RepoResourceTypeActions \cap RepoInternalPolicies[q.role]
    <3>1. q.call[2] \in Tables
      BY <2>3, Zenon DEF RepoResourceTypeActions, On, Pair
    <3>2. q.call[2] # "user"
      BY <3>1, Zenon DEF Tables
    <3> QED BY <1>1, <2>3, <3>2, Zenon DEF RepoAllowed, IsInternalUserAllowed
  <2>4. CASE Pair(q.call) \in {pair \in UserOps : q.role \in M!BypassRoles[pair[2]]}
    <3>1. q.call[2] = "user" /\ q.role \in M!BypassRoles[q.call[3]]
      BY <2>4, Zenon DEF UserOps, Pair
    <3> QED BY <1>1, <3>1, Zenon DEF RepoAllowed, UserAllowed
  <2> QED BY <2>2, <2>3, <2>4, Zenon DEF InternalMay
<1>2. ASSUME q.role = Business, Admitted(q), NEW role \in BusinessRoles, RolesOf(q.tenant, q.iams) = {role},
             Restriction(q) \in APIPolicies[role]
      PROVE  role = Auditor /\ \E c \in CallsOf(q) : c[1] = "must" /\ c[2] # "user" /\ c[3] \notin Reads
  <2>1. q.tenant \in loaded["repo"] /\ "repo" \in Loaders /\ q.handler \in DOMAIN API
    BY <1>2, Zenon DEF Admitted, Loaders
  <2>2. q.call \in API[q.handler].calls /\ Fits(API[q.handler])
    BY <1>2, <2>1, HandlersFit, Zenon DEF CallsOf
  <2>3. Pair(q.call) \in KeyAdminMay \/ Pair(q.call) \in TenantAdminMay
    BY <2>2, Zenon DEF Fits, Within
  <2>4. q.call[2] # "user"
    <3> SUFFICES ASSUME q.call[2] = "user" PROVE FALSE
      BY Zenon
    <3>1. Pair(q.call) \notin RepoKeyAdmin /\ Pair(q.call) \notin RepoTenantAdmin
      BY Zenon DEF Pair, RepoKeyAdmin, RepoTenantAdmin, On, Tables
    <3>2. q.call[3] \in DOMAIN M!UserCalls
      BY <2>3, <3>1, Zenon DEF KeyAdminMay, TenantAdminMay, UserOps, Pair
    <3>3. Cardinality(RolesOf(q.tenant, q.iams)) <= 1
      BY <1>2, FS_Singleton
    <3>4. UserAllowed(q, q.call[3])
      BY <1>2, <3>2, <3>3, UserCallsGranted, ZenonT(40) DEF UserAllowed
    <3> QED BY <3>4, Zenon DEF RepoAllowed
  <2>5. Pair(q.call) \notin UserOps
    BY <2>4, Zenon DEF UserOps, Pair
  <2>6. /\ RepoKeyAdmin \subseteq RepoResourceTypeActions /\ RepoTenantAdmin \subseteq RepoResourceTypeActions
    BY ZenonT(40) DEF RepoKeyAdmin, RepoTenantAdmin, RepoResourceTypeActions, On, Tables, repoActionList, Reads
  <2>7. Pair(q.call) \in RepoResourceTypeActions
    BY <2>3, <2>5, <2>6, Zenon DEF KeyAdminMay, TenantAdminMay
  <2>8. Pair(q.call) \notin RepoBusinessPolicies[role]
    <3>1. \E row \in Cached("repo", q.tenant, q.iams) : row[2] = role
      BY <1>2, <2>1, RoleCached, ZenonT(40)
    <3> QED BY <1>2, <2>4, <2>7, <3>1, ZenonT(40) DEF RepoAllowed, IsBusinessUserAllowed
  <2>9. KeyAdmin # Auditor /\ TenantAdmin # Auditor /\ TenantAdmin # KeyAdmin
    BY Zenon DEF KeyAdmin, Auditor, TenantAdmin
  <2>10. role # KeyAdmin
    <3> SUFFICES ASSUME role = KeyAdmin PROVE FALSE
      BY Zenon
    <3>1. APIPolicies[KeyAdmin] = APIKeyAdmin /\ RepoBusinessPolicies[KeyAdmin] = RepoKeyAdmin
      BY <2>9, Zenon DEF APIPolicies, RepoBusinessPolicies, BusinessRoles
    <3> QED BY <1>2, <2>2, <2>5, <2>8, <3>1, Zenon DEF Fits, Restriction, Within, KeyAdminMay
  <2>11. role # TenantAdmin
    <3> SUFFICES ASSUME role = TenantAdmin PROVE FALSE
      BY Zenon
    <3>1. APIPolicies[TenantAdmin] = APITenantAdmin /\ RepoBusinessPolicies[TenantAdmin] = RepoTenantAdmin
      BY <2>9, Zenon DEF APIPolicies, RepoBusinessPolicies, BusinessRoles
    <3> QED BY <1>2, <2>2, <2>5, <2>8, <3>1, ZenonT(40) DEF Fits, Restriction, Within, TenantAdminMay
  <2>12. role = Auditor
    BY <2>10, <2>11, Zenon DEF BusinessRoles
  <2>13. Pair(q.call) \notin RepoAuditor
    BY <2>8, <2>9, <2>12, Zenon DEF RepoBusinessPolicies, BusinessRoles
  <2>14. q.call[3] \notin Reads
    BY <2>7, <2>13, Zenon DEF RepoAuditor, RepoResourceTypeActions, On, Pair
  <2> QED BY <2>4, <2>12, <2>14, Zenon
<1> QED BY <1>1, <1>2, Zenon DEF Refusable, Justified

(* A request arrives: unless it is disturbed, its token has one role. *)
LEMMA ArriveInv ==
    ASSUME AccessInv, AccessAssumption, NEW r \in Requests, Arrive(r)
    PROVE  AccessInv'
<1>1. PICK t \in Tenants, iams \in Tokens, h \in Handlers :
        /\ req' = [req EXCEPT ![r] =
             [phase |-> IF validateGroupRoles(t, iams) THEN "apiCheck" ELSE "denied",
              tenant |-> t, iams |-> iams, handler |-> h, role |-> Business,
              call |-> NoCall,
              disturbed |-> \/ \E l \in Loaders : Stale(l, t, iams)
                            \/ Cardinality(groups[t]) > DefaultLimit
                            \/ t \notin tenants]]
        /\ IF Cardinality(iams) > 1 /\ isTenantKnown(t)
             THEN loadTenantAllowedActions("repo", t)
             ELSE UNCHANGED <<loaded, keys>>
  BY Zenon DEF Arrive
<1>2. Loads /\ UNCHANGED <<tenants, groups, since, changes>>
  BY <1>1, Zenon DEF Arrive, Loads, isTenantKnown, Loaders
<1>d. PICK d : d = (\/ \E l \in Loaders : Stale(l, t, iams)
                    \/ Cardinality(groups[t]) > DefaultLimit
                    \/ t \notin tenants)
  BY Zenon
<1>p. PICK p : p = IF validateGroupRoles(t, iams) THEN "apiCheck" ELSE "denied"
  BY Zenon
<1>n. PICK n : n = [phase |-> p, tenant |-> t, iams |-> iams, handler |-> h, role |-> Business,
                    call |-> NoCall, disturbed |-> d]
  BY Zenon
<1>3. req' = [req EXCEPT ![r] = n]
  BY <1>1, <1>d, <1>p, <1>n, Zenon
<1>4. /\ IsRequest(n) /\ n.phase = p /\ n.tenant = t /\ n.iams = iams /\ n.handler = h /\ n.role = Business
      /\ n.disturbed = d
  BY <1>n, Zenon DEF IsRequest
<1>5. p \in {"apiCheck", "denied"} /\ p \in Phases /\ p \notin {"repoCheck", "handling"} /\ d \in BOOLEAN
  BY <1>p, <1>d, Zenon DEF Phases
<1>6. ASSUME Undisturbed(n) PROVE Admitted(n)'
  <2>1. ~d /\ validateGroupRoles(t, iams)
    BY <1>4, <1>5, <1>6, <1>p, Zenon DEF Undisturbed, InFlight
  <2>2. t \in tenants /\ ~(Cardinality(groups[t]) > DefaultLimit) /\ \A l \in Loaders : ~Stale(l, t, iams)
    BY <1>d, <2>1, Zenon
  <2>3. IsFiniteSet(groups[t]) /\ groups[t] \subseteq Rows /\ iams \subseteq Iams /\ IsFiniteSet(iams)
    BY Zenon DEF AccessInv, GroupsInv, TypeOK, AccessAssumption
  <2>4. Cardinality(groups[t]) <= DefaultLimit
    BY <2>2, <2>3, FS_CardinalityType, SMTT(30) DEF AccessAssumption
  <2>5. \A x, y \in RolesOf(t, iams) : x = y
    <3>1. CASE Cardinality(iams) > 1
      <4>1. Cardinality(RolesOf(t, iams)) <= 1
        BY <2>1, <3>1, Zenon DEF validateGroupRoles
      <4>2. RolesOf(t, iams) \subseteq BusinessRoles
        BY <2>3, Zenon DEF RolesOf, Rows
      <4>3. IsFiniteSet(RolesOf(t, iams))
        <5>1. IsFiniteSet({}) /\ BusinessRoles = (({} \cup {KeyAdmin}) \cup {Auditor}) \cup {TenantAdmin}
          BY FS_EmptySet, Zenon DEF BusinessRoles
        <5>2. IsFiniteSet({} \cup {KeyAdmin})
          BY <5>1, FS_AddElement, Zenon
        <5>3. IsFiniteSet(({} \cup {KeyAdmin}) \cup {Auditor})
          BY <5>2, FS_AddElement, Zenon
        <5>4. IsFiniteSet(BusinessRoles)
          BY <5>1, <5>3, FS_AddElement, Zenon
        <5> QED BY <4>2, <5>4, FS_Subset, Zenon
      <4> QED BY <4>1, <4>3, AtMostOne, Zenon
    <3>2. CASE ~(Cardinality(iams) > 1)
      <4>1. Cardinality(iams) <= 1
        BY <2>3, <3>2, FS_CardinalityType, SMTT(30)
      <4>2. \A x, y \in iams : x = y
        BY <2>3, <4>1, AtMostOne, Zenon
      <4>3. \A x, y \in groups[t] : x[1] = y[1] => x = y
        BY Zenon DEF AccessInv, TypeOK
      <4> QED BY <4>2, <4>3, Zenon DEF RolesOf
    <3> QED BY <3>1, <3>2, Zenon
  <2>6. n.handler \in DOMAIN API /\ n.phase \notin {"apiRecheck", "repoCheck", "handling"}
    BY <1>4, <1>5, Zenon DEF AccessAssumption
  <2>7. Admitted(n)
    BY <1>4, <2>2, <2>4, <2>5, <2>6, Zenon DEF Admitted
  <2> QED BY <1>2, <2>7, StaysAdmitted, Zenon
<1>7. ASSUME p = "denied", ~d PROVE Justified(n)'
  <2> SUFFICES ASSUME NEW role \in BusinessRoles, RolesOf(t, iams)' = {role} PROVE FALSE
    BY <1>4, Zenon DEF Justified
  <2>1. RolesOf(t, iams) = {role} /\ isTenantKnown(t) /\ ~validateGroupRoles(t, iams)
    BY <1>2, <1>d, <1>p, <1>7, ZenonT(40) DEF RolesOf, isTenantKnown
  <2>2. Cardinality(RolesOf(t, iams)) <= 1
    BY <2>1, FS_Singleton, SMTT(30)
  <2>3. iams # {}
    BY <2>1, Zenon DEF RolesOf
  <2> QED BY <2>1, <2>2, <2>3, Zenon DEF validateGroupRoles
<1>8. RequestOk(n)'
  <2>1. Undisturbed(n) => Admitted(n)'
    BY <1>6, Zenon
  <2>2. n.role = Business /\ n.phase = "denied" /\ ~n.disturbed => n.tenant \in Tenants /\ Justified(n)'
    BY <1>4, <1>7, Zenon
  <2> QED BY <1>4, <2>1, <2>2, Zenon DEF RequestOk, Undisturbed, InFlight
<1> QED BY <1>2, <1>3, <1>4, <1>5, <1>8, RequestKept, ZenonT(40)

(* A request in its next phase. *)
LEMMA BecomeInv ==
    ASSUME AccessInv, UNCHANGED <<tenants, groups, since, changes>>, Loads, NEW r \in Requests,
           NEW phase \in Phases \ {"idle", "repoCheck"}, Become(r, phase), InFlight(req[r]),
           phase = "handling" => req[r].phase \in {"handling", "repoCheck"} \/ ApiAllowed(req[r]),
           phase \in {"handling", "denied"} \/ req[r].phase \notin {"handling", "repoCheck"},
           phase = "apiRecheck" => req[r].tenant \in loaded'["api"],
           phase = "denied" => Refusable(req[r])
    PROVE  AccessInv'
<1>1. PICK n : n = [req[r] EXCEPT !.phase = phase]
  BY Zenon
<1>2. req' = [req EXCEPT ![r] = n] /\ Moves(req[r], n, NoCall, phase)
  BY <1>1, Zenon DEF Become, Moves
<1> QED BY <1>2, PhaseKept, Zenon

(* The middleware lets a request through, has its tenant loaded or denies it. *)
LEMMA MiddlewareInv ==
    ASSUME AccessInv, NEW r \in Requests,
           AuthzMiddlewareCheck(r) \/ AuthzMiddlewareLoad(r) \/ AuthzMiddlewareRecheck(r)
    PROVE  AccessInv'
<1>1. CASE AuthzMiddlewareCheck(r)
  <2>1. /\ req[r].phase = "apiCheck" /\ InFlight(req[r]) /\ Loads
        /\ UNCHANGED <<tenants, groups, since, changes>>
    BY <1>1, Zenon DEF AuthzMiddlewareCheck, InFlight, Loads
  <2>2. CASE ApiAllowed(req[r])
    <3>1. Become(r, "handling")
      BY <1>1, <2>2, Zenon DEF AuthzMiddlewareCheck
    <3> QED BY <2>1, <2>2, <3>1, BecomeInv, Zenon DEF Phases
  <2>3. CASE ~ApiAllowed(req[r])
    <3>1. Become(r, "apiLoad")
      BY <1>1, <2>3, Zenon DEF AuthzMiddlewareCheck
    <3> QED BY <2>1, <3>1, BecomeInv, Zenon DEF Phases
  <2> QED BY <2>2, <2>3, Zenon
<1>2. CASE AuthzMiddlewareLoad(r)
  <2>1. /\ req[r].phase = "apiLoad" /\ InFlight(req[r]) /\ Loads
        /\ UNCHANGED <<tenants, groups, since, changes>>
    BY <1>2, Zenon DEF AuthzMiddlewareLoad, InFlight, Loads, isTenantKnown, Loaders
  <2>2. CASE isTenantKnown(req[r].tenant)
    <3>1. Become(r, "apiRecheck") /\ loadTenantAllowedActions("api", req[r].tenant)
      BY <1>2, <2>2, Zenon DEF AuthzMiddlewareLoad
    <3>2. req[r].tenant \in loaded'["api"]
      BY <2>2, <3>1, LoadedNow, Zenon DEF isTenantKnown, Loaders, AccessInv
    <3> QED BY <2>1, <3>1, <3>2, BecomeInv, Zenon DEF Phases
  <2>3. CASE ~isTenantKnown(req[r].tenant)
    <3>1. Become(r, "denied") /\ Refusable(req[r])
      BY <1>2, <2>3, UnknownRefusable, ZenonT(40) DEF AuthzMiddlewareLoad
    <3> QED BY <2>1, <3>1, BecomeInv, Zenon DEF Phases
  <2> QED BY <2>2, <2>3, Zenon
<1>3. CASE AuthzMiddlewareRecheck(r)
  <2>1. /\ req[r].phase = "apiRecheck" /\ InFlight(req[r]) /\ Loads
        /\ UNCHANGED <<tenants, groups, since, changes>>
    BY <1>3, Zenon DEF AuthzMiddlewareRecheck, InFlight, Loads
  <2>2. CASE ApiAllowed(req[r])
    <3>1. Become(r, "handling")
      BY <1>3, <2>2, Zenon DEF AuthzMiddlewareRecheck
    <3> QED BY <2>1, <2>2, <3>1, BecomeInv, Zenon DEF Phases
  <2>3. CASE ~ApiAllowed(req[r])
    <3>1. Become(r, "denied") /\ Refusable(req[r])
      BY <1>3, <2>1, <2>3, RecheckRefusable, ZenonT(40) DEF AuthzMiddlewareRecheck
    <3> QED BY <2>1, <3>1, BecomeInv, Zenon DEF Phases
  <2> QED BY <2>2, <2>3, Zenon
<1> QED BY <1>1, <1>2, <1>3, Zenon

(* A task starts, under an internal role. *)
LEMMA ProcessTaskInv ==
    ASSUME AccessInv, AccessAssumption, NEW r \in Requests, ProcessTask(r)
    PROVE  AccessInv'
<1>1. PICK t \in tenants, task \in Tasks :
        req' = [req EXCEPT ![r] =
            [phase |-> "handling", tenant |-> t, iams |-> {}, handler |-> task,
             role |-> IF FanOut THEN "TaskProcessing" ELSE E!TaskHandlers[task].role,
             call |-> NoCall, disturbed |-> FALSE]]
  BY Zenon DEF ProcessTask
<1>2. PICK role : role = IF FanOut THEN "TaskProcessing" ELSE E!TaskHandlers[task].role
  BY Zenon
<1>3. role # Business
  <2>1. task \in DOMAIN E!TaskHandlers
    BY Zenon DEF AccessAssumption
  <2>2. "TaskProcessing" # Business
    BY Zenon DEF Business
  <2> QED BY <1>2, <2>1, <2>2, TaskRole, Zenon
<1>4. PICK n : n = [phase |-> "handling", tenant |-> t, iams |-> {}, handler |-> task, role |-> role,
                    call |-> NoCall, disturbed |-> FALSE]
  BY Zenon
<1>5. req' = [req EXCEPT ![r] = n]
  BY <1>1, <1>2, <1>4, Zenon
<1>6. /\ IsRequest(n) /\ n.phase = "handling" /\ n.role = role /\ n.disturbed = FALSE
      /\ n.tenant = t /\ n.handler = task
  BY <1>4, Zenon DEF IsRequest
<1>7. RequestOk(n)'
  <2>1. ASSUME TasksGranted PROVE Served(n)'
    BY <1>2, <1>6, <2>1, Zenon DEF Served, TasksGranted, ProcessTask
  <2> QED BY <1>3, <1>6, <2>1, Zenon DEF RequestOk, Undisturbed, TasksGranted
<1>8. Loads /\ UNCHANGED <<tenants, groups, since, changes>>
  BY Zenon DEF ProcessTask, Loads
<1> QED BY <1>5, <1>6, <1>7, <1>8, RequestKept, Zenon DEF Phases

(* A repository call loads the tenant, is checked, and the handler answers. *)
LEMMA RepositoryInv ==
    ASSUME AccessInv, NEW r \in Requests, checkAuthZLoad(r) \/ checkAuthZ(r) \/ Respond(r)
    PROVE  AccessInv'
<1>1. CASE checkAuthZLoad(r)
  <2>1. req[r].phase = "handling" /\ InFlight(req[r]) /\ UNCHANGED <<tenants, groups, since, changes>>
    BY <1>1, Zenon DEF checkAuthZLoad, InFlight
  <2>2. PICK c \in CallsOf(req[r]) :
          IF isTenantKnown(req[r].tenant)
            THEN /\ req' = [req EXCEPT ![r] = [[req[r] EXCEPT !.call = c] EXCEPT !.phase = "repoCheck"]]
                 /\ loadTenantAllowedActions("repo", req[r].tenant)
            ELSE /\ Become(r, Refused([req[r] EXCEPT !.call = c]))
                 /\ UNCHANGED <<loaded, keys>>
    BY <1>1, Zenon DEF checkAuthZLoad
  <2>3. Loads
    BY <2>2, Zenon DEF Loads, isTenantKnown, Loaders
  <2>4. CASE isTenantKnown(req[r].tenant)
    <3>1. PICK n : n = [[req[r] EXCEPT !.call = c] EXCEPT !.phase = "repoCheck"]
      BY Zenon
    <3>2. req' = [req EXCEPT ![r] = n]
      BY <2>2, <2>4, <3>1, Zenon
    <3>3. n = [req[r] EXCEPT !.call = c, !.phase = "repoCheck"]
      BY <3>1, Zenon
    <3>4. Moves(req[r], n, c, "repoCheck") /\ Calls(req[r], n, c, "repoCheck")
      BY <3>3, Zenon DEF Moves, Calls
    <3>5. req[r].tenant \in loaded'["repo"]
      BY <2>2, <2>4, LoadedNow, Zenon DEF isTenantKnown, Loaders, AccessInv
    <3> QED BY <2>1, <2>3, <3>2, <3>4, <3>5, PhaseKept, ZenonT(40) DEF Phases
  <2>5. CASE ~isTenantKnown(req[r].tenant)
    <3>1. PICK phase \in {"denied", "handling"} : Become(r, phase)
      BY <2>2, <2>5, Zenon DEF Refused
    <3>2. Refusable(req[r])
      BY <2>5, UnknownRefusable, Zenon
    <3> QED BY <2>1, <2>3, <3>1, <3>2, BecomeInv, Zenon DEF Phases
  <2> QED BY <2>4, <2>5, Zenon
<1>2. CASE checkAuthZ(r)
  <2>1. /\ req[r].phase = "repoCheck" /\ InFlight(req[r]) /\ Loads
        /\ UNCHANGED <<tenants, groups, since, changes>>
    BY <1>2, Zenon DEF checkAuthZ, InFlight, Loads
  <2>2. PICK phase \in {"denied", "handling"} : phase = IF RepoAllowed(req[r]) THEN "handling" ELSE Refused(req[r])
    BY Zenon DEF Refused
  <2>3. PICK n : n = [req[r] EXCEPT !.call = NoCall, !.phase = phase]
    BY Zenon
  <2>4. req' = [req EXCEPT ![r] = n]
    BY <1>2, <2>2, <2>3, Zenon DEF checkAuthZ, AccessInv, TypeOK
  <2>5. Moves(req[r], n, NoCall, phase)
    BY <2>3, Zenon DEF Moves, Calls
  <2>6. phase = "denied" => Refusable(req[r])
    <3> SUFFICES ASSUME phase = "denied" PROVE Refusable(req[r])
      BY Zenon
    <3>1. ~RepoAllowed(req[r]) /\ req[r].call[1] = "must"
      BY <2>2, Zenon DEF Refused
    <3>2. req[r].call \in CallsOf(req[r])
      BY <2>1, Zenon DEF AccessInv, TypeOK
    <3> QED BY <2>1, <3>1, <3>2, CallRefusable, Zenon
  <2> QED BY <2>1, <2>4, <2>5, <2>6, PhaseKept, ZenonT(40) DEF Phases
<1>3. CASE Respond(r)
  <2>1. req' = [req EXCEPT ![r] = Idle] /\ Loads /\ UNCHANGED <<tenants, groups, since, changes>>
    BY <1>3, Zenon DEF Respond, Loads
  <2>2. IsRequest(Idle) /\ Idle.phase = "idle" /\ Idle.disturbed = FALSE /\ Idle.role = Business
    BY Zenon DEF Idle, IsRequest
  <2>3. RequestOk(Idle)'
    BY <2>2, Zenon DEF RequestOk, Undisturbed, InFlight
  <2> QED BY <2>1, <2>2, <2>3, RequestKept, Zenon DEF Phases
<1> QED BY <1>1, <1>2, <1>3, Zenon

(* All requests are marked at once. *)
LEMMA AllMarked ==
    ASSUME TypeOK, NEW d \in [Requests -> BOOLEAN],
           req' = [r \in Requests |-> [req[r] EXCEPT !.disturbed = d[r]]]
    PROVE  /\ req' = [r \in Requests |-> req'[r]]
           /\ \A r \in Requests : /\ IsRequest(req'[r]) /\ req'[r].phase \in Phases /\ req'[r].disturbed \in BOOLEAN
                                  /\ req'[r].phase = "repoCheck" => req'[r].call \in CallsOf(req'[r])
           /\ \A r \in Requests : /\ req'[r].phase = req[r].phase /\ req'[r].tenant = req[r].tenant
                                  /\ req'[r].iams = req[r].iams /\ req'[r].handler = req[r].handler
                                  /\ req'[r].role = req[r].role /\ req'[r].disturbed = d[r]
<1>1. req' = [r \in Requests |-> req'[r]]
  BY Zenon
<1>2. ASSUME NEW r \in Requests
      PROVE  /\ IsRequest(req'[r]) /\ req'[r].phase = req[r].phase /\ req'[r].tenant = req[r].tenant
             /\ req'[r].iams = req[r].iams /\ req'[r].handler = req[r].handler
             /\ req'[r].role = req[r].role /\ req'[r].call = req[r].call /\ req'[r].disturbed = d[r]
  <2>1. PICK q : q = req[r]
    BY Zenon
  <2>2. PICK n : n = req'[r]
    BY Zenon
  <2>3. IsRequest(q)
    BY <2>1, Zenon DEF TypeOK
  <2>4. n = [q EXCEPT !.disturbed = d[r]]
    BY <2>1, <2>2, Zenon
  <2>5. /\ IsRequest(n) /\ n.phase = q.phase /\ n.tenant = q.tenant /\ n.iams = q.iams
        /\ n.handler = q.handler /\ n.role = q.role /\ n.call = q.call /\ n.disturbed = d[r]
    BY <2>3, <2>4, Zenon DEF IsRequest
  <2> QED BY <2>1, <2>2, <2>5, Zenon
<1>3. ASSUME NEW r \in Requests
      PROVE  /\ req'[r].phase \in Phases /\ req'[r].disturbed \in BOOLEAN
             /\ req'[r].phase = "repoCheck" => req'[r].call \in CallsOf(req'[r])
  <2>1. req[r].phase \in Phases /\ (req[r].phase = "repoCheck" => req[r].call \in CallsOf(req[r]))
    BY Zenon DEF TypeOK
  <2>2. /\ req'[r].phase = req[r].phase /\ req'[r].handler = req[r].handler /\ req'[r].role = req[r].role
        /\ req'[r].call = req[r].call /\ req'[r].disturbed \in BOOLEAN
    BY <1>2
  <2> QED BY <2>1, <2>2, Zenon DEF CallsOf
<1> QED BY <1>1, <1>2, <1>3, Zenon

(* What is known of a request survives a mark, when its groups and its tenant
   are as they were unless it is marked as disturbed. *)
LEMMA MarkedOk ==
    ASSUME NEW q, NEW n, RequestOk(q),
           n.phase = q.phase, n.tenant = q.tenant, n.iams = q.iams, n.handler = q.handler, n.role = q.role,
           ~n.disturbed => ~q.disturbed,
           ~n.disturbed /\ Undisturbed(q) /\ Admitted(q) => Admitted(q)',
           ~n.disturbed /\ q.tenant \in Tenants => RolesOf(q.tenant, q.iams)' = RolesOf(q.tenant, q.iams),
           ~n.disturbed /\ q.tenant \in tenants => q.tenant \in tenants'
    PROVE  RequestOk(n)'
<1>1. ASSUME Undisturbed(n) PROVE Admitted(n)'
  <2>1. Undisturbed(q) /\ ~n.disturbed
    BY <1>1, Zenon DEF Undisturbed, InFlight
  <2>2. Admitted(q)'
    BY <2>1, Zenon DEF RequestOk
  <2> QED BY <2>2, Zenon DEF Admitted, Restriction
<1>2. ASSUME n.role = Business, n.phase = "denied", ~n.disturbed PROVE n.tenant \in Tenants /\ Justified(n)'
  <2>1. q.tenant \in Tenants /\ Justified(q)
    BY <1>2, Zenon DEF RequestOk
  <2>2. RolesOf(n.tenant, n.iams)' = RolesOf(q.tenant, q.iams)
    BY <1>2, <2>1, Zenon DEF RolesOf
  <2> QED BY <2>1, <2>2, Zenon DEF Justified, Restriction, CallsOf
<1>3. ASSUME TasksGranted, n.role # Business, ~n.disturbed PROVE Served(n)'
  BY <1>3, Zenon DEF RequestOk, Served
<1> QED BY <1>1, <1>2, <1>3, Zenon DEF RequestOk, Undisturbed, InFlight, TasksGranted

(* A cache is emptied: what it grants from now on existed, and what is not
   loaded is not behind. *)
LEMMA RefreshInv ==
    ASSUME AccessInv, NEW l \in Loaders, StartAuthzDataRefresh(l)
    PROVE  AccessInv'
<1>1. TypeOK /\ GroupsInv /\ CachesInv /\ RequestsInv
  BY Zenon DEF AccessInv
<1>2. /\ loaded' = [loaded EXCEPT ![l] = {}] /\ keys' = [keys EXCEPT ![l] = {}]
      /\ since' = [since EXCEPT ![l] = Triples]
      /\ UNCHANGED <<tenants, groups, changes>>
  BY Zenon DEF StartAuthzDataRefresh, ReloadTenantAllowedActions
<1>d. PICK d : d = [r \in Requests |->
                      req[r].disturbed \/ req[r].phase = IF l = "api" THEN "apiRecheck" ELSE "repoCheck"]
  BY Zenon
<1>e. /\ d \in [Requests -> BOOLEAN] /\ \A r \in Requests : req[r].disturbed => d[r]
      /\ req' = [r \in Requests |-> [req[r] EXCEPT !.disturbed = d[r]]]
  BY <1>d, Zenon DEF StartAuthzDataRefresh
<1>3. /\ req' = [r \in Requests |-> req'[r]]
      /\ \A r \in Requests : /\ IsRequest(req'[r]) /\ req'[r].phase \in Phases /\ req'[r].disturbed \in BOOLEAN
                             /\ req'[r].phase = "repoCheck" => req'[r].call \in CallsOf(req'[r])
      /\ \A r \in Requests : /\ req'[r].phase = req[r].phase /\ req'[r].tenant = req[r].tenant
                             /\ req'[r].iams = req[r].iams /\ req'[r].handler = req[r].handler
                             /\ req'[r].role = req[r].role /\ req'[r].disturbed = d[r]
  BY <1>1, <1>e, AllMarked, Zenon
<1>4. TypeOK'
  <2>1. loaded' \in [Loaders -> SUBSET Tenants] /\ keys' \in [Loaders -> SUBSET (Tenants \X Iams \X BusinessRoles)]
    BY <1>1, <1>2, Zenon DEF TypeOK
  <2>2. \A t \in Tenants : \A x, y \in groups'[t] : x[1] = y[1] => x = y
    BY <1>1, <1>2, Zenon DEF TypeOK
  <2>3. tenants' \subseteq Tenants /\ groups' \in [Tenants -> SUBSET Rows] /\ changes' \in 0..MaxChanges
    BY <1>1, <1>2, Zenon DEF TypeOK
  <2> QED BY <1>3, <2>1, <2>2, <2>3, Zenon DEF TypeOK, IsRequest, CallsOf
<1>5. GroupsInv'
  <2>1. Triples' = Triples
    BY <1>2, Zenon DEF Triples, AllRows
  <2> QED BY <1>1, <1>2, <2>1, Zenon DEF GroupsInv
<1>6. CachesInv'
  BY <1>1, <1>2, Zenon DEF CachesInv, TypeOK, GroupsInv
<1>7. RequestsInv'
  <2> SUFFICES ASSUME NEW r \in Requests PROVE RequestOk(req[r])'
    BY Zenon DEF RequestsInv
  <2>1. PICK q : q = req[r]
    BY Zenon
  <2>2. PICK n : n = req'[r]
    BY Zenon
  <2>3. RequestOk(q)
    BY <1>1, <2>1, Zenon DEF RequestsInv
  <2>4. /\ n.phase = q.phase /\ n.tenant = q.tenant /\ n.iams = q.iams /\ n.handler = q.handler /\ n.role = q.role
        /\ ~n.disturbed => ~q.disturbed /\ ~d[r]
    <3>1. /\ n.phase = q.phase /\ n.tenant = q.tenant /\ n.iams = q.iams /\ n.handler = q.handler /\ n.role = q.role
          /\ n.disturbed = d[r]
      BY <1>3, <2>1, <2>2, Zenon
    <3>2. ~d[r] => ~q.disturbed
      BY <1>e, <2>1, Zenon
    <3> QED BY <3>1, <3>2, Zenon
  <2>5. ASSUME ~d[r], Admitted(q) PROVE Admitted(q)'
    <3>1. \A m \in Loaders : ~Stale(m, q.tenant, q.iams)'
      <4> TAKE m \in Loaders
      <4>1. CASE m = l
        BY <1>1, <1>2, <4>1, Zenon DEF Stale, TypeOK
      <4>2. CASE m # l
        <5>1. loaded'[m] = loaded[m] /\ keys'[m] = keys[m]
          BY <1>1, <1>2, <4>2, Zenon DEF TypeOK
        <5> QED BY <1>2, <2>5, <5>1, Zenon DEF Admitted, Stale, Cached
      <4> QED BY <4>1, <4>2, Zenon
    <3>2. /\ q.phase = "apiRecheck" => l # "api"
          /\ q.phase = "repoCheck" => l # "repo"
      BY <1>d, <2>1, <2>5, ZenonT(40) DEF Loaders
    <3>3. /\ q.phase = "apiRecheck" => q.tenant \in loaded'["api"]
          /\ q.phase = "repoCheck" => q.tenant \in loaded'["repo"]
      BY <1>1, <1>2, <2>5, <3>2, Zenon DEF Admitted, TypeOK, Loaders
    <3> QED BY <1>2, <2>5, <3>1, <3>3, ZenonT(40) DEF Admitted, RolesOf
  <2>6. RequestOk(n)'
    BY <1>2, <2>3, <2>4, <2>5, MarkedOk, ZenonT(40) DEF RolesOf
  <2> QED BY <2>2, <2>6, Zenon DEF RequestOk, Undisturbed, InFlight, Admitted, Justified, Served,
       Restriction, CallsOf
<1> QED BY <1>4, <1>5, <1>6, <1>7, Zenon DEF AccessInv

(* The groups of a tenant change: a request whose groups do not is as admitted
   as before. *)
LEMMA ChangeInv ==
    ASSUME AccessInv, AccessAssumption, NEW t \in Tenants, NEW iams, NEW rows \in SUBSET Rows, IsFiniteSet(rows),
           \A x, y \in rows : x[1] = y[1] => x = y, Change(t, iams, rows),
           tenants' \subseteq Tenants, tenants' \ {t} = tenants \ {t},
           tenants' = tenants => \A row \in Rows : row[1] \notin iams => (row \in rows <=> row \in groups[t])
    PROVE  AccessInv'
<1>1. TypeOK /\ GroupsInv /\ CachesInv /\ RequestsInv
  BY Zenon DEF AccessInv
<1>2. /\ groups' = [groups EXCEPT ![t] = rows]
      /\ since' = [l \in Loaders |-> since[l] \cup AddUser(t, rows)]
      /\ UNCHANGED <<loaded, keys>> /\ changes < MaxChanges /\ changes' = changes + 1
  BY Zenon DEF Change
<1>d. PICK d : d = [r \in Requests |->
                      \/ req[r].disturbed
                      \/ req[r].tenant = t
                           /\ (tenants' # tenants \/ req[r].iams \cap iams # {} \/ Cardinality(rows) > DefaultLimit)]
  BY Zenon
<1>e. /\ d \in [Requests -> BOOLEAN]
      /\ \A r \in Requests : ~d[r] => ~req[r].disturbed
      /\ \A r \in Requests : ~d[r] /\ req[r].tenant = t =>
           tenants' = tenants /\ req[r].iams \cap iams = {} /\ ~(Cardinality(rows) > DefaultLimit)
      /\ req' = [r \in Requests |-> [req[r] EXCEPT !.disturbed = d[r]]]
  <2>1. d \in [Requests -> BOOLEAN]
    BY <1>d, Zenon
  <2>2. req' = [r \in Requests |-> [req[r] EXCEPT !.disturbed = d[r]]]
    BY <1>d, Zenon DEF Change
  <2>3. ASSUME NEW r \in Requests, ~d[r]
        PROVE  ~req[r].disturbed /\ (req[r].tenant = t =>
                 tenants' = tenants /\ req[r].iams \cap iams = {} /\ ~(Cardinality(rows) > DefaultLimit))
    BY <1>d, <2>3, ZenonT(40)
  <2> QED BY <2>1, <2>2, <2>3, ZenonT(40)
<1>3. /\ req' = [r \in Requests |-> req'[r]]
      /\ \A r \in Requests : /\ IsRequest(req'[r]) /\ req'[r].phase \in Phases /\ req'[r].disturbed \in BOOLEAN
                             /\ req'[r].phase = "repoCheck" => req'[r].call \in CallsOf(req'[r])
      /\ \A r \in Requests : /\ req'[r].phase = req[r].phase /\ req'[r].tenant = req[r].tenant
                             /\ req'[r].iams = req[r].iams /\ req'[r].handler = req[r].handler
                             /\ req'[r].role = req[r].role /\ req'[r].disturbed = d[r]
  BY <1>1, <1>e, AllMarked, ZenonT(40)
<1>4. groups' \in [Tenants -> SUBSET Rows] /\ groups'[t] = rows /\ \A u \in Tenants \ {t} : groups'[u] = groups[u]
  BY <1>1, <1>2, ZenonT(40) DEF TypeOK
<1>5. TypeOK'
  <2>1. \A u \in Tenants : \A x, y \in groups'[u] : x[1] = y[1] => x = y
    BY <1>1, <1>4, ZenonT(40) DEF TypeOK
  <2>2. loaded' \in [Loaders -> SUBSET Tenants] /\ keys' \in [Loaders -> SUBSET (Tenants \X Iams \X BusinessRoles)]
    BY <1>1, <1>2, ZenonT(40) DEF TypeOK
  <2>3. changes' \in 0..MaxChanges
    BY <1>1, <1>2 DEF TypeOK, AccessAssumption
  <2> QED BY <1>3, <1>4, <2>1, <2>2, <2>3, ZenonT(40) DEF TypeOK, IsRequest, CallsOf
<1>6. GroupsInv'
  <2>1. \A u \in Tenants : IsFiniteSet(groups'[u])
    BY <1>1, <1>4, Zenon DEF GroupsInv
  <2>2. ASSUME NEW l \in Loaders, NEW u \in Tenants, NEW row \in groups'[u]
        PROVE  <<u, row[1], row[2]>> \in since'[l]
    <3>1. CASE u = t
      <4>1. <<u, row[1], row[2]>> \in AddUser(t, rows)
        BY <1>4, <2>2, <3>1, Zenon DEF AddUser
      <4> QED BY <1>2, <4>1, Zenon
    <3>2. CASE u # t
      <4>1. <<u, row>> \in AllRows
        BY <1>4, <2>2, <3>2, SMTT(30) DEF AllRows
      <4>2. <<u, row[1], row[2]>> \in Triples
        BY <4>1 DEF Triples
      <4> QED BY <1>1, <1>2, <4>2, ZenonT(40) DEF GroupsInv
    <3> QED BY <3>1, <3>2, Zenon
  <2>3. ASSUME NEW l \in Loaders, NEW k \in Triples' PROVE k \in since'[l]
    <3>1. PICK p \in AllRows' : k = <<p[1], p[2][1], p[2][2]>>
      BY <2>3, ZenonT(40) DEF Triples
    <3>2. PICK u \in Tenants : p \in {u} \X groups'[u]
      BY <3>1 DEF AllRows
    <3>3. p[1] = u /\ p[2] \in groups'[u]
      BY <3>2, Zenon
    <3> QED BY <2>2, <3>1, <3>3, ZenonT(40)
  <2>4. since' = [l \in Loaders |-> since'[l]]
    BY <1>2, Zenon
  <2> QED BY <2>1, <2>3, <2>4, Zenon DEF GroupsInv
<1>7. CachesInv'
  BY <1>1, <1>2, Zenon DEF CachesInv
<1>8. RequestsInv'
  <2> SUFFICES ASSUME NEW r \in Requests PROVE RequestOk(req[r])'
    BY Zenon DEF RequestsInv
  <2>1. PICK q : q = req[r]
    BY Zenon
  <2>2. PICK n : n = req'[r]
    BY Zenon
  <2>3. RequestOk(q)
    BY <1>1, <2>1, ZenonT(40) DEF RequestsInv
  <2>4. /\ n.phase = q.phase /\ n.tenant = q.tenant /\ n.iams = q.iams /\ n.handler = q.handler /\ n.role = q.role
        /\ ~n.disturbed => ~q.disturbed /\ ~d[r]
    <3>1. /\ n.phase = q.phase /\ n.tenant = q.tenant /\ n.iams = q.iams /\ n.handler = q.handler /\ n.role = q.role
          /\ n.disturbed = d[r]
      BY <1>3, <2>1, <2>2, Zenon
    <3>2. ~d[r] => ~q.disturbed
      BY <1>e, <2>1, Zenon
    <3> QED BY <3>1, <3>2, Zenon
  <2>5. ASSUME ~d[r], q.tenant = t
        PROVE  tenants' = tenants /\ q.iams \cap iams = {} /\ ~(Cardinality(rows) > DefaultLimit)
    BY <1>e, <2>1, <2>5, Zenon
  <2>6. ASSUME ~d[r], q.tenant \in Tenants
        PROVE  {row \in groups'[q.tenant] : row[1] \in q.iams} = {row \in groups[q.tenant] : row[1] \in q.iams}
    <3>1. CASE q.tenant # t
      BY <1>4, <2>6, <3>1, Zenon
    <3>2. CASE q.tenant = t
      <4>1. \A row \in Rows : row[1] \notin iams => (row \in rows <=> row \in groups[t])
        BY <2>5, <2>6, <3>2, Zenon
      <4>2. groups[t] \subseteq Rows /\ \A x \in q.iams : x \notin iams
        BY <1>1, <2>5, <2>6, <3>2, ZenonT(40) DEF TypeOK
      <4>3. {row \in rows : row[1] \in q.iams} = {row \in groups[t] : row[1] \in q.iams}
        BY <4>1, <4>2, Zenon
      <4> QED BY <1>4, <3>2, <4>3, Zenon
    <3> QED BY <3>1, <3>2, Zenon
  <2>7. ASSUME ~d[r], q.tenant \in Tenants PROVE RolesOf(q.tenant, q.iams)' = RolesOf(q.tenant, q.iams)
    BY <2>6, <2>7, Zenon DEF RolesOf
  <2>8. ASSUME ~d[r], q.tenant \in tenants PROVE q.tenant \in tenants'
    BY <2>5, <2>8, Zenon
  <2>9. ASSUME ~d[r], Admitted(q) PROVE Admitted(q)'
    <3>1. q.tenant \in Tenants /\ q.tenant \in tenants'
      BY <1>1, <2>8, <2>9, ZenonT(40) DEF Admitted, TypeOK
    <3>2. Cardinality(groups'[q.tenant]) <= DefaultLimit
      <4>1. CASE q.tenant # t
        BY <1>4, <2>9, <3>1, <4>1, ZenonT(40) DEF Admitted
      <4>2. CASE q.tenant = t
        <5>1. Cardinality(rows) <= DefaultLimit
          BY <2>5, <2>9, <4>2, FS_CardinalityType, SMTT(30) DEF AccessAssumption
        <5> QED BY <1>4, <4>2, <5>1, ZenonT(40)
      <4> QED BY <4>1, <4>2, Zenon
    <3>3. \A l \in Loaders : ~Stale(l, q.tenant, q.iams)'
      BY <1>2, <2>6, <2>9, <3>1, ZenonT(40) DEF Admitted, Stale, Cached
    <3> QED BY <1>2, <2>7, <2>9, <3>1, <3>2, <3>3, ZenonT(40) DEF Admitted, Restriction
  <2>10. RequestOk(n)'
    BY <2>3, <2>4, <2>7, <2>8, <2>9, MarkedOk, ZenonT(40)
  <2> QED BY <2>2, <2>10, ZenonT(40) DEF RequestOk, Undisturbed, InFlight, Admitted, Justified, Served,
       Restriction, CallsOf
<1> QED BY <1>5, <1>6, <1>7, <1>8, ZenonT(40) DEF AccessInv

(* A group or a tenant is created, changed or removed. *)
LEMMA GroupStepInv ==
    ASSUME AccessInv, AccessAssumption, NEW t \in Tenants, GroupStep(t)
    PROVE  AccessInv'
<1>1. /\ groups[t] \in SUBSET Rows /\ IsFiniteSet(groups[t]) /\ tenants \subseteq Tenants
      /\ \A x, y \in groups[t] : x[1] = y[1] => x = y
  BY Zenon DEF AccessInv, TypeOK, GroupsInv
<1>2. ASSUME NEW g \in Iams, NEW role \in BusinessRoles, CreateGroup(t, g, role) PROVE AccessInv'
  <2>1. PICK rows : rows = groups[t] \cup {<<g, role>>}
    BY Zenon
  <2>2. Change(t, {g}, rows) /\ UNCHANGED tenants /\ g \in Free(t)
    BY <1>2, <2>1, ZenonT(40) DEF CreateGroup
  <2>3. rows \in SUBSET Rows
    BY <1>1, <2>1, SMTT(30) DEF Rows
  <2>4. IsFiniteSet(rows)
    BY <1>1, <2>1, FS_AddElement, ZenonT(40)
  <2>5. \A x, y \in rows : x[1] = y[1] => x = y
    BY <1>1, <2>1, <2>2, SMTT(30) DEF Free
  <2>6. \A row \in Rows : row[1] \notin {g} => (row \in rows <=> row \in groups[t])
    BY <2>1
  <2> QED BY <1>1, <2>2, <2>3, <2>4, <2>5, <2>6, ChangeInv, ZenonT(40)
<1>3. ASSUME NEW old \in groups[t], NEW g \in Iams, UpdateGroup(t, old, g) PROVE AccessInv'
  <2>1. PICK rows : rows = (groups[t] \ {old}) \cup {<<g, old[2]>>}
    BY Zenon
  <2>2. Change(t, {old[1], g}, rows) /\ UNCHANGED tenants /\ g \in Free(t)
    BY <1>3, <2>1, Zenon DEF UpdateGroup
  <2>3. rows \in SUBSET Rows
    BY <1>1, <2>1, SMTT(30) DEF Rows
  <2>4. IsFiniteSet(rows)
    <3>1. IsFiniteSet(groups[t] \ {old})
      BY <1>1, FS_RemoveElement, Zenon
    <3> QED BY <2>1, <3>1, FS_AddElement, Zenon
  <2>5. \A x, y \in rows : x[1] = y[1] => x = y
    BY <1>1, <2>1, <2>2, SMTT(30) DEF Free
  <2>6. \A row \in Rows : row[1] \notin {old[1], g} => (row \in rows <=> row \in groups[t])
    BY <2>1
  <2> QED BY <1>1, <2>2, <2>3, <2>4, <2>5, <2>6, ChangeInv, ZenonT(40)
<1>4. ASSUME NEW old \in groups[t], DeleteGroupByID(t, old) PROVE AccessInv'
  <2>1. PICK rows : rows = groups[t] \ {old}
    BY Zenon
  <2>2. Change(t, {old[1]}, rows) /\ UNCHANGED tenants
    BY <1>4, <2>1, Zenon DEF DeleteGroupByID
  <2>3. rows \in SUBSET Rows /\ \A x, y \in rows : x[1] = y[1] => x = y
    BY <1>1, <2>1, Zenon
  <2>4. IsFiniteSet(rows)
    BY <1>1, <2>1, FS_RemoveElement, Zenon
  <2>5. \A row \in Rows : row[1] \notin {old[1]} => (row \in rows <=> row \in groups[t])
    BY <2>1, Zenon
  <2> QED BY <1>1, <2>2, <2>3, <2>4, <2>5, ChangeInv, ZenonT(40)
<1>5. CASE DeleteTenant(t)
  <2>1. PICK rows \in {groups[t], {}} : Change(t, Iams, rows)
    BY <1>5, Zenon DEF DeleteTenant
  <2>2. tenants' \subseteq Tenants /\ tenants' \ {t} = tenants \ {t} /\ tenants' # tenants
    BY <1>1, <1>5, Zenon DEF DeleteTenant
  <2>3. IsFiniteSet(rows)
    BY <1>1, FS_EmptySet, Zenon
  <2>4. rows \in SUBSET Rows /\ \A x, y \in rows : x[1] = y[1] => x = y
    BY <1>1, Zenon
  <2> QED BY <2>1, <2>2, <2>3, <2>4, ChangeInv, ZenonT(40)
<1>6. CASE CreateTenant(t)
  <2>1. PICK rows \in {groups[t], DefaultGroups} : Change(t, Iams, rows)
    BY <1>6, Zenon DEF CreateTenant
  <2>2. tenants' \subseteq Tenants /\ tenants' \ {t} = tenants \ {t} /\ tenants' # tenants
    BY <1>1, <1>6, Zenon DEF CreateTenant
  <2>3. IsFiniteSet(rows) /\ rows \in SUBSET Rows /\ \A x, y \in rows : x[1] = y[1] => x = y
    BY <1>1, Zenon DEF AccessAssumption
  <2> QED BY <2>1, <2>2, <2>3, ChangeInv, Zenon
<1> QED BY <1>2, <1>3, <1>4, <1>5, <1>6, ZenonT(40) DEF GroupStep

(* No request is in flight and no tenant is loaded at the start. *)
LEMMA InitInv == ASSUME AccessAssumption, Init PROVE AccessInv
<1>1. TypeOK
  <2>1. IsRequest(Idle) /\ Idle.phase = "idle" /\ Idle.disturbed = FALSE
    BY Zenon DEF Idle, IsRequest
  <2>2. groups \in [Tenants -> SUBSET Rows] /\ \A t \in Tenants : \A x, y \in groups[t] : x[1] = y[1] => x = y
    BY Zenon DEF Init, AccessAssumption
  <2>3. /\ tenants \subseteq Tenants /\ changes \in 0..MaxChanges
        /\ loaded \in [Loaders -> SUBSET Tenants] /\ keys \in [Loaders -> SUBSET (Tenants \X Iams \X BusinessRoles)]
    BY DEF Init, AccessAssumption
  <2>4. req = [r \in Requests |-> req[r]] /\ \A r \in Requests : req[r] = Idle
    BY Zenon DEF Init
  <2> QED BY <2>1, <2>2, <2>3, <2>4, Zenon DEF TypeOK, Phases
<1>2. GroupsInv
  BY Zenon DEF Init, GroupsInv, AccessAssumption
<1>3. CachesInv
  BY Zenon DEF Init, CachesInv
<1>4. RequestsInv
  <2>1. \A r \in Requests : req[r].phase = "idle" /\ req[r].role = Business
    BY Zenon DEF Init, Idle
  <2> QED BY <2>1, Zenon DEF RequestsInv, RequestOk, Undisturbed, InFlight
<1> QED BY <1>1, <1>2, <1>3, <1>4, Zenon DEF AccessInv

(* A step that changes nothing. *)
LEMMA StutterInv == ASSUME AccessInv, UNCHANGED vars PROVE AccessInv'
<1>1. TypeOK'
  BY Zenon DEF AccessInv, TypeOK, vars, IsRequest, CallsOf
<1>2. GroupsInv' /\ CachesInv'
  BY DEF AccessInv, GroupsInv, CachesInv, vars, Triples, AllRows
<1>3. RequestsInv'
  <2> SUFFICES ASSUME NEW r \in Requests PROVE RequestOk(req[r])'
    BY Zenon DEF RequestsInv
  <2>1. PICK q : q = req[r] /\ q = req'[r]
    BY Zenon DEF vars
  <2>2. RequestOk(q)
    BY <2>1, Zenon DEF AccessInv, RequestsInv
  <2>3. RequestOk(q)'
    BY <2>2, StaysOk, Zenon DEF vars, Loads
  <2> QED BY <2>1, <2>3, Zenon DEF RequestOk, Undisturbed, InFlight, Admitted, Justified, Served,
       Restriction, CallsOf
<1> QED BY <1>1, <1>2, <1>3, ZenonT(40) DEF AccessInv

(* Every step keeps the invariant. *)
LEMMA NextInv == ASSUME AccessInv, AccessAssumption, [Next]_vars PROVE AccessInv'
<1>1. ASSUME NEW r \in Requests, RequestStep(r) PROVE AccessInv'
  BY <1>1, ArriveInv, MiddlewareInv, ProcessTaskInv, RepositoryInv, Zenon DEF RequestStep
<1>2. ASSUME NEW t \in Tenants, GroupStep(t) PROVE AccessInv'
  BY <1>2, GroupStepInv, Zenon
<1>3. ASSUME NEW l \in Loaders, StartAuthzDataRefresh(l) PROVE AccessInv'
  BY <1>3, RefreshInv, Zenon
<1>4. CASE UNCHANGED vars
  BY <1>4, StutterInv, Zenon
<1> QED BY <1>1, <1>2, <1>3, <1>4, Zenon DEF Next

(* The inductive invariant of Access holds in every reachable state. *)
THEOREM AccessInvariance == Spec => []AccessInv
<1>1. Init => AccessInv
  BY InitInv, AccessAssumption, Zenon
<1>2. AccessInv /\ [Next]_vars => AccessInv'
  BY NextInv, AccessAssumption, Zenon
<1> QED BY <1>1, <1>2, PTL DEF Spec

(* A cache of AuthzLoader grants no role that its group did not have at some
   time since the loader was last emptied. *)
THEOREM CachedExistedHolds == Spec => []CachedExisted
<1>1. AccessInv => CachedExisted
  BY Zenon DEF AccessInv, CachesInv, CachedExisted
<1> QED BY <1>1, AccessInvariance, PTL

(* A user's request that BusinessUserDataMiddleware and AuthzMiddleware let
   through, and that nothing disturbed, acts for exactly one role of its
   tenant, and the API policy of this role allows the handler. *)
THEOREM OneRoleHolds == Spec => []OneRole
<1>1. ASSUME AccessInv PROVE OneRole
  <2> SUFFICES ASSUME NEW r \in Requests, req[r].role = Business, req[r].phase \in {"handling", "repoCheck"},
                      ~req[r].disturbed
               PROVE  \E role \in BusinessRoles :
                        RolesOf(req[r].tenant, req[r].iams) = {role} /\ Restriction(req[r]) \in APIPolicies[role]
    BY Zenon DEF OneRole
  <2>1. PICK q : q = req[r]
    BY Zenon
  <2>2. Undisturbed(q)
    BY <2>1, Zenon DEF Undisturbed, InFlight
  <2>3. Admitted(q)
    BY <1>1, <2>1, <2>2, Zenon DEF AccessInv, RequestsInv, RequestOk
  <2>4. PICK role \in RolesOf(q.tenant, q.iams) :
          Restriction(q) \in APIPolicies[role]
    BY <2>1, <2>3, Zenon DEF Admitted
  <2>5. RolesOf(q.tenant, q.iams) = {role}
    BY <2>3, <2>4, Zenon DEF Admitted
  <2>6. groups[q.tenant] \subseteq Rows
    BY <1>1, <2>3, Zenon DEF AccessInv, TypeOK, Admitted
  <2>7. role \in BusinessRoles
    BY <2>4, <2>6, ZenonT(40) DEF RolesOf, Rows
  <2> QED BY <2>1, <2>4, <2>5, <2>7, Zenon
<1> QED BY <1>1, AccessInvariance, PTL

(* The two layers agree: a user whose groups have one role, which may call the
   handler, is turned away by neither the caches nor the repository; except an
   auditor by a handler that may write. *)
THEOREM NotTurnedAwayHolds == Spec => []NotTurnedAway
<1>1. AccessInv => NotTurnedAway
  BY Zenon DEF AccessInv, RequestsInv, RequestOk, NotTurnedAway
<1> QED BY <1>1, AccessInvariance, PTL

(* The tasks whose internal roles have what they ask for, and that are not
   fanned out, are never refused a repository call they cannot do without,
   unless their tenant is removed under them. *)
THEOREM TasksPermittedHolds == ~FanOut /\ Tasks \subseteq GrantedTasks => (Spec => []TasksPermitted)
<1>1. ASSUME TasksGranted PROVE AccessInv => TasksPermitted
  BY <1>1, Zenon DEF AccessInv, RequestsInv, RequestOk, TasksPermitted, Served
<1>2. ASSUME TasksGranted PROVE Spec => []TasksPermitted
  BY <1>1, <1>2, AccessInvariance, PTL
<1> QED BY <1>2, Zenon DEF TasksGranted
=============================================================================
