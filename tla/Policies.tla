------------------------------ MODULE Policies ------------------------------
(***************************************************************************)
(* The permission tables of internal/authz.  A policy is the set of the    *)
(* pairs <<resource type, action>> it grants.  Business roles have one     *)
(* policy for the API and one for the repository; internal roles, which    *)
(* tasks and services act under, have one for the repository only.         *)
(***************************************************************************)

Auditor == "TENANT_AUDITOR"
KeyAdmin == "KEY_ADMINISTRATOR"
TenantAdmin == "TENANT_ADMINISTRATOR"
BusinessRoles == {Auditor, KeyAdmin, TenantAdmin}

On(resources, actions) == resources \X actions

---------------------------------------------------------------------------
(* The repository: one resource type per table and six actions.            *)

Tables == {"certificate", "event", "group", "importparam", "key", "keyconfig",
           "keylabel", "keystore", "keyversion", "system", "systemproperty",
           "tag", "tenant", "tenantconfig", "workflow", "approver"}

repoActionList == {"list", "first", "count", "create", "update", "delete"}
Reads == {"list", "first", "count"}

RepoResourceTypeActions == On(Tables, repoActionList)

\* RepoBusinessPolicies, one entry per role.
RepoAuditor == On(Tables, Reads)

MutantKeyAdmin ==
    On(Tables \ {"group", "tenant", "tenantconfig"}, repoActionList)
      \cup On({"group", "tenant", "tenantconfig"}, Reads)

RepoKeyAdmin ==
    On(Tables \ {"group", "tenant", "tenantconfig"}, repoActionList)
      \cup On({"group", "tenant"}, Reads)
      \cup On({"tenantconfig"}, Reads \cup {"create", "update"})

RepoTenantAdmin ==
    On({"group", "tenant", "tenantconfig"}, repoActionList) \cup On({"keyconfig"}, {"first"})

RepoBusinessPolicies ==
    [r \in BusinessRoles |->
       CASE r = Auditor -> RepoAuditor [] r = KeyAdmin -> RepoKeyAdmin
         [] r = TenantAdmin -> RepoTenantAdmin]

\* RepoInternalPolicies, one entry per role.
BusinessAuthz == On({"group"}, {"list", "count"}) \cup On({"keyconfig"}, {"count"})

TenantCLI ==
    On({"tenant"}, {"list", "first", "create", "delete", "update"}) \cup On({"group"}, {"create"})

EventReconciler ==
    On({"tenant", "certificate", "keyversion"}, {"first"})
      \cup On({"key"}, {"first", "list", "update"})
      \cup On({"system"}, Reads \cup {"update"})
      \cup On({"tenantconfig"}, {"first", "update", "create"})
      \cup On({"event"}, {"update", "delete"})

TenantProvisioning ==
    On({"tenant"}, {"create", "update", "delete"})
      \cup On({"group"}, {"first", "create"})
      \cup On({"system"}, Reads \cup {"update"})
      \cup On({"key"}, {"count", "list", "update"})
      \cup On({"keyconfig"}, Reads)

TaskProcessing == On({"tenant"}, {"count", "list"})

MutantCertRotation == On({"certificate"}, Reads \cup {"update"})

CertRotation == On({"certificate"}, Reads \cup {"create", "update"})

WorkflowApprovers ==
    On({"tenant", "tenantconfig", "keyversion"}, {"first"})
      \cup On({"workflow"}, {"update", "first", "create"})
      \cup On({"approver"}, {"create", "update", "count", "list"})
      \cup On({"key"}, {"first", "update"})
      \cup On({"group", "systemproperty"}, {"count", "list"})
      \cup On({"keyconfig", "event"}, Reads)
      \cup On({"system"}, Reads \cup {"update"})

HYOKSync ==
    On({"key"}, Reads \cup {"update"})
      \cup On({"keyversion"}, Reads \cup {"create", "update"})
      \cup On({"certificate"}, {"first", "count", "create", "update"})
      \cup On({"keyconfig"}, {"first"})

PendingStateSync ==
    On({"key"}, Reads \cup {"update", "create"})
      \cup On({"keyversion"}, {"first"})
      \cup On({"keyconfig"}, {"first", "update"})
      \cup On({"certificate"}, {"first", "count", "create", "update"})
      \cup On({"tenantconfig"}, {"first", "delete", "create"})
      \cup On({"keystore"}, {"first", "delete"})

KeystorePool == On({"keystore"}, {"count", "create"})

SystemRefresh ==
    On({"keyconfig", "system", "event"}, {"list", "count"})
      \cup On({"systemproperty"}, {"list", "count", "update"})

TenantRefresh == On({"tenant"}, {"update"})

WorkflowCleanup ==
    On({"tenantconfig"}, {"first", "update", "create"})
      \cup On({"tenant"}, {"first"})
      \cup On({"workflow"}, {"list", "count", "delete"})

WorkflowExpiration ==
    On({"workflow"}, Reads \cup {"update"}) \cup On({"system"}, {"update"})

RepoInternalPolicies ==
    [BusinessAuthz |-> BusinessAuthz, TenantCLI |-> TenantCLI,
     EventReconciler |-> EventReconciler, TenantProvisioning |-> TenantProvisioning,
     TaskProcessing |-> TaskProcessing, CertRotation |-> CertRotation,
     WorkflowApprovers |-> WorkflowApprovers, HYOKSync |-> HYOKSync,
     PendingStateSync |-> PendingStateSync, KeystorePool |-> KeystorePool,
     SystemRefresh |-> SystemRefresh, TenantRefresh |-> TenantRefresh,
     WorkflowCleanup |-> WorkflowCleanup, WorkflowExpiration |-> WorkflowExpiration]

InternalRoles == DOMAIN RepoInternalPolicies

---------------------------------------------------------------------------
(* The API                                                                 *)

APIResourceTypeActions ==
    On({"Key"}, {"read", "create", "update", "delete", "KeyRotate"})
      \cup On({"KeyConfiguration", "Workflow", "UserGroup"}, {"read", "create", "update", "delete"})
      \cup On({"System"}, {"read", "ModifySystemLink"})
      \cup On({"TenantSettings", "Tenant"}, {"read", "update"})

\* APIPolicies, one entry per role.
APIAuditor ==
    On({"KeyConfiguration", "Key", "System", "Workflow", "TenantSettings", "UserGroup", "Tenant"},
       {"read"})

APIKeyAdmin ==
    On({"KeyConfiguration", "Workflow"}, {"read", "create", "update", "delete"})
      \cup On({"Key"}, {"read", "create", "update", "delete", "KeyRotate"})
      \cup On({"UserGroup", "TenantSettings"}, {"read"})
      \cup On({"System"}, {"ModifySystemLink", "read", "update"})

APITenantAdmin ==
    On({"Tenant", "TenantSettings"}, {"read", "update"})
      \cup On({"UserGroup"}, {"read", "create", "update", "delete"})

APIPolicies ==
    [r \in BusinessRoles |->
       CASE r = Auditor -> APIAuditor [] r = KeyAdmin -> APIKeyAdmin
         [] r = TenantAdmin -> APITenantAdmin]
=============================================================================
