------------------------------- MODULE Errors -------------------------------
(***************************************************************************)
(* How CMK turns an error of a handler into the answer of the API: the     *)
(* mapping tables of internal/apierrors and the mapper of internal/errs.   *)
(*                                                                         *)
(* A Go error is abstracted to the set of sentinel errors errors.Is finds  *)
(* along its chain.  A sentinel of package apierrors has its bare name,    *)
(* any other one the name its users write (package.name).  A table entry   *)
(* keeps what decides and what identifies the answer: the chain it asks    *)
(* for, its code, its status and what its ContextGetter looks at: nothing  *)
(* ("none" where there is no ContextGetter, "fixed" where it ignores the   *)
(* error) or the error itself.  The wording of messages is left out.       *)
(***************************************************************************)
EXTENDS Naturals, Sequences, FiniteSets

Entry(chain, code, status) ==
    [InternalErrorChain |-> chain, Code |-> code, Status |-> status, ContextGetter |-> "none"]

WithContext(chain, code, status) ==
    [Entry(chain, code, status) EXCEPT !.ContextGetter = "error"]

WithFixedContext(chain, code, status) ==
    [Entry(chain, code, status) EXCEPT !.ContextGetter = "fixed"]

-----------------------------------------------------------------------------
(* The tables, one line per entry, in the order of the source. *)

keyConfiguration == <<
    Entry({"manager.ErrInvalidKeyAdminGroup"}, "INVALID_KEY_CONFIG_ADMIN_GROUP", 400),
    Entry({"manager.ErrConnectedSystemToKeyConfig"}, "INVALID_KEY_CONFIG_DELETE", 400),
    Entry({"manager.ErrGettingKeyConfigByID"}, "KEY_CONFIGURATION_NOT_FOUND", 404),
    Entry({"manager.ErrKeyConfigurationNotAllowed"}, "KEY_CONFIGURATION_NOT_FOUND", 404),
    Entry({"manager.ErrQueryKeyConfigurationList"}, "QUERY_KEY_CONFIGURATION_LIST", 500),
    Entry({"ErrTransformKeyConfigurationList"}, "TRANSFORM_KEY_CONFIGURATION_LIST", 500),
    Entry({"ErrTransformKeyConfigurationFromAPI"}, "TRANSFORM_KEY_CONFIGURATION_FROM_API", 400),
    Entry({"manager.ErrDeleteKeyConfiguration"}, "DELETE_KEY_CONFIGURATION", 500),
    Entry({"manager.ErrDeleteKeyConfiguration", "manager.ErrConnectedKeysToKeyConfig"}, "DELETE_KEY_CONFIGURATION_WITH_KEYS", 400),
    Entry({"manager.ErrDeleteKeyConfiguration", "manager.ErrConnectSystemNoPrimaryKey"}, "DELETE_KEY_CONFIGURATION_WITH_SYSTEMS", 400),
    Entry({"manager.ErrNameCannotBeEmpty"}, "INVALID_PROPERTY", 400),
    Entry({"manager.ErrUpdateKeyConfiguration"}, "UPDATE_KEY_CONFIGURATION", 500),
    Entry({"manager.ErrUpdateKeyConfiguration", "repo.ErrUniqueConstraint"}, "UNIQUE_ERROR", 409),
    Entry({"manager.ErrCreateKeyConfiguration"}, "CREATE_KEY_CONFIGURATION", 500),
    Entry({"manager.ErrCreateKeyConfiguration", "repo.ErrUniqueConstraint"}, "UNIQUE_ERROR", 409),
    Entry({"ErrGetClientCertificates"}, "GET_CLIENT_CERTIFICATES", 500) >>

keyVersion == <<
    Entry({"manager.ErrUpdateKeyVersionDisabled"}, "KEY_DISABLED", 400),
    Entry({"manager.ErrNoBodyForCustomerHeldDB"}, "NO_BODY_FOR_CUSTOMER_HELD", 400),
    Entry({"ErrQueryKeyVersionList"}, "QUERY_KEY_VERSION_LIST", 500),
    Entry({"ErrTransformKeyVersionList"}, "TRANSFORM_KEY_VERSION_LIST", 500),
    Entry({"manager.ErrCreateKeyVersionDB"}, "CREATE_KEY_VERSION", 500),
    Entry({"ErrTransformKeyVersionToAPI"}, "TRANSFORM_KEY_VERSION", 500),
    Entry({"ErrGettingKeyVersionByNumber"}, "GET_KEY_VERSION_NUMBER", 404),
    Entry({"manager.ErrUpdateKeyVersionDB"}, "UPDATE_KEY_VERSION", 500) >>

workflow1 == <<
    Entry({"manager.ErrWorkflowCreationNotAllowed"}, "FORBIDDEN_WORKFLOW_CREATION", 403),
    Entry({"manager.ErrCheckWorkflow"}, "CHECK_WORKFLOW", 500),
    Entry({"manager.ErrGetWorkflowDB"}, "GET_WORKFLOW", 500),
    Entry({"manager.ErrCheckWorkflowEligibility"}, "CHECK_WORKFLOW_ELIGIBILITY", 500),
    Entry({"manager.ErrWorkflowNotAllowed"}, "WORKFLOW_NOT_FOUND", 404),
    Entry({"manager.ErrGetWorkflowDB", "repo.ErrNotFound"}, "GET_WORKFLOW", 404),
    Entry({"ErrGetWorkflow"}, "GET_WORKFLOW", 500),
    Entry({"ErrTransformWorkflowFromAPI"}, "TRANSFORM_WORKFLOW_FROM_API", 400),
    Entry({"ErrTransformWorkflowToAPI"}, "TRANSFORM_WORKFLOW_TO_API", 500),
    Entry({"manager.ErrCreateWorkflowDB"}, "CREATE_WORKFLOW", 500),
    Entry({"ErrCreateWorkflow"}, "CREATE_WORKFLOW", 500),
    Entry({"manager.ErrOngoingWorkflowExist"}, "ONGOING_WORKFLOW", 400),
    Entry({"manager.ErrCheckOngoingWorkflow"}, "CHECK_ONGOING_WORKFLOW", 500),
    Entry({"workflowpkg.ErrInvalidWorkflowState"}, "INVALID_WORKFLOW_STATE", 400),
    Entry({"workflowpkg.ErrWorkflowExecution"}, "WORKFLOW_EXECUTION", 500),
    Entry({"workflowpkg.ErrUpdateWorkflowState"}, "UPDATE_WORKFLOW_STATE", 500),
    Entry({"workflowpkg.ErrListApprovers"}, "LIST_APPROVERS", 500),
    Entry({"workflowpkg.ErrCheckApprovers"}, "CHECK_APPROVERS", 500),
    Entry({"manager.ErrUpdateApproverDecision"}, "UPDATE_APPROVER_DECISION", 500) >>

workflow2 == <<
    Entry({"workflowpkg.ErrCheckApproverDecision"}, "CHECK_APPROVER_DECISION", 500),
    Entry({"workflowpkg.ErrInvalidEventActor"}, "INVALID_EVENT_ACTOR", 400),
    Entry({"workflowpkg.ErrInsufficientApproverCount"}, "INSUFFICIENT_APPROVER_COUNT", 400),
    Entry({"workflowpkg.ErrApproverNoLongerEligible"}, "APPROVER_NO_LONGER_ELIGIBLE", 400),
    Entry({"workflowpkg.ErrTransitionExecution"}, "TRANSITION_EXECUTION", 400),
    Entry({"workflowpkg.ErrAutomatedTransition"}, "AUTOMATED_TRANSITION", 500),
    Entry({"manager.ErrInDBTransaction"}, "INDB_TRANSACTION", 500),
    Entry({"manager.ErrWorkflowCannotTransitionDB"}, "WORKFLOW_CANNOT_TRANSITION", 500),
    Entry({"ErrWorkflowCannotTransition"}, "WORKFLOW_CANNOT_TRANSITION", 500),
    Entry({"manager.ErrValidateActor"}, "VALIDATE_ACTOR", 500),
    Entry({"ErrAddApprovers"}, "ADD_APPROVERS", 500),
    Entry({"manager.ErrAddApproversDB"}, "ADD_APPROVERS", 500),
    Entry({"manager.ErrAddApproversDB", "manager.ErrApplyTransition"}, "ADD_APPROVERS", 400),
    Entry({"manager.ErrApplyTransition"}, "APPLY_TRANSITION", 500),
    Entry({"manager.ErrAddApproversDB", "repo.ErrUniqueConstraint"}, "ADD_APPROVERS", 409),
    Entry({"workflowpkg.ErrListApprovers", "repo.ErrNotFound"}, "GET_APPROVERS", 404),
    WithContext({"workflowpkg.ErrWorkflowGroupNotSufficientMembers"}, "WORKFLOW_GROUP_NOT_SUFFICIENT_MEMBERS", 400),
    Entry({"workflowpkg.ErrUserRemovedFromApproverGroup"}, "WORKFLOW_USER_REMOVED_FROM_GROUP", 400) >>

system1 == <<
    Entry({"repo.ErrKeyConfigName", "repo.ErrNotFound"}, "GETTING_SYSTEM_KEYCONFIG_NAME", 500),
    Entry({"eventprocessor.ErrNoPreviousEvent"}, "NO_PREVIOUS_SYSTEM_STATE", 400),
    Entry({"manager.ErrKeyConfigurationNotFound", "gorm.ErrRecordNotFound"}, "KEY_CONFIGURATION_NOT_FOUND", 404),
    Entry({"manager.ErrKeyConfigurationNotFound", "repo.ErrGetResource"}, "GETTING_SYSTEM_BY_KEY_CONFIGURATION", 500),
    Entry({"manager.ErrQuerySystemList"}, "QUERY_SYSTEM_LIST", 500),
    Entry({"ErrTransformSystemList"}, "TRANSFORM_SYSTEM_LIST", 500),
    Entry({"ErrTransformSystem"}, "TRANSFORM_SYSTEM", 500),
    Entry({"ErrTransformSystemFromAPI"}, "TRANSFORM_SYSTEM_FROM_API", 400),
    Entry({"ErrTransformSystemToAPI"}, "TRANSFORM_SYSTEM_TO_API", 500),
    Entry({"manager.ErrGettingSystemByID", "repo.ErrNotFound"}, "GET_SYSTEM_BY_ID", 404),
    Entry({"manager.ErrConnectSystemNoPrimaryKey"}, "INVALID_TARGET_STATE", 400) >>

system2 == <<
    Entry({"manager.ErrGettingSystemByID", "repo.ErrGetResource"}, "GET_SYSTEM_BY_ID", 500),
    Entry({"manager.ErrGettingSystem", "repo.ErrNotFound"}, "GET_SYSTEM", 404),
    Entry({"manager.ErrGettingSystem", "repo.ErrGetResource"}, "GET_SYSTEM", 500),
    Entry({"manager.ErrUpdateSystem"}, "UPDATE_SYSTEM", 500),
    Entry({"manager.ErrUpdateSystem", "manager.ErrGettingKeyConfigByID"}, "GET_KEY_CONFIG_BY_ID", 500),
    Entry({"manager.ErrUpdateSystem", "manager.ErrSystemNotLinked"}, "SYSTEM_NOT_LINKED", 400),
    Entry({"manager.ErrKeyConfigurationIDNotFound"}, "KEY_CONFIGURATION_ID_NOT_FOUND", 404),
    Entry({"ErrKeyConfigurationIDRequired"}, "KEY_CONFIGURATION_ID_REQUIRED", 400),
    Entry({"manager.ErrGettingSystemLinkByID", "repo.ErrNotFound"}, "GETTING_SYSTEM_LINK_BY_ID", 404),
    Entry({"manager.ErrGettingSystemLinkByID", "repo.ErrGetResource"}, "GETTING_SYSTEM_LINK_BY_ID", 500),
    Entry({"manager.ErrKeyConfigurationNotAllowed"}, "KEY_CONFIGURATION_NOT_FOUND", 404) >>

label == <<
    Entry({"ErrGetKeyLabels", "gorm.ErrRecordNotFound"}, "KEY_NOT_FOUND", 404),
    Entry({"ErrLabelNotFound"}, "LABEL_NOT_FOUND", 404),
    Entry({"manager.ErrQueryLabelList"}, "QUERY_LABEL_LIST", 500),
    Entry({"ErrTransformLabelList"}, "TRANSFORM_LABEL_LIST", 500),
    Entry({"ErrEmptyInputLabel"}, "EMPTY_INPUT_LABEL", 400),
    Entry({"manager.ErrEmptyInputLabelDB"}, "EMPTY_INPUT_LABEL", 400),
    Entry({"manager.ErrFetchLabel"}, "FETCH_LABEL", 500),
    Entry({"manager.ErrInsertLabel"}, "INSERT_LABEL", 500),
    Entry({"manager.ErrUpdateLabelDB"}, "UPDATE_LABEL", 500),
    Entry({"ErrUpdateLabel"}, "UPDATE_LABEL", 500),
    Entry({"ErrUpdateLabel", "gorm.ErrRecordNotFound"}, "KEY_NOT_FOUND", 404),
    Entry({"ErrDeleteLabel"}, "DELETE_LABEL", 500),
    Entry({"manager.ErrDeleteLabelDB"}, "DELETE_LABEL", 500),
    Entry({"ErrTransformLabelFromAPI"}, "TRANSFORM_LABEL_FROM_API", 400) >>

tags == <<
    Entry({"ErrCreatingTags"}, "CREATE_TAGS", 500),
    Entry({"ErrGettingTagsByKeyConfigurationID"}, "GET_TAGS_BY_KEY_CONFIGURATION_ID", 500) >>

key1 == <<
    Entry({"manager.ErrNonEditableCryptoRegionUpdate"}, "KEY_ACCESS_UPDATE_NOT_ALLOWED", 400),
    WithContext({"manager.ErrCryptoDetailsUpdate", "transformer.ErrGRPCInvalidAccessData"}, "INVALID_ACCESS_DATA", 400),
    Entry({"manager.ErrCryptoRegionNotExists"}, "KEY_UPDATE_NOT_ALLOWED", 400),
    Entry({"manager.ErrManagementDetailsUpdate"}, "KEY_ACCESS_UPDATE_NOT_ALLOWED", 400),
    Entry({"manager.ErrDeleteKey", "manager.ErrConnectedSystemToKeyConfig"}, "INVALID_KEY_DELETE", 400),
    Entry({"manager.ErrGetKeyDB"}, "KEY_ID", 500),
    Entry({"manager.ErrGetKeyDB", "gorm.ErrRecordNotFound"}, "KEY_ID", 404),
    Entry({"ErrTransformKeyToAPI"}, "TRANSFORM_KEY", 500),
    Entry({"ErrCreateKey"}, "CREATE_KEY", 500),
    Entry({"ErrCreateKey", "manager.ErrCreateKeyDB", "repo.ErrUniqueConstraint"}, "UNIQUE_ERROR", 409),
    Entry({"ErrCreateKey", "manager.ErrInvalidKeyState"}, "REGISTER_KEY_INVALID_STATE", 400),
    Entry({"ErrCreateKey", "manager.ErrKeyRegistration", "keymanagement.ErrProviderAuthenticationFailed"}, "REGISTER_KEY_AUTHENTICATION_FAILED", 400),
    WithContext({"ErrCreateKey", "manager.ErrKeyRegistration", "keymanagement.ErrGenericGetKeyError"}, "REGISTER_KEY_INVALID_PROVIDER_KEY", 400),
    Entry({"ErrCreateKey", "manager.ErrKeyRegistration", "keymanagement.ErrHYOKKeyNotFound"}, "REGISTER_KEY_PROVIDER_KEY_NOT_FOUND", 400),
    Entry({"ErrCreateKey", "gorm.ErrRecordNotFound"}, "KEY_CONFIGURATION_NOT_FOUND", 404),
    Entry({"ErrUpdateKey"}, "UPDATE_KEY", 404) >>

key2 == <<
    Entry({"ErrDeleteKey"}, "DELETE_KEY", 500),
    Entry({"ErrQueryKeyList"}, "QUERY_KEY_LIST", 500),
    Entry({"ErrQueryKeyList", "gorm.ErrRecordNotFound"}, "KEY_CONFIGURATION_NOT_FOUND", 404),
    Entry({"ErrTransformKeyFromAPI", "ErrTypeFieldMissingProperty"}, "MISSING_PROPERTY", 400),
    Entry({"ErrTransformKeyFromAPI", "keyshared.ErrAlgorithmIsRequired"}, "MISSING_PROPERTY", 400),
    Entry({"ErrTransformKeyFromAPI", "keyshared.ErrRegionIsRequired"}, "MISSING_PROPERTY", 400),
    Entry({"ErrTransformKeyFromAPI", "transform.ErrAPIUnexpectedProperty"}, "UNEXPECTED_PROPERTY", 400),
    Entry({"ErrTransformKeyFromAPI", "ErrNameFieldMissingProperty"}, "MISSING_PROPERTY", 400),
    Entry({"ErrTransformKeyFromAPI", "ErrKeyConfigurationFieldMissingProperty"}, "MISSING_PROPERTY", 400),
    Entry({"ErrTransformKeyFromAPI", "keyshared.ErrInvalidKeyProvider"}, "NOT_SUPPORTED", 400),
    Entry({"ErrTransformKeyFromAPI"}, "TRANSFORM_KEY_FROM_API", 400),
    WithContext({"ErrTransformKeyFromAPI", "transformer.ErrGRPCValidateKey"}, "INVALID_KEY_ATTRIBUTE", 400),
    WithContext({"ErrTransformKeyFromAPI", "transformer.ErrGRPCInvalidAccessData"}, "INVALID_ACCESS_DATA", 400),
    Entry({"manager.ErrKeyIsNotEnabled"}, "KEY_IS_NOT_ENABLED", 409),
    Entry({"manager.ErrKeyIsDeleted"}, "KEY_IS_DELETED", 404),
    Entry({"manager.ErrKeyInPendingState"}, "KEY_NOT_READY", 409) >>

key3 == <<
    Entry({"ErrSetPrimaryKey"}, "SET_PRIMARY_KEY", 500),
    Entry({"manager.ErrUpdatePrimary"}, "SET_PRIMARY_KEY", 500),
    Entry({"ErrTransformKeyFromAPI", "hyokkey.ErrAccessDetailsIsRequired"}, "MISSING_PROPERTY", 400),
    Entry({"ErrTransformKeyFromAPI", "hyokkey.ErrNativeIDIsRequired"}, "MISSING_PROPERTY", 400),
    Entry({"ErrTransformKeyFromAPI", "keyshared.ErrProviderIsRequired"}, "MISSING_PROPERTY", 400),
    Entry({"manager.ErrInvalidKeyTypeForImportParams"}, "INVALID_ACTION_FOR_KEY_TYPE", 400),
    Entry({"manager.ErrInvalidKeyTypeForImportKeyMaterial"}, "INVALID_ACTION_FOR_KEY_TYPE", 400),
    Entry({"manager.ErrInvalidKeyStateForImportParams"}, "INVALID_KEY_STATE", 400),
    Entry({"manager.ErrInvalidKeyStateForImportKeyMaterial"}, "INVALID_KEY_STATE", 400),
    Entry({"manager.ErrEmptyKeyMaterial"}, "IMPORT_KEY_MATERIAL", 400),
    Entry({"manager.ErrInvalidBase64KeyMaterial"}, "IMPORT_KEY_MATERIAL", 400),
    Entry({"manager.ErrMissingOrExpiredImportParams"}, "IMPORT_KEY_MATERIAL", 400),
    Entry({"ErrDefaultKeystoreNotFound"}, "DEFAULT_KEYSTORE_NOT_FOUND", 500),
    Entry({"manager.ErrFailedToInitProvider", "manager.ErrPoolIsDrained", "manager.ErrGetKeystoreFromPool"}, "KEYSTORE_POOL_DRAINED", 503),
    Entry({"ErrBusinessUserDataInvalid"}, "INVALID_CLIENT_DATA", 400) >>

tenantconfig == <<
    Entry({"ErrGetDefaultKeystore"}, "GET_DEFAULT_KEYSTORE", 500),
    Entry({"ErrGetWorkflowConfig"}, "GET_WORKFLOW_CONFIG", 500),
    WithFixedContext({"ErrSetWorkflowConfig", "manager.ErrWorkflowEnableDisableNotAllowed"}, "INVALID_SETTING", 400),
    WithFixedContext({"ErrSetWorkflowConfig", "manager.ErrRetentionLessThanMinimum"}, "INVALID_SETTING", 400),
    WithFixedContext({"ErrSetWorkflowConfig", "manager.ErrDefaultExpiryExceedsMax"}, "INVALID_SETTING", 400),
    WithFixedContext({"ErrSetWorkflowConfig", "manager.ErrMinimumApprovalsTooLow"}, "INVALID_SETTING", 400),
    Entry({"ErrSetWorkflowConfig"}, "SET_WORKFLOW_CONFIG", 500) >>

groups == <<
    Entry({"manager.ErrMultipleRolesInGroups"}, "MULTIPLE_ROLES_NOT_ALLOWED", 403),
    Entry({"manager.ErrZeroRolesInGroups"}, "ZERO_ROLES_NOT_ALLOWED", 403),
    Entry({"manager.ErrCreateGroups", "model.ErrInvalidName"}, "INVALID_GROUP_NAME", 400),
    Entry({"manager.ErrCreateGroups", "model.ErrInvalidIAMIdentifier"}, "INVALID_GROUP_IAM_IDENTIFIER", 400),
    Entry({"manager.ErrGroupRole"}, "UNSUPPORTED_GROUP_ROLE", 400),
    Entry({"manager.ErrCreateGroups", "repo.ErrCreateResource"}, "CREATE_GROUP", 500),
    Entry({"manager.ErrCreateGroups"}, "CREATE_GROUP", 400),
    Entry({"manager.ErrInvalidGroupDelete"}, "DELETE_INVALID_GROUP", 400),
    Entry({"manager.ErrInvalidGroupUpdate"}, "INVALID_GROUP_UPDATE", 400),
    Entry({"manager.ErrNameCannotBeEmpty"}, "RENAME_INVALID_NAME", 400),
    Entry({"manager.ErrDeleteGroups"}, "DELETE_GROUP", 500),
    Entry({"manager.ErrGetGroups"}, "GET_GROUP", 500),
    Entry({"manager.ErrGetGroups", "repo.ErrNotFound"}, "GET_GROUP_NOT_FOUND", 404) >>

tenants == <<
    Entry({"manager.ErrTenantNotAllowed"}, "NO_TENANT_ACCESS", 403),
    Entry({"manager.ErrListTenants"}, "NO_TENANT_ACCESS", 403),
    Entry({"ErrTransformTenants"}, "TRANSFORM_TENANTS_TO_API", 500) >>

userinfo == <<
    Entry({"cmkcontext.ErrExtractBusinessUserData"}, "NO_BUSINESS_DATA", 500),
    Entry({"manager.ErrInternalRoleNotSupported"}, "INTERNAL_ROLE_NOT_SUPPORTED", 500) >>

defaultMapper == <<
    Entry({"sql.ErrNoRows"}, "RESOURCE_NOT_FOUND", 404),
    Entry({"repo.ErrUniqueConstraint"}, "UNIQUE_ERROR", 409),
    Entry({"repo.ErrNotFound"}, "RESOURCE_NOT_FOUND", 404),
    Entry({"repo.ErrInvalidUUID"}, "BAD_REQUEST", 400),
    Entry({"ErrBadOdataFilter"}, "BAD_REQUEST", 400),
    Entry({"ErrUnknownProperty"}, "UNKNOWN_PROPERTY", 400),
    Entry({"ErrActionRequireWorkflow"}, "ACTION_REQUIRE_WORKFLOW", 400),
    Entry({"authz_loader.ErrTenantNotExist"}, "FORBIDDEN", 403),
    Entry({"authz.ErrAuthorizationDenied"}, "FORBIDDEN", 403),
    Entry({"authz_repo.ErrUnauthorized"}, "FORBIDDEN", 403),
    Entry({"repo.ErrGetResource"}, "GET_RESOURCE", 500) >>

highPrio == <<
    Entry({"repo.ErrTenantNotFound"}, "TENANT_NOT_FOUND", 404) >>

-----------------------------------------------------------------------------
(* The mapper. *)

(* APIErrorMapper: the order of the tables decides between entries that    *)
(* match equally well.                                                     *)
APIErrors ==
    keyConfiguration \o keyVersion \o workflow1 \o workflow2 \o system1 \o system2
    \o label \o tags \o key1 \o key2 \o key3 \o tenantconfig \o groups \o tenants
    \o userinfo \o defaultMapper

DefaultError == Entry({}, "INTERNAL_SERVER_ERROR", 500)

(* The sentinels of type GRPCError.  GRPCError.Is says yes to every target *)
(* that is a GRPCError, whatever its code.                                 *)
GRPCErrors == {"transformer.ErrGRPCInvalidAccessData", "transformer.ErrGRPCValidateKey"}

GRPCIs(err) == IF err \cap GRPCErrors = {} THEN {} ELSE GRPCErrors

(* The sentinels errors.Is finds in err. *)
Targets(err) == err \cup GRPCIs(err)

countMatchingErrors(err, candidates) == Cardinality(candidates \cap Targets(err))

containsAsPriority(err) ==
    \E i \in DOMAIN highPrio : countMatchingErrors(err, highPrio[i].InternalErrorChain) > 0

PriorityError(err) ==
    highPrio[CHOOSE i \in DOMAIN highPrio :
                /\ countMatchingErrors(err, highPrio[i].InternalErrorChain) > 0
                /\ \A j \in 1 .. i - 1 : countMatchingErrors(err, highPrio[j].InternalErrorChain) = 0]

(* The loop over the entries keeps those whose whole chain is found and    *)
(* which have the longest chain of these, in their order.                  *)
FullMatches(err) ==
    LET targets == Targets(err) IN {i \in DOMAIN APIErrors : APIErrors[i].InternalErrorChain \subseteq targets}

ChainLength(i) == Cardinality(APIErrors[i].InternalErrorChain)

(* The positions in APIErrors of the best matches. *)
getBestMatches(err) ==
    LET full == FullMatches(err)
    IN  {i \in full : \A j \in full : ChainLength(j) <= ChainLength(i)}

(* The position of the entry Transform selects, 0 for the default error    *)
(* and for a priority error.                                               *)
Selected(err) ==
    LET best == getBestMatches(err)
    IN  IF containsAsPriority(err) \/ best = {} THEN 0
        ELSE CHOOSE i \in best : \A j \in best : i <= j

=============================================================================
