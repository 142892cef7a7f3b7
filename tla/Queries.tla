------------------------------ MODULE Queries ------------------------------
(***************************************************************************)
(* From the parsed filter to the rows of the answer: the repository query  *)
(* (repo/query.go), the SQL conditions made of it (repo/sql/repo.go) and   *)
(* the two list operations (manager/system.go, manager/workflow.go).       *)
(*                                                                         *)
(* A condition compares a column with a value.  The value is plain when it *)
(* is a Go string: only then can it equal one of the query's keywords      *)
(* (repo.Null, ...), which are strings too.  A row is a function from      *)
(* column names to texts or NULL; a comparison with NULL is not true.      *)
(***************************************************************************)
EXTENDS Filters

Keywords == {"null", "not_null", "not_empty", "empty", "false_null"}

(* CompositeKey.Where without an option: the operation is Equal.  A value  *)
(* that is a slice is the set of its members.                              *)
Where(field, values, plain) == [Field |-> field, Values |-> values, plain |-> plain]

Keyword(cond) == cond.plain /\ cond.Values \cap Keywords # {} /\ Cardinality(cond.Values) = 1

CompositeKey(strict, conds)  == [IsStrict |-> strict, Conds |-> conds]
NewCompositeKeyGroup(ck)     == [IsStrict |-> TRUE, CompositeKey |-> ck]

(* applyFieldEqualCondition *)
Holds(cond, row) ==
    LET v == row[cond.Field] IN
    IF Keyword(cond)
    THEN CASE cond.Values = {"null"}       -> v = NULL
           [] cond.Values = {"not_null"}   -> v # NULL
           [] cond.Values = {"not_empty"}  -> v \notin {NULL, ""}
           [] cond.Values = {"empty"}      -> v \in {NULL, ""}
           [] cond.Values = {"false_null"} -> v \in {NULL, "false"}
    ELSE v # NULL /\ v \in cond.Values

(* A condition is added with Where, or with Or where the composite key is  *)
(* not strict; the keywords other than null are always added with Where.   *)
AddedWithOr(cond, strict) == ~ strict /\ (Keyword(cond) => cond.Values = {"null"})

(* The truth of conditions chained with AND and OR, AND binding tighter:   *)
(* the chain is cut before every item of ors.                              *)
Chain(n, ors, holds) ==
    n = 0 \/ \E i \in {1} \cup ors :
                 \A j \in i .. n : (\A k \in i + 1 .. j : k \notin ors) => holds[j]

handleCompositeKey(ck, row) ==
    Chain(Len(ck.Conds),
          {i \in 2 .. Len(ck.Conds) : AddedWithOr(ck.Conds[i], ck.IsStrict)},
          [i \in DOMAIN ck.Conds |-> Holds(ck.Conds[i], row)])

(* The where part of applyQuery. *)
applyQuery(ckgs, row) ==
    Chain(Len(ckgs),
          {i \in 2 .. Len(ckgs) : ~ ckgs[i].IsStrict},
          [i \in DOMAIN ckgs |-> handleCompositeKey(ckgs[i].CompositeKey, row)])

-----------------------------------------------------------------------------
(* The systems.  Each one is shown with the name of its key configuration, *)
(* which a LEFT JOIN finds; configuration u2 happens to be named null.     *)

KeyConfigs == {"u1", "u2"}
ConfigName(id) == CASE id = "u1" -> "n" [] id = "u2" -> "null" [] OTHER -> NULL

Systems ==
    { [region |-> r, type |-> "KEY", status |-> "INITIAL", target_key_configuration_id |-> t,
       key_configuration_id |-> c]
      : r \in {"eu", "EU", "null", "a'b", ""}, t \in {NULL, "u1"}, c \in KeyConfigs \cup {NULL} }

JoinedSystem(s) ==
    [f \in DOMAIN s \cup {"key_configurations.name"} |->
        IF f \in DOMAIN s THEN s[f] ELSE ConfigName(s.key_configuration_id)]

(* QueryOdataMapper.GetQuery: one group per comparison. *)
GetQuery(parsed) ==
    [k \in DOMAIN parsed |->
        NewCompositeKeyGroup(
            CompositeKey(TRUE, <<Where(parsed[k].field, {parsed[k].value}, parsed[k].plain)>>))]

(* GetAllSystems of the controller and of the manager: the error, or the   *)
(* systems found.                                                          *)
GetAllSystems(filter) ==
    LET parsed == ParseFilter(getSystemsSchema, filter)
        config == GetUUID(parsed, "key_configuration_id")
    IN  CASE ParseRefused(getSystemsSchema, filter) ->
                 [err |-> {"ErrBadOdataFilter"}, rows |-> {}]
          [] /\ ~ ParseRefused(getSystemsSchema, filter)
             /\ config \notin KeyConfigs \cup {NilUUID} ->
                 [err |-> {"manager.ErrKeyConfigurationNotFound", "repo.ErrNotFound",
                           "gorm.ErrRecordNotFound"}, rows |-> {}]
          [] OTHER ->
                 [err |-> {}, rows |-> {s \in Systems : applyQuery(GetQuery(parsed), JoinedSystem(s))}]

-----------------------------------------------------------------------------
(* The workflows, with the approvers and the approver groups they have.    *)

Users == {"alice", "bob"}

Workflows ==
    { [artifact_id |-> "u1", artifact_type |-> t, artifact_name |-> n, state |-> "INITIAL",
       parameters_resource_name |-> p, action_type |-> "DELETE", initiator_id |-> "alice",
       approvers |-> a, groups |-> g]
      : t \in Types, n \in {"n", "null"}, p \in {NULL, "n"},
        a \in {{}, {"bob"}}, g \in {{}, {"g1"}, {"g1", "g2"}} }

(* validateFilterEnums: the empty text is no value given.                  *)
validateFilterEnums(state, artifactType, actionType) ==
    /\ state \in States \cup {""}
    /\ artifactType \in Types \cup {""}
    /\ actionType \in ActionTypes \cup {""}

(* NewWorkflowFilterFromOData refuses an enum value; a field that is       *)
(* absent, empty or the nil UUID is not filtered on.                       *)
WorkflowFilterRefused(parsed) ==
    ~ validateFilterEnums(GetString(parsed, "state"), GetString(parsed, "artifact_type"),
                          GetString(parsed, "action_type"))

WorkflowConds(parsed) ==
    LET Str(field, plain) ==
            IF GetString(parsed, field) = "" THEN << >>
            ELSE <<Where(field, {GetString(parsed, field)}, plain)>>
        Id == GetUUID(parsed, "artifact_id")
    IN  Str("state", FALSE) \o Str("artifact_type", FALSE)
        \o (IF Id = NilUUID THEN << >> ELSE <<Where("artifact_id", {Id}, FALSE)>>)
        \o Str("artifact_name", TRUE) \o Str("parameters_resource_name", TRUE)
        \o Str("action_type", FALSE)

WorkflowQuery(parsed) ==
    IF WorkflowConds(parsed) = << >> THEN << >>
    ELSE <<NewCompositeKeyGroup(CompositeKey(TRUE, WorkflowConds(parsed)))>>

(* filterByInitiatorOrApprover and the group filter of getWorkflows. *)
filterByInitiatorOrApprover(user) ==
    NewCompositeKeyGroup(CompositeKey(FALSE,
        <<Where("initiator_id", {user.id}, TRUE), Where("approver", {user.id}, TRUE)>>))

GroupFilter(user) ==
    NewCompositeKeyGroup(CompositeKey(FALSE,
        <<Where("iam_identifier", user.groups, FALSE), Where("approver_groups.workflow_id", {"null"}, TRUE)>>))

(* LEFT JOINs with the approvers, the approver groups and the groups: one  *)
(* row for every combination.                                              *)
OrNull(set) == IF set = {} THEN {NULL} ELSE set

JoinedWorkflow(w) ==
    { [f \in DOMAIN w \cup {"approver", "iam_identifier", "approver_groups.workflow_id"} |->
          CASE f = "approver" -> a
            [] f = "iam_identifier" -> g
            [] f = "approver_groups.workflow_id" -> (IF g = NULL THEN NULL ELSE "w")
            [] OTHER -> w[f]]
      : a \in OrNull(w.approvers), g \in OrNull(w.groups) }

MutantGetWorkflows(query, user) ==
    LET all == IF user.filtered THEN query \o <<filterByInitiatorOrApprover(user)>> ELSE query
    IN  {w \in Workflows : \E row \in JoinedWorkflow(w) : applyQuery(all, row)}

getWorkflows(query, user) ==
    LET all == IF user.filtered
               THEN query \o <<filterByInitiatorOrApprover(user), GroupFilter(user)>>
               ELSE query
    IN  {w \in Workflows : \E row \in JoinedWorkflow(w) : applyQuery(all, row)}

GetWorkflows(filter, user) ==
    LET parsed == ParseFilter(GetWorkflowsSchema, filter)
    IN  IF ParseRefused(GetWorkflowsSchema, filter) \/ WorkflowFilterRefused(parsed)
        THEN [err |-> {"ErrBadOdataFilter"}, rows |-> {}]
        ELSE [err |-> {}, rows |-> getWorkflows(WorkflowQuery(parsed), user)]

=============================================================================
