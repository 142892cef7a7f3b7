---------------------------- MODULE Eligibility ----------------------------
(***************************************************************************)
(* Who may vote on a workflow when the identity service, and not CMK, says *)
(* who is in which group: manager/workflow.go with the SCIM plugin, the    *)
(* lookup of names for answers and mails, and the directory that changes   *)
(* under a waiting workflow.                                               *)
(*                                                                         *)
(* One workflow, one request at a time: the transactions of overlapping    *)
(* requests are the subject of WorkflowApproval.  A request asks the       *)
(* directory more than once, and the directory may change in between.      *)
(***************************************************************************)
EXTENDS Voting, Functions

CONSTANTS
    Users, Groups,      \* people, and groups known to the directory and to CMK
    Initiator,          \* the user who asked for the change
    Joined,             \* who is in which group at first
    MinimumApprovals,
    PageSize,           \* users the directory returns for one list request
    Plugins,            \* ways the plugin is configured
    MaxChanges,         \* bound on the changes of the directory and of the groups
    MaxFaults,          \* bound on the failing calls
    UnknownUserName, None

ASSUME EligibilityAssumption ==
    /\ Initiator \in Users /\ Joined \in [Groups -> SUBSET Users]
    /\ Plugins \subseteq [byUserList : BOOLEAN, saysNotFound : BOOLEAN]
    /\ {MinimumApprovals, PageSize, MaxChanges, MaxFaults} \subseteq Nat

VARIABLES
    plugin,     \* the configuration of the identity plugin
    directory,  \* the identity service: people, groups and their members
    wf,         \* the workflow row with its approvers and approver groups
    artifact,   \* the admin groups of the key configurations it is about
    task,       \* the auto-assign task: queued, assigned or done
    req,        \* the request being served, or None
    cache,      \* the users in the plugin wrapper's cache
    last,       \* the answer given last, and the mail enqueued with it
    changes, faults

vars == <<plugin, directory, wf, artifact, task, req, cache, last, changes, faults>>

Transitions == {"APPROVE", "REJECT", "CONFIRM", "REVOKE"}

NoMail == [transition |-> None, to |-> {}]
NoAnswer == [op |-> None, u |-> None, claims |-> {}, res |-> None, state |-> None, mail |-> NoMail,
             offered |-> {}, info |-> {}, truth |-> {}]

\* The call fails: what the directory holds does not matter.
Fault == faults < MaxFaults /\ faults' = faults + 1

---------------------------------------------------------------------------
(* The identity plugin                                                     *)

MemberOf(gs) == directory.people \intersect UNION {directory.members[g] : g \in gs}

\* client.ListUsers reads one page.
ListUsers(users) ==
    {page \in SUBSET users : Cardinality(page) = IF Cardinality(users) < PageSize
                                                 THEN Cardinality(users) ELSE PageSize}

\* GetUsersForGroup: a list of the users with the group, or the members of
\* the group one by one, where one that is gone fails the call.  The possible
\* results; none when the call fails.
getUsersForGroupUsingUserList(g) == ListUsers(MemberOf({g}))

getUsersForGroupUsingGroupMembers(g) ==
    {users \in {directory.members[g]} : users \subseteq directory.people}

GetUsersForGroup(g) ==
    IF plugin.byUserList THEN getUsersForGroupUsingUserList(g)
                         ELSE getUsersForGroupUsingGroupMembers(g)

\* GetGroup: exactly one group of that name.
GetGroup(g) == g \in directory.groups

\* The users of several groups, asked for one after the other.
UsersOf(gs) ==
    IF \E g \in gs : ~GetGroup(g) THEN {}
    ELSE {UNION Range(f) : f \in {h \in [gs -> SUBSET Users] :
                                    \A g \in gs : h[g] \in GetUsersForGroup(g)}}

\* GetUserName over several users: those the wrapper has cached are not asked
\* for; a user the directory does not know is UNKNOWN when the plugin says
\* NotFound, and an error otherwise.
Resolves(u) == u \in cache \cup directory.people \/ plugin.saysNotFound

GetUserName(u) == IF u \in cache \cup directory.people THEN u ELSE UnknownUserName

Names(us) == {GetUserName(u) : u \in us}

\* V1.GetUser caches the users it was told of.
Caches(us) == cache' = cache \cup (us \intersect directory.people)

\* A lookup that fails has cached those it had asked for before.
LookupFails(us) ==
    /\ \/ \E u \in us : ~Resolves(u) /\ UNCHANGED faults
       \/ us # {} /\ Fault
    /\ \E before \in SUBSET us : Caches(before)

LookupSucceeds(us) ==
    /\ \A u \in us : Resolves(u)
    /\ Caches(us)
    /\ UNCHANGED faults

---------------------------------------------------------------------------
(* Eligibility                                                             *)

\* queryGroupMembersFromIAM: GetGroupByID hides the groups that are not in the
\* caller's token, and a group it does not find is skipped.
queryGroupMembersFromIAM(gs, claims) == UsersOf(gs \intersect claims)

\* filterEligibleApprovers takes a nil list of eligible users for no
\* restriction: everybody counts.
MutantNoRestriction == {}

NoRestriction == Users

\* getEligibleUserIDsForWorkflow: nil without approver groups.
getEligibleUserIDsForWorkflow(claims) ==
    IF wf.groups = {} THEN {NoRestriction} ELSE queryGroupMembersFromIAM(wf.groups, claims)

\* resolveActorApproverGroupIDs and validateActorGroupMembership.
validateActorGroupMembership(claims) == wf.groups # {} => wf.groups \intersect claims # {}

ValidateActor(u, claims, transition) ==
    /\ validateActorGroupMembership(claims)
    /\ transition \in {"CONFIRM", "REVOKE"} => u = Initiator
    /\ transition \in {"APPROVE", "REJECT"} => u \in Approvers(wf.ballot)

\* checkApproverEligibility asks the directory again.
MutantEligibility(u, claims, eligible) == TRUE

checkApproverEligibility(u, claims, eligible) == wf.groups # {} => u \in eligible

\* Lifecycle.CheckInsufficientApprovers over the approvers still eligible.
MutantInsufficient(ballot, eligible) ==
    LET c == calculateVoteCounts(ballot, Approvers(ballot))
    IN  c.approvals + c.pending < MinimumApprovals

CheckInsufficientApprovers(ballot, eligible) ==
    LET c == calculateVoteCounts(ballot, Approvers(ballot) \intersect eligible)
    IN  c.approvals + c.pending < MinimumApprovals

checkInsufficientApprovers(eligible) ==
    wf.groups # {} /\ CheckInsufficientApprovers(wf.ballot, eligible)

\* checkWorkflowEligibility, with checkInitiatorIneligible.
checkWorkflowEligibility(eligible) ==
    [initiatorIneligible   |-> wf.groups # {} /\ Initiator \notin eligible,
     insufficientApprovers |-> checkInsufficientApprovers(eligible)]

\* The remarks an answer makes of it.
buildEligibilityAdditionalInfo(eligibility) ==
    {i \in {"INITIATOR_INELIGIBLE", "INSUFFICIENT_APPROVERS"} :
       IF i = "INITIATOR_INELIGIBLE" THEN eligibility.initiatorIneligible
       ELSE eligibility.insufficientApprovers}

\* AvailableBusinessUserTransitions, for the state the request has read.
getInitiatorAvailableActions(state) ==
    CASE state = "WAIT_APPROVAL"     -> {"REVOKE"}
      [] state = "WAIT_CONFIRMATION" -> {"REVOKE", "CONFIRM"}
      [] OTHER                       -> {}

getApproverAvailableActions(u, state) ==
    IF state = "WAIT_APPROVAL" /\ wf.ballot[u] = "pending" THEN {"APPROVE", "REJECT"} ELSE {}

AvailableBusinessUserTransitions(u, state) ==
    IF u = Initiator THEN getInitiatorAvailableActions(state)
                     ELSE getApproverAvailableActions(u, state)

---------------------------------------------------------------------------
(* Mails                                                                   *)

Decided(ballot) == {u \in Approvers(ballot) : ballot[u] # "pending"}

\* GetNotificationRecipients, as users whose names are looked up.
GetNotificationRecipients(transition) ==
    CASE transition = "CREATE"               -> Approvers(wf.ballot)
      [] transition \in {"APPROVE", "REJECT"} -> {Initiator}
      [] transition \in {"CONFIRM", "REVOKE"} -> Decided(wf.ballot)

\* Creator.CreateTask makes no mail of an approval that is not the last one;
\* `state` is that of the workflow as the request has it in memory.
MutantCreateTask(transition, state) == TRUE

CreateTask(transition, state) == transition = "APPROVE" => state = "WAIT_CONFIRMATION"

\* createWorkflowTransitionNotificationTask: no recipients, no mail; the body
\* names the initiator; what goes wrong is only logged.
createWorkflowTransitionNotificationTask(transition, state) ==
    LET to == Names(GetNotificationRecipients(transition))
    IN  IF to # {} /\ CreateTask(transition, state) /\ Resolves(Initiator)
        THEN {NoMail, [transition |-> transition, to |-> to]} ELSE {NoMail}

---------------------------------------------------------------------------
(* The auto-assign task                                                    *)

\* getApproversAndGroupsFromKeyConfigs: the members of the admin groups, the
\* initiator left out.
getApproversAndGroupsFromKeyConfigs == {users \ {Initiator} : users \in UsersOf(artifact)}

\* WorkflowProcessor.putWorkflowInFailedState, whatever the state is by then.
putWorkflowInFailedState == wf' = [wf EXCEPT !.state = "FAILED"] /\ task' = "done"

\* AutoAssignApprovers up to its commit: the approvers, their groups and the
\* CREATE transition, which needs enough approvers.
AutoAssignApprovers ==
    /\ task = "queued"
    /\ UNCHANGED <<plugin, directory, artifact, req, cache, last, changes>>
    /\ \/ \E users \in getApproversAndGroupsFromKeyConfigs :
            /\ UNCHANGED faults
            /\ IF CanTransition("CREATE", wf.state) /\ Cardinality(users) >= MinimumApprovals
               THEN /\ wf' = [state |-> Destination("CREATE"), groups |-> artifact,
                              ballot |-> [u \in Users |-> IF u \in users THEN "pending" ELSE "none"]]
                    /\ task' = "assigned"
               ELSE putWorkflowInFailedState
       \/ getApproversAndGroupsFromKeyConfigs = {} /\ UNCHANGED faults /\ putWorkflowInFailedState
       \/ Fault /\ putWorkflowInFailedState

\* The names of the approvers for the mail: an error fails the workflow that
\* has already begun to wait for approval.
NotifyApprovers ==
    /\ task = "assigned"
    /\ UNCHANGED <<plugin, directory, artifact, req, changes>>
    /\ LET to == GetNotificationRecipients("CREATE")
       IN  \/ /\ LookupSucceeds(to \cup {Initiator})
              /\ task' = "done"
              /\ \E mail \in createWorkflowTransitionNotificationTask("CREATE", "WAIT_APPROVAL") :
                   last' = [NoAnswer EXCEPT !.res = "ok", !.mail = mail]
              /\ UNCHANGED wf
           \/ LookupFails(to) /\ putWorkflowInFailedState /\ UNCHANGED last

---------------------------------------------------------------------------
(* Requests                                                                *)

\* The groups in a token: those of now, or those of when it was issued.
Claims(u) == {{g \in Groups : u \in directory.members[g]}, {g \in Groups : u \in Joined[g]}}

Answer(res) ==
    /\ req' = None
    /\ last' = [NoAnswer EXCEPT !.res = res]

\* The caller's token shows all approver groups and no group is larger than
\* what the directory returns for one request.
WholeView(claims) ==
    /\ wf.groups \subseteq claims
    /\ plugin.byUserList => \A g \in wf.groups : Cardinality(MemberOf({g})) <= PageSize

\* fetchEligibilityForVote: a vote goes on without the answer and then counts
\* everybody.  The first check of GetWorkflowByID makes the remarks of its
\* answer, or the remark that the check failed.  `truth` records who really
\* was a member, `whole` whether the caller could see it.
fetchEligibility(u, op, claims) ==
    LET asks == op = "GET" \/ (op \in {"APPROVE", "REJECT"} /\ wf.state = "WAIT_APPROVAL")
        Fetched(eligible, info) ==
            req' = [op |-> op, u |-> u, claims |-> claims, at |-> "apply", state |-> wf.state,
                    eligible |-> eligible,
                    info |-> IF op = "GET" THEN info ELSE {},
                    truth |-> MemberOf(wf.groups), whole |-> WholeView(claims)]
        Fails == Fetched(NoRestriction, {"WORKFLOW_ELIGIBILITY_CHECK_FAILED"})
    IN  \/ ~asks /\ Fetched(NoRestriction, {}) /\ UNCHANGED faults
        \/ /\ asks /\ UNCHANGED faults
           /\ IF getEligibleUserIDsForWorkflow(claims) = {} THEN Fails
              ELSE \E eligible \in getEligibleUserIDsForWorkflow(claims) :
                     Fetched(eligible, buildEligibilityAdditionalInfo(checkWorkflowEligibility(eligible)))
        \/ asks /\ wf.groups # {} /\ Fault /\ Fails

\* Only the initiator and the approvers find the workflow.
Begin(u, op) ==
    /\ req = None
    /\ op = "GET" => u \in Approvers(wf.ballot) \cup {Initiator}
    /\ \E claims \in Claims(u) : fetchEligibility(u, op, claims)
    /\ last' = NoAnswer
    /\ UNCHANGED <<plugin, directory, wf, artifact, task, cache, changes>>

\* The vote is written and counted; the transition follows when the score
\* allows it, and a rejection that has become certain is made right away
\* (attemptAutoReject).
Voted(ballot, eligible, transition) ==
    LET after == CASE checkVotingScore(ballot, eligible, transition, MinimumApprovals) ->
                        Destination(transition)
                   [] checkVotingScore(ballot, eligible, "REJECT", MinimumApprovals) ->
                        Destination("REJECT")
                   [] OTHER -> wf.state
    IN  wf' = [wf EXCEPT !.state = after, !.ballot = ballot]

\* recordTransitionInDB and ValidateAndApplyTransition for an approver.
ApplyVote ==
    LET u == req.u
        decision == IF req.op = "APPROVE" THEN "approved" ELSE "rejected"
    IN  /\ CanTransition(req.op, wf.state)
        /\ \E eligible \in getEligibleUserIDsForWorkflow(req.claims) :
             checkApproverEligibility(u, req.claims, eligible)
        /\ Voted([wf.ballot EXCEPT ![u] = decision], req.eligible, req.op)

\* For the initiator: CONFIRM runs the action, which works out or not.
ApplyDecision ==
    /\ CanTransition(req.op, wf.state)
    /\ IF req.op = "REVOKE" THEN wf' = [wf EXCEPT !.state = "REVOKED"]
       ELSE \E state \in {"SUCCESSFUL", "FAILED"} : wf' = [wf EXCEPT !.state = state]

\* What makes applyTransition return an error: nothing is written.  Whether
\* the voter is found depends on the page the directory returns.
Refused ==
    \/ ~ValidateActor(req.u, req.claims, req.op)
    \/ ~CanTransition(req.op, wf.state)
    \/ /\ req.op \in {"APPROVE", "REJECT"}
       /\ \/ getEligibleUserIDsForWorkflow(req.claims) = {}
          \/ \E eligible \in getEligibleUserIDsForWorkflow(req.claims) :
               ~checkApproverEligibility(req.u, req.claims, eligible)

applyTransition ==
    /\ req # None /\ req.op \in Transitions /\ req.at = "apply"
    /\ UNCHANGED <<plugin, directory, artifact, task, cache, changes>>
    /\ \/ /\ ValidateActor(req.u, req.claims, req.op)
          /\ IF req.op \in {"APPROVE", "REJECT"} THEN ApplyVote ELSE ApplyDecision
          /\ req' = [req EXCEPT !.at = "notify", !.state = wf'.state]
          /\ UNCHANGED <<last, faults>>
       \/ Refused /\ Answer("refused") /\ UNCHANGED <<wf, faults>>
       \/ /\ req.op \in {"APPROVE", "REJECT"} /\ wf.groups # {}
          /\ Fault /\ Answer("refused") /\ UNCHANGED wf

\* TransitionWorkflow after its commit: the recipients, the mail, and the
\* initiator's name for the answer.  A name that cannot be had turns the
\* answer into an error, of a transition that is committed.
TransitionWorkflow ==
    LET to == GetNotificationRecipients(req.op)
    IN  /\ req # None /\ req.op \in Transitions /\ req.at = "notify"
        /\ req' = None
        /\ UNCHANGED <<plugin, directory, wf, artifact, task, changes>>
        /\ \/ /\ LookupSucceeds(to \cup {Initiator})
              /\ \E mail \in createWorkflowTransitionNotificationTask(req.op, req.state) :
                   last' = [NoAnswer EXCEPT !.res = "ok", !.mail = mail]
           \/ LookupFails(to \cup {Initiator}) /\ Answer("error")

\* GetWorkflowByID of the controller: ListWorkflowApprovers checks eligibility
\* again and fails with it, the names of the approvers who voted and of the
\* initiator are looked up, and the answer has what the first check found.
GetWorkflowByID ==
    LET names == Decided(wf.ballot) \cup {Initiator}
    IN  /\ req # None /\ req.op = "GET"
        /\ UNCHANGED <<plugin, directory, wf, artifact, task, changes>>
        /\ \/ /\ getEligibleUserIDsForWorkflow(req.claims) # {}
              /\ LookupSucceeds(names)
              /\ req' = None
              /\ last' = [NoAnswer EXCEPT !.op = "GET", !.u = req.u, !.claims = req.claims,
                            !.res = "ok", !.state = req.state, !.truth = req.truth,
                            !.offered = AvailableBusinessUserTransitions(req.u, req.state),
                            !.info = req.info]
           \/ /\ getEligibleUserIDsForWorkflow(req.claims) = {}
              /\ Answer("error") /\ UNCHANGED <<cache, faults>>
           \/ LookupFails(names) /\ Answer("error")

---------------------------------------------------------------------------
(* The directory and the groups change                                     *)

Changes ==
    /\ changes < MaxChanges
    /\ changes' = changes + 1
    /\ last' = NoAnswer
    /\ UNCHANGED <<plugin, artifact, task, req, cache, faults>>

Leaves(u, g) ==
    /\ u \in directory.members[g]
    /\ directory' = [directory EXCEPT !.members[g] = @ \ {u}]
    /\ UNCHANGED wf /\ Changes

Joins(u, g) ==
    /\ u \in directory.people \ directory.members[g]
    /\ directory' = [directory EXCEPT !.members[g] = @ \cup {u}]
    /\ UNCHANGED wf /\ Changes

\* A person is removed from the directory; the groups may still list them.
PersonDeleted(u) ==
    /\ u \in directory.people
    /\ directory' = [directory EXCEPT !.people = @ \ {u}]
    /\ UNCHANGED wf /\ Changes

DirectoryGroupDeleted(g) ==
    /\ g \in directory.groups
    /\ directory' = [directory EXCEPT !.groups = @ \ {g}, !.members[g] = {}]
    /\ UNCHANGED wf /\ Changes

\* DeleteGroupByID of a group that is no longer an admin group: the foreign key
\* of workflow_approver_groups cascades.
DeleteGroupByID(g) ==
    /\ g \in wf.groups
    /\ wf' = [wf EXCEPT !.groups = @ \ {g}]
    /\ UNCHANGED directory /\ Changes

\* The time to live of a cached user is over.
Expires(u) ==
    /\ u \in cache
    /\ cache' = cache \ {u}
    /\ last' = NoAnswer
    /\ UNCHANGED <<plugin, directory, wf, artifact, task, req, changes, faults>>

---------------------------------------------------------------------------
Init ==
    /\ plugin \in Plugins
    /\ directory = [people |-> Users, groups |-> Groups, members |-> Joined]
    /\ artifact \in SUBSET Groups \ {{}}
    /\ wf = [state |-> "INITIAL", groups |-> {}, ballot |-> [u \in Users |-> "none"]]
    /\ task = "queued" /\ req = None /\ cache = {} /\ last = NoAnswer
    /\ changes = 0 /\ faults = 0

Next ==
    \/ AutoAssignApprovers
    \/ NotifyApprovers
    \/ \E u \in Users, op \in Transitions \cup {"GET"} : Begin(u, op)
    \/ applyTransition
    \/ TransitionWorkflow
    \/ GetWorkflowByID
    \/ \E u \in Users, g \in Groups : Leaves(u, g) \/ Joins(u, g)
    \/ \E u \in Users : PersonDeleted(u) \/ Expires(u)
    \/ \E g \in Groups : DirectoryGroupDeleted(g) \/ DeleteGroupByID(g)

Spec == Init /\ [][Next]_vars

---------------------------------------------------------------------------
TypeOK ==
    /\ plugin \in Plugins /\ task \in {"queued", "assigned", "done"}
    /\ directory \in [people : SUBSET Users, groups : SUBSET Groups,
                      members : [Groups -> SUBSET Users]]
    /\ wf \in [state : WorkflowStates, groups : SUBSET artifact,
               ballot : [Users -> ApproverColumn]]
    /\ wf.ballot[Initiator] = "none"
    /\ artifact \in SUBSET Groups /\ cache \subseteq Users
    /\ changes \in 0..MaxChanges /\ faults \in 0..MaxFaults

\* checkApproverEligibility: a decision is only ever recorded for a user who is
\* a member of an approver group when it is recorded, however old the token is
\* and whatever became of the first query; unless no approver group is left.
OnlyMembersVote ==
    [][\A u \in Users :
         wf'.ballot[u] \in {"approved", "rejected"} /\ wf'.ballot[u] # wf.ballot[u] =>
           /\ u # Initiator
           /\ wf.groups # {} => u \in UNION {directory.members[g] : g \in wf.groups}]_vars

\* attemptAutoReject "handles cases where approval becomes mathematically
\* impossible": a waiting workflow is only rejected when the votes cast and
\* all members who may still vote cannot reach the minimum.  It takes a voter
\* who sees all groups.
RejectedIsHopeless ==
    [][wf.state = "WAIT_APPROVAL" /\ wf'.state = "REJECTED" /\ req.whole =>
         LET c == calculateVoteCounts(wf'.ballot,
                                      filterEligibleApprovers(wf'.ballot, req.truth))
         IN  Score(c) + c.pending < MinimumApprovals]_vars

\* The answer to a GET can be relied on, as long as nothing changes.  If it
\* warns of nothing and nobody has rejected, the members who have not voted and
\* the approvals there are suffice (CheckInsufficientApprovers against the
\* count that decides).  A transition that was offered is accepted from the
\* same token, provided it shows an approver group and the workflow is still in
\* the state shown.
AnswerIsReliable ==
    /\ TypeOK
    /\ last.op = "GET" /\ last.info = {} /\ {last.state, wf.state} = {"WAIT_APPROVAL"}
         /\ wf.groups # {} /\ Having(wf.ballot, Users, "rejected") = {} =>
           LET c == calculateVoteCounts(wf.ballot, filterEligibleApprovers(wf.ballot, last.truth))
           IN  c.approvals + c.pending >= MinimumApprovals
    /\ last.op = "GET" /\ last.state = wf.state /\ validateActorGroupMembership(last.claims) =>
         \A t \in last.offered : CanTransition(t, wf.state) /\ ValidateActor(last.u, last.claims, t)

\* A mail tells what has happened: that approval is asked for when it is, that
\* a workflow is approved, confirmed or revoked when it is, and that there are
\* rejections when there are.  Voters are told of what became of their vote.
MailIsTrue ==
    LET m == last.mail IN
    /\ m.transition = "CREATE" =>
         wf.state # "INITIAL" /\ m.to \subseteq Approvers(wf.ballot) \cup {UnknownUserName}
    /\ m.transition = "APPROVE" => wf.state = "WAIT_CONFIRMATION" \/ wf.state = "FAILED"
    /\ m.transition = "REJECT" => Having(wf.ballot, Users, "rejected") # {}
    /\ m.transition = "CONFIRM" => wf.state \in {"SUCCESSFUL", "FAILED"}
    /\ m.transition = "REVOKE" => wf.state \in {"REVOKED", "FAILED"}
    /\ m.transition \in {"CONFIRM", "REVOKE"} =>
         m.to \subseteq Decided(wf.ballot) \cup {UnknownUserName}
=============================================================================
