-------------------------- MODULE WorkflowApproval --------------------------
(***************************************************************************)
(* The approval workflow of internal/manager/workflow.go and the tasks     *)
(* that drive it (internal/async/tasks/workflow.go and                     *)
(* tasks/tenant/workflow_expiry.go, workflow_cleanup.go).                  *)
(*                                                                         *)
(* Every operation reads the workflow row first, outside of any            *)
(* transaction, evaluates its checks inside a READ COMMITTED transaction   *)
(* against that copy, and writes when the transaction commits.  These are  *)
(* three steps of a slot, and the steps of different slots interleave: a   *)
(* client slot is an API request, a worker slot an asynq task.             *)
(***************************************************************************)
EXTENDS Voting

CONSTANTS
    Users,          \* IAM users that are or were in the approver groups
    Workflows,      \* workflow identifiers, never reused
    Artifacts,      \* keys and systems a workflow can be about
    Clients,        \* API requests in flight
    Workers,        \* asynq tasks in flight
    Configs,        \* tenant workflow configurations in use
    None,           \* a value that is none of the above
    MaxExecutions,  \* bound on the executions of one workflow
    MaxAborts       \* bound on the transactions that are rolled back

Slots == Clients \union Workers

ASSUME FiniteAssumption == IsFiniteSet(Users)
ASSUME NoneAssumption == None \notin Users \union Workflows \union Artifacts
(* SetWorkflowConfig refuses MinimumApprovals < 2. *)
ASSUME ConfigAssumption == Configs \subseteq [enabled : BOOLEAN, min : Nat \ {0, 1}]
ASSUME BoundAssumption == MaxExecutions \in Nat /\ MaxAborts \in Nat

VARIABLES
    row,            \* the workflows table
    ballot,         \* the workflow_approvers table
    underWorkflow,  \* the UnderWorkflow column of the artifacts
    member,         \* users in the approver groups, as IAM answers now
    config,         \* the tenant's workflow configuration
    queue,          \* auto-assign tasks not acknowledged yet
    req,            \* what each slot is doing
    approvedBy,     \* history: who ever committed an approval
    executions,     \* history: how often the action of a workflow was run
    aborts          \* number of rolled back transactions

dbVars   == <<row, ballot, underWorkflow>>
histVars == <<approvedBy, executions>>
vars     == <<row, ballot, underWorkflow, member, config, queue, req,
              approvedBy, executions, aborts>>

(* "NONE": not created yet; "DELETED": removed by the retention task. *)
RowStates == WorkflowStates \union {"NONE", "DELETED"}
Exists(w) == row[w].state \in WorkflowStates

WorkflowRow ==
    [ state : RowStates, initiator : Users \union {None},
      artifact : Artifacts \union {None}, min : Nat ]

(* The State a transaction stores; "KEEP" leaves it alone. *)
Writes == WorkflowStates \union {"DELETED", "KEEP"}

(* The transitions users may ask for, and the ones only tasks perform. *)
UserOps == {"APPROVE", "REJECT", "CONFIRM", "REVOKE"}
TaskOps == {"EXPIRE", "CREATE", "CLEANUP"}

(* `snap` is the State of the row as read; `new`, `vote` and `clear` are the  *)
(* writes of the transaction: the State, the approver decision, and whether   *)
(* HandleTerminalWorkflow resets the flag.                                    *)
Request ==
    [ pc    : {"idle", "read", "tx"},
      op    : UserOps \union TaskOps \union {"NEW", "NONE"},
      w     : Workflows \union {None},
      actor : Users \union {None},
      snap  : RowStates,
      new   : Writes,
      vote  : ApproverColumn,
      clear : BOOLEAN,
      min   : Nat,
      art   : Artifacts \union {None} ]

IdleRequest ==
    [ pc |-> "idle", op |-> "NONE", w |-> None, actor |-> None, snap |-> "NONE",
      new |-> "KEEP", vote |-> "none", clear |-> FALSE, min |-> 0, art |-> None ]

(* Types of the tables, of the slots and of the history. *)
TypeOK ==
    /\ row \in [Workflows -> WorkflowRow]
    /\ ballot \in [Workflows -> [Users -> ApproverColumn]]
    /\ underWorkflow \in [Artifacts -> BOOLEAN]
    /\ member \in SUBSET Users
    /\ config \in Configs
    /\ queue \in SUBSET Workflows
    /\ req \in [Slots -> Request]
    /\ approvedBy \in [Workflows -> SUBSET Users]
    /\ executions \in [Workflows -> Nat]
    /\ aborts \in Nat

Init ==
    /\ row = [w \in Workflows |-> [state |-> "NONE", initiator |-> None,
                                   artifact |-> None, min |-> 0]]
    /\ ballot = [w \in Workflows |-> [u \in Users |-> "none"]]
    /\ underWorkflow = [a \in Artifacts |-> FALSE]
    /\ member = Users
    /\ config \in Configs
    /\ queue = {}
    /\ req = [s \in Slots |-> IdleRequest]
    /\ approvedBy = [w \in Workflows |-> {}]
    /\ executions = [w \in Workflows |-> 0]
    /\ aborts = 0

-----------------------------------------------------------------------------
(* CreateWorkflow: the checks run before the transaction that inserts.       *)

checkOngoingWorkflowForArtifact(a) ==
    \E w \in Workflows : /\ row[w].artifact = a
                         /\ row[w].state \in WorkflowNonTerminalStates

(* getApproversAndGroupsFromKeyConfigs: the group members but the initiator. *)
MutantCandidates(initiator) == member

CandidateApprovers(initiator) == member \ {initiator}

(* With workflows disabled checkWorkflow returns before any check. *)
checkWorkflow(a, u) ==
    config.enabled =>
        /\ ~checkOngoingWorkflowForArtifact(a)
        /\ Cardinality(CandidateApprovers(u)) >= config.min

CheckNewWorkflow(s, w, u, a) ==
    /\ req[s].pc = "idle"
    /\ row[w].state = "NONE"
    /\ \A t \in Slots : req[t].w # w
    /\ u \in member                 \* checkPermissionToCreateWorkflow
    /\ checkWorkflow(a, u)
    /\ req' = [req EXCEPT ![s] =
                 [IdleRequest EXCEPT !.pc = "tx", !.op = "NEW", !.w = w, !.actor = u,
                                     !.art = a, !.min = config.min]]
    /\ UNCHANGED <<dbVars, member, config, queue, histVars, aborts>>

(* The insert, handleNewWorkflow and the enqueued auto-assign task.  A task   *)
(* delivered before the commit finds no row and is retried, which changes     *)
(* nothing, so the queue holds it from the commit on.                         *)
CreateWorkflow(s) ==
    LET r == req[s] IN
    /\ r.pc = "tx" /\ r.op = "NEW"
    /\ row' = [row EXCEPT ![r.w] = [state |-> "INITIAL", initiator |-> r.actor,
                                    artifact |-> r.art, min |-> r.min]]
    /\ underWorkflow' = [underWorkflow EXCEPT ![r.art] = TRUE]
    /\ queue' = queue \union {r.w}
    /\ req' = [req EXCEPT ![s] = IdleRequest]
    /\ UNCHANGED <<ballot, member, config, histVars, aborts>>

-----------------------------------------------------------------------------
(* Reading the row: TransitionWorkflow for a user, the task handlers for the *)
(* worker.  `actor` is None for a task.                                      *)

ReadRow(s, op, w, u) ==
    /\ req[s].pc = "idle"
    /\ Exists(w)
    /\ req' = [req EXCEPT ![s] =
                 [IdleRequest EXCEPT !.pc = "read", !.op = op, !.w = w, !.actor = u,
                                     !.snap = row[w].state]]
    /\ UNCHANGED <<dbVars, member, config, queue, histVars, aborts>>

(* resolveActorApproverGroupIDs looks at the groups of the caller's token,   *)
(* which the gateway took from IAM when the request came in.  Without it, or *)
(* when ValidateActor refuses the caller, the request ends with an error.    *)
ValidateActor(op, w, u) ==
    IF op \in {"REVOKE", "CONFIRM"}
    THEN u = row[w].initiator
    ELSE ballot[w][u] # "none"

TransitionWorkflow(s, op, w, u) ==
    /\ u \in member
    /\ CanTransition(op, row[w].state)
    /\ ValidateActor(op, w, u)
    /\ op = "CONFIRM" => executions[w] < MaxExecutions
    /\ ReadRow(s, op, w, u)

(* ProcessTask of the expiry task: the row is due and WorkflowCanExpire.     *)
StartExpiry(s, w) ==
    /\ CanTransition("EXPIRE", row[w].state)
    /\ ReadRow(s, "EXPIRE", w, None)

(* AutoAssignApprovers, for a delivery or a redelivery of the queued task.   *)
StartAutoAssign(s, w) ==
    /\ w \in queue
    /\ ReadRow(s, "CREATE", w, None)

(* CleanupTerminalWorkflows lists the terminal rows past the retention date. *)
StartCleanup(s, w) ==
    /\ row[w].state \in WorkflowTerminalStates
    /\ ReadRow(s, "CLEANUP", w, None)

-----------------------------------------------------------------------------
(* Inside the transaction: checks against the copy of the row and the rows   *)
(* committed so far, and the writes the transaction will make.               *)

Evaluated(s, new, vote, clear) ==
    req' = [req EXCEPT ![s].pc = "tx", ![s].new = new, ![s].vote = vote,
                       ![s].clear = clear]

Decision(op) == IF op = "APPROVE" THEN "approved" ELSE "rejected"

(* ApplyTransition of the vote, HandleTerminalWorkflow, attemptAutoReject: an *)
(* automatic rejection comes after the flag was looked at.                    *)
VoteOutcome(after, eligible, op, min) ==
    CASE checkVotingScore(after, eligible, op, min) ->
             [new   |-> Destination(op),
              clear |-> Destination(op) \in WorkflowTerminalStates]
      [] /\ ~checkVotingScore(after, eligible, op, min)
         /\ checkVotingScore(after, eligible, "REJECT", min) ->
             [new |-> "REJECTED", clear |-> FALSE]
      [] OTHER -> [new |-> "KEEP", clear |-> FALSE]

(* `eligible` is what fetchEligibilityForVote got from IAM; when that call   *)
(* fails it counts every approver.  fetchAndValidateApprover asks IAM again  *)
(* and refuses a voter who left the groups.                                  *)
EvaluateVote(s) ==
    LET r     == req[s]
        after == [ballot[r.w] EXCEPT ![r.actor] = Decision(r.op)]
    IN  /\ r.pc = "read" /\ r.op \in {"APPROVE", "REJECT"}
        /\ ballot[r.w][r.actor] # "none"
        /\ r.actor \in member
        /\ \E eligible \in {member, Users} :
             LET out == VoteOutcome(after, eligible, r.op, row[r.w].min)
             IN  Evaluated(s, out.new, Decision(r.op), out.clear)
        /\ UNCHANGED <<dbVars, member, config, queue, histVars, aborts>>

(* CONFIRM runs the action (transitionExecute) before anything is stored:    *)
(* its calls to providers and to the job queue are not undone by a rollback. *)
MutantConfirm(s) ==
    /\ req[s].pc = "read" /\ req[s].op = "CONFIRM"
    /\ executions' = [executions EXCEPT ![req[s].w] = @ + 1]
    /\ Evaluated(s, "KEEP", "none", FALSE)
    /\ UNCHANGED <<dbVars, member, config, queue, approvedBy, aborts>>

EvaluateConfirm(s) ==
    LET r == req[s] IN
    /\ r.pc = "read" /\ r.op = "CONFIRM"
    /\ executions' = [executions EXCEPT ![r.w] = @ + 1]
    /\ \E result \in {"EXECUTE", "FAIL"} :
         Evaluated(s, Destination(result), "none", TRUE)
    /\ UNCHANGED <<dbVars, member, config, queue, approvedBy, aborts>>

(* REVOKE, ExpireWorkflow and the deletion have no further check. *)
EvaluateRevoke(s) ==
    /\ req[s].pc = "read" /\ req[s].op = "REVOKE"
    /\ Evaluated(s, Destination("REVOKE"), "none", TRUE)
    /\ UNCHANGED <<dbVars, member, config, queue, histVars, aborts>>

ExpireWorkflow(s) ==
    /\ req[s].pc = "read" /\ req[s].op = "EXPIRE"
    /\ Evaluated(s, Destination("EXPIRE"), "none", TRUE)
    /\ UNCHANGED <<dbVars, member, config, queue, histVars, aborts>>

CleanupTerminalWorkflows(s) ==
    /\ req[s].pc = "read" /\ req[s].op = "CLEANUP"
    /\ Evaluated(s, "DELETED", "none", FALSE)
    /\ UNCHANGED <<dbVars, member, config, queue, histVars, aborts>>

(* One committed transaction of TransitionWorkflow, ExpireWorkflow or the     *)
(* retention task.  Patch on a row deleted meanwhile changes nothing, but     *)
(* HandleTerminalWorkflow still resets the flag.                              *)
Commit(s) ==
    LET r == req[s] IN
    /\ r.pc = "tx" /\ r.op \in UserOps \union {"EXPIRE", "CLEANUP"}
    /\ row' = IF Exists(r.w) /\ r.new # "KEEP"
              THEN [row EXCEPT ![r.w].state = r.new] ELSE row
    /\ ballot' = CASE r.new = "DELETED" ->
                        [ballot EXCEPT ![r.w] = [u \in Users |-> "none"]]
                   [] r.new # "DELETED" /\ Exists(r.w) /\ r.vote # "none" ->
                        [ballot EXCEPT ![r.w][r.actor] = r.vote]
                   [] OTHER -> ballot
    /\ approvedBy' = IF Exists(r.w) /\ r.vote = "approved"
                     THEN [approvedBy EXCEPT ![r.w] = @ \union {r.actor}]
                     ELSE approvedBy
    /\ underWorkflow' = IF r.clear
                        THEN [underWorkflow EXCEPT ![row[r.w].artifact] = FALSE]
                        ELSE underWorkflow
    /\ req' = [req EXCEPT ![s] = IdleRequest]
    /\ UNCHANGED <<member, config, queue, executions, aborts>>

(* The process dies, or the database or IAM fails: the transaction is rolled *)
(* back and the request or the delivery ends.  An auto-assign task stays     *)
(* queued and is delivered again.                                            *)
Abort(s) ==
    /\ req[s].pc # "idle"
    /\ aborts < MaxAborts
    /\ aborts' = aborts + 1
    /\ req' = [req EXCEPT ![s] = IdleRequest]
    /\ UNCHANGED <<dbVars, member, config, queue, histVars>>

(* The voter left the groups, or the rows are gone, since the request began. *)
RefuseVote(s) ==
    LET r == req[s] IN
    /\ r.pc = "read" /\ r.op \in {"APPROVE", "REJECT"}
    /\ r.actor \notin member \/ ballot[r.w][r.actor] = "none"
    /\ req' = [req EXCEPT ![s] = IdleRequest]
    /\ UNCHANGED <<dbVars, member, config, queue, histVars, aborts>>

-----------------------------------------------------------------------------
(* The auto-assign task.  IAM is asked before the transaction, which takes no *)
(* other decision on its own reads, so the two are one step.  Upserting an    *)
(* approver resets a decision already stored.                                 *)

AssignedBallot(w) ==
    [u \in Users |-> IF u \in CandidateApprovers(row[w].initiator)
                     THEN "pending" ELSE ballot[w][u]]

MutantAutoAssign(s) ==
    LET r == req[s] IN
    /\ r.pc = "read" /\ r.op = "CREATE"
    /\ Exists(r.w)
    /\ Cardinality(Approvers(AssignedBallot(r.w))) >= row[r.w].min
    /\ row' = [row EXCEPT ![r.w].state = Destination("CREATE")]
    /\ ballot' = [ballot EXCEPT ![r.w] = AssignedBallot(r.w)]
    /\ Evaluated(s, "KEEP", "none", FALSE)
    /\ UNCHANGED <<underWorkflow, member, config, queue, histVars, aborts>>

MutantAssignsMinimum(s) ==
    LET r == req[s] IN
    /\ r.pc = "read" /\ r.op = "CREATE"
    /\ CanTransition("CREATE", r.snap)
    /\ Exists(r.w)
    /\ Cardinality(Approvers(AssignedBallot(r.w))) >= row[r.w].min
    /\ row' = [row EXCEPT ![r.w].state = Destination("CREATE"), ![r.w].min = config.min]
    /\ ballot' = [ballot EXCEPT ![r.w] = AssignedBallot(r.w)]
    /\ Evaluated(s, "KEEP", "none", FALSE)
    /\ UNCHANGED <<underWorkflow, member, config, queue, histVars, aborts>>

AutoAssignApprovers(s) ==
    LET r == req[s] IN
    /\ r.pc = "read" /\ r.op = "CREATE"
    /\ CanTransition("CREATE", r.snap)
    /\ Exists(r.w)
    /\ Cardinality(Approvers(AssignedBallot(r.w))) >= row[r.w].min
    /\ row' = [row EXCEPT ![r.w].state = Destination("CREATE")]
    /\ ballot' = [ballot EXCEPT ![r.w] = AssignedBallot(r.w)]
    /\ Evaluated(s, "KEEP", "none", FALSE)
    /\ UNCHANGED <<underWorkflow, member, config, queue, histVars, aborts>>

(* Any error, before the transaction, in it, or in the notification after it. *)
(* The row is then in whatever state others left it in.                       *)
AutoAssignError(s) ==
    LET r == req[s] IN
    /\ r.op = "CREATE" /\ r.new = "KEEP"
    /\ Evaluated(s, "FAILED", "none", TRUE)
    /\ UNCHANGED <<dbVars, member, config, queue, histVars, aborts>>

(* asynq acknowledges a task whose handler returned nil. *)
AckAutoAssign(s) ==
    LET r == req[s] IN
    /\ r.pc = "tx" /\ r.op = "CREATE" /\ r.new = "KEEP"
    /\ queue' = queue \ {r.w}
    /\ req' = [req EXCEPT ![s] = IdleRequest]
    /\ UNCHANGED <<dbVars, member, config, histVars, aborts>>

(* putWorkflowInFailedState writes FAILED over any state and resets the flag. *)
(* The handler returns the error, so the task is retried, or archived when    *)
(* its retries are used up.                                                   *)
putWorkflowInFailedState(s) ==
    LET r == req[s] IN
    /\ r.op = "CREATE" /\ r.new = "FAILED"
    /\ \/ /\ Exists(r.w)
          /\ row' = [row EXCEPT ![r.w].state = "FAILED"]
          /\ underWorkflow' = [underWorkflow EXCEPT ![row[r.w].artifact] = FALSE]
       \/ ~Exists(r.w) /\ UNCHANGED <<row, underWorkflow>>
    /\ queue' \in {queue, queue \ {r.w}}
    /\ req' = [req EXCEPT ![s] = IdleRequest]
    /\ UNCHANGED <<ballot, member, config, histVars, aborts>>

-----------------------------------------------------------------------------
(* The environment: IAM membership (external) and the tenant configuration.  *)

ChangeMembership ==
    /\ \E u \in Users : member' \in {member \union {u}, member \ {u}}
    /\ UNCHANGED <<dbVars, config, queue, req, histVars, aborts>>

SetWorkflowConfig ==
    /\ config' \in Configs
    /\ UNCHANGED <<dbVars, member, queue, req, histVars, aborts>>

ClientStep(s) ==
    \/ \E w \in Workflows, u \in Users :
         \/ \E a \in Artifacts : CheckNewWorkflow(s, w, u, a)
         \/ \E op \in UserOps : TransitionWorkflow(s, op, w, u)
    \/ CreateWorkflow(s)

WorkerStep(s) ==
    \E w \in Workflows : \/ StartExpiry(s, w)
                         \/ StartAutoAssign(s, w)
                         \/ StartCleanup(s, w)

(* What a slot does once it has read the row. *)
Proceed(s) ==
    \/ EvaluateVote(s) \/ EvaluateConfirm(s) \/ EvaluateRevoke(s)
    \/ ExpireWorkflow(s) \/ CleanupTerminalWorkflows(s)
    \/ Commit(s) \/ RefuseVote(s)
    \/ AutoAssignApprovers(s) \/ AutoAssignError(s)
    \/ AckAutoAssign(s) \/ putWorkflowInFailedState(s)

Next ==
    \/ \E s \in Clients : ClientStep(s)
    \/ \E s \in Workers : WorkerStep(s)
    \/ \E s \in Slots : Proceed(s) \/ Abort(s)
    \/ ChangeMembership
    \/ SetWorkflowConfig

Spec == Init /\ [][Next]_vars

(* Tasks are scheduled again and again (the expiry task by the cron schedule, *)
(* the auto-assign task by asynq's retries), so a worker takes each of them   *)
(* up infinitely often; and a handler that runs finishes.                     *)
Fairness ==
    /\ \A s \in Slots : WF_vars(Proceed(s)) /\ WF_vars(CreateWorkflow(s))
    /\ \A s \in Workers, w \in Workflows :
         SF_vars(StartExpiry(s, w)) /\ SF_vars(StartAutoAssign(s, w))

FairSpec == Spec /\ Fairness

-----------------------------------------------------------------------------
(* Properties. *)

ballotCounts(w) == calculateVoteCounts(ballot[w], Approvers(ballot[w]))

Backed(w, approvers) ==
    /\ row[w].initiator \notin approvers
    /\ Cardinality(approvers) >= row[w].min

(* The action of a workflow (transitionExecute) is run, successfully or not,  *)
(* only after as many different users as MinimumApprovalCount demands, none   *)
(* of them the initiator, stored an approval: however requests, tasks, vote   *)
(* changes, stale rows and membership changes interleave.                     *)
DualControl ==
    \A w \in Workflows : executions[w] > 0 => Backed(w, approvedBy[w])

(* Why DualControl holds.  A workflow awaiting confirmation, one whose action *)
(* was run and one a CONFIRM request has read as confirmable are backed; so   *)
(* is an approval about to be committed, once its own vote is added.  Stored  *)
(* approvals are in the history, and neither the history nor the ballot ever  *)
(* has the initiator.  A row is only created over an identifier nobody uses,  *)
(* with a minimum some configuration asks for.                                *)
TableInv(w) ==
    /\ row[w].state = "WAIT_CONFIRMATION" => Backed(w, approvedBy[w])
    /\ executions[w] > 0 => Backed(w, approvedBy[w])
    /\ row[w].initiator \notin approvedBy[w]
    /\ \A u \in Users : /\ ballot[w][u] = "approved" => u \in approvedBy[w]
                        /\ u = row[w].initiator => ballot[w][u] = "none"
    /\ row[w].state # "NONE" => row[w].artifact \in Artifacts /\ row[w].initiator \in Users
    /\ row[w].state = "NONE" => /\ row[w].initiator = None /\ approvedBy[w] = {} /\ executions[w] = 0
                                /\ \A u \in Users : ballot[w][u] = "none"

RequestInv(r) ==
    /\ r.op = "NONE" => r = IdleRequest
    /\ r.op = "NEW" => /\ r.w \in Workflows /\ r.actor \in Users
                       /\ row[r.w].state = "NONE"
                       /\ r.art \in Artifacts /\ r.min \in {c.min : c \in Configs}
                       /\ r.vote = "none" /\ r.new = "KEEP"
    /\ r.op \in UserOps \union TaskOps => r.w \in Workflows /\ row[r.w].state # "NONE"
    /\ r.op \in {"APPROVE", "REJECT"} =>
         r.actor \in Users /\ r.actor # row[r.w].initiator
    /\ r.op = "CONFIRM" => Backed(r.w, approvedBy[r.w])
    /\ r.vote # "none" => r.op \in {"APPROVE", "REJECT"}
    /\ r.new = "WAIT_CONFIRMATION" =>
         /\ r.vote = "approved"
         /\ Backed(r.w, approvedBy[r.w] \union {r.actor})

NewIsAlone ==
    \A s, t \in Slots : s # t /\ req[s].op = "NEW" => req[t].w # req[s].w

(* The inductive invariant behind DualControl: every row and every request in *)
(* flight keeps the evidence of the approvals that CONFIRM relies on.         *)
IndInv ==
    /\ TypeOK
    /\ \A w \in Workflows : TableInv(w)
    /\ \A s \in Slots : RequestInv(req[s])
    /\ NewIsAlone

(* What CMK promises about sensitive actions, and with what it is kept: who   *)
(* initiated a workflow, the minimum stored with it, the approvals ever       *)
(* stored and the executions.                                                 *)
Promise ==
    INSTANCE FourEyes WITH
        Actions    <- Workflows,
        Quotas     <- {c.min : c \in Configs},
        asker      <- [w \in Workflows |-> row[w].initiator],
        demanded   <- [w \in Workflows |-> row[w].min],
        consents   <- approvedBy,
        carriedOut <- executions

(* Every step of every request and task is a step of FourEyes or changes      *)
(* nothing there: a workflow has one initiator and one minimum for good, no   *)
(* approval is the initiator's, and transitionExecute is only reached with    *)
(* the minimum of approvals at that moment.                                   *)
KeepsPromise == Promise!Spec

(* When requests do not overlap, the stored state says what the stored votes  *)
(* say: WAIT_APPROVAL means neither side has won (the score is below the      *)
(* minimum and the pending votes can still lift it), WAIT_CONFIRMATION means  *)
(* the approvals have won.  checkVotingScore decides on filtered votes and    *)
(* the property is about all of them.                                         *)
StateFollowsVotes ==
    \A w \in Workflows :
        LET c == ballotCounts(w) IN
        /\ row[w].state = "WAIT_APPROVAL" =>
             Score(c) < row[w].min /\ row[w].min <= Score(c) + c.pending
        /\ row[w].state = "WAIT_CONFIRMATION" => Score(c) >= row[w].min

(* When requests do not overlap, the action of a workflow is run once, plus   *)
(* at most once for every transaction lost after the action had been run      *)
(* (EvaluateConfirm before Commit).                                           *)
ExecutedOnce ==
    \A w \in Workflows : executions[w] <= 1 + aborts

(* When requests do not overlap, a workflow that is over stays over: no vote, *)
(* confirmation, revocation or task brings it back to a waiting state.        *)
TerminalIsFinal ==
    [][\A w \in Workflows : row[w].state \in WorkflowTerminalStates =>
            row'[w].state \in WorkflowTerminalStates \union {"DELETED"}]_vars

(* Why these three hold when requests do not overlap.  While a slot works on  *)
(* a workflow the row stays as the slot read it, and what it is about to      *)
(* write follows from the stored votes with its own one added.                *)
Undecided(b, min) ==
    LET c == calculateVoteCounts(b, Approvers(b)) IN
    Score(c) < min /\ min <= Score(c) + c.pending

Won(b, min) == Score(calculateVoteCounts(b, Approvers(b))) >= min

Confirming(w) == \E s \in Slots : req[s].w = w /\ req[s].op = "CONFIRM" /\ req[s].pc = "tx"

SerialTable(w) ==
    /\ row[w].state # "NONE" => row[w].min >= 2
    /\ row[w].state = "INITIAL" => \A u \in Users : ballot[w][u] = "none"
    /\ row[w].state = "WAIT_APPROVAL" => Undecided(ballot[w], row[w].min)
    /\ row[w].state = "WAIT_CONFIRMATION" => Won(ballot[w], row[w].min)
    /\ executions[w] <= 1 + aborts
    /\ row[w].state \in WorkflowNonTerminalStates /\ ~Confirming(w) => executions[w] <= aborts

SerialRequest(r) ==
    /\ r.pc = "idle" => r.op = "NONE"
    /\ r.op \in UserOps \union {"EXPIRE"} => CanTransition(r.op, row[r.w].state)
    /\ r.op = "CREATE" => /\ r.pc = "read" => row[r.w].state = r.snap
                          /\ r.new \in {"KEEP", "FAILED"}
    /\ r.op = "CLEANUP" => row[r.w].state \in WorkflowTerminalStates
    /\ r.pc = "read" /\ r.op # "CREATE" => r.new = "KEEP" /\ r.vote = "none"
    /\ r.pc = "tx" =>
         /\ r.op \in {"APPROVE", "REJECT"} =>
              LET after == [ballot[r.w] EXCEPT ![r.actor] = r.vote] IN
              /\ r.vote # "none"
              /\ r.new \in {"KEEP", "WAIT_CONFIRMATION", "REJECTED"}
              /\ r.new = "KEEP" => Undecided(after, row[r.w].min)
              /\ r.new = "WAIT_CONFIRMATION" => Won(after, row[r.w].min)
         /\ r.op \in {"CONFIRM", "REVOKE", "EXPIRE"} => r.new \in WorkflowTerminalStates
         /\ r.op = "CLEANUP" => r.new = "DELETED"

SerialInv ==
    /\ \A w \in Workflows : SerialTable(w)
    /\ \A s \in Slots : SerialRequest(req[s])

Settled(w) == row[w].state \in WorkflowTerminalStates \union {"DELETED"}

(* Every workflow that is created is over for good at some point, whatever    *)
(* requests race with the expiry task: a stale write may reopen it, but only  *)
(* finitely often.                                                            *)
EventuallySettled ==
    \A w \in Workflows : row[w].state # "NONE" ~> []Settled(w)
=============================================================================
