------------------------------- MODULE Voting -------------------------------
(***************************************************************************)
(* The workflow state machine and the target-score vote of                 *)
(* internal/workflow/workflow.go, as operators without state.              *)
(*                                                                         *)
(* A ballot is the set of workflow_approvers rows of one workflow: a       *)
(* function from users to the Approved column, which is NULL until the     *)
(* user votes.  Users without a row map to "none".                         *)
(***************************************************************************)
EXTENDS Integers, FiniteSets

WorkflowNonTerminalStates ==
    {"INITIAL", "WAIT_APPROVAL", "WAIT_CONFIRMATION", "EXECUTING"}
WorkflowTerminalStates ==
    {"REVOKED", "REJECTED", "EXPIRED", "SUCCESSFUL", "FAILED"}
WorkflowStates == WorkflowNonTerminalStates \union WorkflowTerminalStates

ApproverColumn == {"none", "pending", "approved", "rejected"}

(* The fsm.Events table handed to fsm.NewFSM. *)
Event(name, src, dst) == [name |-> name, src |-> src, dst |-> dst]

MutantEvents ==
    { Event("CREATE",  {"INITIAL"}, "WAIT_APPROVAL"),
      Event("APPROVE", {"WAIT_APPROVAL"}, "WAIT_CONFIRMATION"),
      Event("REJECT",  {"WAIT_APPROVAL"}, "REJECTED"),
      Event("REVOKE",  {"WAIT_APPROVAL", "WAIT_CONFIRMATION"}, "REVOKED"),
      Event("CONFIRM", {"WAIT_CONFIRMATION"}, "EXECUTING"),
      Event("EXPIRE",  {"WAIT_APPROVAL", "EXECUTING"}, "EXPIRED"),
      Event("FAIL",    {"EXECUTING"}, "FAILED"),
      Event("EXECUTE", {"EXECUTING"}, "SUCCESSFUL") }

NewLifecycle ==
    { Event("CREATE",  {"INITIAL"}, "WAIT_APPROVAL"),
      Event("APPROVE", {"WAIT_APPROVAL"}, "WAIT_CONFIRMATION"),
      Event("REJECT",  {"WAIT_APPROVAL"}, "REJECTED"),
      Event("REVOKE",  {"WAIT_APPROVAL", "WAIT_CONFIRMATION"}, "REVOKED"),
      Event("CONFIRM", {"WAIT_CONFIRMATION"}, "EXECUTING"),
      Event("EXPIRE",  {"WAIT_APPROVAL", "WAIT_CONFIRMATION", "EXECUTING"},
                       "EXPIRED"),
      Event("FAIL",    {"EXECUTING"}, "FAILED"),
      Event("EXECUTE", {"EXECUTING"}, "SUCCESSFUL") }

(* StateMachine.Can and the state an event leads to. *)
CanTransition(transition, state) ==
    \E e \in NewLifecycle : e.name = transition /\ state \in e.src

Destination(transition) ==
    (CHOOSE e \in NewLifecycle : e.name = transition).dst

-----------------------------------------------------------------------------
(* Voting. *)

Approvers(ballot) == {u \in DOMAIN ballot : ballot[u] # "none"}

Having(ballot, users, decision) == {u \in users : ballot[u] = decision}

(* Eligible now, or already voted: a vote outlives its voter's membership. *)
filterEligibleApprovers(ballot, eligible) ==
    {u \in Approvers(ballot) : u \in eligible \/ ballot[u] # "pending"}

(* The rows are read after the actor's own decision was written in the same *)
(* transaction, so counting the actor's current vote and counting the row   *)
(* agree; `ballot` already holds it.                                        *)
calculateVoteCounts(ballot, counted) ==
    [ approvals  |-> Cardinality(Having(ballot, counted, "approved")),
      rejections |-> Cardinality(Having(ballot, counted, "rejected")),
      pending    |-> Cardinality(Having(ballot, counted, "pending")) ]

Score(counts) == counts.approvals - counts.rejections

MutantShouldTransition(counts, transition, min) ==
    CASE transition = "APPROVE" -> counts.approvals + counts.pending >= min
      [] transition = "REJECT"  -> Score(counts) + counts.pending < min

MutantStrictScore(counts, transition, min) ==
    CASE transition = "APPROVE" -> Score(counts) > min
      [] transition = "REJECT"  -> Score(counts) + counts.pending < min

shouldTransition(counts, transition, min) ==
    CASE transition = "APPROVE" -> Score(counts) >= min
      [] transition = "REJECT"  -> Score(counts) + counts.pending < min

checkVotingScore(ballot, eligible, transition, min) ==
    shouldTransition(
        calculateVoteCounts(ballot, filterEligibleApprovers(ballot, eligible)),
        transition, min)
=============================================================================
