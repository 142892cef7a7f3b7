------------------------- MODULE MCWorkflowApproval -------------------------
(* Instances of WorkflowApproval for TLC. *)
EXTENDS WorkflowApproval, TLC

(* The users are interchangeable, and so are the requests in flight. *)
Symmetric == Permutations(Users) \union Permutations(Clients)

(* A tenant that changes its minimum. *)
EnabledTwoOrThree == {[enabled |-> TRUE, min |-> 2], [enabled |-> TRUE, min |-> 3]}
=============================================================================
