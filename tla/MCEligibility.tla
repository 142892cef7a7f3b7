--------------------------- MODULE MCEligibility ---------------------------
(* A small instance of Eligibility.                                        *)
EXTENDS Eligibility, TLC

CONSTANTS i, a, b, g1, g2

(* Both approvers are in the first group, one of them in the second as well. *)
TwoGroups == g1 :> {i, a, b} @@ g2 :> {i, b}

(* Searching users by group, and reading the members of the group. *)
BothPlugins == { [byUserList |-> TRUE, saysNotFound |-> TRUE],
                 [byUserList |-> FALSE, saysNotFound |-> FALSE] }

(* One change of the directory or of the groups, or one failing call. *)
OneDisturbance == changes + faults <= 1
=============================================================================
