----------------------- MODULE WorkflowApprovalProofs -----------------------
(***************************************************************************)
(* Proofs about WorkflowApproval.  DualControl holds for any number of     *)
(* users, workflows and overlapping requests (IndInv); the specification   *)
(* implements FourEyes; and what holds when requests do not overlap        *)
(* (SerialInv).                                                            *)
(***************************************************************************)
EXTENDS WorkflowApproval, FiniteSetTheorems, TLAPS

-----------------------------------------------------------------------------
(* The state machine table. *)

(* The transition called t leads to d when the table has an event of that   *)
(* name and every event of that name leads to d.                            *)
LEMMA DestinationIs ==
    ASSUME NEW t, NEW d,
           \E e \in NewLifecycle : e.name = t,
           \A e \in NewLifecycle : e.name = t => e.dst = d
    PROVE  Destination(t) = d
<1> DEFINE c == CHOOSE e \in NewLifecycle : e.name = t
<1>1. c \in NewLifecycle /\ c.name = t
  BY Zenon
<1> QED BY <1>1, Zenon DEF Destination

(* Where the transitions of NewLifecycle lead: each name occurs once.      *)
LEMMA Destinations ==
    /\ Destination("CREATE") = "WAIT_APPROVAL"
    /\ Destination("APPROVE") = "WAIT_CONFIRMATION"
    /\ Destination("REJECT") = "REJECTED"
    /\ Destination("REVOKE") = "REVOKED"
    /\ Destination("EXPIRE") = "EXPIRED"
    /\ Destination("FAIL") = "FAILED"
    /\ Destination("EXECUTE") = "SUCCESSFUL"
<1>1. Destination("CREATE") = "WAIT_APPROVAL"
  <2>1. \E e \in NewLifecycle : e.name = "CREATE"
    BY Zenon DEF NewLifecycle, Event
  <2>2. \A e \in NewLifecycle : e.name = "CREATE" => e.dst = "WAIT_APPROVAL"
    BY DEF NewLifecycle, Event
  <2> QED BY <2>1, <2>2, DestinationIs, Zenon
<1>2. Destination("APPROVE") = "WAIT_CONFIRMATION"
  <2>1. \E e \in NewLifecycle : e.name = "APPROVE"
    BY Zenon DEF NewLifecycle, Event
  <2>2. \A e \in NewLifecycle : e.name = "APPROVE" => e.dst = "WAIT_CONFIRMATION"
    BY DEF NewLifecycle, Event
  <2> QED BY <2>1, <2>2, DestinationIs, Zenon
<1>3. Destination("REJECT") = "REJECTED"
  <2>1. \E e \in NewLifecycle : e.name = "REJECT"
    BY Zenon DEF NewLifecycle, Event
  <2>2. \A e \in NewLifecycle : e.name = "REJECT" => e.dst = "REJECTED"
    BY DEF NewLifecycle, Event
  <2> QED BY <2>1, <2>2, DestinationIs, Zenon
<1>4. Destination("REVOKE") = "REVOKED"
  <2>1. \E e \in NewLifecycle : e.name = "REVOKE"
    BY Zenon DEF NewLifecycle, Event
  <2>2. \A e \in NewLifecycle : e.name = "REVOKE" => e.dst = "REVOKED"
    BY DEF NewLifecycle, Event
  <2> QED BY <2>1, <2>2, DestinationIs, Zenon
<1>5. Destination("EXPIRE") = "EXPIRED"
  <2>1. \E e \in NewLifecycle : e.name = "EXPIRE"
    BY Zenon DEF NewLifecycle, Event
  <2>2. \A e \in NewLifecycle : e.name = "EXPIRE" => e.dst = "EXPIRED"
    BY DEF NewLifecycle, Event
  <2> QED BY <2>1, <2>2, DestinationIs, Zenon
<1>6. Destination("FAIL") = "FAILED"
  <2>1. \E e \in NewLifecycle : e.name = "FAIL"
    BY Zenon DEF NewLifecycle, Event
  <2>2. \A e \in NewLifecycle : e.name = "FAIL" => e.dst = "FAILED"
    BY DEF NewLifecycle, Event
  <2> QED BY <2>1, <2>2, DestinationIs, Zenon
<1>7. Destination("EXECUTE") = "SUCCESSFUL"
  <2>1. \E e \in NewLifecycle : e.name = "EXECUTE"
    BY Zenon DEF NewLifecycle, Event
  <2>2. \A e \in NewLifecycle : e.name = "EXECUTE" => e.dst = "SUCCESSFUL"
    BY DEF NewLifecycle, Event
  <2> QED BY <2>1, <2>2, DestinationIs, Zenon
<1> QED BY <1>1, <1>2, <1>3, <1>4, <1>5, <1>6, <1>7, Zenon

(* Only a workflow awaiting confirmation can be confirmed, and only an      *)
(* existing one can make any transition.                                    *)
LEMMA Sources ==
    ASSUME NEW transition, NEW state, CanTransition(transition, state)
    PROVE  /\ transition = "CONFIRM" => state = "WAIT_CONFIRMATION"
           /\ state # "NONE"
BY DEF CanTransition, NewLifecycle, Event

(* Counting: when the score of a ballot reaches the minimum, at least that  *)
(* many of its approvers approved, whoever is filtered out.                 *)
LEMMA ScoreNeedsApprovals ==
    ASSUME NEW b \in [Users -> ApproverColumn], NEW eligible, NEW min \in Nat,
           NEW S \in SUBSET Users,
           \A u \in Users : b[u] = "approved" => u \in S,
           checkVotingScore(b, eligible, "APPROVE", min)
    PROVE  Cardinality(S) >= min
<1> DEFINE counted == filterEligibleApprovers(b, eligible)
           yes == Having(b, counted, "approved")
           no == Having(b, counted, "rejected")
<1>1. counted \subseteq Users
  BY Zenon DEF filterEligibleApprovers, Approvers
<1>2. yes \subseteq S /\ S \subseteq Users /\ no \subseteq Users
  BY <1>1, Zenon DEF Having
<1>3. IsFiniteSet(S) /\ IsFiniteSet(no) /\ IsFiniteSet(yes)
  BY <1>2, FS_Subset, FiniteAssumption, Zenon
<1>4. Cardinality(yes) <= Cardinality(S)
  BY <1>2, <1>3, FS_Subset, Zenon
<1>5. Cardinality(yes) \in Nat /\ Cardinality(no) \in Nat /\ Cardinality(S) \in Nat
  BY <1>3, FS_CardinalityType, Zenon
<1>6. Cardinality(yes) - Cardinality(no) >= min
  BY Zenon DEF checkVotingScore, shouldTransition, calculateVoteCounts, Score
<1> QED BY <1>4, <1>5, <1>6

-----------------------------------------------------------------------------
(* What changes and what does not. *)

(* More approvals keep a workflow backed, as long as none is the initiator's. *)
LEMMA BackedGrows ==
    ASSUME TypeOK, NEW w \in Workflows, NEW A \in SUBSET Users, NEW B \in SUBSET Users,
           A \subseteq B, row[w].initiator \notin B, Backed(w, A)
    PROVE  Backed(w, B)
<1>1. IsFiniteSet(A) /\ IsFiniteSet(B)
  BY FS_Subset, FiniteAssumption, Zenon
<1>2. Cardinality(A) <= Cardinality(B)
  BY <1>1, FS_Subset, Zenon
<1>3. Cardinality(A) \in Nat /\ Cardinality(B) \in Nat
  BY <1>1, FS_CardinalityType, Zenon
<1>4. row[w].min \in Nat
  BY Zenon DEF TypeOK, WorkflowRow
<1> QED BY <1>2, <1>3, <1>4 DEF Backed

(* The fields of a slot that is free. *)
LEMMA IdleFields ==
    /\ IdleRequest.pc = "idle" /\ IdleRequest.op = "NONE"
    /\ IdleRequest.w = None /\ IdleRequest.actor = None
    /\ IdleRequest.vote = "none" /\ IdleRequest.new = "KEEP"
  BY Zenon DEF IdleRequest

(* A step that creates no row leaves what a row is about alone, and the       *)
(* history only grows.                                                        *)
RowsKept ==
    /\ \A w \in Workflows : /\ row'[w].initiator = row[w].initiator
                            /\ row'[w].min = row[w].min
                            /\ (row'[w].state = "NONE") <=> (row[w].state = "NONE")
    /\ \A w \in Workflows : /\ approvedBy[w] \subseteq approvedBy'[w]
                            /\ approvedBy'[w] \in SUBSET Users
                            /\ row[w].initiator \notin approvedBy'[w]

(* Such a step takes nothing from the requests in flight. *)
LEMMA RequestKept ==
    ASSUME TypeOK, RowsKept, NEW r \in Request, RequestInv(r)
    PROVE  RequestInv(r)'
<1>1. ASSUME r.op \in UserOps, Backed(r.w, approvedBy[r.w]), r.w \in Workflows
      PROVE  Backed(r.w, approvedBy[r.w])'
  <2>1. Backed(r.w, approvedBy'[r.w])
    <3>1. /\ approvedBy[r.w] \in SUBSET Users /\ approvedBy'[r.w] \in SUBSET Users
          /\ approvedBy[r.w] \subseteq approvedBy'[r.w]
          /\ row[r.w].initiator \notin approvedBy'[r.w]
      BY <1>1, Zenon DEF RowsKept, TypeOK
    <3> QED BY <1>1, <3>1, BackedGrows, Zenon
  <2> QED BY <1>1, <2>1, Zenon DEF Backed, RowsKept
<1>2. ASSUME r.w \in Workflows, r.actor \in Users, r.actor # row[r.w].initiator,
             Backed(r.w, approvedBy[r.w] \union {r.actor})
      PROVE  Backed(r.w, approvedBy[r.w] \union {r.actor})'
  <2> DEFINE A == approvedBy[r.w] \union {r.actor}
             B == approvedBy'[r.w] \union {r.actor}
  <2>0. A \in SUBSET Users /\ B \in SUBSET Users /\ A \subseteq B
    BY <1>2, Zenon DEF RowsKept, TypeOK
  <2>1. row[r.w].initiator \notin B
    BY <1>2, Zenon DEF RowsKept
  <2>2. Backed(r.w, B)
    BY <1>2, <2>0, <2>1, BackedGrows, Zenon
  <2> QED BY <1>2, <2>2, Zenon DEF Backed, RowsKept
<1>3. r.new = "WAIT_CONFIRMATION" =>
         r.w \in Workflows /\ r.actor \in Users /\ r.actor # row[r.w].initiator
  BY Zenon DEF RequestInv, UserOps, IdleRequest
<1> QED BY <1>1, <1>2, <1>3, Zenon DEF RequestInv, RowsKept, UserOps, TaskOps

(* A step that changes one request, and leaves rows, votes and history alone, *)
(* preserves the invariant if the new request is fine and, being the creation *)
(* of a workflow, has the identifier to itself.                               *)
LEMMA RequestStep ==
    ASSUME IndInv, NEW s \in Slots, NEW r \in Request,
           req' = [req EXCEPT ![s] = r],
           RequestInv(r),
           r.op = "NEW" => \A t \in Slots : req[t].w # r.w,
           UNCHANGED <<row, ballot, approvedBy, executions>>,
           underWorkflow' \in [Artifacts -> BOOLEAN], member' \in SUBSET Users,
           config' \in Configs, queue' \in SUBSET Workflows, aborts' \in Nat
    PROVE  IndInv'
<1>1. TypeOK'
  BY Zenon DEF IndInv, TypeOK
<1>2. \A w \in Workflows : TableInv(w)'
  BY Zenon DEF IndInv, TableInv, Backed
<1>3. RequestInv(r)'
  BY Zenon DEF RequestInv, Backed
<1>4. ASSUME NEW t \in Slots PROVE RequestInv(req[t])'
  <2>1. CASE t = s
    <3>1. req'[t] = r
      BY <2>1, Zenon DEF IndInv, TypeOK
    <3> QED BY <3>1, <1>3, Zenon
  <2>2. CASE t # s
    <3>1. req'[t] = req[t]
      BY <2>2, Zenon DEF IndInv, TypeOK
    <3>2. RequestInv(req[t])
      BY Zenon DEF IndInv
    <3> QED BY <3>1, <3>2, Zenon DEF RequestInv, Backed
  <2> QED BY <2>1, <2>2, Zenon
<1>5. NewIsAlone'
  <2> SUFFICES ASSUME NEW t \in Slots, NEW q \in Slots, t # q, req'[t].op = "NEW"
               PROVE  req'[q].w # req'[t].w
    BY Zenon DEF NewIsAlone
  <2>1. \A x \in Slots : req'[x] = IF x = s THEN r ELSE req[x]
    BY Zenon DEF IndInv, TypeOK
  <2>2. CASE t = s
    BY <2>1, <2>2, Zenon
  <2>3. CASE q = s
    <3>1. req[t].op = "NEW" /\ req[t] \in Request /\ RequestInv(req[t])
      BY <2>1, <2>3, Zenon DEF IndInv, TypeOK
    <3>2. req[t].w \in Workflows /\ row[req[t].w].state = "NONE"
      BY <3>1, Zenon DEF RequestInv
    <3>3. r.op \in UserOps \union TaskOps \union {"NEW", "NONE"}
      BY Zenon DEF Request
    <3>4. CASE r.op = "NEW"
      BY <2>1, <2>3, <3>4, Zenon
    <3>5. CASE r.op = "NONE"
      BY <2>1, <2>3, <3>2, <3>5, NoneAssumption, SMTT(30) DEF RequestInv, IdleRequest
    <3>6. CASE r.op \in UserOps \union TaskOps
      BY <2>1, <2>3, <3>2, <3>6 DEF RequestInv
    <3> QED BY <3>3, <3>4, <3>5, <3>6, Zenon
  <2>4. CASE t # s /\ q # s
    BY <2>1, <2>4 DEF IndInv, NewIsAlone
  <2> QED BY <2>2, <2>3, <2>4, Zenon
<1> QED BY <1>1, <1>2, <1>4, <1>5, Zenon DEF IndInv

(* A step that changes tables but creates no row preserves the invariant if   *)
(* the tables and the request it changes are fine afterwards.                 *)
LEMMA TableStep ==
    ASSUME IndInv, RowsKept, TypeOK', \A w \in Workflows : TableInv(w)',
           NEW s \in Slots, NEW r \in Request, req' = [req EXCEPT ![s] = r],
           RequestInv(r)', r.op # "NEW"
    PROVE  IndInv'
<1>1. \A x \in Slots : req'[x] = IF x = s THEN r ELSE req[x]
  BY Zenon DEF IndInv, TypeOK
<1>2. ASSUME NEW t \in Slots PROVE RequestInv(req[t])'
  <2>1. CASE t = s
    BY <1>1, <2>1, Zenon
  <2>2. CASE t # s
    <3>1. req'[t] = req[t]
      BY <1>1, <2>2, Zenon
    <3>2. req[t] \in Request /\ RequestInv(req[t]) /\ TypeOK
      BY Zenon DEF IndInv, TypeOK
    <3>3. ASSUME NEW q \in Request, RequestInv(q) PROVE RequestInv(q)'
      BY <3>2, <3>3, RequestKept, Zenon
    <3>4. PICK q \in Request : q = req[t]
      BY <3>2, Zenon
    <3>5. RequestInv(q)'
      BY <3>2, <3>3, <3>4, Zenon
    <3> QED BY <3>1, <3>4, <3>5, Zenon DEF RequestInv, Backed
  <2> QED BY <2>1, <2>2, Zenon
<1>3. NewIsAlone'
  <2> SUFFICES ASSUME NEW t \in Slots, NEW q \in Slots, t # q, req'[t].op = "NEW"
               PROVE  req'[q].w # req'[t].w
    BY Zenon DEF NewIsAlone
  <2>1. t # s /\ req[t].op = "NEW" /\ req'[t] = req[t]
    BY <1>1, Zenon
  <2>2. CASE q # s
    BY <1>1, <2>1, <2>2 DEF IndInv, NewIsAlone
  <2>3. CASE q = s
    <3>1. RequestInv(req[t])
      BY Zenon DEF IndInv
    <3>2. req[t].w \in Workflows /\ row[req[t].w].state = "NONE"
      BY <2>1, <3>1, Zenon DEF RequestInv
    <3>3. row'[req[t].w].state = "NONE"
      BY <3>2, Zenon DEF RowsKept
    <3>4. r.op \in UserOps \union TaskOps \/ r.op = "NONE"
      BY Zenon DEF Request
    <3>5. CASE r.op = "NONE"
      BY <1>1, <2>1, <2>3, <3>2, <3>5, NoneAssumption, SMTT(40) DEF RequestInv, IdleRequest
    <3>6. CASE r.op \in UserOps \union TaskOps
      BY <1>1, <2>1, <2>3, <3>3, <3>6, ZenonT(40) DEF RequestInv
    <3> QED BY <3>4, <3>5, <3>6, Zenon
  <2> QED BY <2>2, <2>3, Zenon
<1> QED BY <1>2, <1>3, Zenon DEF IndInv

(* A slot that is done satisfies its part of the invariant. *)
LEMMA IdleIsFine == IdleRequest \in Request /\ RequestInv(IdleRequest)
<1>1. IdleRequest \in Request
  BY Zenon DEF IdleRequest, Request, RowStates, Writes, ApproverColumn
<1> QED BY <1>1, IdleFields, Zenon DEF RequestInv, UserOps, TaskOps

-----------------------------------------------------------------------------
(* Init and the steps that only move a request along. *)

(* Nothing is created and nothing is in flight: IndInv holds initially. *)
LEMMA InitInv == Init => IndInv
<1> SUFFICES ASSUME Init PROVE IndInv
  BY Zenon
<1>1. TypeOK
  BY IdleIsFine, Zenon DEF Init, TypeOK, WorkflowRow, RowStates, ApproverColumn
<1>2. \A w \in Workflows : TableInv(w)
  BY NoneAssumption DEF Init, TableInv
<1>3. \A t \in Slots : RequestInv(req[t])
  BY IdleIsFine, Zenon DEF Init
<1>4. NewIsAlone
  BY Zenon DEF Init, NewIsAlone, IdleRequest
<1> QED BY <1>1, <1>2, <1>3, <1>4, Zenon DEF IndInv

(* The checks before a workflow is created preserve the invariant. *)
LEMMA CheckNewWorkflowInv ==
    ASSUME IndInv, NEW s \in Slots, NEW w \in Workflows, NEW u \in Users,
           NEW a \in Artifacts, CheckNewWorkflow(s, w, u, a)
    PROVE  IndInv'
<1> DEFINE r == [IdleRequest EXCEPT !.pc = "tx", !.op = "NEW", !.w = w, !.actor = u,
                                    !.art = a, !.min = config.min]
<1>1. config.min \in Nat /\ config.min \in {c.min : c \in Configs}
  BY ConfigAssumption, Zenon DEF IndInv, TypeOK
<1>2. r \in Request
  BY <1>1, Zenon DEF IdleRequest, Request, RowStates, Writes, ApproverColumn
<1>3. r.op = "NEW" /\ r.w = w /\ r.actor = u /\ r.art = a /\ r.vote = "none"
      /\ r.new = "KEEP" /\ r.min = config.min
  BY Zenon DEF IdleRequest
<1>4. RequestInv(r)
  BY <1>1, <1>3, Zenon DEF RequestInv, CheckNewWorkflow, UserOps, TaskOps
<1>5. \A t \in Slots : req[t].w # r.w
  BY <1>3, Zenon DEF CheckNewWorkflow
<1>6. req' = [req EXCEPT ![s] = r]
  BY Zenon DEF CheckNewWorkflow
<1>7. UNCHANGED <<row, ballot, underWorkflow, member, config, queue, approvedBy,
                  executions, aborts>>
  BY Zenon DEF CheckNewWorkflow, dbVars, histVars
<1> HIDE DEF r
<1> QED BY <1>2, <1>4, <1>5, <1>6, <1>7, RequestStep, Zenon DEF IndInv, TypeOK

(* Reading a row preserves the invariant; a row read for CONFIRM is backed    *)
(* and one read for a vote has the voter among its approvers.                 *)
LEMMA ReadRowInv ==
    ASSUME IndInv, NEW s \in Slots, NEW op \in UserOps \union TaskOps,
           NEW w \in Workflows, NEW u \in Users \union {None}, ReadRow(s, op, w, u),
           op \in {"APPROVE", "REJECT"} => u \in Users /\ ballot[w][u] # "none",
           op = "CONFIRM" => row[w].state = "WAIT_CONFIRMATION"
    PROVE  IndInv'
<1> DEFINE r == [IdleRequest EXCEPT !.pc = "read", !.op = op, !.w = w, !.actor = u,
                                    !.snap = row[w].state]
<1>1. row[w].state \in RowStates /\ row[w].state # "NONE"
  BY Zenon DEF ReadRow, Exists, WorkflowStates, WorkflowNonTerminalStates,
         WorkflowTerminalStates, RowStates
<1>2. r \in Request
  BY <1>1, Zenon DEF IdleRequest, Request, RowStates, Writes, ApproverColumn
<1>3. r.op = op /\ r.w = w /\ r.actor = u /\ r.vote = "none" /\ r.new = "KEEP"
  BY Zenon DEF IdleRequest
<1>4. TableInv(w)
  BY Zenon DEF IndInv
<1>5. RequestInv(r)
  BY <1>1, <1>3, <1>4, Zenon DEF RequestInv, TableInv, UserOps, TaskOps
<1>6. req' = [req EXCEPT ![s] = r] /\ r.op # "NEW"
  BY <1>3, Zenon DEF ReadRow, UserOps, TaskOps
<1>7. UNCHANGED <<row, ballot, underWorkflow, member, config, queue, approvedBy,
                  executions, aborts>>
  BY Zenon DEF ReadRow, dbVars, histVars
<1> HIDE DEF r
<1> QED BY <1>2, <1>5, <1>6, <1>7, RequestStep, Zenon DEF IndInv, TypeOK

(* A user's request reads a row it may act on. *)
LEMMA TransitionWorkflowInv ==
    ASSUME IndInv, NEW s \in Slots, NEW op \in UserOps, NEW w \in Workflows,
           NEW u \in Users, TransitionWorkflow(s, op, w, u)
    PROVE  IndInv'
<1>1. op \in {"APPROVE", "REJECT"} => ballot[w][u] # "none"
  BY Zenon DEF TransitionWorkflow, ValidateActor
<1>2. op = "CONFIRM" => row[w].state = "WAIT_CONFIRMATION"
  BY Sources, Zenon DEF TransitionWorkflow
<1>3. ReadRow(s, op, w, u)
  BY Zenon DEF TransitionWorkflow
<1> QED BY <1>1, <1>2, <1>3, ReadRowInv, Zenon

(* So does a task. *)
LEMMA WorkerStepInv ==
    ASSUME IndInv, NEW s \in Slots, WorkerStep(s)
    PROVE  IndInv'
<1>1. PICK w \in Workflows, op \in TaskOps : ReadRow(s, op, w, None)
  BY Zenon DEF WorkerStep, StartExpiry, StartAutoAssign, StartCleanup, TaskOps
<1>2. op # "APPROVE" /\ op # "REJECT" /\ op # "CONFIRM"
  BY Zenon DEF TaskOps
<1> QED BY <1>1, <1>2, ReadRowInv, Zenon

(* A slot that gives up, or is done without a write, preserves the invariant. *)
LEMMA GiveUpInv ==
    ASSUME IndInv, NEW s \in Slots, RefuseVote(s) \/ AckAutoAssign(s) \/ Abort(s)
    PROVE  IndInv'
<1>1. req' = [req EXCEPT ![s] = IdleRequest]
  BY Zenon DEF RefuseVote, AckAutoAssign, Abort
<1>2. UNCHANGED <<row, ballot, underWorkflow, member, config, approvedBy, executions>>
  BY Zenon DEF RefuseVote, AckAutoAssign, Abort, dbVars, histVars
<1>3. queue' \in SUBSET Workflows /\ aborts' \in Nat
  BY DEF RefuseVote, AckAutoAssign, Abort, IndInv, TypeOK
<1>4. IdleRequest.op = "NONE"
  BY Zenon DEF IdleRequest
<1> QED BY <1>1, <1>2, <1>3, <1>4, IdleIsFine, RequestStep, ZenonT(40) DEF IndInv, TypeOK

-----------------------------------------------------------------------------
(* The steps that evaluate a transaction. *)

(* The request after its transaction has decided what to write. *)
Planned(s, new, vote, clear) ==
    [req[s] EXCEPT !.pc = "tx", !.new = new, !.vote = vote, !.clear = clear]

(* Evaluated replaces the request of the slot by the planned one. *)
LEMMA EvaluatedIs ==
    ASSUME TypeOK, NEW s \in Slots, NEW new \in Writes,
           NEW vote \in ApproverColumn, NEW clear \in BOOLEAN,
           Evaluated(s, new, vote, clear)
    PROVE  /\ req' = [req EXCEPT ![s] = Planned(s, new, vote, clear)]
           /\ Planned(s, new, vote, clear) \in Request
           /\ Planned(s, new, vote, clear).op = req[s].op
           /\ Planned(s, new, vote, clear).w = req[s].w
           /\ Planned(s, new, vote, clear).actor = req[s].actor
           /\ Planned(s, new, vote, clear).vote = vote
           /\ Planned(s, new, vote, clear).new = new
<1>1. req[s] \in Request
  BY Zenon DEF TypeOK
<1>2. Planned(s, new, vote, clear) \in Request
  BY <1>1, Zenon DEF Planned, Request
<1>3. req' = [req EXCEPT ![s] = Planned(s, new, vote, clear)]
  BY Zenon DEF Evaluated, Planned, TypeOK
<1> QED BY <1>1, <1>2, <1>3, Zenon DEF Planned, Request

(* A planned write other than an approval preserves the invariant. *)
LEMMA PlanInv ==
    ASSUME IndInv, NEW s \in Slots, NEW new \in Writes,
           NEW vote \in ApproverColumn, NEW clear \in BOOLEAN,
           Evaluated(s, new, vote, clear),
           req[s].op \in UserOps \union TaskOps,
           vote # "none" => req[s].op \in {"APPROVE", "REJECT"},
           new = "WAIT_CONFIRMATION" =>
             vote = "approved" /\
             Backed(req[s].w, approvedBy[req[s].w] \union {req[s].actor}),
           UNCHANGED <<row, ballot, underWorkflow, member, config, queue, approvedBy,
                       executions, aborts>>
    PROVE  IndInv'
<1> DEFINE r == Planned(s, new, vote, clear)
<1>1. /\ req' = [req EXCEPT ![s] = r]
      /\ r \in Request /\ r.op = req[s].op /\ r.w = req[s].w
      /\ r.actor = req[s].actor /\ r.vote = vote /\ r.new = new
  <2>1. TypeOK
    BY Zenon DEF IndInv
  <2>2. req[s] \in Request
    BY <2>1, Zenon DEF TypeOK
  <2>3. r \in Request
    BY <2>2, Zenon DEF Planned, Request
  <2>4. req' = [req EXCEPT ![s] = r]
    BY <2>1, Zenon DEF Evaluated, Planned, TypeOK
  <2>5. /\ r.op = req[s].op /\ r.w = req[s].w
        /\ r.actor = req[s].actor /\ r.vote = vote /\ r.new = new
    BY <2>2, Zenon DEF Planned, Request
  <2> QED BY <2>3, <2>4, <2>5, Zenon
<1>2. RequestInv(req[s]) /\ r.op # "NEW" /\ r.op # "NONE"
  BY <1>1, Zenon DEF IndInv, UserOps, TaskOps
<1> HIDE DEF r
<1>3. RequestInv(r)
  BY <1>1, <1>2, Zenon DEF RequestInv
<1> QED BY <1>1, <1>2, <1>3, RequestStep, Zenon DEF IndInv, TypeOK

(* A vote moves the workflow to WAIT_CONFIRMATION only with enough approvals, *)
(* its own included.                                                          *)
LEMMA EvaluateVoteInv ==
    ASSUME IndInv, NEW s \in Slots, EvaluateVote(s)
    PROVE  IndInv'
<1> DEFINE r     == req[s]
           after == [ballot[r.w] EXCEPT ![r.actor] = Decision(r.op)]
<1>1. /\ r \in Request /\ r.op \in {"APPROVE", "REJECT"} /\ RequestInv(r)
      /\ r.w \in Workflows /\ r.actor \in Users /\ r.actor # row[r.w].initiator
  BY Zenon DEF EvaluateVote, IndInv, TypeOK, RequestInv, UserOps
<1>2. PICK eligible \in {member, Users} :
        LET out == VoteOutcome(after, eligible, r.op, row[r.w].min)
        IN  Evaluated(s, out.new, Decision(r.op), out.clear)
  BY Zenon DEF EvaluateVote
<1> DEFINE out == VoteOutcome(after, eligible, r.op, row[r.w].min)
<1>3. Evaluated(s, out.new, Decision(r.op), out.clear)
  BY <1>2, Zenon
<1>4. /\ out.new \in Writes /\ out.clear \in BOOLEAN
      /\ out.new = "WAIT_CONFIRMATION" =>
           r.op = "APPROVE" /\ checkVotingScore(after, eligible, "APPROVE", row[r.w].min)
  <2>1. CASE checkVotingScore(after, eligible, r.op, row[r.w].min)
    <3>1. out = [new   |-> Destination(r.op),
                 clear |-> Destination(r.op) \in WorkflowTerminalStates]
      BY <2>1, Zenon DEF VoteOutcome
    <3> HIDE DEF out, after
    <3>2. out.new = Destination(r.op) /\ out.clear \in BOOLEAN
      BY <3>1, SMTT(40)
    <3>3. CASE r.op = "APPROVE"
      BY <2>1, <3>2, <3>3, Destinations, Zenon DEF Writes, WorkflowStates,
         WorkflowNonTerminalStates
    <3>4. CASE r.op = "REJECT"
      BY <3>2, <3>4, Destinations, Zenon DEF Writes, WorkflowStates,
         WorkflowTerminalStates
    <3> QED BY <1>1, <3>3, <3>4, Zenon
  <2>2. CASE /\ ~checkVotingScore(after, eligible, r.op, row[r.w].min)
             /\ checkVotingScore(after, eligible, "REJECT", row[r.w].min)
    <3>1. out = [new |-> "REJECTED", clear |-> FALSE]
      BY <2>2, Zenon DEF VoteOutcome
    <3> HIDE DEF out, after
    <3> QED BY <3>1, Zenon DEF Writes, WorkflowStates, WorkflowTerminalStates
  <2>3. CASE /\ ~checkVotingScore(after, eligible, r.op, row[r.w].min)
             /\ ~checkVotingScore(after, eligible, "REJECT", row[r.w].min)
    <3>1. out = [new |-> "KEEP", clear |-> FALSE]
      BY <2>3, Zenon DEF VoteOutcome
    <3> HIDE DEF out, after
    <3> QED BY <3>1, Zenon DEF Writes
  <2> QED BY <2>1, <2>2, <2>3, Zenon
<1>5. ASSUME out.new = "WAIT_CONFIRMATION"
      PROVE  /\ Decision(r.op) = "approved"
             /\ Backed(r.w, approvedBy[r.w] \union {r.actor})
  <2> DEFINE S == approvedBy[r.w] \union {r.actor}
  <2>1. TableInv(r.w) /\ row[r.w].min \in Nat
    BY <1>1, Zenon DEF IndInv, TypeOK, WorkflowRow
  <2>2. after \in [Users -> ApproverColumn]
    BY <1>1, Zenon DEF IndInv, TypeOK, Decision, ApproverColumn
  <2>3. S \in SUBSET Users /\ row[r.w].initiator \notin S
    BY <1>1, <2>1, Zenon DEF IndInv, TypeOK, TableInv
  <2>4. \A u \in Users : after[u] = "approved" => u \in S
    BY <1>1, <2>1, Zenon DEF IndInv, TypeOK, TableInv
  <2>5. checkVotingScore(after, eligible, "APPROVE", row[r.w].min)
    BY <1>4, <1>5, Zenon
  <2> HIDE DEF S, after
  <2>6. Cardinality(S) >= row[r.w].min
    BY <2>1, <2>2, <2>3, <2>4, <2>5, ScoreNeedsApprovals, Zenon
  <2> QED BY <1>4, <1>5, <2>3, <2>6, Zenon DEF Backed, Decision, S
<1>6. UNCHANGED <<row, ballot, underWorkflow, member, config, queue, approvedBy,
                  executions, aborts>>
  BY Zenon DEF EvaluateVote, dbVars, histVars
<1>7. Decision(r.op) \in ApproverColumn
  BY Zenon DEF Decision, ApproverColumn
<1> HIDE DEF out
<1> QED BY <1>1, <1>3, <1>4, <1>5, <1>6, <1>7, PlanInv, Zenon DEF UserOps

(* Revocation, expiry, deletion and a failed assignment plan a terminal       *)
(* state and preserve the invariant.                                          *)
LEMMA EvaluateOtherInv ==
    ASSUME IndInv, NEW s \in Slots,
           \/ EvaluateRevoke(s) \/ ExpireWorkflow(s)
           \/ CleanupTerminalWorkflows(s) \/ AutoAssignError(s)
    PROVE  IndInv'
<1>1. PICK new \in {"REVOKED", "EXPIRED", "DELETED", "FAILED"}, clear \in BOOLEAN :
        Evaluated(s, new, "none", clear)
  BY Destinations, Zenon DEF EvaluateRevoke, ExpireWorkflow, CleanupTerminalWorkflows,
                      AutoAssignError
<1>2. req[s].op \in UserOps \union TaskOps
  BY Zenon DEF EvaluateRevoke, ExpireWorkflow, CleanupTerminalWorkflows, AutoAssignError,
         UserOps, TaskOps
<1>3. UNCHANGED <<row, ballot, underWorkflow, member, config, queue, approvedBy,
                  executions, aborts>>
  BY Zenon DEF EvaluateRevoke, ExpireWorkflow, CleanupTerminalWorkflows, AutoAssignError,
         dbVars, histVars
<1>4. new \in Writes /\ new # "WAIT_CONFIRMATION" /\ "none" \in ApproverColumn
  BY Zenon DEF Writes, WorkflowStates, WorkflowTerminalStates, ApproverColumn
<1> QED BY <1>1, <1>2, <1>3, <1>4, PlanInv, Zenon

(* CONFIRM runs the action of a backed workflow. *)
LEMMA EvaluateConfirmInv ==
    ASSUME IndInv, NEW s \in Slots, EvaluateConfirm(s)
    PROVE  IndInv'
<1> DEFINE w == req[s].w
<1>1. /\ req[s].op = "CONFIRM" /\ RequestInv(req[s])
      /\ w \in Workflows /\ Backed(w, approvedBy[w])
  BY Zenon DEF EvaluateConfirm, IndInv, RequestInv, UserOps
<1>2. PICK new \in {"SUCCESSFUL", "FAILED"}, clear \in BOOLEAN :
        Evaluated(s, new, "none", clear)
  BY Destinations, Zenon DEF EvaluateConfirm
<1>3. Planned(s, new, "none", clear) \in Request
  BY <1>2, EvaluatedIs, SMTT(40) DEF IndInv, Writes, WorkflowStates, WorkflowTerminalStates,
     ApproverColumn
<1> PICK r \in Request : r = Planned(s, new, "none", clear)
  BY <1>3, Zenon
<1>4. new \in Writes /\ "none" \in ApproverColumn
  BY Zenon DEF Writes, WorkflowStates, WorkflowTerminalStates, ApproverColumn
<1>5. /\ req' = [req EXCEPT ![s] = r]
      /\ r \in Request /\ r.op = req[s].op /\ r.w = w
      /\ r.actor = req[s].actor /\ r.vote = "none" /\ r.new = new
  BY <1>2, <1>4, EvaluatedIs, SMTT(40) DEF IndInv
<1>6. /\ UNCHANGED <<row, ballot, underWorkflow, member, config, queue, approvedBy, aborts>>
      /\ executions' = [executions EXCEPT ![w] = @ + 1]
  BY Zenon DEF EvaluateConfirm, dbVars
<1>7. RowsKept
  BY <1>6, Zenon DEF IndInv, TypeOK, TableInv, RowsKept
<1>8. TypeOK'
  BY <1>1, <1>5, <1>6, SMTT(40) DEF IndInv, TypeOK
<1>9. ASSUME NEW v \in Workflows PROVE TableInv(v)'
  <2>1. TableInv(v) /\ v # w => executions'[v] = executions[v]
    BY <1>6, Zenon DEF IndInv, TypeOK
  <2>2. row[w].state # "NONE"
    BY <1>1, Zenon DEF RequestInv, UserOps
  <2> QED BY <1>1, <1>6, <2>1, <2>2, Zenon DEF IndInv, TableInv, Backed
<1>10. RequestInv(r)'
  BY <1>1, <1>5, <1>6, Zenon DEF RequestInv, Backed
<1>11. r.op # "NEW"
  BY <1>1, <1>5, Zenon
<1> QED BY <1>5, <1>7, <1>8, <1>9, <1>10, <1>11, TableStep, Zenon

-----------------------------------------------------------------------------
(* The steps that change the tables. *)

(* The inserted row is new: nobody approved it and no other request has it. *)
LEMMA CreateWorkflowInv ==
    ASSUME IndInv, NEW s \in Slots, CreateWorkflow(s)
    PROVE  IndInv'
<1> DEFINE r == req[s]
           w == r.w
<1>1. /\ r \in Request /\ r.op = "NEW" /\ RequestInv(r) /\ r.min \in Nat
      /\ w \in Workflows /\ r.actor \in Users /\ r.art \in Artifacts
      /\ row[w].state = "NONE" /\ TableInv(w)
  BY Zenon DEF CreateWorkflow, IndInv, TypeOK, RequestInv, Request
<1>2. /\ row' = [row EXCEPT ![w] = [state |-> "INITIAL", initiator |-> r.actor,
                                    artifact |-> r.art, min |-> r.min]]
      /\ req' = [req EXCEPT ![s] = IdleRequest]
      /\ UNCHANGED <<ballot, approvedBy, executions>>
  BY Zenon DEF CreateWorkflow, histVars
<1>3. TypeOK'
  BY <1>1, IdleIsFine, Zenon DEF CreateWorkflow, IndInv, TypeOK, WorkflowRow, histVars, RowStates,
     WorkflowStates, WorkflowNonTerminalStates
<1>4. ASSUME NEW v \in Workflows PROVE TableInv(v)'
  <2>1. CASE v = w
    <3>1. row'[v] = [state |-> "INITIAL", initiator |-> r.actor,
                     artifact |-> r.art, min |-> r.min]
      BY <1>1, <1>2, <2>1, Zenon DEF IndInv, TypeOK
    <3>2. /\ approvedBy'[v] = {} /\ executions'[v] = 0
          /\ \A u \in Users : ballot'[v][u] = "none"
      BY <1>1, <1>2, <2>1, Zenon DEF TableInv
    <3>3. /\ row'[v].state = "INITIAL" /\ row'[v].artifact \in Artifacts
          /\ row'[v].initiator \in Users
      BY <1>1, <3>1
    <3>4. /\ ~(executions'[v] > 0) /\ row'[v].initiator \notin approvedBy'[v]
          /\ \A u \in Users : ballot'[v][u] # "approved"
      BY <3>2
    <3> QED BY <3>2, <3>3, <3>4, Zenon DEF TableInv
  <2>2. CASE v # w
    <3>1. row'[v] = row[v] /\ TableInv(v)
      BY <1>2, <2>2, Zenon DEF IndInv, TypeOK
    <3> QED BY <1>2, <3>1, Zenon DEF TableInv, Backed
  <2> QED BY <2>1, <2>2, Zenon
<1>5. \A x \in Slots : req'[x] = IF x = s THEN IdleRequest ELSE req[x]
  BY <1>2, Zenon DEF IndInv, TypeOK
<1>6. ASSUME NEW t \in Slots PROVE RequestInv(req[t])'
  <2>1. CASE t = s
    <3>1. req'[t] = IdleRequest
      BY <1>5, <2>1, Zenon
    <3> QED BY <3>1, IdleFields, Zenon DEF RequestInv, UserOps, TaskOps
  <2>2. CASE t # s
    <3>1. req'[t] = req[t] /\ RequestInv(req[t]) /\ req[t].w # w
      BY <1>1, <1>5, <2>2, Zenon DEF IndInv, NewIsAlone
    <3>2. ASSUME req[t].w \in Workflows PROVE row'[req[t].w] = row[req[t].w]
      BY <1>2, <3>1, <3>2, Zenon DEF IndInv, TypeOK
    <3> QED BY <1>2, <3>1, <3>2, Zenon DEF RequestInv, Backed, UserOps, TaskOps
  <2> QED BY <2>1, <2>2, Zenon
<1>7. NewIsAlone'
  <2> SUFFICES ASSUME NEW t \in Slots, NEW q \in Slots, t # q, req'[t].op = "NEW"
               PROVE  req'[q].w # req'[t].w
    BY Zenon DEF NewIsAlone
  <2>0. t # s /\ req'[t] = req[t]
    BY <1>5, IdleFields, Zenon
  <2>1. t # s /\ req'[t] = req[t] /\ req[t].w \in Workflows
    BY <2>0, Zenon DEF IndInv, RequestInv
  <2>2. CASE q = s
    BY <1>5, <2>1, <2>2, NoneAssumption, IdleFields, Zenon
  <2>3. CASE q # s
    BY <1>5, <2>1, <2>3, Zenon DEF IndInv, NewIsAlone
  <2> QED BY <2>2, <2>3, Zenon
<1> QED BY <1>3, <1>4, <1>6, <1>7, Zenon DEF IndInv

(* Storing a State keeps the table well-typed and the other columns as they    *)
(* are.                                                                        *)
LEMMA RowWrite ==
    ASSUME NEW rows \in [Workflows -> WorkflowRow], NEW w \in Workflows,
           NEW state \in RowStates
    PROVE  /\ [rows EXCEPT ![w].state = state] \in [Workflows -> WorkflowRow]
           /\ [rows EXCEPT ![w].state = state][w].state = state
           /\ [rows EXCEPT ![w].state = state][w].initiator = rows[w].initiator
           /\ [rows EXCEPT ![w].state = state][w].artifact = rows[w].artifact
           /\ [rows EXCEPT ![w].state = state][w].min = rows[w].min
           /\ \A v \in Workflows \ {w} : [rows EXCEPT ![w].state = state][v] = rows[v]
<1> DEFINE new == [rows[w] EXCEPT !.state = state]
<1>1. new \in WorkflowRow
  BY Zenon DEF WorkflowRow
<1>2. [rows EXCEPT ![w].state = state] = [rows EXCEPT ![w] = new]
  BY Zenon
<1>3. /\ new.state = state /\ new.initiator = rows[w].initiator
      /\ new.artifact = rows[w].artifact /\ new.min = rows[w].min
  BY Zenon DEF WorkflowRow
<1> HIDE DEF new
<1> QED BY <1>1, <1>2, <1>3, Zenon

(* A committed transaction stores the planned state and vote: WAIT_CONFIRMATION *)
(* only together with the approval that completes the count.                    *)
LEMMA CommitInv ==
    ASSUME IndInv, NEW s \in Slots, Commit(s)
    PROVE  IndInv'
<1> PICK r \in Request : r = req[s]
  BY Zenon DEF IndInv, TypeOK
<1> PICK w \in Workflows : w = r.w
  BY Zenon DEF Commit, IndInv, RequestInv, UserOps, TaskOps
<1>1. /\ RequestInv(r) /\ TableInv(w) /\ TypeOK
      /\ row[w].state # "NONE" /\ row[w].artifact \in Artifacts
      /\ r.op \in UserOps \union {"EXPIRE", "CLEANUP"}
  BY Zenon DEF Commit, IndInv, RequestInv, TableInv, UserOps, TaskOps
<1>2. r.vote # "none" => r.actor \in Users /\ r.actor # row[w].initiator
  BY <1>1, Zenon DEF RequestInv
<1>3. r.new \in Writes /\ r.vote \in ApproverColumn
  BY Zenon DEF Request
<1>4. /\ row' = IF Exists(w) /\ r.new # "KEEP"
                THEN [row EXCEPT ![w].state = r.new] ELSE row
      /\ ballot' = CASE r.new = "DELETED" ->
                          [ballot EXCEPT ![w] = [u \in Users |-> "none"]]
                     [] r.new # "DELETED" /\ Exists(w) /\ r.vote # "none" ->
                          [ballot EXCEPT ![w][r.actor] = r.vote]
                     [] OTHER -> ballot
      /\ approvedBy' = IF Exists(w) /\ r.vote = "approved"
                       THEN [approvedBy EXCEPT ![w] = @ \union {r.actor}]
                       ELSE approvedBy
      /\ underWorkflow' = IF r.clear
                          THEN [underWorkflow EXCEPT ![row[w].artifact] = FALSE]
                          ELSE underWorkflow
      /\ req' = [req EXCEPT ![s] = IdleRequest]
      /\ UNCHANGED <<member, config, queue, executions, aborts>>
  BY Zenon DEF Commit
<1>5. row' \in [Workflows -> WorkflowRow]
  <2>1. CASE Exists(w) /\ r.new # "KEEP"
    <3>1. r.new \in RowStates
      BY <1>3, <2>1, Zenon DEF RowStates, Writes
    <3>2. row' = [row EXCEPT ![w].state = r.new]
      BY <1>4, <2>1, Zenon
    <3>3. PICK state \in RowStates : state = r.new
      BY <3>1, Zenon
    <3>4. [row EXCEPT ![w].state = state] \in [Workflows -> WorkflowRow]
      BY <1>1, RowWrite, SMTT(30) DEF TypeOK
    <3> QED BY <3>2, <3>3, <3>4, Zenon
  <2>2. CASE ~(Exists(w) /\ r.new # "KEEP")
    BY <1>1, <1>4, <2>2, Zenon DEF TypeOK
  <2> QED BY <2>1, <2>2, Zenon
<1>6. ballot' \in [Workflows -> [Users -> ApproverColumn]]
  <2>1. CASE r.new = "DELETED"
    <3>1. ballot' = [ballot EXCEPT ![w] = [u \in Users |-> "none"]]
      BY <1>4, <2>1, Zenon
    <3>2. [u \in Users |-> "none"] \in [Users -> ApproverColumn]
      BY Zenon DEF ApproverColumn
    <3> QED BY <1>1, <3>1, <3>2, Zenon DEF TypeOK
  <2>2. CASE r.new # "DELETED" /\ Exists(w) /\ r.vote # "none"
    <3>1. ballot' = [ballot EXCEPT ![w][r.actor] = r.vote]
      BY <1>4, <2>2, Zenon
    <3> QED BY <1>1, <1>2, <1>3, <2>2, <3>1, Zenon DEF TypeOK
  <2>3. CASE r.new # "DELETED" /\ ~(Exists(w) /\ r.vote # "none")
    <3>1. ballot' = ballot
      BY <1>4, <2>3, Zenon
    <3> QED BY <1>1, <3>1, Zenon DEF TypeOK
  <2> QED BY <2>1, <2>2, <2>3, Zenon
<1>7. approvedBy' \in [Workflows -> SUBSET Users]
  BY <1>1, <1>2, <1>4, ZenonT(40) DEF TypeOK
<1>8. TypeOK'
  <2>1. underWorkflow' \in [Artifacts -> BOOLEAN]
    BY <1>1, <1>4, Zenon DEF TypeOK
  <2>2. req' \in [Slots -> Request]
    BY <1>1, <1>4, IdleIsFine, Zenon DEF TypeOK
  <2> QED BY <1>1, <1>4, <1>5, <1>6, <1>7, <2>1, <2>2, Zenon DEF TypeOK
<1>9. /\ row'[w].initiator = row[w].initiator /\ row'[w].min = row[w].min
      /\ row'[w].artifact = row[w].artifact
      /\ row'[w].state = IF Exists(w) /\ r.new # "KEEP" THEN r.new ELSE row[w].state
      /\ approvedBy'[w] = IF Exists(w) /\ r.vote = "approved"
                          THEN approvedBy[w] \union {r.actor} ELSE approvedBy[w]
      /\ row[w].initiator \notin approvedBy'[w]
  <2>1. /\ row'[w].initiator = row[w].initiator /\ row'[w].min = row[w].min
        /\ row'[w].artifact = row[w].artifact
        /\ row'[w].state = IF Exists(w) /\ r.new # "KEEP" THEN r.new ELSE row[w].state
    BY <1>1, <1>4 DEF TypeOK
  <2>2. approvedBy'[w] = IF Exists(w) /\ r.vote = "approved"
                         THEN approvedBy[w] \union {r.actor} ELSE approvedBy[w]
    BY <1>1, <1>4, Zenon DEF TypeOK
  <2>3. row[w].initiator \notin approvedBy'[w]
    <3>1. row[w].initiator \notin approvedBy[w]
      BY <1>1, Zenon DEF TableInv
    <3> QED BY <1>2, <2>2, <3>1, Zenon
  <2> QED BY <2>1, <2>2, <2>3, Zenon
<1>10. ASSUME NEW v \in Workflows, v # w
       PROVE  /\ row'[v] = row[v] /\ approvedBy'[v] = approvedBy[v]
              /\ ballot'[v] = ballot[v] /\ executions'[v] = executions[v]
              /\ TableInv(v)
  <2>1. TableInv(v)
    BY Zenon DEF IndInv
  <2>2. row'[v] = row[v] /\ approvedBy'[v] = approvedBy[v] /\ executions'[v] = executions[v]
    BY <1>1, <1>4, <1>10, Zenon DEF TypeOK
  <2>3. ballot'[v] = ballot[v]
    <3>1. CASE r.new = "DELETED"
      BY <1>1, <1>4, <1>10, <3>1, Zenon DEF TypeOK
    <3>2. CASE r.new # "DELETED" /\ Exists(w) /\ r.vote # "none"
      BY <1>1, <1>4, <1>10, <3>2, Zenon DEF TypeOK
    <3>3. CASE r.new # "DELETED" /\ ~(Exists(w) /\ r.vote # "none")
      BY <1>4, <3>3, Zenon
    <3> QED BY <3>1, <3>2, <3>3, Zenon
  <2> QED BY <2>1, <2>2, <2>3, Zenon
<1>11. RowsKept
  <2>1. r.new # "NONE"
    BY <1>3, Zenon DEF Writes, WorkflowStates, WorkflowNonTerminalStates, WorkflowTerminalStates
  <2>2. ASSUME NEW v \in Workflows
        PROVE  /\ row'[v].initiator = row[v].initiator
               /\ row'[v].min = row[v].min
               /\ (row'[v].state = "NONE") <=> (row[v].state = "NONE")
               /\ approvedBy[v] \subseteq approvedBy'[v]
               /\ approvedBy'[v] \in SUBSET Users
               /\ row[v].initiator \notin approvedBy'[v]
    <3>1. CASE v = w
      BY <1>1, <1>7, <1>9, <2>1, <3>1, Zenon
    <3>2. CASE v # w
      BY <1>7, <1>10, <3>2, Zenon DEF TableInv
    <3> QED BY <3>1, <3>2, Zenon
  <2> QED BY <2>2, Zenon DEF RowsKept
<1>12. TableInv(w)'
  <2>1. Backed(w, approvedBy[w]) => Backed(w, approvedBy'[w])
    BY <1>1, <1>7, <1>9, BackedGrows, Zenon DEF TypeOK
  <2>2. row'[w].state = "WAIT_CONFIRMATION" => Backed(w, approvedBy'[w])
    <3>1. CASE row'[w].state = row[w].state
      BY <1>1, <2>1, <3>1, Zenon DEF TableInv
    <3>2. CASE Exists(w) /\ r.new = "WAIT_CONFIRMATION"
      BY <1>1, <1>9, <3>2, Zenon DEF RequestInv
    <3> QED BY <1>9, <3>1, <3>2, Zenon
  <2>3. ASSUME NEW u \in Users
        PROVE  /\ ballot'[w][u] = "approved" => u \in approvedBy'[w]
               /\ u = row[w].initiator => ballot'[w][u] = "none"
    <3>0. /\ ballot[w][u] = "approved" => u \in approvedBy[w]
          /\ u = row[w].initiator => ballot[w][u] = "none"
      BY <1>1, Zenon DEF TableInv
    <3>1. CASE r.new = "DELETED"
      <4>1. ballot' = [ballot EXCEPT ![w] = [x \in Users |-> "none"]]
        BY <1>4, <3>1, Zenon
      <4>2. ballot'[w][u] = "none"
        BY <1>1, <4>1, Zenon DEF TypeOK
      <4> QED BY <4>2, Zenon
    <3>2. CASE r.new # "DELETED" /\ Exists(w) /\ r.vote # "none"
      <4>1. ballot'[w][u] = IF u = r.actor THEN r.vote ELSE ballot[w][u]
        BY <1>1, <1>2, <1>4, <3>2, Zenon DEF TypeOK
      <4> QED BY <1>2, <1>9, <3>0, <3>2, <4>1, Zenon
    <3>3. CASE r.new # "DELETED" /\ ~(Exists(w) /\ r.vote # "none")
      <4>1. ballot' = ballot
        BY <1>4, <3>3, Zenon
      <4> QED BY <1>9, <3>0, <4>1, Zenon
    <3> QED BY <3>1, <3>2, <3>3, Zenon
  <2>4. row'[w].state # "NONE"
    BY <1>1, <1>11, Zenon DEF RowsKept
  <2>5. executions'[w] > 0 => Backed(w, approvedBy'[w])
    BY <1>1, <1>4, <2>1, Zenon DEF TableInv
  <2>6. Backed(w, approvedBy[w])' <=> Backed(w, approvedBy'[w])
    BY <1>9, Zenon DEF Backed
  <2> QED BY <1>1, <1>9, <2>2, <2>3, <2>4, <2>5, <2>6, ZenonT(60) DEF TableInv
<1>13. ASSUME NEW v \in Workflows PROVE TableInv(v)'
  <2>1. CASE v = w
    BY <1>12, <2>1, Zenon
  <2>2. CASE v # w
    <3>1. Backed(v, approvedBy[v])' <=> Backed(v, approvedBy[v])
      BY <1>10, <2>2, Zenon DEF Backed
    <3>2. TableInv(v)
      BY Zenon DEF IndInv
    <3>3. /\ row'[v] = row[v] /\ ballot'[v] = ballot[v]
          /\ approvedBy'[v] = approvedBy[v] /\ executions'[v] = executions[v]
      BY <1>10, <2>2, Zenon
    <3> QED BY <3>1, <3>2, <3>3, Zenon DEF TableInv
  <2> QED BY <2>1, <2>2, Zenon
<1>14. RequestInv(IdleRequest)'
  BY IdleFields, Zenon DEF RequestInv, UserOps, TaskOps
<1>15. IdleRequest.op # "NEW"
  BY Zenon DEF IdleRequest
<1> QED BY <1>4, <1>8, <1>11, <1>13, <1>14, <1>15, IdleIsFine, TableStep, Zenon

(* A step that stores a State other than WAIT_CONFIRMATION in an existing row *)
(* and touches neither votes nor history keeps the tables fine.               *)
LEMMA StateWrite ==
    ASSUME IndInv, NEW w \in Workflows, NEW state \in WorkflowStates,
           state # "WAIT_CONFIRMATION", row[w].state # "NONE",
           row' = [row EXCEPT ![w].state = state],
           ballot' \in [Workflows -> [Users -> ApproverColumn]],
           \A v \in Workflows, u \in Users :
             /\ ballot'[v][u] = "approved" => ballot[v][u] = "approved"
             /\ u = row[v].initiator => ballot'[v][u] = ballot[v][u]
             /\ row[v].state = "NONE" => ballot'[v][u] = ballot[v][u],
           UNCHANGED <<approvedBy, executions>>
    PROVE  /\ row' \in [Workflows -> WorkflowRow]
           /\ RowsKept
           /\ \A v \in Workflows : TableInv(v)'
<1>1. row \in [Workflows -> WorkflowRow] /\ state \in RowStates /\ state # "NONE"
  BY Zenon DEF IndInv, TypeOK, RowStates, WorkflowStates, WorkflowNonTerminalStates,
         WorkflowTerminalStates
<1>2. /\ row' \in [Workflows -> WorkflowRow]
      /\ row'[w].state = state /\ row'[w].initiator = row[w].initiator
      /\ row'[w].artifact = row[w].artifact /\ row'[w].min = row[w].min
      /\ \A v \in Workflows \ {w} : row'[v] = row[v]
  BY <1>1, RowWrite, SMTT(60)
<1>3. ASSUME NEW v \in Workflows
      PROVE  /\ TableInv(v)
             /\ row'[v].initiator = row[v].initiator /\ row'[v].min = row[v].min
             /\ row'[v].artifact = row[v].artifact
             /\ (row'[v].state = "NONE") <=> (row[v].state = "NONE")
             /\ row'[v].state = "WAIT_CONFIRMATION" => row[v].state = "WAIT_CONFIRMATION"
  BY <1>1, <1>2, Zenon DEF IndInv
<1>4. RowsKept
  BY <1>3, ZenonT(40) DEF RowsKept, IndInv, TypeOK, TableInv
<1>5. ASSUME NEW v \in Workflows PROVE TableInv(v)'
  BY <1>3, SMTT(40) DEF TableInv, Backed
<1> QED BY <1>2, <1>4, <1>5, Zenon

(* Assigning the approvers makes no vote an approval and never enters the     *)
(* initiator in the ballot.                                                   *)
LEMMA AutoAssignApproversInv ==
    ASSUME IndInv, NEW s \in Slots, AutoAssignApprovers(s)
    PROVE  IndInv'
<1> PICK clear \in BOOLEAN : clear = FALSE
  BY Zenon
<1>1. Evaluated(s, "KEEP", "none", clear)
  BY Zenon DEF AutoAssignApprovers
<1>2. Planned(s, "KEEP", "none", clear) \in Request
  BY <1>1, EvaluatedIs, Zenon DEF IndInv, Writes, ApproverColumn
<1> PICK r \in Request : r = Planned(s, "KEEP", "none", clear)
  BY <1>2, Zenon
<1>3. /\ req' = [req EXCEPT ![s] = r]
      /\ r.op = req[s].op /\ r.w = req[s].w
      /\ r.vote = "none" /\ r.new = "KEEP"
  BY <1>1, EvaluatedIs DEF IndInv, Writes, ApproverColumn
<1>4. /\ req[s].op = "CREATE" /\ RequestInv(req[s])
  BY Zenon DEF AutoAssignApprovers, IndInv
<1> PICK w \in Workflows : w = r.w
  BY <1>3, <1>4, Zenon DEF RequestInv, TaskOps
<1>5. row[w].state # "NONE"
  BY <1>3, <1>4, Zenon DEF RequestInv, TaskOps
<1>6. /\ row' = [row EXCEPT ![w].state = "WAIT_APPROVAL"]
      /\ ballot' = [ballot EXCEPT ![w] = AssignedBallot(w)]
      /\ UNCHANGED <<underWorkflow, member, config, queue, approvedBy, executions, aborts>>
  BY <1>3, Destinations, Zenon DEF AutoAssignApprovers, histVars
<1>7. AssignedBallot(w) \in [Users -> ApproverColumn]
  BY DEF AssignedBallot, IndInv, TypeOK, ApproverColumn
<1>8. ballot' \in [Workflows -> [Users -> ApproverColumn]]
  BY <1>6, <1>7, Zenon DEF IndInv, TypeOK
<1>9. ASSUME NEW v \in Workflows, NEW u \in Users
      PROVE  /\ ballot'[v][u] = "approved" => ballot[v][u] = "approved"
             /\ u = row[v].initiator => ballot'[v][u] = ballot[v][u]
             /\ row[v].state = "NONE" => ballot'[v][u] = ballot[v][u]
  <2>1. CASE v = w
    <3>1. ballot'[v] = AssignedBallot(w)
      BY <1>6, <2>1, Zenon DEF IndInv, TypeOK
    <3>2. ballot'[v][u] = IF u \in CandidateApprovers(row[w].initiator)
                          THEN "pending" ELSE ballot[w][u]
      BY <3>1, Zenon DEF AssignedBallot
    <3> QED BY <1>5, <2>1, <3>2, Zenon DEF CandidateApprovers
  <2>2. CASE v # w
    BY <1>6, <2>2, Zenon DEF IndInv, TypeOK
  <2> QED BY <2>1, <2>2, Zenon
<1>10. "WAIT_APPROVAL" \in WorkflowStates
  BY Zenon DEF WorkflowStates, WorkflowNonTerminalStates
<1>11. /\ row' \in [Workflows -> WorkflowRow] /\ RowsKept
       /\ \A v \in Workflows : TableInv(v)'
  BY <1>5, <1>6, <1>8, <1>9, <1>10, StateWrite, Zenon
<1>12. TypeOK'
  BY <1>3, <1>6, <1>8, <1>11, Zenon DEF IndInv, TypeOK
<1>13. RequestInv(r)'
  <2>1. r.op = "CREATE" /\ row'[r.w].state # "NONE"
    BY <1>3, <1>4, <1>5, <1>11, Zenon DEF RowsKept
  <2> QED BY <1>3, <2>1, Zenon DEF RequestInv, UserOps, TaskOps
<1>14. r.op # "NEW"
  BY <1>3, <1>4, Zenon
<1> QED BY <1>3, <1>11, <1>12, <1>13, <1>14, TableStep, Zenon

(* FAILED over any state is no confirmation. *)
LEMMA PutWorkflowInFailedStateInv ==
    ASSUME IndInv, NEW s \in Slots, putWorkflowInFailedState(s)
    PROVE  IndInv'
<1>1. /\ RequestInv(req[s]) /\ req[s].op = "CREATE"
      /\ req' = [req EXCEPT ![s] = IdleRequest]
      /\ queue' \in SUBSET Workflows
      /\ UNCHANGED <<ballot, member, config, approvedBy, executions, aborts>>
  BY Zenon DEF putWorkflowInFailedState, IndInv, TypeOK, histVars
<1> PICK w \in Workflows : w = req[s].w
  BY <1>1, Zenon DEF RequestInv, TaskOps
<1>2. row[w].state # "NONE" /\ row[w].artifact \in Artifacts
  BY <1>1, Zenon DEF RequestInv, TaskOps, IndInv, TableInv
<1>3. CASE Exists(w)
  <2>1. /\ row' = [row EXCEPT ![w].state = "FAILED"]
        /\ underWorkflow' = [underWorkflow EXCEPT ![row[w].artifact] = FALSE]
    BY <1>3, Zenon DEF putWorkflowInFailedState
  <2>2. "FAILED" \in WorkflowStates
    BY Zenon DEF WorkflowStates, WorkflowTerminalStates
  <2>3. ballot' \in [Workflows -> [Users -> ApproverColumn]] /\ ballot' = ballot
    BY <1>1, Zenon DEF IndInv, TypeOK
  <2>4. /\ row' \in [Workflows -> WorkflowRow] /\ RowsKept
        /\ \A v \in Workflows : TableInv(v)'
    BY <1>1, <1>2, <2>1, <2>2, <2>3, StateWrite, Zenon
  <2>5. TypeOK'
    BY <1>1, <1>2, <2>1, <2>3, <2>4, IdleIsFine, Zenon DEF IndInv, TypeOK
  <2>6. RequestInv(IdleRequest)' /\ IdleRequest.op # "NEW"
    BY IdleFields, Zenon DEF RequestInv, UserOps, TaskOps
  <2> QED BY <1>1, <2>4, <2>5, <2>6, IdleIsFine, TableStep, Zenon
<1>4. CASE ~Exists(w)
  <2>1. UNCHANGED <<row, underWorkflow>>
    BY <1>4, Zenon DEF putWorkflowInFailedState
  <2>2. IdleRequest.op # "NEW"
    BY Zenon DEF IdleRequest
  <2> QED BY <1>1, <2>1, <2>2, IdleIsFine, RequestStep, Zenon DEF IndInv, TypeOK
<1> QED BY <1>3, <1>4, Zenon

(* IAM and the configuration are not part of the evidence. *)
LEMMA EnvironmentInv ==
    ASSUME IndInv, ChangeMembership \/ SetWorkflowConfig \/ UNCHANGED vars
    PROVE  IndInv'
<1>1. UNCHANGED <<row, ballot, underWorkflow, queue, req, approvedBy, executions, aborts>>
  BY Zenon DEF ChangeMembership, SetWorkflowConfig, vars, dbVars, histVars
<1>2. member' \in SUBSET Users /\ config' \in Configs
  BY Zenon DEF ChangeMembership, SetWorkflowConfig, vars, IndInv, TypeOK
<1>3. TypeOK'
  BY <1>1, <1>2, Zenon DEF IndInv, TypeOK
<1>4. (\A w \in Workflows : TableInv(w)') /\ NewIsAlone'
  BY <1>1, Zenon DEF IndInv, TableInv, Backed, NewIsAlone
<1>5. ASSUME NEW t \in Slots PROVE RequestInv(req[t])'
  <2>1. RequestInv(req[t]) /\ req'[t] = req[t]
    BY <1>1, Zenon DEF IndInv
  <2> QED BY <1>1, <2>1, Zenon DEF RequestInv, Backed
<1> QED BY <1>3, <1>4, <1>5, Zenon DEF IndInv

-----------------------------------------------------------------------------
(* The theorems. *)

(* Every step preserves the invariant. *)
LEMMA NextInv == IndInv /\ [Next]_vars => IndInv'
<1> SUFFICES ASSUME IndInv, [Next]_vars PROVE IndInv'
  BY Zenon
<1>1. ASSUME NEW s \in Clients, ClientStep(s) PROVE IndInv'
  <2>1. s \in Slots
    BY Zenon DEF Slots
  <2>2. ASSUME NEW w \in Workflows, NEW u \in Users, NEW a \in Artifacts,
               CheckNewWorkflow(s, w, u, a)
        PROVE  IndInv'
    BY <2>1, <2>2, CheckNewWorkflowInv, Zenon
  <2>3. ASSUME NEW w \in Workflows, NEW u \in Users, NEW op \in UserOps,
               TransitionWorkflow(s, op, w, u)
        PROVE  IndInv'
    BY <2>1, <2>3, TransitionWorkflowInv, Zenon
  <2>4. CASE CreateWorkflow(s)
    BY <2>1, <2>4, CreateWorkflowInv, Zenon
  <2> QED BY <1>1, <2>2, <2>3, <2>4, Zenon DEF ClientStep
<1>2. ASSUME NEW s \in Workers, WorkerStep(s) PROVE IndInv'
  BY <1>2, WorkerStepInv, Zenon DEF Slots
<1>3. ASSUME NEW s \in Slots, Proceed(s) \/ Abort(s) PROVE IndInv'
  BY <1>3, EvaluateVoteInv, EvaluateConfirmInv, EvaluateOtherInv, CommitInv, GiveUpInv,
     AutoAssignApproversInv, PutWorkflowInFailedStateInv, Zenon DEF Proceed
<1>4. CASE ChangeMembership \/ SetWorkflowConfig \/ UNCHANGED vars
  BY <1>4, EnvironmentInv, Zenon
<1> QED BY <1>1, <1>2, <1>3, <1>4, Zenon DEF Next

(* The tables, the requests and the history keep the invariant whatever is    *)
(* interleaved with whatever.                                                 *)
THEOREM Invariance == Spec => []IndInv
BY InitInv, NextInv, PTL DEF Spec

(* transitionExecute runs for a workflow only after MinimumApprovalCount      *)
(* different users other than its initiator stored an approval.               *)
THEOREM DualControlHolds == Spec => []DualControl
<1>1. IndInv => DualControl
  BY Zenon DEF IndInv, TableInv, DualControl
<1> QED BY <1>1, Invariance, PTL

(* Every table and every request keeps its type. *)
THEOREM TypeCorrect == Spec => []TypeOK
<1>1. IndInv => TypeOK
  BY Zenon DEF IndInv
<1> QED BY <1>1, Invariance, PTL

-----------------------------------------------------------------------------
(***************************************************************************)
(* WorkflowApproval implements FourEyes: the steps of the approval         *)
(* workflow, mapped by Promise, are steps of the abstract specification.   *)
(***************************************************************************)

(* Steps that change neither what a row is about nor the history change       *)
(* nothing of the promise.                                                    *)
PromiseKept ==
    /\ \A w \in Workflows : row'[w].initiator = row[w].initiator /\ row'[w].min = row[w].min
    /\ UNCHANGED <<approvedBy, executions>>

(* Such a step is a stuttering step of FourEyes. *)
LEMMA KeptStutters == PromiseKept => UNCHANGED Promise!vars
  BY Zenon DEF PromiseKept, Promise!vars

(* Writing the State of a row leaves who initiated it and its minimum alone. *)
LEMMA StateWriteKeeps ==
    ASSUME TypeOK, NEW w \in Workflows, NEW st,
           row' = row \/ row' = [row EXCEPT ![w].state = st]
    PROVE  \A v \in Workflows : row'[v].initiator = row[v].initiator /\ row'[v].min = row[v].min
<1> SUFFICES ASSUME NEW v \in Workflows, row' = [row EXCEPT ![w].state = st]
             PROVE  row'[v].initiator = row[v].initiator /\ row'[v].min = row[v].min
  BY Zenon
<1>1. row[v] \in WorkflowRow /\ row[w] \in WorkflowRow
  BY Zenon DEF TypeOK
<1>2. CASE v = w
  <2>1. row'[v] = [row[w] EXCEPT !.state = st]
    BY <1>2, Zenon DEF TypeOK
  <2> QED BY <1>1, <1>2, <2>1 DEF WorkflowRow
<1>3. CASE v # w
  BY <1>3, Zenon DEF TypeOK
<1> QED BY <1>2, <1>3, Zenon

(* The insert of CreateWorkflow asks for the action. *)
LEMMA CreateAsks ==
    ASSUME IndInv, NEW s \in Slots, CreateWorkflow(s)
    PROVE  Promise!Next
<1> DEFINE r == req[s]
           w == r.w
<1>1. /\ w \in Workflows /\ r.actor \in Users /\ r.min \in {c.min : c \in Configs}
      /\ row[w].state = "NONE" /\ row[w].initiator = None
  BY Zenon DEF CreateWorkflow, IndInv, RequestInv, TableInv
<1>2. r.min >= 2
  <2>1. PICK c \in Configs : r.min = c.min
    BY <1>1, Zenon
  <2>2. c.min \in Nat \ {0, 1}
    BY ConfigAssumption, Zenon
  <2> QED BY <2>1, <2>2
<1>3. /\ row' = [row EXCEPT ![w] = [state |-> "INITIAL", initiator |-> r.actor,
                                    artifact |-> r.art, min |-> r.min]]
      /\ UNCHANGED <<approvedBy, executions>>
  BY Zenon DEF CreateWorkflow, histVars
<1>4. \A v \in Workflows :
        /\ row'[v].initiator = IF v = w THEN r.actor ELSE row[v].initiator
        /\ row'[v].min = IF v = w THEN r.min ELSE row[v].min
  BY <1>1, <1>3, Zenon DEF IndInv, TypeOK
<1> HIDE DEF r, w
<1>5. Promise!Ask(w, r.actor, r.min)
  <2>1. [v \in Workflows |-> row[v].initiator]' =
          [[v \in Workflows |-> row[v].initiator] EXCEPT ![w] = r.actor]
    BY <1>1, <1>4, Zenon
  <2>2. [v \in Workflows |-> row[v].min]' =
          [[v \in Workflows |-> row[v].min] EXCEPT ![w] = r.min]
    BY <1>1, <1>4, Zenon
  <2> QED BY <1>1, <1>2, <1>3, <2>1, <2>2, Zenon DEF Promise!Ask
<1>6. \E n \in {c.min : c \in Configs} : Promise!Ask(w, r.actor, n)
  <2> DEFINE Q == {c.min : c \in Configs}
  <2>1. r.min \in Q
    BY <1>1, Zenon
  <2> HIDE DEF Q
  <2>2. \E n \in Q : Promise!Ask(w, r.actor, n)
    BY <1>5, <2>1, Zenon DEF Promise!Ask
  <2> QED BY <2>2, Zenon DEF Q
<1> QED BY <1>1, <1>6, Zenon DEF Promise!Next

(* The action of a confirmed workflow is run with the consent it takes. *)
LEMMA ConfirmCarriesOut ==
    ASSUME IndInv, NEW s \in Slots, EvaluateConfirm(s)
    PROVE  Promise!Next
<1> DEFINE w == req[s].w
<1>1. /\ w \in Workflows /\ row[w].state # "NONE" /\ Backed(w, approvedBy[w])
      /\ row[w].initiator \in Users /\ row[w].initiator # None
  <2>1. RequestInv(req[s]) /\ req[s].op = "CONFIRM"
    BY Zenon DEF EvaluateConfirm, IndInv
  <2>2. w \in Workflows /\ row[w].state # "NONE" /\ Backed(w, approvedBy[w])
    BY <2>1, Zenon DEF RequestInv, UserOps
  <2>3. TableInv(w)
    BY <2>2, Zenon DEF IndInv
  <2> QED BY <2>2, <2>3, NoneAssumption, Zenon DEF TableInv
<1>2. executions' = [executions EXCEPT ![w] = @ + 1] /\ UNCHANGED <<row, approvedBy>>
  BY Zenon DEF EvaluateConfirm, dbVars
<1> HIDE DEF w
<1>3. Promise!Cardinality(approvedBy[w]) = Cardinality(approvedBy[w])
  BY Zenon DEF Cardinality, Promise!Cardinality
<1>4. Promise!CarryOut(w)
  BY <1>1, <1>2, <1>3, Zenon DEF Promise!CarryOut, Backed
<1> QED BY <1>1, <1>4, Zenon DEF Promise!Next

(* A committed transaction stores a consent of somebody else, or changes      *)
(* nothing of the promise: the state it writes does not count there.          *)
LEMMA CommitConsents ==
    ASSUME IndInv, NEW s \in Slots, Commit(s)
    PROVE  Promise!Next \/ UNCHANGED Promise!vars
<1> DEFINE r == req[s]
           w == r.w
<1>1. /\ w \in Workflows /\ row[w].state # "NONE" /\ TypeOK
      /\ row[w].initiator \in Users /\ row[w].initiator # None
  <2>1. RequestInv(req[s]) /\ req[s].op \in UserOps \union TaskOps
    BY Zenon DEF Commit, IndInv, TaskOps
  <2>2. w \in Workflows /\ row[w].state # "NONE"
    BY <2>1, Zenon DEF RequestInv
  <2>3. TableInv(w) /\ TypeOK
    BY <2>2, Zenon DEF IndInv
  <2> QED BY <2>2, <2>3, NoneAssumption, Zenon DEF TableInv
<1>2. \A v \in Workflows : row'[v].initiator = row[v].initiator /\ row'[v].min = row[v].min
  <2>1. row' = row \/ row' = [row EXCEPT ![w].state = r.new]
    BY Zenon DEF Commit
  <2> HIDE DEF r, w
  <2> QED BY <1>1, <2>1, StateWriteKeeps, Zenon
<1>3. UNCHANGED executions
  BY Zenon DEF Commit
<1>4. CASE UNCHANGED approvedBy
  BY <1>2, <1>3, <1>4, KeptStutters, Zenon DEF PromiseKept
<1>5. CASE approvedBy' # approvedBy
  <2>1. approvedBy' = [approvedBy EXCEPT ![w] = @ \union {r.actor}] /\ r.vote = "approved"
    BY <1>5, Zenon DEF Commit
  <2>2. r.actor \in Users /\ r.actor # row[w].initiator
    BY <2>1, Zenon DEF IndInv, RequestInv
  <2> HIDE DEF r, w
  <2>3. Promise!Consent(w, r.actor)
    BY <1>1, <1>2, <1>3, <2>1, <2>2, Zenon DEF Promise!Consent
  <2> QED BY <1>1, <2>2, <2>3, Zenon DEF Promise!Next
<1> QED BY <1>4, <1>5, Zenon

(* No other step has to do with the promise.                                  *)
LEMMA OthersStutter ==
    ASSUME IndInv, NEW s \in Slots,
           \/ EvaluateVote(s) \/ EvaluateRevoke(s) \/ ExpireWorkflow(s)
           \/ CleanupTerminalWorkflows(s) \/ RefuseVote(s) \/ AutoAssignError(s)
           \/ AckAutoAssign(s) \/ Abort(s)
           \/ AutoAssignApprovers(s) \/ putWorkflowInFailedState(s)
    PROVE  UNCHANGED Promise!vars
<1>1. UNCHANGED <<approvedBy, executions>>
  BY Zenon DEF EvaluateVote, EvaluateRevoke, ExpireWorkflow, CleanupTerminalWorkflows, RefuseVote,
         AutoAssignError, AckAutoAssign, Abort, AutoAssignApprovers, putWorkflowInFailedState,
         histVars
<1>2. CASE UNCHANGED row
  BY <1>1, <1>2, KeptStutters, Zenon DEF PromiseKept
<1>3. CASE AutoAssignApprovers(s) \/ putWorkflowInFailedState(s)
  <2> DEFINE w == req[s].w
  <2>1. TypeOK /\ w \in Workflows
    BY <1>3, Zenon DEF IndInv, RequestInv, UserOps, TaskOps, AutoAssignApprovers, putWorkflowInFailedState
  <2>2. PICK st : row' = row \/ row' = [row EXCEPT ![w].state = st]
    BY <1>3, Zenon DEF AutoAssignApprovers, putWorkflowInFailedState
  <2> HIDE DEF w
  <2>3. \A v \in Workflows : row'[v].initiator = row[v].initiator /\ row'[v].min = row[v].min
    BY <2>1, <2>2, StateWriteKeeps, Zenon
  <2> QED BY <1>1, <2>3, KeptStutters, Zenon DEF PromiseKept
<1>4. \/ AutoAssignApprovers(s) \/ putWorkflowInFailedState(s) \/ UNCHANGED row
  BY Zenon DEF EvaluateVote, EvaluateRevoke, ExpireWorkflow, CleanupTerminalWorkflows, RefuseVote,
         AutoAssignError, AckAutoAssign, Abort, dbVars
<1> QED BY <1>2, <1>3, <1>4, Zenon

(* Every step of WorkflowApproval is one of FourEyes or leaves it alone.      *)
LEMMA PromiseStep == IndInv /\ [Next]_vars => [Promise!Next]_Promise!vars
<1> SUFFICES ASSUME IndInv, [Next]_vars PROVE Promise!Next \/ UNCHANGED Promise!vars
  BY Zenon
<1>1. ASSUME NEW s \in Clients, ClientStep(s) PROVE Promise!Next \/ UNCHANGED Promise!vars
  <2>1. CASE CreateWorkflow(s)
    BY <2>1, CreateAsks, Zenon DEF Slots
  <2>2. CASE UNCHANGED <<row, approvedBy, executions>>
    BY <2>2, KeptStutters, Zenon DEF PromiseKept
  <2> QED BY <1>1, <2>1, <2>2, Zenon DEF ClientStep, CheckNewWorkflow, TransitionWorkflow, ReadRow,
                                  dbVars, histVars
<1>2. ASSUME NEW s \in Workers, WorkerStep(s) PROVE UNCHANGED Promise!vars
  <2>1. UNCHANGED <<row, approvedBy, executions>>
    BY <1>2, Zenon DEF WorkerStep, StartExpiry, StartAutoAssign, StartCleanup, ReadRow, dbVars, histVars
  <2> QED BY <2>1, KeptStutters, Zenon DEF PromiseKept
<1>3. ASSUME NEW s \in Slots, Proceed(s) \/ Abort(s)
      PROVE  Promise!Next \/ UNCHANGED Promise!vars
  BY <1>3, CommitConsents, ConfirmCarriesOut, OthersStutter, Zenon DEF Proceed
<1>4. CASE ChangeMembership \/ SetWorkflowConfig \/ UNCHANGED vars
  <2>1. UNCHANGED <<row, approvedBy, executions>>
    BY <1>4, Zenon DEF ChangeMembership, SetWorkflowConfig, vars, dbVars, histVars
  <2> QED BY <2>1, KeptStutters, Zenon DEF PromiseKept
<1> QED BY <1>1, <1>2, <1>3, <1>4, Zenon DEF Next

(* Nobody has asked for anything before the first workflow. *)
LEMMA PromiseInit == Init => Promise!Init
  BY DEF Init, Promise!Init

(* The workflow, with all its requests, tasks, stale copies and lost          *)
(* transactions, keeps the promise of FourEyes.                               *)
THEOREM Refinement == Spec => KeepsPromise
BY Invariance, PromiseInit, PromiseStep, PTL DEF Spec, KeepsPromise, Promise!Spec

-----------------------------------------------------------------------------
(***************************************************************************)
(* Proofs about WorkflowApproval when requests do not overlap, that is,    *)
(* when one slot serves all of them: the stored state follows the stored   *)
(* votes, an action is run once unless a transaction was lost after it,    *)
(* and a workflow that is over stays over; for any users, workflows,       *)
(* configurations and number of lost transactions.                         *)
(***************************************************************************)

-----------------------------------------------------------------------------
(* Votes. *)

Voted(b, decision) == {u \in Users : b[u] = decision}
Votes(b, decision) == Cardinality(Voted(b, decision))

(* The number of votes is a number, and more voters are more votes. *)
LEMMA VotesAre ==
  ASSUME NEW b, NEW decision
  PROVE  Votes(b, decision) \in Nat /\ IsFiniteSet(Voted(b, decision))
<1>1. Voted(b, decision) \in SUBSET Users
  BY Zenon DEF Voted
<1>. QED  BY <1>1, FS_Subset, FS_CardinalityType, FiniteAssumption, Zenon DEF Votes

(* More voters of a decision are more votes. *)
LEMMA MoreVotes ==
  ASSUME NEW b, NEW c, NEW decision, Voted(b, decision) \subseteq Voted(c, decision)
  PROVE  Votes(b, decision) <= Votes(c, decision)
  BY VotesAre, FS_Subset, Zenon DEF Votes

(* filterEligibleApprovers only leaves out votes that are pending. *)
LEMMA FilteredVotes ==
  ASSUME NEW b \in [Users -> ApproverColumn], NEW eligible
  PROVE  /\ calculateVoteCounts(b, filterEligibleApprovers(b, eligible)).approvals = Votes(b, "approved")
         /\ calculateVoteCounts(b, filterEligibleApprovers(b, eligible)).rejections = Votes(b, "rejected")
         /\ calculateVoteCounts(b, filterEligibleApprovers(b, eligible)).pending \in Nat
         /\ calculateVoteCounts(b, filterEligibleApprovers(b, eligible)).pending <= Votes(b, "pending")
<1>. DEFINE F == filterEligibleApprovers(b, eligible)
<1>1. Having(b, F, "approved") = Voted(b, "approved") /\ Having(b, F, "rejected") = Voted(b, "rejected")
  BY Zenon DEF Having, Voted, filterEligibleApprovers, Approvers
<1>2. Having(b, F, "pending") \in SUBSET Voted(b, "pending")
  BY Zenon DEF Having, Voted, filterEligibleApprovers, Approvers
<1>3. /\ IsFiniteSet(Having(b, F, "pending"))
      /\ Cardinality(Having(b, F, "pending")) <= Cardinality(Voted(b, "pending"))
  BY <1>2, VotesAre, FS_Subset, Zenon
<1>4. Cardinality(Having(b, F, "pending")) \in Nat
  BY <1>3, FS_CardinalityType, Zenon
<1>. QED  BY <1>1, <1>3, <1>4, Zenon DEF calculateVoteCounts, Votes

(* Without a filter the counts are the votes. *)
LEMMA AllVotes ==
  ASSUME NEW b \in [Users -> ApproverColumn]
  PROVE  /\ calculateVoteCounts(b, Approvers(b)).approvals = Votes(b, "approved")
         /\ calculateVoteCounts(b, Approvers(b)).rejections = Votes(b, "rejected")
         /\ calculateVoteCounts(b, Approvers(b)).pending = Votes(b, "pending")
<1>1. \A d \in {"approved", "rejected", "pending"} : Having(b, Approvers(b), d) = Voted(b, d)
  BY Zenon DEF Having, Voted, Approvers
<1>. QED  BY <1>1, Zenon DEF calculateVoteCounts, Votes

(* Won, counted in votes. *)
LEMMA WonIs ==
  ASSUME NEW b \in [Users -> ApproverColumn], NEW min
  PROVE  Won(b, min) <=> Votes(b, "approved") - Votes(b, "rejected") >= min
  BY AllVotes, Zenon DEF Won, Score

(* Undecided, counted in votes. *)
LEMMA UndecidedIs ==
  ASSUME NEW b \in [Users -> ApproverColumn], NEW min
  PROVE  Undecided(b, min) <=>
           /\ Votes(b, "approved") - Votes(b, "rejected") < min
           /\ min <= Votes(b, "approved") - Votes(b, "rejected") + Votes(b, "pending")
  BY AllVotes, Zenon DEF Undecided, Score

(* A rejection does not raise the score. *)
LEMMA RejectLowers ==
  ASSUME NEW b \in [Users -> ApproverColumn], NEW u \in Users
  PROVE  LET after == [b EXCEPT ![u] = "rejected"]
         IN  /\ Votes(after, "approved") <= Votes(b, "approved")
             /\ Votes(b, "rejected") <= Votes(after, "rejected")
<1>. DEFINE after == [b EXCEPT ![u] = "rejected"]
<1>1. /\ Voted(after, "approved") \subseteq Voted(b, "approved")
      /\ Voted(b, "rejected") \subseteq Voted(after, "rejected")
  BY Zenon DEF Voted
<1>. HIDE DEF after
<1>2. /\ Votes(after, "approved") <= Votes(b, "approved")
      /\ Votes(b, "rejected") <= Votes(after, "rejected")
  BY <1>1, MoreVotes, Zenon
<1>. QED  BY <1>2, Zenon DEF after

(* What a vote decides, on filtered votes, is what all votes say. *)
LEMMA OutcomeFollowsVotes ==
  ASSUME NEW b \in [Users -> ApproverColumn], NEW u \in Users, NEW min \in Nat,
         NEW op \in {"APPROVE", "REJECT"}, NEW eligible, Undecided(b, min)
  PROVE  LET after == [b EXCEPT ![u] = Decision(op)]
             out == VoteOutcome(after, eligible, op, min)
         IN  /\ out.new \in {"KEEP", "WAIT_CONFIRMATION", "REJECTED"}
             /\ out.clear \in BOOLEAN
             /\ out.new = "KEEP" => Undecided(after, min)
             /\ out.new = "WAIT_CONFIRMATION" => Won(after, min)
<1>. DEFINE after == [b EXCEPT ![u] = Decision(op)]
            out == VoteOutcome(after, eligible, op, min)
            counts == calculateVoteCounts(after, filterEligibleApprovers(after, eligible))
            yes == Votes(after, "approved")
            no == Votes(after, "rejected")
            open == Votes(after, "pending")
<1>1. after \in [Users -> ApproverColumn]
  BY Zenon DEF Decision, ApproverColumn
<1>2. op = "REJECT" => yes - no < min
  <2>1. ASSUME op = "REJECT" PROVE after = [b EXCEPT ![u] = "rejected"]
    BY <2>1, Zenon DEF Decision
  <2>2. Votes(b, "approved") - Votes(b, "rejected") < min
    BY UndecidedIs, Zenon
  <2>3. op = "REJECT" => yes <= Votes(b, "approved") /\ Votes(b, "rejected") <= no
    BY <2>1, RejectLowers, Zenon
  <2>4. yes \in Nat /\ no \in Nat /\ Votes(b, "approved") \in Nat /\ Votes(b, "rejected") \in Nat
    BY VotesAre, Zenon
  <2>. HIDE DEF yes, no
  <2>. QED  BY <2>2, <2>3, <2>4
<1>. HIDE DEF after
<1>3. /\ counts.approvals = yes /\ counts.rejections = no
      /\ counts.pending \in Nat /\ counts.pending <= open
  BY <1>1, FilteredVotes, Zenon
<1>4. yes \in Nat /\ no \in Nat /\ open \in Nat
  BY VotesAre, Zenon
<1>. HIDE DEF yes, no, open
<1>5. /\ checkVotingScore(after, eligible, "APPROVE", min) <=> yes - no >= min
      /\ checkVotingScore(after, eligible, "REJECT", min) <=> yes - no + counts.pending < min
  BY <1>3, Zenon DEF checkVotingScore, shouldTransition, Score
<1>6. /\ Won(after, min) <=> yes - no >= min
      /\ Undecided(after, min) <=> yes - no < min /\ min <= yes - no + open
  BY <1>1, WonIs, UndecidedIs, Zenon DEF yes, no, open
<1>. HIDE DEF counts
<1>7. ASSUME ~checkVotingScore(after, eligible, "REJECT", min),
             ~(op = "APPROVE" /\ checkVotingScore(after, eligible, "APPROVE", min))
      PROVE  Undecided(after, min)
  BY <1>2, <1>3, <1>4, <1>5, <1>6, <1>7, SMTT(30)
<1>8. /\ out.new \in {"KEEP", "WAIT_CONFIRMATION", "REJECTED"} /\ out.clear \in BOOLEAN
      /\ out.new = "KEEP" => Undecided(after, min)
      /\ out.new = "WAIT_CONFIRMATION" => Won(after, min)
  <2>. DEFINE wins == checkVotingScore(after, eligible, op, min)
              lost == checkVotingScore(after, eligible, "REJECT", min)
  <2>1. out = CASE wins -> [new   |-> Destination(op),
                            clear |-> Destination(op) \in WorkflowTerminalStates]
                [] ~wins /\ lost -> [new |-> "REJECTED", clear |-> FALSE]
                [] OTHER -> [new |-> "KEEP", clear |-> FALSE]
    BY Zenon DEF VoteOutcome
  <2>2. /\ Destination(op) \in {"WAIT_CONFIRMATION", "REJECTED"}
        /\ wins /\ Destination(op) = "WAIT_CONFIRMATION" => Won(after, min)
        /\ ~wins /\ ~lost => Undecided(after, min)
    BY <1>5, <1>6, <1>7, Destinations, Zenon
  <2>. HIDE DEF wins, lost, out
  <2>3. CASE wins
    <3>1. out = [new |-> Destination(op), clear |-> Destination(op) \in WorkflowTerminalStates]
      BY <2>1, <2>3, Zenon
    <3>2. out.new = Destination(op)
      BY <3>1, Zenon
    <3>3. out.clear \in BOOLEAN
      <4>. DEFINE over == Destination(op) \in WorkflowTerminalStates
      <4>1. over \in BOOLEAN
        OBVIOUS
      <4>2. out = [new |-> Destination(op), clear |-> over]
        BY <3>1, Zenon
      <4>. HIDE DEF over
      <4>. QED  BY <4>1, <4>2, Zenon
    <3>. QED  BY <2>2, <2>3, <3>2, <3>3, Zenon
  <2>4. CASE ~wins /\ lost
    BY <2>1, <2>4, Zenon
  <2>5. CASE ~wins /\ ~lost
    BY <2>1, <2>2, <2>5, Zenon
  <2>. QED  BY <2>3, <2>4, <2>5, Zenon
<1>. QED  BY <1>8, Zenon DEF after, out

(* Freshly assigned approvers have not decided anything. *)
LEMMA AssignedUndecided ==
  ASSUME NEW b \in [Users -> ApproverColumn], NEW min \in Nat \ {0},
         \A u \in Users : b[u] \in {"none", "pending"}, Cardinality(Approvers(b)) >= min
  PROVE  Undecided(b, min)
<1>1. Voted(b, "approved") = {} /\ Voted(b, "rejected") = {} /\ Voted(b, "pending") = Approvers(b)
  BY Zenon DEF Voted, Approvers
<1>2. Votes(b, "approved") = 0 /\ Votes(b, "rejected") = 0 /\ Votes(b, "pending") >= min
  BY <1>1, FS_EmptySet, Zenon DEF Votes
<1>3. Votes(b, "pending") \in Nat
  BY VotesAre, Zenon
<1>. QED  BY <1>2, <1>3, UndecidedIs, SMTT(30)

-----------------------------------------------------------------------------
(* Requests and tasks do not overlap: one slot, which serves the API's         *)
(* requests and the worker's tasks in turn.                                   *)
Serial == \A s, t \in Slots : s = t

(* Which states a transition of the table can start from. *)
LEMMA SourceStates ==
  ASSUME NEW op, NEW state, CanTransition(op, state)
  PROVE  /\ op \in {"APPROVE", "REJECT"} => state = "WAIT_APPROVAL"
         /\ op = "CREATE" => state = "INITIAL"
         /\ op = "CONFIRM" => state = "WAIT_CONFIRMATION"
         /\ op \in UserOps \union {"EXPIRE"} => state \in WorkflowNonTerminalStates
  BY DEF CanTransition, NewLifecycle, Event, UserOps, WorkflowNonTerminalStates

(* A step of the slot that leaves the tables alone. *)
LEMMA RequestMoves ==
  ASSUME Serial, SerialInv, NEW s \in Slots, UNCHANGED <<row, ballot, executions, aborts>>,
         ~(req[s].op = "CONFIRM" /\ req[s].pc = "tx"), SerialRequest(req[s])'
  PROVE  SerialInv'
<1>1. \A w \in Workflows : ~Confirming(w)
  BY Zenon DEF Serial, Confirming
<1>2. \A w \in Workflows : SerialTable(w)'
  BY <1>1, Zenon DEF SerialInv, SerialTable
<1>3. \A t \in Slots : SerialRequest(req[t])'
  BY Zenon DEF Serial
<1>. QED  BY <1>2, <1>3, Zenon DEF SerialInv

(* A step that changes the row, the votes or the executions of one workflow. *)
LEMMA TableMoves ==
  ASSUME Serial, SerialInv, NEW s \in Slots, NEW w \in Workflows,
         ~(req[s].op = "CONFIRM" /\ req[s].pc = "tx") \/ req[s].w = w,
         \A v \in Workflows : v # w => /\ row'[v] = row[v] /\ ballot'[v] = ballot[v]
                                       /\ executions'[v] = executions[v],
         aborts' = aborts, SerialTable(w)', SerialRequest(req[s])'
  PROVE  SerialInv'
<1>1. \A v \in Workflows : v # w => ~Confirming(v)
  BY Zenon DEF Serial, Confirming
<1>2. ASSUME NEW v \in Workflows, v # w PROVE SerialTable(v)'
  BY <1>1, <1>2 DEF SerialInv, SerialTable
<1>3. \A t \in Slots : SerialRequest(req[t])'
  BY Zenon DEF Serial
<1>. QED  BY <1>2, <1>3, Zenon DEF SerialInv

(* A slot that is free promises nothing. *)
LEMMA IdleSerial ==
  ASSUME NEW s \in Slots, req'[s] = IdleRequest
  PROVE  SerialRequest(req[s])'
  BY IdleFields, Zenon DEF SerialRequest, UserOps

(* Nothing is there at first. *)
LEMMA InitSerial == Init => SerialInv
<1>. SUFFICES ASSUME Init PROVE SerialInv
  BY Zenon
<1>1. ASSUME NEW s \in Slots PROVE SerialRequest(req[s])
  <2>1. req[s] = IdleRequest
    BY Zenon DEF Init
  <2>. QED  BY <2>1, IdleFields, Zenon DEF SerialRequest, UserOps
<1>2. ASSUME NEW w \in Workflows PROVE SerialTable(w)
  <2>1. row[w].state = "NONE" /\ executions[w] = 0 /\ aborts = 0
    BY Zenon DEF Init
  <2>. QED  BY <2>1 DEF SerialTable, WorkflowNonTerminalStates
<1>. QED  BY <1>1, <1>2, Zenon DEF SerialInv

(* Creating a workflow. *)
LEMMA CheckSerial ==
  ASSUME Serial, IndInv, SerialInv, NEW s \in Slots, NEW w \in Workflows, NEW u, NEW a,
         CheckNewWorkflow(s, w, u, a)
  PROVE  SerialInv'
<1>1. req[s].pc = "idle" /\ UNCHANGED <<row, ballot, executions, aborts>>
  BY Zenon DEF CheckNewWorkflow, dbVars, histVars
<1>2. req'[s].op = "NEW" /\ req'[s].pc = "tx"
  BY Zenon DEF CheckNewWorkflow, IndInv, TypeOK, IdleRequest
<1>3. SerialRequest(req[s])'
  BY <1>2, Zenon DEF SerialRequest, UserOps
<1>. QED  BY <1>1, <1>3, RequestMoves, Zenon

(* CreateWorkflow inserts a row without votes. *)
LEMMA CreateSerial ==
  ASSUME Serial, IndInv, SerialInv, NEW s \in Slots, CreateWorkflow(s)
  PROVE  SerialInv'
<1>1. PICK w \in Workflows : w = req[s].w
  BY Zenon DEF IndInv, RequestInv, CreateWorkflow
<1>2. /\ row'[w].state = "INITIAL" /\ row'[w].min = req[s].min
      /\ \A v \in Workflows : v # w => row'[v] = row[v]
      /\ ballot' = ballot /\ executions' = executions /\ aborts' = aborts
      /\ req'[s] = IdleRequest
  BY <1>1, Zenon DEF CreateWorkflow, histVars, IndInv, TypeOK
<1>3. row[w].state = "NONE" /\ req[s].min \in {c.min : c \in Configs}
  BY <1>1, Zenon DEF IndInv, RequestInv, CreateWorkflow
<1>4. req[s].min >= 2
  <2>1. PICK c \in Configs : req[s].min = c.min
    BY <1>3, Zenon
  <2>. QED  BY <2>1, ConfigAssumption
<1>5. executions[w] = 0 /\ \A u \in Users : ballot[w][u] = "none"
  BY <1>3, Zenon DEF IndInv, TableInv
<1>6. aborts \in Nat
  BY Zenon DEF IndInv, TypeOK
<1>7. SerialTable(w)'
  BY <1>2, <1>4, <1>5, <1>6 DEF SerialTable
<1>8. req[s].op = "NEW"
  BY Zenon DEF CreateWorkflow
<1>. QED  BY <1>2, <1>7, <1>8, IdleSerial, TableMoves, Zenon

(* Reading the row: nobody else can change it from here on. *)
LEMMA ReadSerial ==
  ASSUME Serial, IndInv, SerialInv, NEW s \in Slots, NEW op \in UserOps \union TaskOps,
         NEW w \in Workflows, NEW u, ReadRow(s, op, w, u),
         op \in UserOps \union {"EXPIRE"} => CanTransition(op, row[w].state),
         op = "CLEANUP" => row[w].state \in WorkflowTerminalStates
  PROVE  SerialInv'
<1>1. req[s].pc = "idle" /\ UNCHANGED <<row, ballot, executions, aborts>>
  BY Zenon DEF ReadRow, dbVars, histVars
<1>2. /\ req'[s].pc = "read" /\ req'[s].op = op /\ req'[s].w = w /\ req'[s].snap = row[w].state
      /\ req'[s].new = "KEEP" /\ req'[s].vote = "none"
  BY Zenon DEF ReadRow, IndInv, TypeOK, IdleRequest
<1>3. SerialRequest(req[s])'
  BY <1>1, <1>2, Zenon DEF SerialRequest
<1>. QED  BY <1>1, <1>3, RequestMoves, Zenon

(* What a slot has planned after its checks. *)
LEMMA PlannedFields ==
  ASSUME IndInv, NEW s \in Slots, NEW new, NEW vote, NEW clear, Evaluated(s, new, vote, clear)
  PROVE  /\ req'[s].pc = "tx" /\ req'[s].new = new /\ req'[s].vote = vote
         /\ req'[s].op = req[s].op /\ req'[s].w = req[s].w /\ req'[s].actor = req[s].actor
<1>1. req[s] \in Request
  BY Zenon DEF IndInv, TypeOK
<1>2. req'[s] = [req[s] EXCEPT !.pc = "tx", !.new = new, !.vote = vote, !.clear = clear]
  BY Zenon DEF Evaluated, IndInv, TypeOK
<1>. QED  BY <1>1, <1>2, Zenon DEF Request

(* A vote: the planned state follows from the votes, with this one added. *)
LEMMA VoteSerial ==
  ASSUME Serial, IndInv, SerialInv, NEW s \in Slots, EvaluateVote(s)
  PROVE  SerialInv'
<1>. DEFINE r == req[s]
<1>1. /\ r.pc = "read" /\ r.op \in {"APPROVE", "REJECT"}
      /\ UNCHANGED <<row, ballot, executions, aborts>>
  BY DEF EvaluateVote, dbVars, histVars
<1>2. PICK w \in Workflows : w = r.w
  BY <1>1, ZenonT(40) DEF IndInv, RequestInv, UserOps
<1>3. PICK u \in Users : u = r.actor
  BY <1>1, Zenon DEF IndInv, RequestInv
<1>4. ballot[w] \in [Users -> ApproverColumn] /\ row[w].min \in Nat
  BY Zenon DEF IndInv, TypeOK, WorkflowRow
<1>5. CanTransition(r.op, row[w].state)
  BY <1>1, <1>2, Zenon DEF SerialInv, SerialRequest, UserOps
<1>6. row[w].state = "WAIT_APPROVAL"
  BY <1>1, <1>5, SourceStates, Zenon
<1>7. Undecided(ballot[w], row[w].min)
  BY <1>6, Zenon DEF SerialInv, SerialTable
<1>. DEFINE after == [ballot[w] EXCEPT ![u] = Decision(r.op)]
<1>8. PICK eligible \in {member, Users} :
        Evaluated(s, VoteOutcome(after, eligible, r.op, row[w].min).new, Decision(r.op),
                     VoteOutcome(after, eligible, r.op, row[w].min).clear)
  BY <1>2, <1>3, Zenon DEF EvaluateVote
<1>. DEFINE new == VoteOutcome(after, eligible, r.op, row[w].min).new
<1>9. /\ new \in {"KEEP", "WAIT_CONFIRMATION", "REJECTED"}
      /\ new = "KEEP" => Undecided(after, row[w].min)
      /\ new = "WAIT_CONFIRMATION" => Won(after, row[w].min)
  BY <1>1, <1>4, <1>7, OutcomeFollowsVotes, ZenonT(40)
<1>10. /\ req'[s].pc = "tx" /\ req'[s].new = new /\ req'[s].vote = Decision(r.op)
       /\ req'[s].op = r.op /\ req'[s].w = w /\ req'[s].actor = u
  BY <1>2, <1>3, <1>8, PlannedFields, SMTT(30)
<1>11. Decision(r.op) # "none" /\ row' = row /\ ballot' = ballot
  BY <1>1, Zenon DEF Decision
<1>12. [ballot'[req'[s].w] EXCEPT ![req'[s].actor] = req'[s].vote] = after
  BY <1>10, <1>11, Zenon
<1>. HIDE DEF new, after
<1>13. SerialRequest(req[s])'
  BY <1>1, <1>5, <1>9, <1>10, <1>11, <1>12, Zenon DEF SerialRequest, UserOps
<1>. QED  BY <1>1, <1>13, RequestMoves, ZenonT(40)

(* A confirmation runs the action: it has not been run before unless a        *)
(* transaction was lost.                                                      *)
LEMMA ConfirmSerial ==
  ASSUME Serial, IndInv, SerialInv, NEW s \in Slots, EvaluateConfirm(s)
  PROVE  SerialInv'
<1>1. /\ req[s].pc = "read" /\ req[s].op = "CONFIRM"
      /\ UNCHANGED <<row, ballot, aborts>>
  BY Zenon DEF EvaluateConfirm, dbVars
<1>2. PICK w \in Workflows : w = req[s].w
  BY <1>1, ZenonT(40) DEF IndInv, RequestInv, UserOps
<1>3. CanTransition("CONFIRM", row[w].state)
  BY <1>1, <1>2, Zenon DEF SerialInv, SerialRequest, UserOps
<1>4. row[w].state = "WAIT_CONFIRMATION"
  BY <1>3, SourceStates, Zenon
<1>5. executions[w] <= aborts
  <2>1. ~Confirming(w)
    BY <1>1, Zenon DEF Serial, Confirming
  <2>. QED  BY <1>4, <2>1, Zenon DEF SerialInv, SerialTable, WorkflowNonTerminalStates
<1>6. PICK result \in {"EXECUTE", "FAIL"} : Evaluated(s, Destination(result), "none", TRUE)
  BY Zenon DEF EvaluateConfirm
<1>7. Destination(result) \in WorkflowTerminalStates
  BY Destinations, Zenon DEF WorkflowTerminalStates
<1>8. /\ req'[s].pc = "tx" /\ req'[s].new = Destination(result)
      /\ req'[s].op = "CONFIRM" /\ req'[s].w = w
  BY <1>1, <1>2, <1>6, PlannedFields, Zenon
<1>9. SerialRequest(req[s])'
  BY <1>1, <1>3, <1>7, <1>8, Zenon DEF SerialRequest
<1>10. /\ executions'[w] = executions[w] + 1
       /\ \A v \in Workflows : v # w => executions'[v] = executions[v]
  BY <1>2, Zenon DEF EvaluateConfirm, IndInv, TypeOK
<1>11. executions[w] \in Nat /\ aborts \in Nat
  BY Zenon DEF IndInv, TypeOK
<1>12. Confirming(w)'
  BY <1>8, Zenon DEF Confirming
<1>13. executions'[w] <= 1 + aborts'
  BY <1>1, <1>5, <1>10, <1>11, SMTT(30)
<1>14. SerialTable(w)'
  BY <1>1, <1>12, <1>13, Zenon DEF SerialInv, SerialTable
<1>. QED  BY <1>1, <1>9, <1>10, <1>14, TableMoves, Zenon

(* Revocation, expiry, deletion and a failed assignment. *)
LEMMA OthersSerial ==
  ASSUME Serial, IndInv, SerialInv, NEW s \in Slots,
         \/ EvaluateRevoke(s) \/ ExpireWorkflow(s)
         \/ CleanupTerminalWorkflows(s) \/ AutoAssignError(s)
  PROVE  SerialInv'
<1>1. UNCHANGED <<row, ballot, executions, aborts>> /\ req[s].op \in {"REVOKE", "EXPIRE", "CLEANUP", "CREATE"}
  BY Zenon DEF EvaluateRevoke, ExpireWorkflow, CleanupTerminalWorkflows, AutoAssignError, dbVars, histVars
<1>2. SerialRequest(req[s])
  BY Zenon DEF SerialInv
<1>3. CASE EvaluateRevoke(s) \/ ExpireWorkflow(s)
  <2>1. PICK new \in {"REVOKED", "EXPIRED"} : Evaluated(s, new, "none", TRUE)
    BY <1>3, Destinations, Zenon DEF EvaluateRevoke, ExpireWorkflow
  <2>2. req[s].op \in {"REVOKE", "EXPIRE"}
    BY <1>3, Zenon DEF EvaluateRevoke, ExpireWorkflow
  <2>3. req'[s].pc = "tx" /\ req'[s].new = new /\ req'[s].op = req[s].op /\ req'[s].w = req[s].w
    BY <2>1, PlannedFields, Zenon
  <2>4. SerialRequest(req[s])'
    BY <1>1, <1>2, <2>2, <2>3, Zenon DEF SerialRequest, UserOps, WorkflowTerminalStates
  <2>. QED  BY <1>1, <2>4, RequestMoves, Zenon
<1>4. CASE CleanupTerminalWorkflows(s)
  <2>1. Evaluated(s, "DELETED", "none", FALSE) /\ req[s].op = "CLEANUP"
    BY <1>4, Zenon DEF CleanupTerminalWorkflows
  <2>2. req'[s].pc = "tx" /\ req'[s].new = "DELETED" /\ req'[s].op = "CLEANUP" /\ req'[s].w = req[s].w
    BY <2>1, PlannedFields, Zenon
  <2>3. SerialRequest(req[s])'
    BY <1>1, <1>2, <2>1, <2>2, ZenonT(40) DEF SerialRequest, UserOps
  <2>. QED  BY <1>1, <2>3, RequestMoves, Zenon
<1>5. CASE AutoAssignError(s)
  <2>1. Evaluated(s, "FAILED", "none", TRUE) /\ req[s].op = "CREATE"
    BY <1>5, Zenon DEF AutoAssignError
  <2>2. req'[s].pc = "tx" /\ req'[s].new = "FAILED" /\ req'[s].op = "CREATE"
    BY <2>1, PlannedFields, Zenon
  <2>3. SerialRequest(req[s])'
    BY <2>2, Zenon DEF SerialRequest, UserOps
  <2>. QED  BY <1>1, <2>3, RequestMoves, Zenon
<1>. QED  BY <1>3, <1>4, <1>5, Zenon

(* Storing what was planned. *)
LEMMA CommitSerial ==
  ASSUME Serial, IndInv, SerialInv, NEW s \in Slots, Commit(s)
  PROVE  /\ SerialInv'
         /\ \A v \in Workflows : row[v].state \in WorkflowTerminalStates =>
              row'[v].state \in WorkflowTerminalStates \union {"DELETED"}
<1>. DEFINE r == req[s]
<1>1. /\ r.pc = "tx" /\ r.op \in UserOps \union {"EXPIRE", "CLEANUP"}
      /\ UNCHANGED <<executions, aborts>> /\ req' = [req EXCEPT ![s] = IdleRequest]
  BY Zenon DEF Commit
<1>2. PICK w \in Workflows : w = r.w
  BY <1>1, ZenonT(40) DEF IndInv, RequestInv, TaskOps
<1>3. SerialRequest(r) /\ SerialTable(w)
  BY Zenon DEF SerialInv
<1>4. r.op # "CLEANUP" => CanTransition(r.op, row[w].state)
  BY <1>1, <1>2, <1>3, Zenon DEF SerialRequest
<1>5. /\ r.op # "CLEANUP" => row[w].state \in WorkflowNonTerminalStates
      /\ r.op = "CLEANUP" => row[w].state \in WorkflowTerminalStates
      /\ r.op \in {"APPROVE", "REJECT"} => row[w].state = "WAIT_APPROVAL"
  BY <1>1, <1>2, <1>3, <1>4, SourceStates, Zenon DEF SerialRequest, UserOps
<1>6. Exists(w)
  BY <1>1, <1>5, Zenon DEF Exists, WorkflowStates
<1>7. r.new \in Writes /\ row[w] \in WorkflowRow
  BY Zenon DEF IndInv, TypeOK, Request
<1>8. /\ row' = IF r.new # "KEEP" THEN [row EXCEPT ![w].state = r.new] ELSE row
      /\ ballot' = CASE r.new = "DELETED" ->
                          [ballot EXCEPT ![w] = [u \in Users |-> "none"]]
                     [] r.new # "DELETED" /\ r.vote # "none" ->
                          [ballot EXCEPT ![w][r.actor] = r.vote]
                     [] OTHER -> ballot
  BY <1>2, <1>6, Zenon DEF Commit
<1>9. /\ row'[w].state = IF r.new # "KEEP" THEN r.new ELSE row[w].state
      /\ row'[w].min = row[w].min
      /\ \A v \in Workflows : v # w => row'[v] = row[v]
  BY <1>7, <1>8, ZenonT(40) DEF IndInv, TypeOK, WorkflowRow
<1>10. \A v \in Workflows : v # w => ballot'[v] = ballot[v]
  BY <1>8, Zenon DEF IndInv, TypeOK
<1>11. req'[s] = IdleRequest
  BY <1>1, Zenon DEF IndInv, TypeOK
<1>12. executions[w] <= 1 + aborts
  BY <1>3, Zenon DEF SerialTable
<1>13. row[w].min >= 2
  BY <1>3, <1>6, Zenon DEF SerialTable, Exists, WorkflowStates, WorkflowNonTerminalStates, WorkflowTerminalStates
<1>14. CASE r.op \in {"APPROVE", "REJECT"}
  <2>. DEFINE after == [ballot[w] EXCEPT ![r.actor] = r.vote]
  <2>1. /\ r.vote # "none" /\ r.new \in {"KEEP", "WAIT_CONFIRMATION", "REJECTED"}
        /\ r.new = "KEEP" => Undecided(after, row[w].min)
        /\ r.new = "WAIT_CONFIRMATION" => Won(after, row[w].min)
    BY <1>1, <1>2, <1>3, <1>14, Zenon DEF SerialRequest
  <2>2. ballot'[w] = after
    BY <1>8, <2>1, Zenon DEF IndInv, TypeOK
  <2>3. executions[w] <= aborts
    <3>1. ~Confirming(w)
      BY <1>14, Zenon DEF Serial, Confirming
    <3>. QED  BY <1>3, <1>5, <1>14, <3>1, Zenon DEF SerialTable, WorkflowNonTerminalStates
  <2>. HIDE DEF after
  <2>4. row'[w].state \in {"WAIT_APPROVAL", "WAIT_CONFIRMATION", "REJECTED"}
    BY <1>5, <1>9, <1>14, <2>1, ZenonT(40)
  <2>5. SerialTable(w)'
    BY <1>1, <1>5, <1>9, <1>12, <1>13, <1>14, <2>1, <2>2, <2>3, <2>4, SMTT(30) DEF SerialTable
  <2>6. SerialInv'
    BY <1>1, <1>9, <1>10, <1>11, <1>14, <2>5, IdleSerial, TableMoves, ZenonT(40)
  <2>7. row[w].state \notin WorkflowTerminalStates
    BY <1>5, <1>14, Zenon DEF WorkflowTerminalStates
  <2>. QED  BY <1>9, <2>6, <2>7, Zenon
<1>15. CASE r.op \notin {"APPROVE", "REJECT"}
  <2>1. r.new \in WorkflowTerminalStates \union {"DELETED"}
    BY <1>1, <1>3, <1>15, Zenon DEF SerialRequest, UserOps
  <2>2. row'[w].state = r.new
    BY <1>9, <2>1, Zenon DEF WorkflowTerminalStates
  <2>3. SerialTable(w)'
    BY <1>1, <1>9, <1>12, <1>13, <2>1, <2>2, ZenonT(40)
    DEF SerialTable, WorkflowTerminalStates, WorkflowNonTerminalStates
  <2>4. SerialInv'
    BY <1>1, <1>2, <1>9, <1>10, <1>11, <2>3, IdleSerial, TableMoves, ZenonT(40)
  <2>. QED  BY <1>9, <2>1, <2>2, <2>4, Zenon
<1>. QED  BY <1>14, <1>15, Zenon

(* A transaction that is lost may have run the action already. *)
LEMMA AbortSerial ==
  ASSUME Serial, IndInv, SerialInv, NEW s \in Slots, Abort(s)
  PROVE  SerialInv'
<1>1. /\ UNCHANGED <<row, ballot, executions>> /\ aborts' = aborts + 1
      /\ req'[s] = IdleRequest
  BY Zenon DEF Abort, dbVars, histVars, IndInv, TypeOK
<1>2. ASSUME NEW w \in Workflows PROVE SerialTable(w)'
  <2>1. executions[w] \in Nat /\ aborts \in Nat /\ SerialTable(w)
    BY Zenon DEF IndInv, TypeOK, SerialInv
  <2>2. executions'[w] <= aborts' /\ executions'[w] <= 1 + aborts'
    BY <1>1, <2>1 DEF SerialTable
  <2>. QED  BY <1>1, <2>1, <2>2, Zenon DEF SerialTable
<1>3. \A t \in Slots : SerialRequest(req[t])'
  BY <1>1, IdleSerial, Zenon DEF Serial
<1>. QED  BY <1>2, <1>3, Zenon DEF SerialInv

(* The slot ends without writing. *)
LEMMA EndSerial ==
  ASSUME Serial, IndInv, SerialInv, NEW s \in Slots, RefuseVote(s) \/ AckAutoAssign(s)
  PROVE  SerialInv'
<1>1. /\ UNCHANGED <<row, ballot, executions, aborts>> /\ req'[s] = IdleRequest
      /\ req[s].op \in {"APPROVE", "REJECT", "CREATE"}
  BY Zenon DEF RefuseVote, AckAutoAssign, dbVars, histVars, IndInv, TypeOK
<1>. QED  BY <1>1, IdleSerial, RequestMoves, Zenon

(* Assigning the approvers of a workflow that is still INITIAL. *)
LEMMA AssignSerial ==
  ASSUME Serial, IndInv, SerialInv, NEW s \in Slots, AutoAssignApprovers(s)
  PROVE  SerialInv' /\ row[req[s].w].state = "INITIAL"
<1>. DEFINE r == req[s]
<1>1. /\ r.pc = "read" /\ r.op = "CREATE" /\ CanTransition("CREATE", r.snap)
      /\ UNCHANGED <<executions, aborts>> /\ Evaluated(s, "KEEP", "none", FALSE)
  BY Zenon DEF AutoAssignApprovers, histVars
<1>2. PICK w \in Workflows : w = r.w
  BY <1>1, ZenonT(40) DEF IndInv, RequestInv, TaskOps
<1>3. row[w].state = "INITIAL"
  BY <1>1, <1>2, SourceStates, ZenonT(40) DEF SerialInv, SerialRequest
<1>4. /\ SerialTable(w) /\ row[w] \in WorkflowRow /\ \A u \in Users : ballot[w][u] = "none"
  BY <1>3, Zenon DEF SerialInv, SerialTable, IndInv, TypeOK
<1>5. /\ row'[w].state = "WAIT_APPROVAL" /\ row'[w].min = row[w].min
      /\ \A v \in Workflows : v # w => row'[v] = row[v]
  BY <1>2, <1>4, Destinations DEF AutoAssignApprovers, IndInv, TypeOK, WorkflowRow
<1>6. /\ ballot'[w] = AssignedBallot(w) /\ Cardinality(Approvers(AssignedBallot(w))) >= row[w].min
      /\ \A v \in Workflows : v # w => ballot'[v] = ballot[v]
  BY <1>2, Zenon DEF AutoAssignApprovers, IndInv, TypeOK
<1>7. /\ AssignedBallot(w) \in [Users -> ApproverColumn]
      /\ \A u \in Users : AssignedBallot(w)[u] \in {"none", "pending"}
  BY <1>4, Zenon DEF AssignedBallot, ApproverColumn
<1>8. row[w].min \in Nat \ {0} /\ row[w].min >= 2
  BY <1>3, <1>4, SMTT(30) DEF SerialTable, WorkflowRow
<1>9. Undecided(AssignedBallot(w), row[w].min)
  BY <1>6, <1>7, <1>8, AssignedUndecided, Zenon
<1>10. executions[w] <= aborts /\ executions[w] <= 1 + aborts
  <2>1. ~Confirming(w)
    BY <1>1, Zenon DEF Serial, Confirming
  <2>. QED  BY <1>3, <1>4, <2>1, Zenon DEF SerialTable, WorkflowNonTerminalStates
<1>11. SerialTable(w)'
  BY <1>1, <1>5, <1>6, <1>8, <1>9, <1>10, Zenon DEF SerialTable
<1>12. req'[s].pc = "tx" /\ req'[s].new = "KEEP" /\ req'[s].op = "CREATE"
  BY <1>1, PlannedFields, Zenon
<1>13. SerialRequest(req[s])'
  BY <1>12, Zenon DEF SerialRequest, UserOps
<1>14. SerialInv'
  BY <1>1, <1>5, <1>6, <1>11, <1>13, TableMoves
<1>. QED  BY <1>2, <1>3, <1>14, SMTT(30)

(* A workflow that could not be assigned has failed. *)
LEMMA FailSerial ==
  ASSUME Serial, IndInv, SerialInv, NEW s \in Slots, putWorkflowInFailedState(s)
  PROVE  SerialInv' /\ \A v \in Workflows : row'[v] = row[v] \/ row'[v].state = "FAILED"
<1>1. /\ req[s].op = "CREATE" /\ req'[s] = IdleRequest
      /\ UNCHANGED <<ballot, executions, aborts>>
  BY SMTT(30) DEF putWorkflowInFailedState, histVars, IndInv, TypeOK
<1>2. PICK w \in Workflows : w = req[s].w
  BY <1>1, ZenonT(40) DEF IndInv, RequestInv, TaskOps
<1>3. CASE row' = row
  BY <1>1, <1>3, IdleSerial, RequestMoves, Zenon
<1>4. CASE Exists(w) /\ row' = [row EXCEPT ![w].state = "FAILED"]
  <2>1. row[w] \in WorkflowRow /\ SerialTable(w) /\ row[w].state # "NONE"
    BY <1>4, Zenon DEF IndInv, TypeOK, SerialInv, Exists, WorkflowStates, WorkflowNonTerminalStates,
                WorkflowTerminalStates
  <2>2. /\ row'[w].state = "FAILED" /\ row'[w].min = row[w].min
        /\ \A v \in Workflows : v # w => row'[v] = row[v]
    BY <1>4, <2>1, Zenon DEF IndInv, TypeOK, WorkflowRow
  <2>3. SerialTable(w)'
    BY <1>1, <2>1, <2>2, Zenon DEF SerialTable, WorkflowNonTerminalStates
  <2>4. SerialInv'
    BY <1>1, <2>2, <2>3, IdleSerial, TableMoves, Zenon
  <2>. QED  BY <2>2, <2>4, Zenon
<1>. QED  BY <1>2, <1>3, <1>4, Zenon DEF putWorkflowInFailedState

(* IAM, the configuration and a step of somebody else change nothing here. *)
LEMMA EnvironmentSerial ==
  ASSUME SerialInv, ChangeMembership \/ SetWorkflowConfig \/ UNCHANGED vars
  PROVE  SerialInv' /\ row' = row
<1>1. UNCHANGED <<row, ballot, executions, aborts, req>>
  BY Zenon DEF ChangeMembership, SetWorkflowConfig, vars, dbVars, histVars
<1>2. \A w \in Workflows : Confirming(w)' <=> Confirming(w)
  BY <1>1, Zenon DEF Confirming
<1>3. \A w \in Workflows : SerialTable(w)'
  BY <1>1, <1>2, ZenonT(40) DEF SerialInv, SerialTable
<1>4. \A s \in Slots : SerialRequest(req[s])'
  BY <1>1, ZenonT(40) DEF SerialInv, SerialRequest
<1>. QED  BY <1>1, <1>3, <1>4, Zenon DEF SerialInv

(* Requests that check and read. *)
LEMMA StartSerial ==
  ASSUME Serial, IndInv, SerialInv, NEW s \in Slots,
         \/ WorkerStep(s) \/ (ClientStep(s) /\ ~CreateWorkflow(s))
  PROVE  SerialInv' /\ row' = row
<1>1. ASSUME NEW w \in Workflows, NEW u \in Users, NEW a \in Artifacts, CheckNewWorkflow(s, w, u, a)
      PROVE  SerialInv' /\ row' = row
  BY <1>1, CheckSerial, Zenon DEF CheckNewWorkflow, dbVars
<1>2. ASSUME NEW w \in Workflows, NEW u \in Users, NEW op \in UserOps, TransitionWorkflow(s, op, w, u)
      PROVE  SerialInv' /\ row' = row
  <2>1. ReadRow(s, op, w, u) /\ CanTransition(op, row[w].state)
    BY <1>2, Zenon DEF TransitionWorkflow
  <2>2. op # "CLEANUP"
    BY Zenon DEF UserOps
  <2>. QED  BY <2>1, <2>2, ReadSerial, Zenon DEF ReadRow, dbVars
<1>3. ASSUME NEW w \in Workflows, StartExpiry(s, w) \/ StartAutoAssign(s, w) \/ StartCleanup(s, w)
      PROVE  SerialInv' /\ row' = row
  <2>1. PICK op \in TaskOps :
          /\ ReadRow(s, op, w, None) /\ (op = "EXPIRE" => CanTransition("EXPIRE", row[w].state))
          /\ op = "CLEANUP" => row[w].state \in WorkflowTerminalStates
    BY <1>3, Zenon DEF StartExpiry, StartAutoAssign, StartCleanup, TaskOps
  <2>2. op \in UserOps \union {"EXPIRE"} => op = "EXPIRE"
    BY Zenon DEF TaskOps, UserOps
  <2>. QED  BY <2>1, <2>2, ReadSerial, Zenon DEF ReadRow, dbVars
<1>. QED  BY <1>1, <1>2, <1>3, Zenon DEF WorkerStep, ClientStep

(* No step brings a workflow back that is over. *)
StaysOver ==
    \A w \in Workflows : row[w].state \in WorkflowTerminalStates =>
        row'[w].state \in WorkflowTerminalStates \union {"DELETED"}

(* Every step keeps SerialInv, and a workflow that is over stays over. *)
LEMMA StepSerial ==
  ASSUME Serial, IndInv, SerialInv, [Next]_vars
  PROVE  SerialInv' /\ StaysOver
<1>1. row' = row => StaysOver
  BY Zenon DEF StaysOver
<1>2. ASSUME NEW s \in Slots, CreateWorkflow(s) PROVE SerialInv' /\ StaysOver
  <2>1. req[s].w \in Workflows /\ row[req[s].w].state = "NONE"
    BY <1>2, ZenonT(40) DEF IndInv, RequestInv, CreateWorkflow
  <2>2. \A v \in Workflows : v # req[s].w => row'[v] = row[v]
    BY <1>2, <2>1 DEF CreateWorkflow, IndInv, TypeOK
  <2>. QED  BY <1>2, <2>1, <2>2, CreateSerial, SMTT(30) DEF StaysOver, WorkflowTerminalStates
<1>3. ASSUME NEW s \in Slots, \/ EvaluateVote(s) \/ EvaluateConfirm(s) \/ EvaluateRevoke(s)
                              \/ ExpireWorkflow(s) \/ CleanupTerminalWorkflows(s)
                              \/ RefuseVote(s) \/ AutoAssignError(s) \/ AckAutoAssign(s)
                              \/ Abort(s)
      PROVE  SerialInv' /\ row' = row
  <2>1. row' = row
    BY <1>3, Zenon DEF EvaluateVote, EvaluateConfirm, EvaluateRevoke, ExpireWorkflow,
                CleanupTerminalWorkflows, RefuseVote, AutoAssignError, AckAutoAssign, Abort, dbVars
  <2>. QED  BY <1>3, <2>1, VoteSerial, ConfirmSerial, OthersSerial, EndSerial, AbortSerial, ZenonT(40)
<1>4. ASSUME NEW s \in Slots, AutoAssignApprovers(s) PROVE SerialInv' /\ StaysOver
  <2>1. SerialInv' /\ row[req[s].w].state = "INITIAL"
    BY <1>4, AssignSerial, Zenon
  <2>2. \A v \in Workflows : v # req[s].w => row'[v] = row[v]
    BY <1>4, Zenon DEF AutoAssignApprovers, IndInv, TypeOK
  <2>. QED  BY <2>1, <2>2, Zenon DEF StaysOver, WorkflowTerminalStates
<1>5. ASSUME NEW s \in Slots, putWorkflowInFailedState(s) PROVE SerialInv' /\ StaysOver
  BY <1>5, FailSerial, Zenon DEF StaysOver, WorkflowTerminalStates
<1>6. ASSUME NEW s \in Slots, Commit(s) PROVE SerialInv' /\ StaysOver
  BY <1>6, CommitSerial, Zenon DEF StaysOver
<1>7. ASSUME NEW s \in Slots, Proceed(s) PROVE SerialInv' /\ StaysOver
  BY <1>1, <1>3, <1>4, <1>5, <1>6, <1>7, Zenon DEF Proceed
<1>8. ASSUME NEW s \in Slots, ClientStep(s) \/ WorkerStep(s) PROVE SerialInv' /\ StaysOver
  BY <1>1, <1>2, <1>8, StartSerial, Zenon
<1>. QED  BY <1>1, <1>3, <1>7, <1>8, EnvironmentSerial, Zenon DEF Next, Slots

-----------------------------------------------------------------------------
(* The theorems. *)

(* With one request at a time the row stays as the request read it. *)
THEOREM SerialInvariance ==
  ASSUME Serial
  PROVE  Spec => []SerialInv
<1>1. Init => SerialInv
  BY InitSerial, Zenon
<1>2. IndInv /\ SerialInv /\ [Next]_vars => SerialInv'
  BY StepSerial, Zenon
<1>. QED  BY <1>1, <1>2, Invariance, PTL DEF Spec

(* The stored state says what the stored votes say. *)
THEOREM StateFollowsVotesHolds ==
  ASSUME Serial
  PROVE  Spec => []StateFollowsVotes
<1>1. SerialInv => StateFollowsVotes
  BY Zenon DEF SerialInv, SerialTable, StateFollowsVotes, ballotCounts, Undecided, Won
<1>. QED  BY <1>1, SerialInvariance, PTL

(* transitionExecute runs once, plus once for every transaction that was lost. *)
THEOREM ExecutedOnceHolds ==
  ASSUME Serial
  PROVE  Spec => []ExecutedOnce
<1>1. SerialInv => ExecutedOnce
  BY Zenon DEF SerialInv, SerialTable, ExecutedOnce
<1>. QED  BY <1>1, SerialInvariance, PTL

(* A workflow that is over stays over. *)
THEOREM TerminalIsFinalHolds ==
  ASSUME Serial
  PROVE  Spec => TerminalIsFinal
<1>1. IndInv /\ SerialInv /\ [Next]_vars =>
        [\A w \in Workflows : row[w].state \in WorkflowTerminalStates =>
            row'[w].state \in WorkflowTerminalStates \union {"DELETED"}]_vars
  BY StepSerial, Zenon DEF StaysOver
<1>. QED  BY <1>1, Invariance, SerialInvariance, PTL DEF Spec, TerminalIsFinal

=============================================================================
