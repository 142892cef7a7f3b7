---------------------------- MODULE SystemEvents ----------------------------
(***************************************************************************)
(* Linking systems to key configurations: the actions of                   *)
(* internal/manager/system.go, the events of event-processor/factory.go    *)
(* and the job handlers of event-processor/handlers_system.go.             *)
(*                                                                         *)
(* A request changes the system row and prepares an orbital job; the job   *)
(* manager confirms it, has the region's operator execute it and calls the *)
(* handler of its outcome, which reads the row, tells the registry and     *)
(* writes the row back.  The job manager keeps jobs in a database of its   *)
(* own: preparing one is not undone when the request is rolled back.       *)
(*                                                                         *)
(* A request runs at once, or overlaps with others: then it is held after  *)
(* it has read, and again between preparing its job and its commit.        *)
(***************************************************************************)
EXTENDS Naturals

CONSTANTS
    Systems,          \* system rows, by ID (a system mapped again gets a new ID)
    Keys,
    KeyConfigs,
    KeyConfigOf,      \* the key configuration of each key
    Slots,            \* jobs that are not over
    None,
    AskFirst,         \* users cancel only what GetRecoveryActions offers
    Decommission,     \* the operator may be offboarding the tenant
    MaxOverlaps,      \* bound on requests that overlap with others
    MaxRotations,     \* bound on SYSTEM_KEY_ROTATE events
    MaxRollbacks,     \* bound on requests rolled back after preparing a job
    MaxRedeliveries   \* bound on outcomes handled again after the handler was done

ASSUME KeysAssumption == KeyConfigOf \in [Keys -> KeyConfigs]
ASSUME NoneAssumption == None \notin Systems \union Keys \union KeyConfigs
ASSUME BoundAssumption ==
    /\ AskFirst \in BOOLEAN /\ Decommission \in BOOLEAN
    /\ MaxOverlaps \in Nat /\ MaxRotations \in Nat
    /\ MaxRollbacks \in Nat /\ MaxRedeliveries \in Nat

VARIABLES
    row,          \* the systems table
    event,        \* the events table: the last event of each system
    primary,      \* the primary key of each key configuration
    open,         \* the request that overlaps with others
    job,          \* orbital jobs and the progress of their handlers
    claim,        \* registry: the L1 key claim of the system
    locked,       \* registry: the system has STATUS_LOCKED
    actual,       \* operator: the key the system really uses
    overlaps, rotations, rollbacks, redeliveries

vars == <<row, event, primary, open, job, claim, locked, actual,
          overlaps, rotations, rollbacks, redeliveries>>
requests == <<open, overlaps>>
external == <<claim, locked, actual>>
counters == <<rotations, rollbacks, redeliveries>>

JobTypes == {"LINK", "UNLINK", "DECOMMISSION", "SWITCH", "SWITCH_PK", "ROTATE"}

(* Types that end with the system connected to the key configuration of the  *)
(* target key.                                                               *)
Connecting == {"LINK", "SWITCH", "SWITCH_PK"}

Statuses == {"CONNECTED", "DISCONNECTED", "PROCESSING", "FAILED"}

(* "NONE": not created yet; "DELETED": removed with its registry mapping. *)
System ==
    [ status : Statuses \union {"NONE", "DELETED"},
      kc     : KeyConfigs \union {None},     \* KeyConfigurationID
      target : KeyConfigs \union {None} ]    \* TargetKeyConfigurationID

NoSystem == [status |-> "NONE", kc |-> None, target |-> None]
Deleted  == [status |-> "DELETED", kc |-> None, target |-> None]
Exists(s) == row[s].status \in Statuses

Event ==
    [ type : JobTypes \union {"NONE"}, to : Keys \union {None}, prev : Statuses ]

NoEvent == [type |-> "NONE", to |-> None, prev |-> "DISCONNECTED"]

(* `to` is KeyIDTo; KeyIDFrom is for the operator's and the auditor's eyes    *)
(* only and is left out.  `snap` holds the configurations in the row as the   *)
(* running handler read it (every handler sets the status itself); `wrote` is *)
(* set in the decommission handler between its write and its call to the      *)
(* registry.                                                                  *)
Snapshot == [kc : KeyConfigs \union {None}, target : KeyConfigs \union {None}]

Job ==
    [ type : JobTypes \union {"NONE"}, s : Systems \union {None},
      to   : Keys \union {None},
      st   : {"created", "confirmed", "done", "failed", "canceled"},
      snap : Snapshot \union {None}, wrote : BOOLEAN ]

NoJob == [type |-> "NONE", s |-> None, to |-> None,
          st |-> "created", snap |-> None, wrote |-> FALSE]

(* What a request decided on what it read: the job it will prepare, and the   *)
(* row it will store, with the status it had when it was read.  `track` says  *)
(* whether it stores an event.                                                *)
Request ==
    [ type : JobTypes, s : Systems, to : Keys \union {None},
      copy  : [ status : Statuses, kc : KeyConfigs \union {None},
                target : KeyConfigs \union {None} ],
      track : BOOLEAN, pc : {"read", "prepared"} ]

NewRequest(s, type, to, copy, track) ==
    [type |-> type, s |-> s, to |-> to, copy |-> copy, track |-> track, pc |-> "read"]

(* Types of the tables, the requests, the jobs and what other services hold. *)
TypeOK ==
    /\ row \in [Systems -> System]
    /\ event \in [Systems -> Event]
    /\ primary \in [KeyConfigs -> Keys]
    /\ open \in Request \union {None}
    /\ job \in [Slots -> Job]
    /\ claim \in [Systems -> BOOLEAN]
    /\ locked \in [Systems -> BOOLEAN]
    /\ actual \in [Systems -> Keys \union {None}]
    /\ overlaps \in Nat /\ rotations \in Nat
    /\ rollbacks \in Nat /\ redeliveries \in Nat

Init ==
    /\ row = [s \in Systems |-> NoSystem]
    /\ event = [s \in Systems |-> NoEvent]
    /\ primary \in {p \in [KeyConfigs -> Keys] :
                      \A c \in KeyConfigs : KeyConfigOf[p[c]] = c}
    /\ open = None
    /\ job = [j \in Slots |-> NoJob]
    /\ claim = [s \in Systems |-> FALSE]
    /\ locked = [s \in Systems |-> FALSE]
    /\ actual = [s \in Systems |-> None]
    /\ overlaps = 0 /\ rotations = 0 /\ rollbacks = 0 /\ redeliveries = 0

-----------------------------------------------------------------------------
(* Jobs.  PrepareJob refuses a second open job of a type for a system.       *)

JobsOf(s) == {j \in Slots : job[j].s = s}

Blocks(i, type) == job[i].type = type /\ job[i].st \in {"created", "confirmed"}

CanPrepare(j, s, type) ==
    /\ job[j] = NoJob
    /\ ~\E i \in JobsOf(s) : Blocks(i, type)

NewJob(s, type, to) == [type |-> type, s |-> s, to |-> to,
                        st |-> "created", snap |-> None, wrote |-> FALSE]

PrepareJob(j, s, type, to) ==
    /\ CanPrepare(j, s, type)
    /\ job' = [job EXCEPT ![j] = NewJob(s, type, to)]

(* The transaction of a request does not commit: only the job is left. *)
RollsBack ==
    /\ rollbacks < MaxRollbacks
    /\ rollbacks' = rollbacks + 1
    /\ UNCHANGED <<row, event>>

(* The writes of a request.  A retry patches the columns its copy has a value *)
(* for; the others write the whole copy.  A row that is gone stays so, and a  *)
(* retried rotation does not touch it.                                        *)
Stored(r) ==
    CASE r.type = "ROTATE" -> row[r.s]
      [] r.track \/ r.type = "DECOMMISSION" ->
           [r.copy EXCEPT !.status = "PROCESSING"]
      [] OTHER ->
           [ status |-> "PROCESSING",
             kc     |-> IF r.copy.kc # None THEN r.copy.kc ELSE row[r.s].kc,
             target |-> IF r.copy.target # None THEN r.copy.target ELSE row[r.s].target ]

Store(r) ==
    /\ row' = IF Exists(r.s) THEN [row EXCEPT ![r.s] = Stored(r)] ELSE row
    /\ event' = IF r.track
                THEN [event EXCEPT ![r.s] = [type |-> r.type, to |-> r.to,
                                             prev |-> r.copy.status]]
                ELSE event
    /\ UNCHANGED rollbacks

(* A request that does not overlap with another one. *)
RunAtOnce(j, r) ==
    /\ PrepareJob(j, r.s, r.type, r.to)
    /\ Store(r) \/ (r.type # "ROTATE" /\ RollsBack)
    /\ UNCHANGED requests

(* One that does: it has read, and will go on later. *)
Hold(r) ==
    /\ open = None
    /\ overlaps < MaxOverlaps
    /\ overlaps' = overlaps + 1
    /\ open' = r
    /\ UNCHANGED <<row, event, job, rollbacks>>

Send(j, r) == RunAtOnce(j, r) \/ Hold(r)

(* It writes the row, which locks it, and prepares the job; the job can be    *)
(* confirmed before the request commits.  A job of its type that is open      *)
(* already makes it fail.                                                     *)
Locked(s) == open # None /\ open.pc = "prepared" /\ open.s = s

PrepareHeld(j) ==
    /\ open # None /\ open.pc = "read"
    /\ \/ /\ PrepareJob(j, open.s, open.type, open.to)
          /\ open' = [open EXCEPT !.pc = "prepared"]
       \/ /\ \E i \in JobsOf(open.s) : Blocks(i, open.type)
          /\ open' = None
          /\ UNCHANGED job
    /\ UNCHANGED <<row, event, primary, overlaps, external, counters>>

CommitHeld ==
    /\ open # None /\ open.pc = "prepared"
    /\ Store(open) \/ (open.type # "ROTATE" /\ RollsBack)
    /\ open' = None
    /\ UNCHANGED <<primary, job, overlaps, external, rotations, redeliveries>>

(* handleSystemStatus, inside the transaction of its caller. *)
handleSystemStatus(j, s, type, to, target) ==
    /\ row[s].status # "PROCESSING"
    /\ Send(j, NewRequest(s, type, to, [row[s] EXCEPT !.target = target], TRUE))

-----------------------------------------------------------------------------
(* Requests. *)

(* RefreshSystemsData follows the registry, whatever the system is doing. *)
createSystemIfNotExists(s) ==
    /\ row[s] = NoSystem
    /\ row' = [row EXCEPT ![s].status = "DISCONNECTED"]
    /\ UNCHANGED <<event, primary, requests, job, external, counters>>

removeSystemsNotInRegistry(s) ==
    /\ Exists(s)
    /\ row' = [row EXCEPT ![s] = Deleted]
    /\ UNCHANGED <<event, primary, requests, job, external, counters>>

(* A link, or a switch when another configuration is linked. *)
selectEvent(s, c) == IF row[s].kc \in {None, c} THEN "LINK" ELSE "SWITCH"

LinkSystemAction(j, s, c) ==
    /\ row[s].status \in {"CONNECTED", "DISCONNECTED"}
    /\ handleSystemStatus(j, s, selectEvent(s, c), primary[c], c)
    /\ UNCHANGED <<primary, external, rotations, redeliveries>>

UnlinkSystemAction(j, s) ==
    /\ Exists(s) /\ row[s].kc # None
    /\ row[s].status # "PROCESSING"
    /\ handleSystemStatus(j, s, "UNLINK", None, row[s].target)
    /\ UNCHANGED <<primary, external, rotations, redeliveries>>

(* The unlink of a tenant decommission keeps the event row as it is. *)
SystemUnlinkDecommission(j, s) ==
    /\ Decommission
    /\ Exists(s) /\ row[s].kc # None
    /\ row[s].status # "PROCESSING"
    /\ Send(j, NewRequest(s, "DECOMMISSION", None, row[s], FALSE))
    /\ UNCHANGED <<primary, external, rotations, redeliveries>>

(* What GetRecoveryActions offers. *)
canCancel(s) ==
    row[s].status = "FAILED" /\ event[s].type \in {"UNLINK", "SWITCH", "LINK", "ROTATE"}

(* The action itself looks at the event only. *)
cancelSystemAction(s) ==
    /\ Exists(s) /\ event[s] # NoEvent
    /\ AskFirst => canCancel(s)
    /\ row' = [row EXCEPT ![s] = [status |-> event[s].prev, kc |-> @.kc, target |-> None]]
    /\ UNCHANGED <<event, primary, requests, job, external, counters>>

retrySystemAction(j, s) ==
    /\ row[s].status = "FAILED" /\ event[s] # NoEvent
    /\ Send(j, NewRequest(s, event[s].type, event[s].to, row[s], FALSE))
    /\ UNCHANGED <<primary, external, rotations, redeliveries>>

(* handleUpdatePrimaryKey: one transaction over all systems of the             *)
(* configuration.  Events waiting for a retry are pointed at the new key.     *)
Linked(c) == {s \in Systems : Exists(s) /\ row[s].kc = c}
MutantRetarget(e, old, new) == e
Retarget(e, old, new) == IF e.to = old /\ e # NoEvent THEN [e EXCEPT !.to = new] ELSE e

handleUpdatePrimaryKey(c, k, slot) ==
    LET old == primary[c] IN
    /\ KeyConfigOf[k] = c /\ k # old
    /\ \A s \in Linked(c) : /\ row[s].status # "PROCESSING"
                            /\ CanPrepare(slot[s], s, "SWITCH_PK")
    /\ job' = [j \in Slots |->
                 IF \E s \in Linked(c) : slot[s] = j
                 THEN NewJob(CHOOSE s \in Linked(c) : slot[s] = j, "SWITCH_PK", k)
                 ELSE job[j]]
    /\ event' = [s \in Systems |->
                   IF s \in Linked(c)
                   THEN [type |-> "SWITCH_PK", to |-> k, prev |-> row[s].status]
                   ELSE Retarget(event[s], old, k)]
    /\ row' = [s \in Systems |->
                 IF s \in Linked(c) THEN [row[s] EXCEPT !.status = "PROCESSING"] ELSE row[s]]
    /\ primary' = [primary EXCEPT ![c] = k]
    /\ UNCHANGED <<requests, external, counters>>

(* It fails at a system that is being processed, or on an error of the        *)
(* database; the job of a system it came to before is left.                   *)
UpdatePrimaryKeyFails(c, k, s, j) ==
    /\ KeyConfigOf[k] = c /\ k # primary[c]
    /\ s \in Linked(c) /\ row[s].status # "PROCESSING"
    /\ PrepareJob(j, s, "SWITCH_PK", k)
    /\ RollsBack
    /\ UNCHANGED <<requests, primary, external, rotations, redeliveries>>

(* SystemKeyRotate, for one system of a rotated primary key: the status is    *)
(* left alone, and an event that cannot be stored is only logged.             *)
SystemKeyRotate(j, s) ==
    /\ Exists(s) /\ row[s].kc # None
    /\ rotations < MaxRotations
    /\ rotations' = rotations + 1
    /\ LET k == primary[row[s].kc] IN
       /\ PrepareJob(j, s, "ROTATE", k)
       /\ event' \in {event,
                      [event EXCEPT ![s] = [type |-> "ROTATE", to |-> k,
                                            prev |-> row[s].status]]}
    /\ UNCHANGED <<requests, row, primary, external, rollbacks, redeliveries>>

-----------------------------------------------------------------------------
(* The job manager and the operators (external). *)

(* HandleJobConfirm: only a rotation goes ahead whatever the status. *)
confirmJob(j) ==
    /\ job[j] # NoJob /\ job[j].st = "created"
    /\ job' = [job EXCEPT ![j].st =
                 IF job[j].type = "ROTATE" \/ row[job[j].s].status = "PROCESSING"
                 THEN "confirmed" ELSE "canceled"]
    /\ UNCHANGED <<requests, row, event, primary, external, counters>>

(* resolveTasks cancels a job when the tenant, the system, the target of its  *)
(* region or the access data of the key cannot be had.                        *)
resolveTasks == {"canceled"}

(* The operator succeeds, which moves the system to the key, or fails, which  *)
(* leaves it where it is.                                                     *)
ExecuteTask(j) ==
    LET b == job[j] IN
    /\ b.st = "confirmed"
    /\ \/ /\ job' = [job EXCEPT ![j].st = "done"]
          /\ actual' = IF b.type = "ROTATE" THEN actual
                       ELSE [actual EXCEPT ![b.s] = b.to]
       \/ /\ \E st \in {"failed"} \union resolveTasks : job' = [job EXCEPT ![j].st = st]
          /\ UNCHANGED actual
    /\ UNCHANGED <<requests, row, event, primary, claim, locked, counters>>

-----------------------------------------------------------------------------
(* The handlers of the outcomes. *)

Outcomes == {"done", "failed", "canceled"}

(* cleanUpEvent deletes the event of the system if it has the job's type. *)
cleanUpEvent(b) ==
    IF event[b.s].type = b.type THEN [event EXCEPT ![b.s] = NoEvent] ELSE event

(* The job is over; or the handler's success is lost and it is run again. *)
Finish(j) ==
    \/ /\ job' = [job EXCEPT ![j] = NoJob]
       /\ UNCHANGED redeliveries
    \/ /\ redeliveries < MaxRedeliveries
       /\ redeliveries' = redeliveries + 1
       /\ job' = [job EXCEPT ![j].snap = None]

(* A link claims the system in the registry and an unlink releases it, before *)
(* the row is written.                                                        *)
sendL1KeyClaim(b) ==
    IF b.type \in {"LINK", "UNLINK"} /\ b.st = "done"
    THEN [claim EXCEPT ![b.s] = (b.type = "LINK")] ELSE claim

(* The handler reads the row and sends the key claim; a failed decommission   *)
(* tries to lock the system.                                                  *)
ReadSystem(j) ==
    LET b == job[j] IN
    /\ b.st \in Outcomes /\ b.snap = None /\ Exists(b.s)
    /\ ~(b.type = "ROTATE" /\ b.st # "failed")
    /\ job' = [job EXCEPT ![j].snap = [kc |-> row[b.s].kc, target |-> row[b.s].target]]
    /\ claim' = sendL1KeyClaim(b)
    /\ locked' \in IF b.type = "DECOMMISSION" /\ b.st = "failed"
                   THEN {locked, [locked EXCEPT ![b.s] = TRUE]} ELSE {locked}
    /\ UNCHANGED <<requests, row, event, primary, actual, counters>>

(* updateSystem writes every column of the copy; a row that is gone stays so. *)
updateSystem(b, status, kc, target) ==
    /\ ~Locked(b.s)
    /\ row' = IF Exists(b.s)
              THEN [row EXCEPT ![b.s] = [status |-> status, kc |-> kc, target |-> target]]
              ELSE row

MutantDoneTarget(j) ==
    LET b == job[j] IN
    /\ b.st = "done" /\ b.snap # None
    /\ \/ b.type \in Connecting /\ updateSystem(b, "CONNECTED", b.snap.target, None)
       \/ b.type = "UNLINK" /\ updateSystem(b, "DISCONNECTED", None, b.snap.target)
    /\ event' = cleanUpEvent(b)
    /\ Finish(j)
    /\ UNCHANGED <<requests, primary, external, rotations, rollbacks>>

HandleJobDoneEvent(j) ==
    LET b == job[j] IN
    /\ b.st = "done" /\ b.snap # None
    /\ \/ b.type \in Connecting /\ updateSystem(b, "CONNECTED", KeyConfigOf[b.to], None)
       \/ b.type = "UNLINK" /\ updateSystem(b, "DISCONNECTED", None, b.snap.target)
    /\ event' = cleanUpEvent(b)
    /\ Finish(j)
    /\ UNCHANGED <<requests, primary, external, rotations, rollbacks>>

MutantTerminateCleansUp(j) ==
    LET b == job[j] IN
    /\ b.st \in {"failed", "canceled"} /\ b.snap # None
    /\ b.type = "DECOMMISSION" => b.st = "canceled"
    /\ updateSystem(b, "FAILED", b.snap.kc, b.snap.target)
    /\ event' = cleanUpEvent(b)
    /\ Finish(j)
    /\ UNCHANGED <<requests, primary, external, rotations, rollbacks>>

MutantTerminateFailedOnly(j) ==
    LET b == job[j] IN
    /\ b.st = "failed" /\ b.snap # None /\ b.type # "DECOMMISSION"
    /\ updateSystem(b, "FAILED", b.snap.kc, b.snap.target)
    /\ Finish(j)
    /\ UNCHANGED <<requests, event, primary, external, rotations, rollbacks>>

(* terminateFailedSystemJob, terminateCanceledSystemJob and the decommission  *)
(* handler for a cancelled job.                                               *)
terminateSystemJob(j) ==
    LET b == job[j] IN
    /\ b.st \in {"failed", "canceled"} /\ b.snap # None
    /\ b.type = "DECOMMISSION" => b.st = "canceled"
    /\ updateSystem(b, "FAILED", b.snap.kc, b.snap.target)
    /\ Finish(j)
    /\ UNCHANGED <<requests, event, primary, external, rotations, rollbacks>>

(* terminate: a decommission disconnects the system whether it succeeded or   *)
(* failed, and releases the claim last.                                       *)
terminate(j) ==
    LET b == job[j] IN
    /\ b.type = "DECOMMISSION" /\ b.st \in {"done", "failed"}
    /\ b.snap # None /\ ~b.wrote
    /\ updateSystem(b, "DISCONNECTED", None, b.snap.target)
    /\ job' = [job EXCEPT ![j].wrote = TRUE]
    /\ UNCHANGED <<requests, event, primary, external, counters>>

ReleaseClaim(j) ==
    /\ job[j].wrote
    /\ claim' = [claim EXCEPT ![job[j].s] = FALSE]
    /\ job' = [job EXCEPT ![j] = NoJob]
    /\ UNCHANGED <<requests, row, event, primary, locked, actual, counters>>

(* A rotation that is done or cancelled, or that failed because the operator  *)
(* already has a newer version, leaves the system alone.                      *)
HandleKeyRotate(j) ==
    LET b == job[j] IN
    /\ b.type = "ROTATE" /\ b.st \in Outcomes /\ b.snap = None
    /\ event' = cleanUpEvent(b)
    /\ Finish(j)
    /\ UNCHANGED <<requests, row, primary, external, rotations, rollbacks>>

MutantNotFound(j) ==
    LET b == job[j] IN
    /\ b.st \in {"failed", "canceled"} /\ b.snap = None
    /\ b.type # "DECOMMISSION"
    /\ job' = [job EXCEPT ![j] = NoJob]
    /\ UNCHANGED <<requests, row, event, primary, external, counters>>

(* Without its system a job that did not succeed is dropped.  The handlers of *)
(* a success and of a decommission report an error and are called again.      *)
SystemNotFound(j) ==
    LET b == job[j] IN
    /\ b.st \in {"failed", "canceled"} /\ b.snap = None /\ ~Exists(b.s)
    /\ b.type # "DECOMMISSION"
    /\ job' = [job EXCEPT ![j] = NoJob]
    /\ UNCHANGED <<requests, row, event, primary, external, counters>>

(* A handler that fails before its write is called again and reads again; so  *)
(* is the decommission handler that fails between its write and the registry. *)
HandlerFails(j) ==
    /\ job[j].snap # None
    /\ job' = [job EXCEPT ![j].snap = None, ![j].wrote = FALSE]
    /\ \/ ~job[j].wrote /\ UNCHANGED redeliveries
       \/ /\ job[j].wrote
          /\ redeliveries < MaxRedeliveries
          /\ redeliveries' = redeliveries + 1
    /\ UNCHANGED <<requests, row, event, primary, external, rotations, rollbacks>>

-----------------------------------------------------------------------------
UserStep ==
    \/ \E s \in Systems :
         /\ ~Locked(s)
         /\ \/ createSystemIfNotExists(s) \/ removeSystemsNotInRegistry(s)
            \/ cancelSystemAction(s)
            \/ \E j \in Slots : \/ \E c \in KeyConfigs : LinkSystemAction(j, s, c)
                                \/ UnlinkSystemAction(j, s)
                                \/ SystemUnlinkDecommission(j, s)
                                \/ retrySystemAction(j, s)
                                \/ SystemKeyRotate(j, s)
    \/ \E c \in KeyConfigs, k \in Keys :
         /\ \A s \in Linked(c) : ~Locked(s)
         /\ \/ \E slot \in [Linked(c) -> Slots] :
                 /\ \A s, t \in Linked(c) : slot[s] = slot[t] => s = t
                 /\ handleUpdatePrimaryKey(c, k, slot)
            \/ \E s \in Systems, j \in Slots : UpdatePrimaryKeyFails(c, k, s, j)

HeldStep == CommitHeld \/ \E j \in Slots : PrepareHeld(j)

Handle(j) ==
    \/ HandleJobDoneEvent(j) \/ terminateSystemJob(j) \/ terminate(j)
    \/ ReleaseClaim(j) \/ HandleKeyRotate(j) \/ SystemNotFound(j)

JobStep(j) == confirmJob(j) \/ ExecuteTask(j) \/ ReadSystem(j) \/ Handle(j)

Next == UserStep \/ HeldStep \/ \E j \in Slots : JobStep(j) \/ HandlerFails(j)

Spec == Init /\ [][Next]_vars

(* The job manager polls for jobs to confirm, to send and to report, retries  *)
(* an outcome until its handler succeeds, and gets an answer for every task   *)
(* (or gives the job up as failed after MaxPendingReconciles).  A request     *)
(* runs to its end.                                                           *)
Fairness ==
    /\ WF_vars(CommitHeld)
    /\ \A j \in Slots : /\ WF_vars(confirmJob(j)) /\ WF_vars(ExecuteTask(j))
                        /\ SF_vars(ReadSystem(j)) /\ SF_vars(Handle(j))

FairSpec == Spec /\ Fairness

-----------------------------------------------------------------------------
(* Properties. *)

Quiet(s) == JobsOf(s) = {}

(* A system is PROCESSING only while there is a job whose handler will take   *)
(* it out of that status, so it cannot be left waiting for nothing: as long   *)
(* as no key was rotated (a rotation stores PROCESSING as the status a cancel *)
(* goes back to).                                                             *)
ProcessingHasJob ==
    rotations = 0 =>
        \A s \in Systems : row[s].status = "PROCESSING" =>
            \E j \in JobsOf(s) : job[j].type # "ROTATE"

(* Every stored event, request in flight and open job is about a system, and  *)
(* one that connects it names the key.                                        *)
WellFormed ==
    /\ \A s \in Systems : /\ event[s].type = "NONE" => event[s] = NoEvent
                          /\ event[s].type \in Connecting => event[s].to \in Keys
    /\ open # None /\ open.type \in Connecting => open.to \in Keys
    /\ \A j \in Slots : job[j] # NoJob =>
         /\ job[j].type # "NONE" /\ job[j].s \in Systems
         /\ job[j].type \in Connecting => job[j].to \in Keys

(* PROCESSING, or about to be; and the jobs that will end it. *)
Busy(s) == row[s].status = "PROCESSING" \/ (Locked(s) /\ Exists(s))
Attended(s) == \E j \in JobsOf(s) : ~job[j].wrote

NoRotation ==
    /\ \A s \in Systems : event[s].prev # "PROCESSING" /\ event[s].type # "ROTATE"
    /\ \A j \in Slots : job[j].type # "ROTATE"
    /\ open # None => open.copy.status # "PROCESSING" /\ open.type # "ROTATE"

(* Why ProcessingHasJob holds while no key is rotated: a system that is       *)
(* PROCESSING, or that a request is about to make so, has a job whose handler *)
(* has not written the row yet; and no status to go back to is PROCESSING.  A *)
(* rotation breaks both: its handlers may leave the row alone, and            *)
(* SystemKeyRotate stores the status of a system it finds PROCESSING.         *)
ProcessingInv ==
    /\ TypeOK /\ WellFormed
    /\ rotations = 0 => NoRotation /\ \A s \in Systems : Busy(s) => Attended(s)

(* What CMK tells its users agrees with the operator and the registry once    *)
(* nothing is in flight.  A CONNECTED system uses a key of the configuration  *)
(* that is stored for it and its key claim is set; while the tenant is being  *)
(* decommissioned the operator may release the claim of a system that a user  *)
(* has just linked again.  A DISCONNECTED one has no configuration and no     *)
(* claim.                                                                     *)
SettledAgrees ==
    \A s \in Systems : Quiet(s) =>
        /\ row[s].status = "CONNECTED" =>
             /\ actual[s] # None /\ row[s].kc = KeyConfigOf[actual[s]]
             /\ claim[s] \/ Decommission
        /\ row[s].status = "DISCONNECTED" => row[s].kc = None /\ ~claim[s]

(* A FAILED system can be left again: there is an event to retry or cancel,   *)
(* or a configuration to unlink.  SystemKeyRotate promises it for rotations:  *)
(* its event is written "so that retry and unlink are possible if the job     *)
(* fails".                                                                    *)
FailedIsRecoverable ==
    \A s \in Systems : row[s].status = "FAILED" =>
        event[s] # NoEvent \/ row[s].kc # None

(* A retry sends the stored event again, maybe long after it was stored and   *)
(* after the primary key of its configuration was replaced: as long as no     *)
(* requests overlapped it sends the system to a key that is primary then (one *)
(* that overlaps may store the key it read as primary earlier).               *)
RetryUsesPrimary ==
    overlaps = 0 =>
        \A s \in Systems : event[s].to # None =>
            event[s].to = primary[KeyConfigOf[event[s].to]]

(* Why: a primary key is one of its configuration, an event is stored with    *)
(* the primary key of that moment, and the change of the primary key points   *)
(* the events of the old one at the new one.                                  *)
ToPrimary(k) == k # None => k = primary[KeyConfigOf[k]]

RetryInv ==
    /\ \A c \in KeyConfigs : KeyConfigOf[primary[c]] = c
    /\ overlaps = 0 => open = None /\ \A s \in Systems : ToPrimary(event[s].to)

-----------------------------------------------------------------------------
(* Why SettledAgrees and FailedIsRecoverable hold as long as nothing is out of *)
(* the ordinary: users follow what GetRecoveryActions offers, no request      *)
(* overlaps, is rolled back or is a rotation, and no outcome is handled again. *)
Calm ==
    /\ AskFirst
    /\ overlaps = 0 /\ rotations = 0 /\ rollbacks = 0 /\ redeliveries = 0

(* The jobs whose handler has yet to write the row; the decommission job that *)
(* has written it has only the claim to release.                              *)
Pending(s) == {j \in JobsOf(s) : ~job[j].wrote}
Releasing(s) == \E j \in JobsOf(s) : job[j].wrote

(* What the status of a system says of it is so. *)
StatusTrue(s, status) ==
    /\ status = "CONNECTED" => /\ actual[s] # None /\ row[s].kc = KeyConfigOf[actual[s]]
                               /\ claim[s] \/ Decommission
    /\ status = "DISCONNECTED" => row[s].kc = None /\ (claim[s] => Releasing(s))

(* A cancel goes back to a status that is true. *)
CanGoBack(s) == event[s] # NoEvent => StatusTrue(s, event[s].prev)

(* The job that will write the row of s.  The row is as its handler read it,  *)
(* and once the operator has moved the system a cancel is out of the question. *)
CalmJob(s, b) ==
    /\ row[s].status = "PROCESSING"
    /\ b.snap \in {None, [kc |-> row[s].kc, target |-> row[s].target]}
    /\ b.snap # None => b.st \in Outcomes
    /\ b.type \in {event[s].type, "DECOMMISSION"}
    /\ b.type = "DECOMMISSION" => Decommission
    /\ b.type # "LINK" => row[s].kc # None
    /\ b.st # "done" => CanGoBack(s)
    /\ b.st = "done" =>
         /\ b.type \in Connecting => actual[s] = b.to
         /\ b.snap # None => /\ b.type = "LINK" => claim[s] \/ Decommission
                             /\ b.type = "UNLINK" => ~claim[s]

(* There is one such job at most; the others have the claim to release.       *)
Writers(s) ==
    /\ \A i, j \in Pending(s) : i = j
    /\ \A j \in Pending(s) : CalmJob(s, job[j])

Releasers(s) ==
    \A j \in JobsOf(s) : job[j].wrote =>
        /\ job[j].type = "DECOMMISSION" /\ Decommission
        /\ job[j].st \in {"done", "failed"} /\ job[j].snap # None

(* A linked system is claimed until its unlink is done. *)
ClaimKept(s) ==
    row[s].kc # None =>
        \/ claim[s] \/ Decommission
        \/ \E j \in Pending(s) : job[j].type = "UNLINK" /\ job[j].st = "done"

(* The stored event can be sent again or cancelled. *)
EventCalm(s) ==
    /\ event[s].type # "DECOMMISSION"
    /\ row[s].status = "CONNECTED" => event[s].prev = "CONNECTED" \/ event[s] = NoEvent
    /\ row[s].status = "FAILED" => CanGoBack(s) /\ (event[s] # NoEvent \/ row[s].kc # None)
    /\ row[s].status \in {"FAILED", "PROCESSING"} =>
         (event[s].type \in {"SWITCH", "SWITCH_PK", "UNLINK"} => row[s].kc # None)

CalmSystem(s) ==
    /\ row[s].status = "NONE" =>
         row[s] = NoSystem /\ event[s] = NoEvent /\ JobsOf(s) = {} /\ ~claim[s]
    /\ Exists(s) => /\ Writers(s) /\ Releasers(s) /\ ClaimKept(s) /\ EventCalm(s)
                    /\ StatusTrue(s, row[s].status)

CalmInv == Calm => open = None /\ \A s \in Systems : CalmSystem(s)

(* An action on a system is over at some point.                               *)
ProcessingEnds ==
    \A s \in Systems : row[s].status = "PROCESSING" ~> row[s].status # "PROCESSING"
=============================================================================
