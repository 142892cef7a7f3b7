------------------------- MODULE SystemEventsProofs -------------------------
(***************************************************************************)
(* Proofs about SystemEvents for any systems, keys, configurations and     *)
(* jobs: first for any number of overlapping requests, rollbacks and       *)
(* repeated outcomes, then as long as nothing is out of the ordinary.      *)
(***************************************************************************)
EXTENDS SystemEvents, TLAPS

(* TypeOK and WellFormed, table by table. *)
RowsOK == row \in [Systems -> System]

EventsOK ==
    /\ event \in [Systems -> Event]
    /\ \A s \in Systems : /\ event[s].type = "NONE" => event[s] = NoEvent
                          /\ event[s].type \in Connecting => event[s].to \in Keys

OpenOK ==
    /\ open \in Request \union {None}
    /\ open # None /\ open.type \in Connecting => open.to \in Keys

JobOK(b) == b # NoJob => /\ b.type # "NONE" /\ b.s \in Systems
                         /\ b.type \in Connecting => b.to \in Keys

JobsOK == job \in [Slots -> Job] /\ \A j \in Slots : JobOK(job[j])

RestOK ==
    /\ primary \in [KeyConfigs -> Keys]
    /\ claim \in [Systems -> BOOLEAN]
    /\ locked \in [Systems -> BOOLEAN]
    /\ actual \in [Systems -> Keys \union {None}]
    /\ overlaps \in Nat /\ rotations \in Nat
    /\ rollbacks \in Nat /\ redeliveries \in Nat

TypeInv == RowsOK /\ EventsOK /\ OpenOK /\ JobsOK /\ RestOK

(* TypeInv only regroups the type invariant and WellFormed. *)
LEMMA TypeInvIs == TypeInv <=> TypeOK /\ WellFormed
  BY Zenon DEF TypeInv, RowsOK, EventsOK, OpenOK, JobsOK, JobOK, RestOK, TypeOK, WellFormed

(* The fields of an empty slot and of a missing event. *)
LEMMA EmptyFields ==
  /\ NoJob.type = "NONE" /\ NoJob.s = None /\ NoJob.st = "created"
  /\ NoJob.snap = None /\ ~NoJob.wrote
  /\ NoEvent.type = "NONE" /\ NoEvent.to = None /\ NoEvent.prev = "DISCONNECTED"
  BY Zenon DEF NoJob, NoEvent

(* Everything starts out empty. *)
LEMMA InitType == Init => TypeInv
  BY KeysAssumption
  DEF Init, TypeInv, RowsOK, EventsOK, OpenOK, JobsOK, JobOK, RestOK, System, NoSystem,
      Event, NoEvent, Job, NoJob, Snapshot, Statuses, JobTypes, Connecting

(* PrepareJob puts a job into a free slot. *)
LEMMA PreparedJob ==
  ASSUME JobsOK, NEW j \in Slots, NEW s \in Systems, NEW type \in JobTypes,
         NEW to \in Keys \union {None}, type \in Connecting => to \in Keys,
         PrepareJob(j, s, type, to)
  PROVE  JobsOK'
<1>1. NewJob(s, type, to) \in Job /\ JobOK(NewJob(s, type, to))
  BY Zenon DEF NewJob, Job, JobOK, JobTypes, Snapshot
<1>. QED  BY <1>1, Zenon DEF JobsOK, PrepareJob

(* Storing the event of a job. *)
LEMMA StoredEvent ==
  ASSUME EventsOK, NEW s \in Systems, NEW type \in JobTypes, NEW to \in Keys \union {None},
         NEW prev \in Statuses, type \in Connecting => to \in Keys,
         event' = [event EXCEPT ![s] = [type |-> type, to |-> to, prev |-> prev]]
  PROVE  EventsOK'
<1>1. [type |-> type, to |-> to, prev |-> prev] \in Event
  BY Zenon DEF Event
<1>. QED  BY <1>1, Zenon DEF EventsOK, JobTypes

(* The writes of a request keep the tables well-formed. *)
LEMMA StoredRequest ==
  ASSUME RowsOK, EventsOK, RestOK, NEW r \in Request,
         r.type \in Connecting => r.to \in Keys, Store(r)
  PROVE  RowsOK' /\ EventsOK' /\ rollbacks' \in Nat
<1>1. /\ r.copy \in [ status : Statuses, kc : KeyConfigs \union {None},
                      target : KeyConfigs \union {None} ]
      /\ r.s \in Systems /\ r.type \in JobTypes /\ r.to \in Keys \union {None}
  BY Zenon DEF Request
<1>2. Stored(r) \in System
  BY <1>1, Zenon DEF RowsOK, Stored, System, Statuses
<1>3. RowsOK'
  BY <1>1, <1>2, Zenon DEF RowsOK, Store
<1>4. [type |-> r.type, to |-> r.to, prev |-> r.copy.status] \in Event
  BY <1>1, Zenon DEF Event
<1>5. EventsOK'
  BY <1>1, <1>4, Zenon DEF EventsOK, Store, JobTypes
<1>. QED  BY <1>3, <1>5, Zenon DEF Store, RestOK

(* So does a request that is sent, whether it runs at once or is held. *)
LEMMA SentRequest ==
  ASSUME TypeInv, NEW j \in Slots, NEW r \in Request,
         r.type \in Connecting => r.to \in Keys, Send(j, r),
         UNCHANGED <<primary, external, rotations, redeliveries>>
  PROVE  TypeInv'
<1>1. r.s \in Systems /\ r.type \in JobTypes /\ r.to \in Keys \union {None}
  BY Zenon DEF Request
<1>2. CASE RunAtOnce(j, r)
  <2>1. JobsOK'
    BY <1>1, <1>2, PreparedJob, Zenon DEF RunAtOnce, TypeInv
  <2>2. OpenOK' /\ overlaps' \in Nat
    BY <1>2, Zenon DEF RunAtOnce, requests, TypeInv, OpenOK, RestOK
  <2>3. RowsOK' /\ EventsOK' /\ rollbacks' \in Nat
    <3>1. CASE Store(r)
      BY <3>1, StoredRequest, Zenon DEF TypeInv
    <3>2. CASE RollsBack
      BY <3>2 DEF RollsBack, TypeInv, RowsOK, EventsOK, RestOK
    <3>. QED  BY <1>2, <3>1, <3>2, Zenon DEF RunAtOnce
  <2>. QED  BY <2>1, <2>2, <2>3, Zenon DEF TypeInv, RestOK, external
<1>3. CASE Hold(r)
  BY <1>3
  DEF Hold, TypeInv, RowsOK, EventsOK, OpenOK, JobsOK, RestOK, external
<1>. QED  BY <1>2, <1>3, Zenon DEF Send

(* The requests of users and of the tasks that call the managers. *)
LEMMA UserStepType == TypeInv /\ UserStep => TypeInv'
<1>. SUFFICES ASSUME TypeInv, UserStep PROVE TypeInv'
  BY Zenon
<1>1. ASSUME NEW s \in Systems, createSystemIfNotExists(s) PROVE TypeInv'
  BY <1>1, Zenon DEF createSystemIfNotExists, TypeInv, RowsOK, EventsOK, OpenOK, JobsOK, RestOK,
              requests, external, counters, System, NoSystem, Statuses
<1>2. ASSUME NEW s \in Systems, removeSystemsNotInRegistry(s) PROVE TypeInv'
  BY <1>2, Zenon DEF removeSystemsNotInRegistry, TypeInv, RowsOK, EventsOK, OpenOK, JobsOK, RestOK,
              requests, external, counters, System, Deleted
<1>3. ASSUME NEW s \in Systems, cancelSystemAction(s) PROVE TypeInv'
  <2>1. RowsOK'
    BY <1>3, Zenon DEF cancelSystemAction, TypeInv, RowsOK, EventsOK, System, Event
  <2>. QED  BY <1>3, <2>1, Zenon DEF cancelSystemAction, TypeInv, EventsOK, OpenOK, JobsOK, RestOK,
                              requests, external, counters
<1>4. ASSUME NEW s \in Systems, NEW j \in Slots, NEW c \in KeyConfigs,
             LinkSystemAction(j, s, c)
      PROVE  TypeInv'
  <2>1. PICK type \in {"LINK", "SWITCH"} :
          Send(j, NewRequest(s, type, primary[c], [row[s] EXCEPT !.target = c], TRUE))
    BY <1>4, Zenon DEF LinkSystemAction, selectEvent, handleSystemStatus
  <2>2. NewRequest(s, type, primary[c], [row[s] EXCEPT !.target = c], TRUE) \in Request
    BY <1>4, ZenonT(40) DEF LinkSystemAction, NewRequest, Request, TypeInv, RowsOK, RestOK, System,
                Statuses, JobTypes
  <2>3. primary[c] \in Keys
    BY Zenon DEF TypeInv, RestOK
  <2>. QED  BY <1>4, <2>1, <2>2, <2>3, SentRequest, Zenon DEF LinkSystemAction, NewRequest
<1>5. ASSUME NEW s \in Systems, NEW j \in Slots, UnlinkSystemAction(j, s)
      PROVE  TypeInv'
  <2>. DEFINE r == NewRequest(s, "UNLINK", None, [row[s] EXCEPT !.target = row[s].target], TRUE)
  <2>1. Send(j, r)
    BY <1>5, Zenon DEF UnlinkSystemAction, handleSystemStatus
  <2>2. r \in Request
    BY <1>5, Zenon DEF UnlinkSystemAction, NewRequest, Request, TypeInv, RowsOK, System, Exists,
                Statuses, JobTypes
  <2>3. r.type \notin Connecting
    BY Zenon DEF NewRequest, Connecting
  <2>. HIDE DEF r
  <2>. QED  BY <1>5, <2>1, <2>2, <2>3, SentRequest, Zenon DEF UnlinkSystemAction
<1>6. ASSUME NEW s \in Systems, NEW j \in Slots, SystemUnlinkDecommission(j, s)
      PROVE  TypeInv'
  <2>. DEFINE r == NewRequest(s, "DECOMMISSION", None, row[s], FALSE)
  <2>1. Send(j, r)
    BY <1>6, Zenon DEF SystemUnlinkDecommission
  <2>2. r \in Request
    BY <1>6, Zenon DEF SystemUnlinkDecommission, NewRequest, Request, TypeInv, RowsOK, System,
                Exists, Statuses, JobTypes
  <2>3. r.type \notin Connecting
    BY Zenon DEF NewRequest, Connecting
  <2>. HIDE DEF r
  <2>. QED  BY <1>6, <2>1, <2>2, <2>3, SentRequest, Zenon DEF SystemUnlinkDecommission
<1>7. ASSUME NEW s \in Systems, NEW j \in Slots, retrySystemAction(j, s)
      PROVE  TypeInv'
  <2>. DEFINE r == NewRequest(s, event[s].type, event[s].to, row[s], FALSE)
  <2>1. Send(j, r)
    BY <1>7, Zenon DEF retrySystemAction
  <2>2. /\ event[s].type \in JobTypes /\ event[s].to \in Keys \union {None}
        /\ event[s].type \in Connecting => event[s].to \in Keys
    BY <1>7, Zenon DEF retrySystemAction, TypeInv, EventsOK, Event
  <2>3. r \in Request
    BY <1>7, <2>2, Zenon DEF retrySystemAction, NewRequest, Request, TypeInv, RowsOK, System, Statuses
  <2>4. r.type \in Connecting => r.to \in Keys
    BY <2>2, Zenon DEF NewRequest
  <2>. HIDE DEF r
  <2>. QED  BY <1>7, <2>1, <2>3, <2>4, SentRequest, Zenon DEF retrySystemAction
<1>8. ASSUME NEW s \in Systems, NEW j \in Slots, SystemKeyRotate(j, s)
      PROVE  TypeInv'
  <2>1. PICK k \in Keys :
          /\ PrepareJob(j, s, "ROTATE", k)
          /\ event' \in {event, [event EXCEPT ![s] = [type |-> "ROTATE", to |-> k,
                                                     prev |-> row[s].status]]}
    BY <1>8, Zenon DEF SystemKeyRotate, TypeInv, RowsOK, RestOK, System
  <2>2. JobsOK'
    BY <2>1, PreparedJob, Zenon DEF TypeInv, JobTypes
  <2>3. EventsOK'
    <3>1. CASE event' = event
      BY <3>1, Zenon DEF TypeInv, EventsOK
    <3>2. CASE event' = [event EXCEPT ![s] = [type |-> "ROTATE", to |-> k,
                                              prev |-> row[s].status]]
      <4>1. row[s].status \in Statuses /\ "ROTATE" \in JobTypes
        BY <1>8, Zenon DEF SystemKeyRotate, Exists, JobTypes
      <4>. QED  BY <3>2, <4>1, StoredEvent, Zenon DEF TypeInv
    <3>. QED  BY <2>1, <3>1, <3>2, Zenon
  <2>. QED  BY <1>8, <2>2, <2>3 DEF SystemKeyRotate, TypeInv, RowsOK, OpenOK, RestOK,
                                    requests, external
<1>9. ASSUME NEW c \in KeyConfigs, NEW k \in Keys, NEW slot \in [Linked(c) -> Slots],
             handleUpdatePrimaryKey(c, k, slot)
      PROVE  TypeInv'
  <2>1. Linked(c) \subseteq Systems
    BY Zenon DEF Linked
  <2>2. JobsOK'
    <3>1. ASSUME NEW j \in Slots PROVE job'[j] \in Job /\ JobOK(job'[j])
      <4>1. CASE \E s \in Linked(c) : slot[s] = j
        <5>1. (CHOOSE s \in Linked(c) : slot[s] = j) \in Systems
          BY <2>1, <4>1, Zenon
        <5>2. PICK s \in Systems : job'[j] = NewJob(s, "SWITCH_PK", k)
          BY <1>9, <4>1, <5>1, Zenon DEF handleUpdatePrimaryKey
        <5>. QED  BY <5>2 DEF NewJob, Job, JobOK, JobTypes
      <4>2. CASE ~\E s \in Linked(c) : slot[s] = j
        BY <1>9, <4>2, Zenon DEF handleUpdatePrimaryKey, TypeInv, JobsOK
      <4>. QED  BY <4>1, <4>2, Zenon
    <3>2. job' = [j \in Slots |-> job'[j]]
      BY <1>9, Zenon DEF handleUpdatePrimaryKey
    <3>. QED  BY <3>1, <3>2, Zenon DEF JobsOK
  <2>3. EventsOK'
    <3>1. ASSUME NEW s \in Systems
          PROVE  /\ event'[s] \in Event
                 /\ event'[s].type = "NONE" => event'[s] = NoEvent
                 /\ event'[s].type \in Connecting => event'[s].to \in Keys
      <4>1. CASE s \in Linked(c)
        <5>1. event'[s] = [type |-> "SWITCH_PK", to |-> k, prev |-> row[s].status]
          BY <1>9, <4>1, Zenon DEF handleUpdatePrimaryKey
        <5>2. row[s].status \in Statuses
          BY <4>1, Zenon DEF Linked, Exists
        <5>. QED  BY <5>1, <5>2 DEF Event, JobTypes
      <4>2. CASE s \notin Linked(c)
        <5>1. event'[s] = Retarget(event[s], primary[c], k)
          BY <1>9, <4>2, Zenon DEF handleUpdatePrimaryKey
        <5>. QED  BY <5>1, Zenon DEF Retarget, TypeInv, EventsOK, Event
      <4>. QED  BY <4>1, <4>2, Zenon
    <3>2. event' = [s \in Systems |-> event'[s]]
      BY <1>9, Zenon DEF handleUpdatePrimaryKey
    <3>. QED  BY <3>1, <3>2, Zenon DEF EventsOK
  <2>4. RowsOK'
    BY <1>9, ZenonT(40) DEF handleUpdatePrimaryKey, TypeInv, RowsOK, System, Statuses
  <2>. QED  BY <1>9, <2>2, <2>3, <2>4, Zenon DEF handleUpdatePrimaryKey, TypeInv, OpenOK, RestOK,
                                          requests, external, counters
<1>10. ASSUME NEW c \in KeyConfigs, NEW k \in Keys, NEW s \in Systems, NEW j \in Slots,
              UpdatePrimaryKeyFails(c, k, s, j)
       PROVE  TypeInv'
  <2>1. JobsOK'
    BY <1>10, PreparedJob, Zenon DEF UpdatePrimaryKeyFails, TypeInv, JobTypes
  <2>. QED  BY <1>10, <2>1 DEF UpdatePrimaryKeyFails, RollsBack, TypeInv, RowsOK, EventsOK,
                               OpenOK, RestOK, requests, external
<1>. QED  BY <1>1, <1>2, <1>3, <1>4, <1>5, <1>6, <1>7, <1>8, <1>9, <1>10, Zenon DEF UserStep

(* The request that was held goes on. *)
LEMMA HeldStepType == TypeInv /\ HeldStep => TypeInv'
<1>. SUFFICES ASSUME TypeInv, HeldStep PROVE TypeInv'
  BY Zenon
<1>1. CASE CommitHeld
  <2>1. open \in Request /\ (open.type \in Connecting => open.to \in Keys)
    BY <1>1, Zenon DEF CommitHeld, TypeInv, OpenOK
  <2>2. RowsOK' /\ EventsOK' /\ rollbacks' \in Nat
    <3>1. CASE Store(open)
      <4>1. PICK r \in Request : r = open
        BY <2>1, Zenon
      <4>. QED  BY <2>1, <3>1, <4>1, StoredRequest, Zenon DEF TypeInv
    <3>2. CASE RollsBack
      BY <3>2 DEF RollsBack, TypeInv, RowsOK, EventsOK, RestOK
    <3>. QED  BY <1>1, <3>1, <3>2, Zenon DEF CommitHeld
  <2>. QED  BY <1>1, <2>2, Zenon DEF CommitHeld, TypeInv, OpenOK, JobsOK, RestOK, external
<1>2. ASSUME NEW j \in Slots, PrepareHeld(j) PROVE TypeInv'
  <2>1. /\ open \in Request /\ (open.type \in Connecting => open.to \in Keys)
        /\ open.s \in Systems /\ open.type \in JobTypes /\ open.to \in Keys \union {None}
    BY <1>2, Zenon DEF PrepareHeld, TypeInv, OpenOK, Request
  <2>2. CASE PrepareJob(j, open.s, open.type, open.to) /\ open' = [open EXCEPT !.pc = "prepared"]
    <3>1. JobsOK'
      <4>1. PICK r \in Request : r = open
        BY <2>1, Zenon
      <4>. QED  BY <2>1, <2>2, <4>1, PreparedJob, Zenon DEF TypeInv
    <3>2. OpenOK'
      BY <2>1, <2>2, Zenon DEF OpenOK, Request
    <3>. QED  BY <1>2, <3>1, <3>2, Zenon DEF PrepareHeld, TypeInv, RowsOK, EventsOK, RestOK,
                                      external, counters
  <2>3. CASE open' = None /\ UNCHANGED job
    BY <1>2, <2>3, Zenon DEF PrepareHeld, TypeInv, RowsOK, EventsOK, OpenOK, JobsOK, RestOK,
                      external, counters
  <2>. QED  BY <1>2, <2>2, <2>3, Zenon DEF PrepareHeld
<1>. QED  BY <1>1, <1>2, Zenon DEF HeldStep

(* Changing the progress of a job leaves a job about the same thing. *)
SameJob(x, b) == x \in Job /\ x.type = b.type /\ x.s = b.s /\ x.to = b.to

(* A job that goes on is still the same job. *)
LEMMA JobProgress ==
  ASSUME NEW b \in Job
  PROVE  /\ \A st \in Outcomes : SameJob([b EXCEPT !.st = st], b)
         /\ SameJob([b EXCEPT !.snap = None], b)
         /\ SameJob([b EXCEPT !.wrote = TRUE], b)
         /\ SameJob([b EXCEPT !.snap = None, !.wrote = FALSE], b)
  BY Zenon DEF Job, SameJob, Outcomes

(* A job that goes on keeps its type, its system and its key. *)
LEMMA ChangedJob ==
  ASSUME JobsOK, NEW j \in Slots, job[j] # NoJob, NEW x, SameJob(x, job[j]),
         job' = [job EXCEPT ![j] = x]
  PROVE  JobsOK'
  BY Zenon DEF JobsOK, JobOK, SameJob

(* A job that is over, or whose outcome will be handled again. *)
LEMMA FinishedJob ==
  ASSUME JobsOK, NEW j \in Slots, job[j] # NoJob, Finish(j), redeliveries \in Nat
  PROVE  JobsOK' /\ redeliveries' \in Nat
<1>1. NoJob \in Job /\ JobOK(NoJob)
  BY Zenon DEF NoJob, Job, JobOK
<1>2. CASE job' = [job EXCEPT ![j] = NoJob] /\ UNCHANGED redeliveries
  BY <1>1, <1>2, Zenon DEF JobsOK
<1>3. CASE job' = [job EXCEPT ![j].snap = None] /\ redeliveries' = redeliveries + 1
  <2>1. PICK x : x = [job[j] EXCEPT !.snap = None]
    BY Zenon
  <2>2. SameJob(x, job[j])
    BY <2>1, JobProgress, Zenon DEF JobsOK
  <2>3. job' = [job EXCEPT ![j] = x]
    BY <1>3, <2>1, Zenon
  <2>4. JobsOK'
    BY <2>2, <2>3, ChangedJob, Zenon
  <2>. QED  BY <1>3, <2>4
<1>. QED  BY <1>2, <1>3, Zenon DEF Finish

(* The job manager, the operators and the handlers. *)
LEMMA JobStepType ==
  ASSUME TypeInv, NEW j \in Slots, JobStep(j) \/ HandlerFails(j)
  PROVE  TypeInv'
<1>. DEFINE b == job[j]
<1>1. b \in Job /\ JobOK(b)
  BY Zenon DEF TypeInv, JobsOK
<1>2. CASE confirmJob(j)
  <2>1. JobsOK'
    BY <1>1, <1>2, Zenon DEF confirmJob, TypeInv, JobsOK, Job, JobOK, NoJob
  <2>. QED  BY <1>2, <2>1, Zenon DEF confirmJob, TypeInv, RowsOK, EventsOK, OpenOK, RestOK,
                              requests, external, counters
<1>3. CASE ExecuteTask(j)
  <2>1. JobsOK'
    <3>1. PICK st \in Outcomes : job' = [job EXCEPT ![j] = [b EXCEPT !.st = st]]
      BY <1>3, Zenon DEF ExecuteTask, resolveTasks, Outcomes
    <3>2. PICK x : x = [b EXCEPT !.st = st]
      BY Zenon
    <3>3. SameJob(x, job[j])
      BY <1>1, <3>2, JobProgress, Zenon
    <3>4. b # NoJob
      BY <1>3 DEF ExecuteTask, NoJob
    <3>. QED  BY <3>1, <3>2, <3>3, <3>4, ChangedJob, Zenon DEF TypeInv
  <2>2. actual' \in [Systems -> Keys \union {None}]
    BY <1>1, <1>3, Zenon DEF ExecuteTask, TypeInv, RestOK, Job
  <2>. QED  BY <1>3, <2>1, <2>2, Zenon DEF ExecuteTask, TypeInv, RowsOK, EventsOK, OpenOK, RestOK,
                                    requests, counters
<1>4. CASE ReadSystem(j)
  <2>1. JobsOK'
    <3>1. b # NoJob
      BY <1>4 DEF ReadSystem, Outcomes, NoJob
    <3>2. [kc |-> row[b.s].kc, target |-> row[b.s].target] \in Snapshot
      BY <1>1, <3>1, Zenon DEF TypeInv, RowsOK, System, Snapshot, JobOK
    <3>. QED  BY <1>1, <1>4, <3>1, <3>2, ZenonT(40) DEF ReadSystem, TypeInv, JobsOK, Job, JobOK, NoJob
  <2>2. claim' \in [Systems -> BOOLEAN] /\ locked' \in [Systems -> BOOLEAN]
    BY <1>4, Zenon DEF ReadSystem, sendL1KeyClaim, TypeInv, RestOK
  <2>. QED  BY <1>4, <2>1, <2>2, Zenon DEF ReadSystem, TypeInv, RowsOK, EventsOK, OpenOK, RestOK,
                                    requests, counters
<1>5. ASSUME NEW status \in Statuses, NEW kc \in KeyConfigs \union {None},
             NEW target \in KeyConfigs \union {None}, updateSystem(b, status, kc, target)
      PROVE  RowsOK'
  BY <1>5, Zenon DEF updateSystem, TypeInv, RowsOK, System
<1>6. b # NoJob => b.s \in Systems
  BY <1>1, Zenon DEF JobOK
<1>7. event' = cleanUpEvent(b) => EventsOK'
  <2>1. NoEvent \in Event /\ NoEvent.type \notin Connecting
    BY Zenon DEF NoEvent, Event, Statuses, Connecting
  <2>. QED  BY <2>1, Zenon DEF cleanUpEvent, TypeInv, EventsOK
<1>8. CASE HandleJobDoneEvent(j)
  <2>1. b # NoJob /\ b.snap \in Snapshot
    <3>1. b.snap # None
      BY <1>1, <1>8, Zenon DEF HandleJobDoneEvent
    <3>. QED  BY <1>1, <3>1, EmptyFields, Zenon DEF Job
  <2>2. RowsOK'
    <3>1. CASE b.type \in Connecting /\ updateSystem(b, "CONNECTED", KeyConfigOf[b.to], None)
      <4>1. KeyConfigOf[b.to] \in KeyConfigs
        BY <1>1, <2>1, <3>1, KeysAssumption, Zenon DEF JobOK
      <4>. QED  BY <1>5, <3>1, <4>1, Zenon DEF Statuses
    <3>2. CASE updateSystem(b, "DISCONNECTED", None, b.snap.target)
      BY <1>5, <2>1, <3>2, Zenon DEF Statuses, Snapshot
    <3>. QED  BY <1>8, <3>1, <3>2, Zenon DEF HandleJobDoneEvent
  <2>3. JobsOK' /\ redeliveries' \in Nat
    BY <1>6, <1>8, <2>1, FinishedJob, Zenon DEF HandleJobDoneEvent, TypeInv, RestOK
  <2>. QED  BY <1>7, <1>8, <2>2, <2>3, Zenon DEF HandleJobDoneEvent, TypeInv, OpenOK, RestOK,
                                          requests, external
<1>9. CASE terminateSystemJob(j)
  <2>1. b # NoJob /\ b.snap \in Snapshot
    <3>1. b.snap # None
      BY <1>1, <1>9, Zenon DEF terminateSystemJob
    <3>. QED  BY <1>1, <3>1, EmptyFields, Zenon DEF Job
  <2>2. RowsOK'
    BY <1>5, <1>9, <2>1, Zenon DEF terminateSystemJob, Statuses, Snapshot
  <2>3. JobsOK' /\ redeliveries' \in Nat
    BY <1>6, <1>9, <2>1, FinishedJob, Zenon DEF terminateSystemJob, TypeInv, RestOK
  <2>. QED  BY <1>9, <2>2, <2>3, Zenon DEF terminateSystemJob, TypeInv, EventsOK, OpenOK, RestOK,
                                    requests, external
<1>10. CASE terminate(j)
  <2>1. b # NoJob /\ b.snap \in Snapshot
    BY <1>1, <1>10 DEF terminate, NoJob, Job
  <2>2. RowsOK'
    BY <1>5, <1>10, <2>1, Zenon DEF terminate, Statuses, Snapshot
  <2>3. JobsOK'
    <3>1. PICK x : x = [b EXCEPT !.wrote = TRUE]
      BY Zenon
    <3>2. SameJob(x, job[j])
      BY <1>1, <3>1, JobProgress, Zenon
    <3>. QED  BY <1>10, <2>1, <3>1, <3>2, ChangedJob, Zenon DEF terminate, TypeInv
  <2>. QED  BY <1>10, <2>2, <2>3, Zenon DEF terminate, TypeInv, EventsOK, OpenOK, RestOK,
                                     requests, external, counters
<1>11. CASE ReleaseClaim(j)
  <2>1. JobsOK'
    BY <1>11, Zenon DEF ReleaseClaim, TypeInv, JobsOK, Job, JobOK, NoJob
  <2>. QED  BY <1>11, <2>1, Zenon DEF ReleaseClaim, TypeInv, RowsOK, EventsOK, OpenOK, RestOK,
                               requests, counters
<1>12. CASE HandleKeyRotate(j)
  <2>1. b # NoJob
    BY <1>1, <1>12, EmptyFields, Zenon DEF HandleKeyRotate, Outcomes
  <2>2. JobsOK' /\ redeliveries' \in Nat
    BY <1>6, <1>12, <2>1, FinishedJob, Zenon DEF HandleKeyRotate, TypeInv, RestOK
  <2>. QED  BY <1>7, <1>12, <2>2, Zenon DEF HandleKeyRotate, TypeInv, RowsOK, OpenOK, RestOK,
                                     requests, external
<1>13. CASE SystemNotFound(j)
  <2>1. JobsOK'
    BY <1>13, Zenon DEF SystemNotFound, TypeInv, JobsOK, Job, JobOK, NoJob
  <2>. QED  BY <1>13, <2>1, Zenon DEF SystemNotFound, TypeInv, RowsOK, EventsOK, OpenOK, RestOK,
                               requests, external, counters
<1>14. CASE HandlerFails(j)
  <2>1. JobsOK'
    <3>1. PICK x : x = [b EXCEPT !.snap = None, !.wrote = FALSE]
      BY Zenon
    <3>2. SameJob(x, job[j])
      BY <1>1, <3>1, JobProgress, Zenon
    <3>3. b # NoJob
      BY <1>14 DEF HandlerFails, NoJob
    <3>4. job' = [job EXCEPT ![j] = x]
      BY <1>14, <3>1, Zenon DEF HandlerFails, TypeInv, JobsOK
    <3>. QED  BY <3>2, <3>3, <3>4, ChangedJob, Zenon DEF TypeInv
  <2>. QED  BY <1>14, <2>1 DEF HandlerFails, TypeInv, RowsOK, EventsOK, OpenOK, RestOK,
                               requests, external
<1>. QED
  BY <1>2, <1>3, <1>4, <1>8, <1>9, <1>10, <1>11, <1>12, <1>13, <1>14, Zenon DEF JobStep, Handle

(* Every step keeps the tables and the jobs well-formed. *)
LEMMA StepType == TypeInv /\ [Next]_vars => TypeInv'
<1>. SUFFICES ASSUME TypeInv, [Next]_vars PROVE TypeInv'
  BY Zenon
<1>1. CASE UNCHANGED vars
  BY <1>1, Zenon DEF vars, TypeInv, RowsOK, EventsOK, OpenOK, JobsOK, RestOK
<1>. QED  BY <1>1, UserStepType, HeldStepType, JobStepType, Zenon DEF Next

(* The tables of systems and events, the jobs and what the registry and the   *)
(* operator hold are always of their types: no handler stores a key where a   *)
(* configuration belongs or looks up the configuration of no key.             *)
THEOREM TypeCorrect == Spec => []TypeOK
<1>1. Init => TypeInv
  BY InitType, Zenon
<1>2. TypeInv /\ [Next]_vars => TypeInv'
  BY StepType, Zenon
<1>3. TypeInv => TypeOK
  BY TypeInvIs, Zenon
<1>. QED  BY <1>1, <1>2, <1>3, PTL DEF Spec

-----------------------------------------------------------------------------
(* ProcessingHasJob. *)

BusyInv == NoRotation /\ \A s \in Systems : Busy(s) => Attended(s)

(* A job in another slot attends its system as before. *)
LEMMA OtherJobs ==
  ASSUME JobsOK, NEW j \in Slots, NEW x, job' = [job EXCEPT ![j] = x],
         NEW s \in Systems, s # job[j].s \/ job[j].wrote, Attended(s)
  PROVE  Attended(s)'
  BY Zenon DEF JobsOK, Job, Attended, JobsOf

(* A prepared job attends its system, and the others are attended as before. *)
LEMMA PreparedAttends ==
  ASSUME JobsOK, NEW j \in Slots, NEW s \in Systems, NEW type, NEW to,
         type # "ROTATE", PrepareJob(j, s, type, to),
         \A i \in Slots : job[i].type # "ROTATE"
  PROVE  /\ \A t \in Systems : Attended(t) => Attended(t)'
         /\ Attended(s)'
         /\ \A i \in Slots : job'[i].type # "ROTATE"
<1>1. job[j] = NoJob /\ job' = [job EXCEPT ![j] = NewJob(s, type, to)]
  BY Zenon DEF PrepareJob, CanPrepare
<1>2. job[j].s = None
  BY <1>1, EmptyFields, Zenon
<1>3. ASSUME NEW t \in Systems, Attended(t) PROVE Attended(t)'
  BY <1>1, <1>2, <1>3, NoneAssumption, Zenon DEF JobsOK, Attended, JobsOf
<1>4. job'[j].s = s /\ ~job'[j].wrote /\ job'[j].type = type
  BY <1>1, Zenon DEF NewJob, JobsOK
<1>5. Attended(s)'
  BY <1>4, Zenon DEF Attended, JobsOf
<1>. QED  BY <1>1, <1>3, <1>4, <1>5, Zenon DEF JobsOK

(* The writes of a request whose system is attended. *)
LEMMA StoredBusy ==
  ASSUME TypeInv, BusyInv, NEW r \in Request, Store(r), r.type # "ROTATE",
         r.copy.status # "PROCESSING"
  PROVE  /\ \A t \in Systems : t # r.s => row'[t] = row[t]
         /\ Exists(r.s)' => Exists(r.s)
         /\ \A t \in Systems : event'[t].prev # "PROCESSING" /\ event'[t].type # "ROTATE"
<1>1. r.s \in Systems
  BY Zenon DEF Request
<1>2. \A t \in Systems : t # r.s => row'[t] = row[t]
  BY <1>1, Zenon DEF Store, TypeInv, RowsOK
<1>3. Exists(r.s)' => Exists(r.s)
  BY <1>1, Zenon DEF Store, Exists
<1>4. ASSUME NEW t \in Systems
      PROVE  event'[t].prev # "PROCESSING" /\ event'[t].type # "ROTATE"
  BY <1>1, Zenon DEF Store, TypeInv, EventsOK, BusyInv, NoRotation
<1>. QED  BY <1>2, <1>3, <1>4, Zenon

(* A request that is sent. *)
LEMMA SentBusy ==
  ASSUME TypeInv, BusyInv, NEW j \in Slots, NEW r \in Request, Send(j, r),
         r.type # "ROTATE", r.copy.status # "PROCESSING", r.pc = "read"
  PROVE  BusyInv'
<1>1. r.s \in Systems
  BY Zenon DEF Request
<1>2. CASE RunAtOnce(j, r)
  <2>1. /\ \A t \in Systems : Attended(t) => Attended(t)'
        /\ Attended(r.s)'
        /\ \A i \in Slots : job'[i].type # "ROTATE"
    BY <1>1, <1>2, PreparedAttends, Zenon DEF RunAtOnce, TypeInv, BusyInv, NoRotation
  <2>2. open' = open
    BY <1>2, Zenon DEF RunAtOnce, requests
  <2>3. /\ \A t \in Systems : t # r.s => row'[t] = row[t]
        /\ \A t \in Systems : event'[t].prev # "PROCESSING" /\ event'[t].type # "ROTATE"
    <3>1. CASE Store(r)
      BY <3>1, StoredBusy, Zenon
    <3>2. CASE RollsBack
      BY <3>2, Zenon DEF RollsBack, BusyInv, NoRotation
    <3>. QED  BY <1>2, <3>1, <3>2, Zenon DEF RunAtOnce
  <2>4. NoRotation'
    BY <2>1, <2>2, <2>3, Zenon DEF BusyInv, NoRotation
  <2>5. ASSUME NEW t \in Systems, Busy(t)' PROVE Attended(t)'
    <3>1. CASE t = r.s
      BY <2>1, <3>1, Zenon
    <3>2. CASE t # r.s
      <4>1. Busy(t)
        BY <2>2, <2>3, <2>5, <3>2, Zenon DEF Busy, Locked, Exists
      <4>. QED  BY <2>1, <4>1, Zenon DEF BusyInv
    <3>. QED  BY <3>1, <3>2, Zenon
  <2>. QED  BY <2>4, <2>5, Zenon DEF BusyInv
<1>3. CASE Hold(r)
  <2>1. NoRotation'
    BY <1>3, Zenon DEF Hold, BusyInv, NoRotation
  <2>2. ASSUME NEW t \in Systems, Busy(t)' PROVE Attended(t)'
    BY <1>3, <2>2, Zenon DEF Hold, Busy, Locked, Attended, JobsOf, BusyInv
  <2>. QED  BY <2>1, <2>2, Zenon DEF BusyInv
<1>. QED  BY <1>2, <1>3, Zenon DEF Send

(* A step that leaves the jobs and the request in flight alone, and makes no  *)
(* system busy.                                                               *)
LEMMA RowChange ==
  ASSUME BusyInv, NEW s \in Systems, ~Busy(s)', UNCHANGED <<event, open, job>>,
         \A t \in Systems : t # s => row'[t] = row[t]
  PROVE  BusyInv'
<1>1. NoRotation'
  BY Zenon DEF BusyInv, NoRotation
<1>2. ASSUME NEW t \in Systems, Busy(t)' PROVE Attended(t)'
  BY <1>2 DEF Busy, Locked, Exists, Attended, JobsOf, BusyInv
<1>. QED  BY <1>1, <1>2, Zenon DEF BusyInv

(* The requests of users and of the tasks that call the managers. *)
LEMMA UserStepBusy ==
  ASSUME rotations' = 0, TypeInv, BusyInv, UserStep
  PROVE  BusyInv'
<1>1. ASSUME NEW s \in Systems, ~Locked(s), createSystemIfNotExists(s) PROVE BusyInv'
  BY <1>1, RowChange, ZenonT(40) DEF createSystemIfNotExists, requests, TypeInv, RowsOK, Busy, Locked, System
<1>2. ASSUME NEW s \in Systems, ~Locked(s), removeSystemsNotInRegistry(s) PROVE BusyInv'
  BY <1>2, RowChange, Zenon DEF removeSystemsNotInRegistry, requests, TypeInv, RowsOK, Busy, Locked,
                         Deleted
<1>3. ASSUME NEW s \in Systems, ~Locked(s), cancelSystemAction(s) PROVE BusyInv'
  <2>1. event[s].prev # "PROCESSING"
    BY Zenon DEF BusyInv, NoRotation
  <2>. QED  BY <1>3, <2>1, RowChange, Zenon DEF cancelSystemAction, requests, TypeInv, RowsOK, Busy,
                                         Locked
<1>4. ASSUME NEW s \in Systems, NEW j \in Slots, NEW c \in KeyConfigs,
             LinkSystemAction(j, s, c)
      PROVE  BusyInv'
  <2>1. PICK r : /\ Send(j, r)
                 /\ \E type \in {"LINK", "SWITCH"} :
                      r = NewRequest(s, type, primary[c], [row[s] EXCEPT !.target = c], TRUE)
    BY <1>4, Zenon DEF LinkSystemAction, selectEvent, handleSystemStatus
  <2>2. r \in Request
    BY <1>4, <2>1, SMTT(30) DEF LinkSystemAction, NewRequest, Request, TypeInv, RowsOK, RestOK, System,
                      Statuses, JobTypes
  <2>3. r.type # "ROTATE" /\ r.copy.status # "PROCESSING" /\ r.pc = "read"
    BY <1>4, <2>1 DEF LinkSystemAction, NewRequest, TypeInv, RowsOK, System
  <2>. QED  BY <2>1, <2>2, <2>3, SentBusy, Zenon
<1>5. ASSUME NEW s \in Systems, NEW j \in Slots, UnlinkSystemAction(j, s)
      PROVE  BusyInv'
  <2>1. PICK r : /\ Send(j, r)
                 /\ r = NewRequest(s, "UNLINK", None, [row[s] EXCEPT !.target = row[s].target],
                                   TRUE)
    BY <1>5, Zenon DEF UnlinkSystemAction, handleSystemStatus
  <2>2. r \in Request
    BY <1>5, <2>1, Zenon DEF UnlinkSystemAction, NewRequest, Request, TypeInv, RowsOK, System, Exists,
                      Statuses, JobTypes
  <2>3. r.type # "ROTATE" /\ r.copy.status # "PROCESSING" /\ r.pc = "read"
    BY <1>5, <2>1, Zenon DEF UnlinkSystemAction, NewRequest, TypeInv, RowsOK, System
  <2>. QED  BY <2>1, <2>2, <2>3, SentBusy, Zenon
<1>6. ASSUME NEW s \in Systems, NEW j \in Slots, SystemUnlinkDecommission(j, s)
      PROVE  BusyInv'
  <2>1. PICK r : Send(j, r) /\ r = NewRequest(s, "DECOMMISSION", None, row[s], FALSE)
    BY <1>6, Zenon DEF SystemUnlinkDecommission
  <2>2. r \in Request
    BY <1>6, <2>1, Zenon DEF SystemUnlinkDecommission, NewRequest, Request, TypeInv, RowsOK, System,
                      Exists, Statuses, JobTypes
  <2>3. r.type # "ROTATE" /\ r.copy.status # "PROCESSING" /\ r.pc = "read"
    BY <1>6, <2>1, Zenon DEF SystemUnlinkDecommission, NewRequest
  <2>. QED  BY <2>1, <2>2, <2>3, SentBusy, Zenon
<1>7. ASSUME NEW s \in Systems, NEW j \in Slots, retrySystemAction(j, s)
      PROVE  BusyInv'
  <2>1. PICK r : /\ Send(j, r)
                 /\ r = NewRequest(s, event[s].type, event[s].to, row[s], FALSE)
    BY <1>7, Zenon DEF retrySystemAction
  <2>2. event[s].type \in JobTypes /\ event[s].to \in Keys \union {None}
    BY <1>7, Zenon DEF retrySystemAction, TypeInv, EventsOK, Event
  <2>3. r \in Request
    BY <1>7, <2>1, <2>2, Zenon DEF retrySystemAction, NewRequest, Request, TypeInv, RowsOK, System,
                            Statuses
  <2>4. r.type # "ROTATE" /\ r.copy.status # "PROCESSING" /\ r.pc = "read"
    BY <1>7, <2>1, Zenon DEF retrySystemAction, NewRequest, BusyInv, NoRotation
  <2>. QED  BY <2>1, <2>3, <2>4, SentBusy, Zenon
<1>8. ASSUME NEW s \in Systems, NEW j \in Slots, SystemKeyRotate(j, s)
      PROVE  BusyInv'
  BY <1>8 DEF SystemKeyRotate, TypeInv, RestOK
<1>9. ASSUME NEW c \in KeyConfigs, NEW k \in Keys, NEW slot \in [Linked(c) -> Slots],
             \A s, t \in Linked(c) : slot[s] = slot[t] => s = t,
             handleUpdatePrimaryKey(c, k, slot)
      PROVE  BusyInv'
  <2>1. ASSUME NEW s \in Linked(c) PROVE Attended(s)'
    <3>1. (CHOOSE t \in Linked(c) : slot[t] = slot[s]) = s
      BY <1>9, Zenon
    <3>2. slot[s] \in Slots /\ job'[slot[s]] = NewJob(s, "SWITCH_PK", k)
      BY <1>9, <3>1, Zenon DEF handleUpdatePrimaryKey
    <3>3. job'[slot[s]].s = s /\ ~job'[slot[s]].wrote
      BY <3>2 DEF NewJob
    <3>. QED  BY <3>2, <3>3, Zenon DEF Attended, JobsOf
  <2>2. ASSUME NEW t \in Systems, Attended(t) PROVE Attended(t)'
    <3>1. PICK i \in Slots : job[i].s = t /\ ~job[i].wrote
      BY <2>2, Zenon DEF Attended, JobsOf
    <3>2. \A s \in Linked(c) : slot[s] # i
      BY <1>9, <3>1, NoneAssumption DEF handleUpdatePrimaryKey, CanPrepare, NoJob
    <3>3. job'[i] = job[i]
      BY <1>9, <3>2, Zenon DEF handleUpdatePrimaryKey
    <3>. QED  BY <3>1, <3>3, Zenon DEF Attended, JobsOf
  <2>3. ASSUME NEW i \in Slots PROVE job'[i].type # "ROTATE"
    BY <1>9, Zenon DEF handleUpdatePrimaryKey, NewJob, BusyInv, NoRotation
  <2>4. ASSUME NEW s \in Systems
        PROVE  event'[s].prev # "PROCESSING" /\ event'[s].type # "ROTATE"
    <3>1. CASE s \in Linked(c)
      BY <1>9, <3>1, Zenon DEF handleUpdatePrimaryKey
    <3>2. CASE s \notin Linked(c)
      <4>1. event'[s] = Retarget(event[s], primary[c], k)
        BY <1>9, <3>2, Zenon DEF handleUpdatePrimaryKey
      <4>2. event[s] \in Event
        BY Zenon DEF TypeInv, EventsOK
      <4>. QED  BY <4>1, <4>2, Zenon DEF Retarget, Event, BusyInv, NoRotation
    <3>. QED  BY <3>1, <3>2, Zenon
  <2>5. open' = open
    BY <1>9, Zenon DEF handleUpdatePrimaryKey, requests
  <2>6. NoRotation'
    BY <2>3, <2>4, <2>5, Zenon DEF BusyInv, NoRotation
  <2>7. ASSUME NEW t \in Systems, Busy(t)' PROVE Attended(t)'
    <3>1. CASE t \in Linked(c)
      BY <2>1, <3>1, Zenon
    <3>2. CASE t \notin Linked(c)
      <4>1. row'[t] = row[t]
        BY <1>9, <3>2, Zenon DEF handleUpdatePrimaryKey
      <4>. QED  BY <2>2, <2>5, <2>7, <4>1, Zenon DEF Busy, Locked, Exists, BusyInv
    <3>. QED  BY <3>1, <3>2, Zenon
  <2>. QED  BY <2>6, <2>7, Zenon DEF BusyInv
<1>10. ASSUME NEW c \in KeyConfigs, NEW k \in Keys, NEW s \in Systems, NEW j \in Slots,
              UpdatePrimaryKeyFails(c, k, s, j)
       PROVE  BusyInv'
  <2>1. /\ \A t \in Systems : Attended(t) => Attended(t)'
        /\ \A i \in Slots : job'[i].type # "ROTATE"
    BY <1>10, PreparedAttends, Zenon DEF UpdatePrimaryKeyFails, TypeInv, BusyInv, NoRotation
  <2>2. NoRotation'
    BY <1>10, <2>1, Zenon DEF UpdatePrimaryKeyFails, RollsBack, requests, BusyInv, NoRotation
  <2>3. ASSUME NEW t \in Systems, Busy(t)' PROVE Attended(t)'
    BY <1>10, <2>1, <2>3, Zenon DEF UpdatePrimaryKeyFails, RollsBack, requests, Busy, Locked, Exists,
                             BusyInv
  <2>. QED  BY <2>2, <2>3, Zenon DEF BusyInv
<1>. QED  BY <1>1, <1>2, <1>3, <1>4, <1>5, <1>6, <1>7, <1>8, <1>9, <1>10, Zenon DEF UserStep

(* The request that was held: the job it prepares attends the row it commits. *)
LEMMA HeldStepBusy ==
  ASSUME TypeInv, BusyInv, HeldStep
  PROVE  BusyInv'
<1>1. CASE CommitHeld
  <2>1. /\ open \in Request /\ open.type # "ROTATE" /\ open.copy.status # "PROCESSING"
        /\ Locked(open.s)
    BY <1>1, Zenon DEF CommitHeld, TypeInv, OpenOK, BusyInv, NoRotation, Locked
  <2>2. PICK r \in Request : r = open
    BY <2>1, Zenon
  <2>3. /\ \A t \in Systems : t # r.s => row'[t] = row[t]
        /\ Exists(r.s)' => Exists(r.s)
        /\ \A t \in Systems : event'[t].prev # "PROCESSING" /\ event'[t].type # "ROTATE"
    <3>1. CASE Store(open)
      BY <2>1, <2>2, <3>1, StoredBusy, Zenon
    <3>2. CASE RollsBack
      BY <3>2, Zenon DEF RollsBack, Exists, BusyInv, NoRotation
    <3>. QED  BY <1>1, <3>1, <3>2, Zenon DEF CommitHeld
  <2>4. open' = None /\ job' = job
    BY <1>1, Zenon DEF CommitHeld
  <2>5. NoRotation'
    BY <2>3, <2>4, Zenon DEF BusyInv, NoRotation
  <2>6. ASSUME NEW t \in Systems, Busy(t)' PROVE Attended(t)'
    <3>1. row'[t].status = "PROCESSING"
      BY <2>4, <2>6, Zenon DEF Busy, Locked
    <3>2. Busy(t)
      BY <2>1, <2>2, <2>3, <3>1, Zenon DEF Busy, Exists, Statuses
    <3>. QED  BY <2>4, <3>2, Zenon DEF BusyInv, Attended, JobsOf
  <2>. QED  BY <2>5, <2>6, Zenon DEF BusyInv
<1>2. ASSUME NEW j \in Slots, PrepareHeld(j) PROVE BusyInv'
  <2>1. /\ open \in Request /\ open.type # "ROTATE" /\ open.s \in Systems
    BY <1>2, Zenon DEF PrepareHeld, TypeInv, OpenOK, Request, BusyInv, NoRotation
  <2>2. row' = row /\ event' = event
    BY <1>2, Zenon DEF PrepareHeld
  <2>3. CASE PrepareJob(j, open.s, open.type, open.to) /\ open' = [open EXCEPT !.pc = "prepared"]
    <3>1. PICK r \in Request : r = open
      BY <2>1, Zenon
    <3>2. /\ \A t \in Systems : Attended(t) => Attended(t)'
          /\ Attended(r.s)'
          /\ \A i \in Slots : job'[i].type # "ROTATE"
      BY <2>1, <2>3, <3>1, PreparedAttends, Zenon DEF TypeInv, BusyInv, NoRotation
    <3>3. open'.s = r.s /\ open'.copy = r.copy /\ open'.type = r.type
      BY <2>3, <3>1, Zenon DEF Request
    <3>4. NoRotation'
      BY <1>2, <2>2, <3>1, <3>2, <3>3, Zenon DEF PrepareHeld, BusyInv, NoRotation
    <3>5. ASSUME NEW t \in Systems, Busy(t)' PROVE Attended(t)'
      BY <2>2, <3>2, <3>3, <3>5, Zenon DEF Busy, Locked, BusyInv
    <3>. QED  BY <3>4, <3>5, Zenon DEF BusyInv
  <2>4. CASE open' = None /\ UNCHANGED job
    <3>1. NoRotation'
      BY <2>2, <2>4, Zenon DEF BusyInv, NoRotation
    <3>2. ASSUME NEW t \in Systems, Busy(t)' PROVE Attended(t)'
      BY <2>2, <2>4, <3>2, Zenon DEF Busy, Locked, BusyInv, Attended, JobsOf
    <3>. QED  BY <3>1, <3>2, Zenon DEF BusyInv
  <2>. QED  BY <1>2, <2>3, <2>4, Zenon DEF PrepareHeld
<1>. QED  BY <1>1, <1>2, Zenon DEF HeldStep

(* A step of one job has to account for the system of that job only. *)
LEMMA JobChange ==
  ASSUME TypeInv, BusyInv, NEW j \in Slots, NEW x, x.type # "ROTATE",
         job' = [job EXCEPT ![j] = x], open' = open,
         event' = event \/ event' = cleanUpEvent(job[j]),
         NEW s, s = job[j].s, \A t \in Systems : t # s => row'[t] = row[t],
         s \in Systems /\ Busy(s)' => Attended(s)'
  PROVE  BusyInv'
<1>1. \A t \in Systems : event'[t].prev # "PROCESSING" /\ event'[t].type # "ROTATE"
  <2>1. ASSUME NEW t \in Systems PROVE event'[t] \in {event[t], NoEvent}
    BY Zenon DEF cleanUpEvent, TypeInv, EventsOK
  <2>. QED  BY <2>1, EmptyFields, Zenon DEF BusyInv, NoRotation
<1>2. NoRotation'
  BY <1>1, Zenon DEF TypeInv, JobsOK, BusyInv, NoRotation
<1>3. ASSUME NEW t \in Systems, Busy(t)' PROVE Attended(t)'
  <2>1. CASE t = s
    BY <1>3, <2>1, Zenon
  <2>2. CASE t # s
    <3>1. Attended(t)
      BY <1>3, <2>2, Zenon DEF Busy, Locked, Exists, BusyInv
    <3>. QED  BY <2>2, <3>1, OtherJobs, Zenon DEF TypeInv
  <2>. QED  BY <2>1, <2>2, Zenon
<1>. QED  BY <1>2, <1>3, Zenon DEF BusyInv

(* One that leaves the row alone and the job in place attends it as before. *)
LEMMA JobGoesOn ==
  ASSUME TypeInv, BusyInv, NEW j \in Slots, NEW x,
         x.type = job[j].type, x.s = job[j].s, x.wrote => job[j].wrote,
         job' = [job EXCEPT ![j] = x], UNCHANGED <<row, event, open>>
  PROVE  BusyInv'
<1>1. ASSUME NEW t \in Systems, Attended(t) PROVE Attended(t)'
  BY <1>1, Zenon DEF TypeInv, JobsOK, Attended, JobsOf
<1>2. PICK s : s = job[j].s
  BY Zenon
<1>3. ASSUME s \in Systems, Busy(s)' PROVE Attended(s)
  BY <1>3, Zenon DEF Busy, Locked, Exists, BusyInv
<1>4. x.type # "ROTATE"
  BY Zenon DEF BusyInv, NoRotation
<1>. QED  BY <1>1, <1>2, <1>3, <1>4, JobChange, Zenon

(* A handler that writes the row takes it out of PROCESSING. *)
LEMMA HandlerWrites ==
  ASSUME TypeInv, NEW b, NEW status, NEW kc, NEW target, b.s \in Systems,
         status # "PROCESSING", updateSystem(b, status, kc, target), open' = open
  PROVE  /\ ~Busy(b.s)'
         /\ \A t \in Systems : t # b.s => row'[t] = row[t]
<1>1. row'[b.s].status # "PROCESSING"
  BY Zenon DEF updateSystem, TypeInv, RowsOK, Exists, Statuses
<1>2. ~Locked(b.s)'
  BY Zenon DEF updateSystem, Locked
<1>. QED  BY <1>1, <1>2, Zenon DEF Busy, updateSystem, TypeInv, RowsOK

(* The job manager, the operators and the handlers. *)
LEMMA JobStepBusy ==
  ASSUME TypeInv, BusyInv, NEW j \in Slots, JobStep(j) \/ HandlerFails(j)
  PROVE  BusyInv'
<1>1. PICK b \in Job : b = job[j] /\ JobOK(b) /\ b.type # "ROTATE"
  <2>1. job[j] \in Job /\ JobOK(job[j])
    BY Zenon DEF TypeInv, JobsOK
  <2>2. job[j].type # "ROTATE"
    BY Zenon DEF BusyInv, NoRotation
  <2>. QED  BY <2>1, <2>2, Zenon
<1>2. NoJob.type # "ROTATE"
  BY EmptyFields, Zenon
<1>3. CASE confirmJob(j)
  <2>1. PICK st : job' = [job EXCEPT ![j] = [b EXCEPT !.st = st]]
    BY <1>1, <1>3, Zenon DEF confirmJob
  <2>2. PICK x : x = [b EXCEPT !.st = st]
    BY Zenon
  <2>3. x.type = b.type /\ x.s = b.s /\ x.wrote = b.wrote
    BY <1>1, <2>2, Zenon DEF Job
  <2>4. UNCHANGED <<row, event, open>>
    BY <1>3, Zenon DEF confirmJob, requests
  <2>. QED  BY <1>1, <2>1, <2>2, <2>3, <2>4, JobGoesOn, Zenon
<1>4. CASE ExecuteTask(j)
  <2>1. PICK st : job' = [job EXCEPT ![j] = [b EXCEPT !.st = st]]
    BY <1>1, <1>4, Zenon DEF ExecuteTask
  <2>2. PICK x : x = [b EXCEPT !.st = st]
    BY Zenon
  <2>3. x.type = b.type /\ x.s = b.s /\ x.wrote = b.wrote
    BY <1>1, <2>2, Zenon DEF Job
  <2>. QED  BY <1>1, <1>4, <2>1, <2>2, <2>3, JobGoesOn, Zenon DEF ExecuteTask, requests
<1>5. CASE ReadSystem(j)
  <2>1. PICK snap : job' = [job EXCEPT ![j] = [b EXCEPT !.snap = snap]]
    BY <1>1, <1>5, Zenon DEF ReadSystem
  <2>2. PICK x : x = [b EXCEPT !.snap = snap]
    BY Zenon
  <2>3. x.type = b.type /\ x.s = b.s /\ x.wrote = b.wrote
    BY <1>1, <2>2, Zenon DEF Job
  <2>4. UNCHANGED <<row, event, open>>
    BY <1>5, Zenon DEF ReadSystem, requests
  <2>. QED  BY <1>1, <2>1, <2>2, <2>3, <2>4, JobGoesOn, Zenon
<1>6. CASE HandlerFails(j)
  <2>1. PICK x : x = [b EXCEPT !.snap = None, !.wrote = FALSE]
    BY Zenon
  <2>2. job' = [job EXCEPT ![j] = x]
    BY <1>1, <1>6, <2>1, Zenon DEF HandlerFails, TypeInv, JobsOK
  <2>3. x.type = b.type /\ x.s = b.s /\ ~x.wrote
    BY <1>1, <2>1, Zenon DEF Job
  <2>. QED  BY <1>1, <1>6, <2>2, <2>3, JobGoesOn, Zenon DEF HandlerFails, requests
<1>7. ASSUME b.s \in Systems, Finish(j), open' = open,
             event' = event \/ event' = cleanUpEvent(b),
             NEW status, NEW kc, NEW target, status # "PROCESSING",
             updateSystem(b, status, kc, target)
      PROVE  BusyInv'
  <2>1. ~Busy(b.s)' /\ \A t \in Systems : t # b.s => row'[t] = row[t]
    BY <1>7, HandlerWrites, Zenon
  <2>2. PICK x : job' = [job EXCEPT ![j] = x] /\ x.type # "ROTATE"
    <3>1. CASE job' = [job EXCEPT ![j] = NoJob]
      BY <1>2, <3>1, Zenon
    <3>2. CASE job' = [job EXCEPT ![j].snap = None]
      <4>1. PICK x : x = [b EXCEPT !.snap = None]
        BY Zenon
      <4>2. x.type = b.type
        BY <1>1, <4>1, Zenon DEF Job
      <4>3. job' = [job EXCEPT ![j] = x]
        BY <1>1, <3>2, <4>1, Zenon
      <4>. QED  BY <1>1, <4>2, <4>3, Zenon
    <3>. QED  BY <1>7, <3>1, <3>2, Zenon DEF Finish
  <2>. QED  BY <1>1, <1>7, <2>1, <2>2, JobChange, Zenon
<1>8. b # NoJob => b.s \in Systems
  BY <1>1, Zenon DEF JobOK
<1>9. CASE HandleJobDoneEvent(j)
  <2>1. b.s \in Systems
    BY <1>1, <1>8, <1>9, EmptyFields, Zenon DEF HandleJobDoneEvent
  <2>2. CASE updateSystem(b, "CONNECTED", KeyConfigOf[b.to], None)
    BY <1>1, <1>7, <1>9, <2>1, <2>2, Zenon DEF HandleJobDoneEvent, requests
  <2>3. CASE updateSystem(b, "DISCONNECTED", None, b.snap.target)
    BY <1>1, <1>7, <1>9, <2>1, <2>3, Zenon DEF HandleJobDoneEvent, requests
  <2>. QED  BY <1>1, <1>9, <2>2, <2>3, Zenon DEF HandleJobDoneEvent
<1>10. CASE terminateSystemJob(j)
  <2>1. b.s \in Systems
    BY <1>1, <1>8, <1>10, EmptyFields, Zenon DEF terminateSystemJob
  <2>. QED  BY <1>1, <1>7, <1>10, <2>1, Zenon DEF terminateSystemJob, requests
<1>11. CASE terminate(j)
  <2>1. b.s \in Systems
    BY <1>1, <1>8, <1>11, EmptyFields, Zenon DEF terminate
  <2>2. ~Busy(b.s)' /\ \A t \in Systems : t # b.s => row'[t] = row[t]
    BY <1>1, <1>11, <2>1, HandlerWrites, Zenon DEF terminate, requests
  <2>3. PICK x : x = [b EXCEPT !.wrote = TRUE]
    BY Zenon
  <2>4. job' = [job EXCEPT ![j] = x] /\ x.type # "ROTATE"
    BY <1>1, <1>11, <2>3, Zenon DEF terminate, Job
  <2>5. UNCHANGED <<event, open>>
    BY <1>11, Zenon DEF terminate, requests
  <2>. QED  BY <1>1, <2>2, <2>4, <2>5, JobChange, Zenon
<1>12. CASE ReleaseClaim(j)
  <2>1. job[j].wrote /\ job' = [job EXCEPT ![j] = NoJob] /\ UNCHANGED <<row, event, open>>
    BY <1>12, Zenon DEF ReleaseClaim, requests
  <2>2. ASSUME b.s \in Systems, Busy(b.s)' PROVE Attended(b.s)'
    <3>1. Attended(b.s)
      BY <2>1, <2>2, Zenon DEF Busy, Locked, Exists, BusyInv
    <3>. QED  BY <2>1, <2>2, <3>1, OtherJobs, Zenon DEF TypeInv
  <2>. QED  BY <1>1, <1>2, <2>1, <2>2, JobChange, Zenon
<1>13. CASE HandleKeyRotate(j)
  BY <1>1, <1>13, Zenon DEF HandleKeyRotate
<1>14. CASE SystemNotFound(j)
  <2>1. ~Exists(b.s) /\ job' = [job EXCEPT ![j] = NoJob] /\ UNCHANGED <<row, event, open>>
    BY <1>1, <1>14, Zenon DEF SystemNotFound, requests
  <2>2. ~Busy(b.s)'
    BY <2>1, Zenon DEF Busy, Exists, Statuses
  <2>. QED  BY <1>1, <1>2, <2>1, <2>2, JobChange, Zenon
<1>. QED
  BY <1>3, <1>4, <1>5, <1>6, <1>9, <1>10, <1>11, <1>12, <1>13, <1>14, Zenon DEF JobStep, Handle

(* Rotations are only counted up. *)
LEMMA RotationsGrow ==
  TypeInv /\ [Next]_vars /\ rotations' = 0 => rotations = 0
<1>. SUFFICES ASSUME TypeInv, [Next]_vars PROVE rotations' \in {rotations, rotations + 1}
  BY DEF TypeInv, RestOK
<1>1. CASE UserStep
  <2>1. ASSUME NEW s \in Systems,
               \/ createSystemIfNotExists(s) \/ removeSystemsNotInRegistry(s)
               \/ cancelSystemAction(s)
        PROVE  UNCHANGED rotations
    BY <2>1, Zenon DEF createSystemIfNotExists, removeSystemsNotInRegistry, cancelSystemAction,
                counters
  <2>2. ASSUME NEW s \in Systems, NEW j \in Slots, NEW c \in KeyConfigs,
               LinkSystemAction(j, s, c)
        PROVE  UNCHANGED rotations
    BY <2>2, Zenon DEF LinkSystemAction
  <2>3. ASSUME NEW s \in Systems, NEW j \in Slots,
               \/ UnlinkSystemAction(j, s) \/ SystemUnlinkDecommission(j, s)
               \/ retrySystemAction(j, s)
        PROVE  UNCHANGED rotations
    BY <2>3, Zenon DEF UnlinkSystemAction, SystemUnlinkDecommission, retrySystemAction
  <2>4. ASSUME NEW s \in Systems, NEW j \in Slots, SystemKeyRotate(j, s)
        PROVE  rotations' = rotations + 1
    BY <2>4, Zenon DEF SystemKeyRotate
  <2>5. ASSUME NEW c \in KeyConfigs, NEW k \in Keys, NEW slot \in [Linked(c) -> Slots],
               handleUpdatePrimaryKey(c, k, slot)
        PROVE  UNCHANGED rotations
    BY <2>5, Zenon DEF handleUpdatePrimaryKey, counters
  <2>6. ASSUME NEW c \in KeyConfigs, NEW k \in Keys, NEW s \in Systems, NEW j \in Slots,
               UpdatePrimaryKeyFails(c, k, s, j)
        PROVE  UNCHANGED rotations
    BY <2>6, Zenon DEF UpdatePrimaryKeyFails
  <2>. QED  BY <1>1, <2>1, <2>2, <2>3, <2>4, <2>5, <2>6, Zenon DEF UserStep
<1>2. CASE HeldStep
  BY <1>2, Zenon DEF HeldStep, CommitHeld, PrepareHeld, counters
<1>3. ASSUME NEW j \in Slots, JobStep(j) \/ HandlerFails(j)
      PROVE  UNCHANGED rotations
  BY <1>3, Zenon DEF JobStep, Handle, confirmJob, ExecuteTask, ReadSystem, HandleJobDoneEvent,
              terminateSystemJob, terminate, ReleaseClaim, HandleKeyRotate, SystemNotFound,
              HandlerFails, counters
<1>4. CASE UNCHANGED vars
  BY <1>4, Zenon DEF vars
<1>. QED  BY <1>1, <1>2, <1>3, <1>4, Zenon DEF Next

(* Every step but a rotation keeps the invariant. *)
LEMMA StepBusy ==
  TypeInv /\ BusyInv /\ [Next]_vars /\ rotations' = 0 => BusyInv'
<1>. SUFFICES ASSUME TypeInv, BusyInv, [Next]_vars, rotations' = 0 PROVE BusyInv'
  BY Zenon
<1>1. CASE UNCHANGED vars
  <2>1. NoRotation'
    BY <1>1, Zenon DEF vars, BusyInv, NoRotation
  <2>2. ASSUME NEW t \in Systems, Busy(t)' PROVE Attended(t)'
    BY <1>1, <2>2, Zenon DEF vars, Busy, Locked, Exists, Attended, JobsOf, BusyInv
  <2>. QED  BY <2>1, <2>2, Zenon DEF BusyInv
<1>. QED  BY <1>1, UserStepBusy, HeldStepBusy, JobStepBusy, Zenon DEF Next

(* The inductive invariant: until the first rotation, however requests        *)
(* overlap, are rolled back or are cancelled, and however often the outcome   *)
(* of a job is handled.                                                       *)
THEOREM Invariance == Spec => []ProcessingInv
<1>. DEFINE I == TypeInv /\ (rotations = 0 => BusyInv)
<1>1. Init => I
  <2>1. ASSUME Init PROVE NoRotation
    <3>1. /\ open = None
          /\ \A s \in Systems : event[s] = NoEvent
          /\ \A j \in Slots : job[j] = NoJob
      BY <2>1, Zenon DEF Init
    <3>. QED  BY <3>1, EmptyFields, Zenon DEF NoRotation
  <2>2. Init => \A s \in Systems : ~Busy(s)
    <3>1. Init => open = None /\ \A s \in Systems : row[s].status = "NONE"
      BY DEF Init, NoSystem
    <3>. QED  BY <3>1, Zenon DEF Busy, Locked
  <2>. QED  BY <2>1, <2>2, InitType, Zenon DEF BusyInv
<1>2. I /\ [Next]_vars => I'
  BY StepType, StepBusy, RotationsGrow, Zenon
<1>3. I => ProcessingInv
  BY TypeInvIs, Zenon DEF BusyInv, ProcessingInv
<1>. QED  BY <1>1, <1>2, <1>3, PTL DEF Spec

(* Until the first rotation a system that is PROCESSING always has a job      *)
(* whose handler will take it out of that status.                             *)
THEOREM ProcessingHasJobHolds == Spec => []ProcessingHasJob
<1>1. ProcessingInv => ProcessingHasJob
  BY Zenon DEF ProcessingInv, NoRotation, ProcessingHasJob, Busy, Attended, JobsOf
<1>. QED  BY <1>1, Invariance, PTL

-----------------------------------------------------------------------------
(* RetryUsesPrimary. *)

(* Steps that keep the primary keys and store no new key in an event. *)
LEMMA EventsKept ==
  ASSUME RetryInv, UNCHANGED <<primary, open, overlaps>>,
         \A s \in Systems : event'[s].to \in {event[s].to, None}
  PROVE  RetryInv'
  BY Zenon DEF RetryInv, ToPrimary

(* A request that stores an event with a primary key, or none. *)
LEMMA SentToPrimary ==
  ASSUME TypeInv, RetryInv, NEW j \in Slots, NEW r \in Request, Send(j, r), UNCHANGED primary,
         r.track => ToPrimary(r.to)
  PROVE  RetryInv'
<1>1. CASE Hold(r)
  <2>1. overlaps' # 0
    BY <1>1 DEF Hold, TypeInv, RestOK
  <2>. QED  BY <2>1, Zenon DEF RetryInv
<1>2. CASE RunAtOnce(j, r)
  <2>1. UNCHANGED <<open, overlaps>>
    BY <1>2, Zenon DEF RunAtOnce, requests
  <2>2. \A s \in Systems : event'[s].to = event[s].to \/ (r.track /\ event'[s].to = r.to)
    BY <1>2 DEF RunAtOnce, Store, RollsBack, TypeInv, EventsOK
  <2>. QED  BY <2>1, <2>2, Zenon DEF RetryInv, ToPrimary
<1>. QED  BY <1>1, <1>2, Zenon DEF Send

(* The change of a primary key takes the stored events along. *)
LEMMA PrimaryChanged ==
  ASSUME TypeInv, RetryInv, NEW c \in KeyConfigs, NEW k \in Keys, NEW slot,
         handleUpdatePrimaryKey(c, k, slot)
  PROVE  RetryInv'
<1>1. /\ KeyConfigOf[k] = c /\ primary' = [primary EXCEPT ![c] = k]
      /\ UNCHANGED <<open, overlaps>>
  BY Zenon DEF handleUpdatePrimaryKey, requests
<1>2. ASSUME NEW d \in KeyConfigs PROVE primary'[d] = IF d = c THEN k ELSE primary[d]
  BY <1>1, Zenon DEF TypeInv, RestOK
<1>4. ASSUME NEW d \in KeyConfigs PROVE KeyConfigOf[primary'[d]] = d
  <2>1. KeyConfigOf[primary[d]] = d /\ KeyConfigOf[k] = c
    BY <1>1, Zenon DEF RetryInv
  <2>2. primary'[d] = IF d = c THEN k ELSE primary[d]
    BY <1>2, Zenon
  <2>. QED  BY <2>1, <2>2, Zenon
<1>3. ASSUME overlaps = 0, NEW s \in Systems, event'[s].to # None
      PROVE  event'[s].to = primary'[KeyConfigOf[event'[s].to]]
  <2>1. CASE s \in Linked(c)
    <3>1. event'[s].to = k
      BY <2>1, Zenon DEF handleUpdatePrimaryKey
    <3>. QED  BY <3>1, <1>1, <1>2, Zenon
  <2>2. CASE s \notin Linked(c)
    <3>1. event'[s] = Retarget(event[s], primary[c], k)
      BY <2>2, Zenon DEF handleUpdatePrimaryKey
    <3>2. event[s] \in Event /\ ToPrimary(event[s].to)
      BY <1>3, Zenon DEF RetryInv, TypeInv, EventsOK
    <3>3. CASE event[s].to = primary[c] /\ event[s] # NoEvent
      <4>1. event'[s].to = k
        BY <3>1, <3>2, <3>3, Zenon DEF Retarget, Event
      <4>. QED  BY <4>1, <1>1, <1>2, Zenon
    <3>4. CASE ~(event[s].to = primary[c] /\ event[s] # NoEvent)
      <4>1. event'[s] = event[s]
        BY <3>1, <3>4, Zenon DEF Retarget
      <4>2. event[s] # NoEvent
        BY <1>3, <4>1, EmptyFields, Zenon
      <4>3. KeyConfigOf[event[s].to] \in KeyConfigs /\ KeyConfigOf[event[s].to] # c
        BY <1>3, <3>2, <3>4, <4>1, <4>2, KeysAssumption, Zenon DEF ToPrimary, Event
      <4>4. event[s].to = primary[KeyConfigOf[event[s].to]]
        BY <1>3, <3>2, <4>1, Zenon DEF ToPrimary
      <4>5. ASSUME NEW d \in KeyConfigs, d # c PROVE primary'[d] = primary[d]
        BY <4>5, <1>2, Zenon
      <4>. QED  BY <4>1, <4>3, <4>4, <4>5, Zenon
    <3>. QED  BY <3>3, <3>4, Zenon
  <2>. QED  BY <2>1, <2>2, Zenon
<1>. QED  BY <1>1, <1>3, <1>4, Zenon DEF RetryInv, ToPrimary

(* A stored event goes to a primary key, whoever acts. *)
LEMMA UserStepPrimary == TypeInv /\ RetryInv /\ UserStep => RetryInv'
<1>. SUFFICES ASSUME TypeInv, RetryInv, UserStep PROVE RetryInv'
  BY Zenon
<1>1. ASSUME NEW s \in Systems,
             \/ createSystemIfNotExists(s) \/ removeSystemsNotInRegistry(s)
             \/ cancelSystemAction(s)
      PROVE  RetryInv'
  BY <1>1, EventsKept, Zenon DEF createSystemIfNotExists, removeSystemsNotInRegistry,
                          cancelSystemAction, requests
<1>2. ASSUME NEW s \in Systems, NEW j \in Slots, NEW c \in KeyConfigs, LinkSystemAction(j, s, c)
      PROVE  RetryInv'
  <2>. DEFINE r == NewRequest(s, selectEvent(s, c), primary[c], [row[s] EXCEPT !.target = c], TRUE)
  <2>1. Send(j, r) /\ UNCHANGED primary /\ row[s].status \in Statuses
    BY <1>2, Zenon DEF LinkSystemAction, handleSystemStatus, Statuses
  <2>2. r \in Request
    BY <2>1 DEF NewRequest, Request, selectEvent, JobTypes, TypeInv, RowsOK, System, RestOK
  <2>3. ToPrimary(r.to)
    BY Zenon DEF NewRequest, ToPrimary, RetryInv
  <2>. HIDE DEF r
  <2>. QED  BY <2>1, <2>2, <2>3, SentToPrimary, Zenon
<1>3. ASSUME NEW s \in Systems, NEW j \in Slots, UnlinkSystemAction(j, s) PROVE RetryInv'
  <2>. DEFINE r == NewRequest(s, "UNLINK", None, [row[s] EXCEPT !.target = row[s].target], TRUE)
  <2>1. Send(j, r) /\ UNCHANGED primary /\ row[s].status \in Statuses
    BY <1>3, Zenon DEF UnlinkSystemAction, handleSystemStatus, Exists
  <2>2. r \in Request
    BY <2>1, ZenonT(40) DEF NewRequest, Request, JobTypes, TypeInv, RowsOK, System
  <2>3. ToPrimary(r.to)
    BY Zenon DEF NewRequest, ToPrimary
  <2>. HIDE DEF r
  <2>. QED  BY <2>1, <2>2, <2>3, SentToPrimary, Zenon
<1>4. ASSUME NEW s \in Systems, NEW j \in Slots, SystemUnlinkDecommission(j, s) PROVE RetryInv'
  <2>. DEFINE r == NewRequest(s, "DECOMMISSION", None, row[s], FALSE)
  <2>1. Send(j, r) /\ UNCHANGED primary /\ row[s].status \in Statuses
    BY <1>4, Zenon DEF SystemUnlinkDecommission, Exists
  <2>2. r \in Request /\ ~r.track
    BY <2>1, Zenon DEF NewRequest, Request, JobTypes, TypeInv, RowsOK, System
  <2>. HIDE DEF r
  <2>. QED  BY <2>1, <2>2, SentToPrimary, Zenon
<1>5. ASSUME NEW s \in Systems, NEW j \in Slots, retrySystemAction(j, s) PROVE RetryInv'
  <2>. DEFINE r == NewRequest(s, event[s].type, event[s].to, row[s], FALSE)
  <2>1. Send(j, r) /\ UNCHANGED primary /\ row[s].status = "FAILED" /\ event[s] # NoEvent
    BY <1>5, Zenon DEF retrySystemAction
  <2>2. event[s].type \in JobTypes /\ event[s].to \in Keys \union {None}
    BY <2>1, Zenon DEF TypeInv, EventsOK, Event
  <2>3. r \in Request /\ ~r.track
    BY <2>1, <2>2, Zenon DEF NewRequest, Request, TypeInv, RowsOK, System, Statuses
  <2>. HIDE DEF r
  <2>. QED  BY <2>1, <2>3, SentToPrimary, Zenon
<1>6. ASSUME NEW s \in Systems, NEW j \in Slots, SystemKeyRotate(j, s) PROVE RetryInv'
  <2>1. row[s].kc \in KeyConfigs /\ UNCHANGED <<primary, open, overlaps>>
    BY <1>6, Zenon DEF SystemKeyRotate, requests, TypeInv, RowsOK, System
  <2>2. ToPrimary(primary[row[s].kc])
    BY <2>1, Zenon DEF ToPrimary, RetryInv
  <2>3. \A t \in Systems : event'[t].to \in {event[t].to, primary[row[s].kc]}
    BY <1>6 DEF SystemKeyRotate, TypeInv, EventsOK
  <2>. QED  BY <2>1, <2>2, <2>3, Zenon DEF RetryInv, ToPrimary
<1>7. ASSUME NEW c \in KeyConfigs, NEW k \in Keys, NEW s \in Systems, NEW j \in Slots,
             UpdatePrimaryKeyFails(c, k, s, j)
      PROVE  RetryInv'
  BY <1>7, EventsKept, Zenon DEF UpdatePrimaryKeyFails, RollsBack, requests
<1>. QED  BY <1>1, <1>2, <1>3, <1>4, <1>5, <1>6, <1>7, PrimaryChanged, Zenon DEF UserStep

(* Requests that overlapped are over with the promise. *)
LEMMA HeldStepPrimary == TypeInv /\ RetryInv /\ HeldStep => RetryInv'
<1>. SUFFICES ASSUME TypeInv, RetryInv, HeldStep PROVE overlaps # 0 /\ UNCHANGED <<primary, overlaps>>
  BY Zenon DEF RetryInv
<1>. QED  BY Zenon DEF RetryInv, HeldStep, CommitHeld, PrepareHeld

(* The job manager, the operator and the handlers only delete events. *)
LEMMA JobStepPrimary ==
  ASSUME TypeInv, RetryInv, NEW j \in Slots, JobStep(j) \/ HandlerFails(j)
  PROVE  RetryInv'
<1>1. UNCHANGED <<primary, open, overlaps>>
  BY Zenon DEF JobStep, Handle, confirmJob, ExecuteTask, ReadSystem, HandleJobDoneEvent,
         terminateSystemJob, terminate, ReleaseClaim, HandleKeyRotate, SystemNotFound,
         HandlerFails, requests
<1>2. event' = event \/ event' = cleanUpEvent(job[j])
  BY Zenon DEF JobStep, Handle, confirmJob, ExecuteTask, ReadSystem, HandleJobDoneEvent,
         terminateSystemJob, terminate, ReleaseClaim, HandleKeyRotate, SystemNotFound,
         HandlerFails
<1>3. \A s \in Systems : event'[s].to \in {event[s].to, None}
  BY <1>2, EmptyFields, Zenon DEF cleanUpEvent, TypeInv, EventsOK
<1>. QED  BY <1>1, <1>3, EventsKept, Zenon

(* As long as no requests overlapped, whatever else went wrong, a retry sends *)
(* a system to a key that is primary at that moment.                          *)
THEOREM RetryUsesPrimaryHolds == Spec => []RetryUsesPrimary
<1>. DEFINE I == TypeInv /\ RetryInv
<1>1. Init => I
  <2>1. ASSUME Init PROVE RetryInv
    BY <2>1, EmptyFields, Zenon DEF Init, RetryInv, ToPrimary
  <2>. QED  BY <2>1, InitType, Zenon
<1>2. I /\ [Next]_vars => I'
  <2>1. TypeInv /\ RetryInv /\ UNCHANGED vars => RetryInv'
    BY Zenon DEF vars, RetryInv, ToPrimary
  <2>. QED  BY <2>1, StepType, UserStepPrimary, HeldStepPrimary, JobStepPrimary, Zenon DEF Next
<1>3. I => RetryUsesPrimary
  BY Zenon DEF RetryInv, ToPrimary, RetryUsesPrimary
<1>. QED  BY <1>1, <1>2, <1>3, PTL DEF Spec

-----------------------------------------------------------------------------
(***************************************************************************)
(* Proofs about SystemEvents as long as nothing is out of the ordinary     *)
(* (Calm): what is stored agrees with the operator and the registry once   *)
(* nothing is in flight, and a FAILED system can be left again, for any    *)
(* number of systems, keys, configurations and jobs.                       *)
(***************************************************************************)

CalmState == open = None /\ \A s \in Systems : CalmSystem(s)

(* A system there is a row of, part by part. *)
LEMMA CalmParts ==
  ASSUME NEW s, CalmSystem(s), Exists(s)
  PROVE  /\ Writers(s) /\ Releasers(s) /\ ClaimKept(s) /\ EventCalm(s)
         /\ StatusTrue(s, row[s].status)
  BY Zenon DEF CalmSystem

(* A system in order, put together from its parts. *)
LEMMA CalmWhole ==
  ASSUME NEW s, row'[s].status # "NONE", Writers(s)', Releasers(s)', ClaimKept(s)', EventCalm(s)',
         StatusTrue(s, row[s].status)'
  PROVE  CalmSystem(s)'
  BY Zenon DEF CalmSystem

(* What a step leaves of a system it has nothing to do with: all but the key  *)
(* its event goes to.                                                         *)
Untouched(t) ==
    /\ row'[t] = row[t] /\ claim'[t] = claim[t] /\ actual'[t] = actual[t]
    /\ event'[t].type = event[t].type /\ event'[t].prev = event[t].prev
    /\ event'[t] = NoEvent <=> event[t] = NoEvent
    /\ \A j \in Slots : job[j].s = t \/ job'[j].s = t => job'[j] = job[j]

(* Such a system stays as it should be. *)
LEMMA Frame ==
  ASSUME NEW t \in Systems, CalmSystem(t), Untouched(t)
  PROVE  CalmSystem(t)'
<1>1. /\ JobsOf(t)' = JobsOf(t) /\ \A j \in JobsOf(t) : job'[j] = job[j]
      /\ Pending(t)' = Pending(t) /\ Pending(t) \subseteq JobsOf(t)
      /\ Releasing(t)' <=> Releasing(t)
  BY Zenon DEF Untouched, JobsOf, Pending, Releasing
<1>2. \A status : StatusTrue(t, status)' <=> StatusTrue(t, status)
  BY <1>1, Zenon DEF Untouched, StatusTrue
<1>3. CanGoBack(t)' <=> CanGoBack(t)
  BY <1>2, Zenon DEF Untouched, CanGoBack
<1>4. ASSUME NEW j \in Pending(t) PROVE CalmJob(t, job[j])' <=> CalmJob(t, job[j])
  BY <1>1, <1>3, Zenon DEF Untouched, CalmJob
<1>5. Exists(t)' <=> Exists(t)
  BY Zenon DEF Untouched, Exists
<1>6. CASE Exists(t)
  <2>1. Writers(t)'
    BY <1>1, <1>4, <1>6, CalmParts, Zenon DEF Writers
  <2>2. Releasers(t)'
    BY <1>1, <1>6, CalmParts, Zenon DEF Releasers
  <2>3. ClaimKept(t)'
    BY <1>1, <1>6, CalmParts, ZenonT(40) DEF Untouched, ClaimKept
  <2>4. EventCalm(t)'
    BY <1>3, <1>6, CalmParts, Zenon DEF Untouched, EventCalm
  <2>5. StatusTrue(t, row[t].status)' /\ row'[t].status # "NONE"
    BY <1>2, <1>6, CalmParts, Zenon DEF Untouched, Exists, Statuses
  <2>. QED  BY <2>1, <2>2, <2>3, <2>4, <2>5, CalmWhole, Zenon
<1>7. CASE ~Exists(t)
  BY <1>1, <1>5, <1>7, Zenon DEF Untouched, CalmSystem
<1>. QED  BY <1>6, <1>7, Zenon

(* A system that is gone does not come back. *)
LEMMA Gone ==
  ASSUME NEW s \in Systems, row'[s].status = "DELETED"
  PROVE  CalmSystem(s)'
  BY Zenon DEF CalmSystem, Exists, Statuses

(* What went wrong once has gone wrong. *)
LEMMA CalmBefore == TypeInv /\ [Next]_vars /\ Calm' => Calm
<1>. SUFFICES ASSUME TypeInv, [Next]_vars
              PROVE  /\ overlaps' \in {overlaps, overlaps + 1}
                     /\ rotations' \in {rotations, rotations + 1}
                     /\ rollbacks' \in {rollbacks, rollbacks + 1}
                     /\ redeliveries' \in {redeliveries, redeliveries + 1}
  BY DEF TypeInv, RestOK, Calm
<1>1. CASE UserStep
  <2>1. ASSUME NEW s \in Systems,
               \/ createSystemIfNotExists(s) \/ removeSystemsNotInRegistry(s)
               \/ cancelSystemAction(s)
        PROVE  UNCHANGED <<overlaps, counters>>
    BY <2>1, Zenon DEF createSystemIfNotExists, removeSystemsNotInRegistry, cancelSystemAction, requests
  <2>2. ASSUME NEW j, NEW r, Send(j, r)
        PROVE  overlaps' \in {overlaps, overlaps + 1} /\ rollbacks' \in {rollbacks, rollbacks + 1}
    BY <2>2, Zenon DEF Send, RunAtOnce, Hold, Store, RollsBack, requests
  <2>3. ASSUME NEW s \in Systems, NEW j \in Slots, NEW c \in KeyConfigs, LinkSystemAction(j, s, c)
        PROVE  /\ overlaps' \in {overlaps, overlaps + 1} /\ UNCHANGED rotations
               /\ rollbacks' \in {rollbacks, rollbacks + 1} /\ UNCHANGED redeliveries
    BY <2>3, <2>2, Zenon DEF LinkSystemAction, handleSystemStatus
  <2>4. ASSUME NEW s \in Systems, NEW j \in Slots,
               \/ UnlinkSystemAction(j, s) \/ SystemUnlinkDecommission(j, s)
               \/ retrySystemAction(j, s)
        PROVE  /\ overlaps' \in {overlaps, overlaps + 1} /\ UNCHANGED rotations
               /\ rollbacks' \in {rollbacks, rollbacks + 1} /\ UNCHANGED redeliveries
    BY <2>4, <2>2, Zenon DEF UnlinkSystemAction, SystemUnlinkDecommission, retrySystemAction,
                      handleSystemStatus
  <2>5. ASSUME NEW s \in Systems, NEW j \in Slots, SystemKeyRotate(j, s)
        PROVE  rotations' = rotations + 1 /\ UNCHANGED <<overlaps, rollbacks, redeliveries>>
    BY <2>5, Zenon DEF SystemKeyRotate, requests
  <2>6. ASSUME NEW c \in KeyConfigs, NEW k \in Keys, NEW slot \in [Linked(c) -> Slots],
               handleUpdatePrimaryKey(c, k, slot)
        PROVE  UNCHANGED <<overlaps, counters>>
    BY <2>6, Zenon DEF handleUpdatePrimaryKey, requests
  <2>7. ASSUME NEW c \in KeyConfigs, NEW k \in Keys, NEW s \in Systems, NEW j \in Slots,
               UpdatePrimaryKeyFails(c, k, s, j)
        PROVE  rollbacks' = rollbacks + 1 /\ UNCHANGED <<overlaps, rotations, redeliveries>>
    BY <2>7, Zenon DEF UpdatePrimaryKeyFails, RollsBack, requests
  <2>. QED  BY <1>1, <2>1, <2>3, <2>4, <2>5, <2>6, <2>7, Zenon DEF UserStep, counters
<1>2. CASE HeldStep
  BY <1>2, Zenon DEF HeldStep, CommitHeld, PrepareHeld, Store, RollsBack, counters
<1>3. ASSUME NEW j \in Slots, JobStep(j) \/ HandlerFails(j)
      PROVE  /\ UNCHANGED <<overlaps, rotations, rollbacks>>
             /\ redeliveries' \in {redeliveries, redeliveries + 1}
  BY <1>3, Zenon DEF JobStep, Handle, confirmJob, ExecuteTask, ReadSystem, HandleJobDoneEvent,
              terminateSystemJob, terminate, ReleaseClaim, HandleKeyRotate, SystemNotFound,
              HandlerFails, Finish, counters, requests
<1>4. CASE UNCHANGED vars
  BY <1>4, Zenon DEF vars
<1>. QED  BY <1>1, <1>2, <1>3, <1>4, Zenon DEF Next

-----------------------------------------------------------------------------
(* Requests. *)

(* No job will write the row of a system that is not PROCESSING. *)
LEMMA NothingPending ==
  ASSUME NEW s \in Systems, CalmSystem(s), Exists(s), row[s].status # "PROCESSING"
  PROVE  Pending(s) = {}
  BY CalmParts, Zenon DEF Writers, CalmJob

(* A request that starts a job for s: a link, unlink or switch with its       *)
(* event, a retry of the stored event, or a decommission.                     *)
LEMMA Started ==
  ASSUME NEW s \in Systems, CalmSystem(s), Exists(s), row[s].status # "PROCESSING",
         NEW j \in Slots, NEW type \in JobTypes, NEW to,
         job[j].s # s, job'[j] = NewJob(s, type, to),
         \A i \in Slots : i # j /\ (job[i].s = s \/ job'[i].s = s) => job'[i] = job[i],
         row'[s].status = "PROCESSING", row'[s].kc = row[s].kc,
         claim'[s] = claim[s], actual'[s] = actual[s],
         type # "LINK" => row[s].kc # None,
         type = "DECOMMISSION" => Decommission,
         \/ /\ event'[s] = [type |-> type, to |-> to, prev |-> row[s].status]
            /\ type # "DECOMMISSION"
         \/ /\ event'[s] = event[s]
            /\ type = "DECOMMISSION" \/ (row[s].status = "FAILED" /\ type = event[s].type)
  PROVE  CalmSystem(s)'
<1>1. NewJob(s, type, to).s = s /\ NewJob(s, type, to).type = type
      /\ NewJob(s, type, to).st = "created" /\ NewJob(s, type, to).snap = None
      /\ ~NewJob(s, type, to).wrote
  BY Zenon DEF NewJob
<1>2. /\ JobsOf(s)' = JobsOf(s) \union {j} /\ j \notin JobsOf(s)
      /\ \A i \in JobsOf(s) : job'[i] = job[i]
  BY <1>1, Zenon DEF JobsOf
<1>3. Pending(s)' = {j} /\ (Releasing(s)' <=> Releasing(s))
  BY <1>1, <1>2, NothingPending, ZenonT(40) DEF Pending, Releasing
<1>4. \A status : StatusTrue(s, status)' <=> StatusTrue(s, status)
  BY <1>3, Zenon DEF StatusTrue
<1>5. CanGoBack(s)'
  <2>1. CASE event'[s] = [type |-> type, to |-> to, prev |-> row[s].status]
    BY <2>1, <1>4, CalmParts DEF CanGoBack
  <2>2. CASE /\ event'[s] = event[s]
             /\ type = "DECOMMISSION" \/ (row[s].status = "FAILED" /\ type = event[s].type)
    <3>1. CASE row[s].status = "FAILED"
      BY <2>2, <3>1, <1>4, CalmParts, Zenon DEF CanGoBack, EventCalm
    <3>2. CASE row[s].status = "CONNECTED"
      BY <2>2, <3>2, <1>4, CalmParts, Zenon DEF CanGoBack, EventCalm
    <3>3. CASE row[s].status = "DISCONNECTED"
      BY <2>2, <3>3, CalmParts, Zenon DEF EventCalm, StatusTrue
    <3>. QED  BY <3>1, <3>2, <3>3, Zenon DEF Exists, Statuses
  <2>. QED  BY <2>1, <2>2, Zenon
<1>6. event'[s].type \in {type, event[s].type} /\ type \in {event'[s].type, "DECOMMISSION"}
  OBVIOUS
<1>7. CalmJob(s, job[j])'
  BY <1>1, <1>5, <1>6, Zenon DEF CalmJob
<1>8. row[s].kc # None => claim[s] \/ Decommission
  BY NothingPending, CalmParts, Zenon DEF ClaimKept
<1>9. event'[s].type # "DECOMMISSION"
  BY CalmParts DEF EventCalm
<1>10. event'[s].type \in {"SWITCH", "SWITCH_PK", "UNLINK"} => row[s].kc # None
  <2>1. CASE event'[s] = [type |-> type, to |-> to, prev |-> row[s].status]
    BY <2>1
  <2>2. CASE event'[s] = event[s] /\ type = "DECOMMISSION"
    BY <2>2, Zenon
  <2>3. CASE event'[s] = event[s] /\ row[s].status = "FAILED"
    BY <2>3, CalmParts, Zenon DEF EventCalm
  <2>. QED  BY <2>1, <2>2, <2>3, Zenon
<1>11. \A i \in JobsOf(s)' : job'[i].wrote => i \in JobsOf(s) /\ job'[i] = job[i]
  BY <1>1, <1>2, Zenon
<1>12. Writers(s)'
  BY <1>3, <1>7, ZenonT(40) DEF Writers
<1>13. Releasers(s)'
  BY <1>11, CalmParts DEF Releasers
<1>14. ClaimKept(s)'
  BY <1>8, Zenon DEF ClaimKept
<1>15. EventCalm(s)' /\ StatusTrue(s, row[s].status)'
  BY <1>9, <1>10, Zenon DEF EventCalm, StatusTrue
<1>. QED  BY <1>12, <1>13, <1>14, <1>15, CalmWhole, Zenon

(* A request that runs at once, in a calm system. *)
LEMMA Requested ==
  ASSUME TypeInv, CalmState, Calm', NEW j \in Slots, NEW r \in Request, Send(j, r),
         UNCHANGED <<primary, external>>,
         row[r.s].status \in Statuses \ {"PROCESSING"},
         r.type # "ROTATE", r.copy.status = row[r.s].status, r.copy.kc = row[r.s].kc,
         r.track \/ r.type = "DECOMMISSION" \/ r.copy = row[r.s],
         r.type # "LINK" => row[r.s].kc # None,
         r.type = "DECOMMISSION" => Decommission /\ ~r.track,
         ~r.track /\ r.type # "DECOMMISSION" => row[r.s].status = "FAILED" /\ r.type = event[r.s].type
  PROVE  CalmState'
<1>. DEFINE s == r.s
<1>1. s \in Systems /\ r.type \in JobTypes /\ Exists(s)
  BY Zenon DEF Request, Exists
<1>2. /\ PrepareJob(j, s, r.type, r.to) /\ Store(r) /\ UNCHANGED open
  BY DEF Send, RunAtOnce, Hold, RollsBack, Calm, requests, TypeInv, RestOK
<1>3. /\ job[j] = NoJob /\ job' = [job EXCEPT ![j] = NewJob(s, r.type, r.to)]
      /\ row' = [row EXCEPT ![s] = Stored(r)]
      /\ event' = IF r.track THEN [event EXCEPT ![s] = [type |-> r.type, to |-> r.to, prev |-> r.copy.status]]
                  ELSE event
  BY <1>1, <1>2, Zenon DEF PrepareJob, CanPrepare, Store
<1>4. Stored(r).status = "PROCESSING" /\ Stored(r).kc = row[s].kc
  BY Zenon DEF Stored, Request
<1>5. job[j].s # s /\ \A i \in Slots : i # j => job'[i] = job[i]
  BY <1>1, <1>3, EmptyFields, NoneAssumption, Zenon DEF TypeInv, JobsOK
<1>6. /\ job'[j] = NewJob(s, r.type, r.to) /\ row'[s] = Stored(r)
      /\ event'[s] = IF r.track THEN [type |-> r.type, to |-> r.to, prev |-> row[s].status] ELSE event[s]
      /\ claim' = claim /\ actual' = actual
  BY <1>1, <1>3, Zenon DEF TypeInv, JobsOK, RowsOK, EventsOK, external
<1>7. CalmSystem(s)
  BY <1>1, ZenonT(40) DEF CalmState
<1>8. CalmSystem(s)'
  <2>. HIDE DEF s
  <2>. QED  BY <1>1, <1>4, <1>5, <1>6, <1>7, Started, SMTT(30) DEF s
<1>9. ASSUME NEW t \in Systems, t # s PROVE CalmSystem(t)'
  <2>1. row'[t] = row[t] /\ event'[t] = event[t] /\ claim'[t] = claim[t] /\ actual'[t] = actual[t]
    BY <1>1, <1>3, <1>6, <1>9, ZenonT(40) DEF TypeInv, RowsOK, EventsOK
  <2>2. job[j].s # t /\ job'[j].s # t
    BY <1>3, <1>6, <1>9, EmptyFields, NoneAssumption DEF NewJob
  <2>3. Untouched(t)
    BY <1>5, <2>1, <2>2, Zenon DEF Untouched
  <2>. QED  BY <2>3, Frame, Zenon DEF CalmState
<1>. QED  BY <1>2, <1>8, <1>9, Zenon DEF CalmState

-----------------------------------------------------------------------------
(* Jobs. *)

(* A step of job j has to do with no system but its own. *)
OnlyItsSystem(j) ==
    /\ \A t \in Systems : t # job[j].s => /\ row'[t] = row[t] /\ event'[t] = event[t]
                                          /\ claim'[t] = claim[t] /\ actual'[t] = actual[t]
    /\ \A i \in Slots : i # j => job'[i] = job[i]
    /\ job'[j].s \in {job[j].s, None}

(* So it is with every step of the job manager, the operator and the handlers, *)
(* and a system that is gone stays so.                                        *)
LEMMA JobsApart ==
  ASSUME TypeInv, Calm', NEW j \in Slots, JobStep(j) \/ HandlerFails(j)
  PROVE  /\ job[j].s \in Systems /\ OnlyItsSystem(j) /\ UNCHANGED open
         /\ row[job[j].s].status = "DELETED" => row'[job[j].s].status = "DELETED"
<1>1. job[j] # NoJob
  BY EmptyFields, Zenon DEF JobStep, Handle, confirmJob, ExecuteTask, ReadSystem, HandleJobDoneEvent,
     terminateSystemJob, terminate, ReleaseClaim, HandleKeyRotate, SystemNotFound,
     HandlerFails, Outcomes
<1>2. job[j].s \in Systems
  BY <1>1, Zenon DEF TypeInv, JobsOK, JobOK
<1>3. /\ \A i \in Slots : i # j => job'[i] = job[i]
      /\ job'[j].s \in {job[j].s, None}
  <2>1. CASE confirmJob(j) \/ ExecuteTask(j) \/ ReadSystem(j) \/ terminate(j) \/ HandlerFails(j)
    BY <2>1 DEF confirmJob, ExecuteTask, ReadSystem, terminate, HandlerFails,
                TypeInv, JobsOK, Job
  <2>2. CASE \/ HandleJobDoneEvent(j) \/ terminateSystemJob(j)
             \/ HandleKeyRotate(j) \/ SystemNotFound(j) \/ ReleaseClaim(j)
    BY <2>2, EmptyFields, Zenon
    DEF HandleJobDoneEvent, terminateSystemJob, HandleKeyRotate, SystemNotFound, ReleaseClaim,
        Finish, TypeInv, JobsOK, Job
  <2>. QED  BY <2>1, <2>2, Zenon DEF JobStep, Handle
<1>4. /\ \A t \in Systems : t # job[j].s => row'[t] = row[t]
      /\ row[job[j].s].status = "DELETED" => row'[job[j].s] = row[job[j].s]
  BY <1>2, Zenon DEF JobStep, Handle, confirmJob, ExecuteTask, ReadSystem, HandleJobDoneEvent,
     terminateSystemJob, terminate, ReleaseClaim, HandleKeyRotate, SystemNotFound,
     HandlerFails, updateSystem, Exists, Statuses, TypeInv, RowsOK
<1>5. event' = event \/ event' = cleanUpEvent(job[j])
  BY Zenon DEF JobStep, Handle, confirmJob, ExecuteTask, ReadSystem, HandleJobDoneEvent,
     terminateSystemJob, terminate, ReleaseClaim, HandleKeyRotate, SystemNotFound, HandlerFails
<1>6. \A t \in Systems : t # job[j].s => event'[t] = event[t]
  BY <1>2, <1>5, Zenon DEF cleanUpEvent, TypeInv, EventsOK
<1>7. \A t \in Systems : t # job[j].s => claim'[t] = claim[t] /\ actual'[t] = actual[t]
  BY <1>2, Zenon DEF JobStep, Handle, confirmJob, ExecuteTask, ReadSystem, HandleJobDoneEvent,
     terminateSystemJob, terminate, ReleaseClaim, HandleKeyRotate, SystemNotFound,
     HandlerFails, external, sendL1KeyClaim, TypeInv, RestOK
<1>8. UNCHANGED open
  BY Zenon DEF JobStep, Handle, confirmJob, ExecuteTask, ReadSystem, HandleJobDoneEvent,
     terminateSystemJob, terminate, ReleaseClaim, HandleKeyRotate, SystemNotFound,
     HandlerFails, requests
<1>. QED  BY <1>2, <1>3, <1>4, <1>6, <1>7, <1>8, Zenon DEF OnlyItsSystem

(* The job that will write the row goes on. *)
LEMMA Advanced ==
  ASSUME NEW s \in Systems, CalmSystem(s), Exists(s), NEW j \in Pending(s),
         row'[s] = row[s], event'[s] = event[s],
         \A i \in Slots : i # j => job'[i] = job[i],
         job'[j].s = s, ~job'[j].wrote, job'[j].type = job[j].type, CalmJob(s, job[j])',
         row[s].kc # None => \/ claim'[s] \/ Decommission
                             \/ job'[j].type = "UNLINK" /\ job'[j].st = "done"
  PROVE  CalmSystem(s)'
<1>1. j \in Slots /\ job[j].s = s /\ ~job[j].wrote /\ Pending(s) = {j}
  BY CalmParts DEF Pending, JobsOf, Writers
<1>2. Pending(s)' = {j} /\ JobsOf(s)' = JobsOf(s)
  BY <1>1, Zenon DEF Pending, JobsOf
<1>3. row[s].status = "PROCESSING" /\ row'[s].status = "PROCESSING"
  BY <1>1, CalmParts, Zenon DEF Writers, CalmJob
<1>4. \A i \in JobsOf(s)' : job'[i].wrote => i \in JobsOf(s) /\ job'[i] = job[i]
  BY <1>1, <1>2, Zenon DEF JobsOf
<1>5. StatusTrue(s, row[s].status)'
  BY <1>3, Zenon DEF StatusTrue
<1>6. Writers(s)'
  BY <1>2, Zenon DEF Writers
<1>7. Releasers(s)'
  BY <1>4, CalmParts DEF Releasers
<1>8. ClaimKept(s)'
  BY <1>2, Zenon DEF ClaimKept
<1>9. EventCalm(s)'
  BY <1>3, CalmParts, ZenonT(40) DEF EventCalm
<1>. QED  BY <1>3, <1>5, <1>6, <1>7, <1>8, <1>9, CalmWhole, ZenonT(40)

(* A status stays true as long as what it speaks of does not change. *)
LEMMA StillTrue ==
  ASSUME NEW s, NEW status, StatusTrue(s, status), row'[s].kc = row[s].kc,
         actual'[s] = actual[s], claim'[s] = claim[s], Releasing(s) => Releasing(s)'
  PROVE  StatusTrue(s, status)'
  BY Zenon DEF StatusTrue

(* Whether a claim is about to be released is up to jobs that have written.   *)
LEMMA StillReleasing ==
  ASSUME NEW s, NEW j \in Slots, ~job[j].wrote, \A i \in Slots : i # j => job'[i] = job[i]
  PROVE  Releasing(s) => Releasing(s)'
  BY Zenon DEF Releasing, JobsOf

(* Confirmation, execution and the first half of a handler, or its failure.   *)
LEMMA OnTheWay ==
  ASSUME TypeInv, NoRotation, Calm', NEW s \in Systems, NEW j \in Slots, job[j].s = s,
         CalmSystem(s), Exists(s), ~job[j].wrote, OnlyItsSystem(j),
         confirmJob(j) \/ ExecuteTask(j) \/ ReadSystem(j) \/ HandlerFails(j)
  PROVE  CalmSystem(s)'
<1>. DEFINE b == job[j]
<1>1. j \in Pending(s) /\ CalmJob(s, b) /\ Pending(s) = {j}
  BY CalmParts DEF Pending, JobsOf, Writers
<1>2. b \in Job /\ b.type # "ROTATE"
  BY Zenon DEF TypeInv, JobsOK, NoRotation
<1>3. row[s].status = "PROCESSING" /\ row' = row /\ event' = event
  BY <1>1, Zenon DEF CalmJob, confirmJob, ExecuteTask, ReadSystem, HandlerFails
<1>4. Releasing(s) => Releasing(s)'
  BY StillReleasing, Zenon DEF OnlyItsSystem
<1>5. row[s].kc # None => claim[s] \/ Decommission \/ (b.type = "UNLINK" /\ b.st = "done")
  <2>1. row[s].kc # None => \/ claim[s] \/ Decommission
                            \/ \E i \in Pending(s) : job[i].type = "UNLINK" /\ job[i].st = "done"
    BY CalmParts, Zenon DEF ClaimKept
  <2>. QED  BY <1>1, <2>1, Zenon
<1>6. CASE confirmJob(j)
  <2>1. job'[j] = [b EXCEPT !.st = "confirmed"] /\ claim' = claim /\ actual' = actual
    BY <1>6, <1>3, Zenon DEF confirmJob, external, TypeInv, JobsOK, Job
  <2>2. b.st = "created" /\ b.snap = None
    BY <1>6, <1>1, Zenon DEF confirmJob, CalmJob, Outcomes
  <2>3. /\ job'[j].s = s /\ ~job'[j].wrote /\ job'[j].type = b.type
        /\ job'[j].st = "confirmed" /\ job'[j].snap = None
    BY <2>1, <2>2, <1>2, Zenon DEF Job
  <2>4. CanGoBack(s)'
    BY <1>1, <1>3, <1>4, <2>1, <2>2, StillTrue, Zenon DEF CalmJob, CanGoBack
  <2>5. CalmJob(s, b)'
    BY <1>1, <1>3, <2>3, <2>4, Zenon DEF CalmJob
  <2>6. row[s].kc # None => claim'[s] \/ Decommission
    BY <1>5, <2>1, <2>2, Zenon
  <2>. QED  BY <1>1, <1>3, <2>3, <2>5, <2>6, Advanced, Zenon DEF OnlyItsSystem
<1>7. CASE ExecuteTask(j)
  <2>1. b.st = "confirmed" /\ b.snap = None /\ claim' = claim
    BY <1>7, <1>1, Zenon DEF ExecuteTask, CalmJob, Outcomes
  <2>2. PICK st \in Outcomes : /\ job'[j] = [b EXCEPT !.st = st]
                               /\ st = "done" => actual'[s] = b.to
                               /\ st # "done" => actual' = actual
    BY <1>7, <1>2, Zenon DEF ExecuteTask, Outcomes, resolveTasks, TypeInv, JobsOK, RestOK
  <2>3. /\ job'[j].s = s /\ ~job'[j].wrote /\ job'[j].type = b.type /\ job'[j].to = b.to
        /\ job'[j].st = st /\ job'[j].snap = None
    BY <2>1, <2>2, <1>2, Zenon DEF Job
  <2>4. st # "done" => CanGoBack(s)'
    BY <1>1, <1>3, <1>4, <2>1, <2>2, StillTrue, Zenon DEF CalmJob, CanGoBack
  <2>5. CalmJob(s, b)'
    BY <1>1, <1>3, <2>2, <2>3, <2>4, Zenon DEF CalmJob
  <2>6. row[s].kc # None => claim'[s] \/ Decommission
    BY <1>5, <2>1, Zenon
  <2>. QED  BY <1>1, <1>3, <2>3, <2>5, <2>6, Advanced, Zenon DEF OnlyItsSystem
<1>8. CASE ReadSystem(j)
  <2>1. /\ b.st \in Outcomes /\ actual' = actual /\ claim' = sendL1KeyClaim(b)
        /\ job'[j] = [b EXCEPT !.snap = [kc |-> row[s].kc, target |-> row[s].target]]
    BY <1>8, Zenon DEF ReadSystem, TypeInv, JobsOK
  <2>2. /\ job'[j].s = s /\ ~job'[j].wrote /\ job'[j].type = b.type /\ job'[j].to = b.to
        /\ job'[j].st = b.st /\ job'[j].snap = [kc |-> row[s].kc, target |-> row[s].target]
    BY <2>1, <1>2, Zenon DEF Job
  <2>3. claim'[s] = IF b.type \in {"LINK", "UNLINK"} /\ b.st = "done" THEN b.type = "LINK"
                    ELSE claim[s]
    BY <2>1, Zenon DEF sendL1KeyClaim, TypeInv, RestOK
  <2>4. b.st # "done" => CanGoBack(s)'
    BY <1>1, <1>3, <1>4, <2>1, <2>3, StillTrue, Zenon DEF CalmJob, CanGoBack
  <2>5. CalmJob(s, b)'
    BY <1>1, <1>3, <2>1, <2>2, <2>3, <2>4, Zenon DEF CalmJob
  <2>6. row[s].kc # None => claim'[s] \/ Decommission \/ (b.type = "UNLINK" /\ b.st = "done")
    BY <1>5, <2>3, Zenon
  <2>. QED  BY <1>1, <1>3, <2>2, <2>5, <2>6, Advanced, ZenonT(40) DEF OnlyItsSystem
<1>9. CASE HandlerFails(j)
  <2>1. /\ actual' = actual /\ claim' = claim
        /\ job'[j] = [b EXCEPT !.snap = None, !.wrote = FALSE]
    BY <1>9, Zenon DEF HandlerFails, external, TypeInv, JobsOK
  <2>2. /\ job'[j].s = s /\ ~job'[j].wrote /\ job'[j].type = b.type /\ job'[j].to = b.to
        /\ job'[j].st = b.st /\ job'[j].snap = None
    BY <2>1, <1>2, Zenon DEF Job
  <2>4. b.st # "done" => CanGoBack(s)'
    BY <1>1, <1>3, <1>4, <2>1, StillTrue, Zenon DEF CalmJob, CanGoBack
  <2>5. CalmJob(s, b)'
    BY <1>1, <1>3, <2>1, <2>2, <2>4, Zenon DEF CalmJob
  <2>6. row[s].kc # None => claim'[s] \/ Decommission \/ (b.type = "UNLINK" /\ b.st = "done")
    BY <1>5, <2>1, Zenon
  <2>. QED  BY <1>1, <1>3, <2>2, <2>5, <2>6, Advanced, ZenonT(40) DEF OnlyItsSystem
<1>. QED  BY <1>6, <1>7, <1>8, <1>9, Zenon

(* The handler writes the row and the job is over. *)
LEMMA WritesRow ==
  ASSUME TypeInv, Calm', NEW s \in Systems, NEW j \in Slots, job[j].s = s,
         CalmSystem(s), Exists(s), ~job[j].wrote, OnlyItsSystem(j),
         HandleJobDoneEvent(j) \/ terminateSystemJob(j)
  PROVE  CalmSystem(s)'
<1>. DEFINE b == job[j]
<1>1. j \in Pending(s) /\ CalmJob(s, b) /\ Pending(s) = {j}
  BY CalmParts DEF Pending, JobsOf, Writers
<1>2. b \in Job /\ b # NoJob /\ b.snap # None
  BY EmptyFields, Zenon DEF TypeInv, JobsOK, HandleJobDoneEvent, terminateSystemJob
<1>3. Releasing(s) => Releasing(s)'
  BY StillReleasing, Zenon DEF OnlyItsSystem
<1>4. row[s].kc # None => claim[s] \/ Decommission \/ (b.type = "UNLINK" /\ b.st = "done")
  <2>1. row[s].kc # None => \/ claim[s] \/ Decommission
                            \/ \E i \in Pending(s) : job[i].type = "UNLINK" /\ job[i].st = "done"
    BY CalmParts, Zenon DEF ClaimKept
  <2>. QED  BY <1>1, <2>1, Zenon
<1>5. job'[j] = NoJob /\ claim' = claim /\ actual' = actual
  BY SMTT(30) DEF HandleJobDoneEvent, terminateSystemJob, Finish, Calm, external, TypeInv, JobsOK, RestOK
<1>6. /\ Pending(s)' = {} /\ JobsOf(s)' \subseteq JobsOf(s) \ {j}
      /\ \A i \in JobsOf(s)' : job'[i] = job[i]
  BY <1>1, <1>5, EmptyFields, NoneAssumption, SMTT(30) DEF Pending, JobsOf, OnlyItsSystem
<1>7. Writers(s)' /\ Releasers(s)'
  BY <1>6, CalmParts DEF Writers, Releasers
<1>8. b.snap = [kc |-> row[s].kc, target |-> row[s].target]
  BY <1>1, <1>2, Zenon DEF CalmJob
<1>9. CASE HandleJobDoneEvent(j)
  <2>1. event'[s] = NoEvent
    BY <1>1, <1>9, Zenon DEF HandleJobDoneEvent, cleanUpEvent, CalmJob, TypeInv, EventsOK, Connecting
  <2>2. CASE b.type \in Connecting
    <3>1. row'[s] = [status |-> "CONNECTED", kc |-> KeyConfigOf[b.to], target |-> None]
      BY <1>9, <2>2, Zenon DEF HandleJobDoneEvent, updateSystem, Connecting, TypeInv, RowsOK
    <3>2. actual'[s] = b.to /\ b.to # None
      BY <1>1, <1>2, <1>5, <1>9, <2>2, NoneAssumption, Zenon
      DEF HandleJobDoneEvent, CalmJob, TypeInv, JobsOK, JobOK
    <3>3. claim'[s] \/ Decommission
      BY <1>1, <1>2, <1>4, <1>5, <1>9, <2>2, ZenonT(40) DEF HandleJobDoneEvent, CalmJob, Connecting
    <3>4. StatusTrue(s, row[s].status)'
      BY <3>1, <3>2, <3>3, SMTT(30) DEF StatusTrue
    <3>5. ClaimKept(s)' /\ EventCalm(s)' /\ row'[s].status # "NONE"
      BY <2>1, <3>1, <3>3, EmptyFields DEF ClaimKept, EventCalm
    <3>. QED  BY <1>7, <3>4, <3>5, CalmWhole, SMTT(30)
  <2>3. CASE b.type = "UNLINK"
    <3>1. row'[s] = [status |-> "DISCONNECTED", kc |-> None, target |-> b.snap.target]
      BY <1>9, <2>3, Zenon DEF HandleJobDoneEvent, updateSystem, Connecting, TypeInv, RowsOK
    <3>2. ~claim'[s]
      BY <1>1, <1>2, <1>5, <1>9, <2>3, ZenonT(40) DEF HandleJobDoneEvent, CalmJob
    <3>3. StatusTrue(s, row[s].status)'
      BY <3>1, <3>2, SMTT(30) DEF StatusTrue
    <3>4. ClaimKept(s)' /\ EventCalm(s)' /\ row'[s].status # "NONE"
      BY <2>1, <3>1, EmptyFields DEF ClaimKept, EventCalm
    <3>. QED  BY <1>7, <3>3, <3>4, CalmWhole, Zenon
  <2>. QED  BY <1>9, <2>2, <2>3, Zenon DEF HandleJobDoneEvent
<1>10. CASE terminateSystemJob(j)
  <2>1. b.st # "done" /\ event' = event
    BY <1>10, Zenon DEF terminateSystemJob
  <2>2. row'[s] = [status |-> "FAILED", kc |-> row[s].kc, target |-> row[s].target]
    BY <1>8, <1>10 DEF terminateSystemJob, updateSystem, TypeInv, RowsOK
  <2>3. CanGoBack(s)'
    <3>1. row'[s].kc = row[s].kc
      BY <2>2
    <3>2. \A status : StatusTrue(s, status) => StatusTrue(s, status)'
      BY <1>3, <1>5, <3>1, Zenon DEF StatusTrue
    <3>3. CanGoBack(s)
      BY <1>1, <2>1, ZenonT(40) DEF CalmJob
    <3>. QED  BY <2>1, <3>2, <3>3, ZenonT(40) DEF CanGoBack
  <2>4. event'[s] # NoEvent \/ row'[s].kc # None
    BY <1>1, <2>1, <2>2, EmptyFields DEF CalmJob
  <2>5. row'[s].kc # None => claim'[s] \/ Decommission
    BY <1>4, <1>5, <2>1, <2>2, SMTT(30)
  <2>6. event'[s].type \in {"SWITCH", "SWITCH_PK", "UNLINK"} => row'[s].kc # None
    BY <1>1, <2>1, <2>2, CalmParts DEF EventCalm, CalmJob
  <2>7. StatusTrue(s, row[s].status)'
    BY <2>2 DEF StatusTrue
  <2>8. event'[s].type # "DECOMMISSION"
    BY <2>1, CalmParts, Zenon DEF EventCalm
  <2>9. ClaimKept(s)' /\ EventCalm(s)' /\ row'[s].status # "NONE"
    BY <2>2, <2>3, <2>4, <2>5, <2>6, <2>8 DEF ClaimKept, EventCalm
  <2>. QED  BY <1>7, <2>7, <2>9, CalmWhole, Zenon
<1>. QED  BY <1>9, <1>10, ZenonT(40)

(* The decommission handler writes the row first, *)
LEMMA Terminated ==
  ASSUME TypeInv, NEW s \in Systems, NEW j \in Slots, job[j].s = s,
         CalmSystem(s), Exists(s), OnlyItsSystem(j), terminate(j)
  PROVE  CalmSystem(s)'
<1>. DEFINE b == job[j]
<1>1. j \in Pending(s) /\ CalmJob(s, b) /\ Pending(s) = {j}
  BY CalmParts, ZenonT(40) DEF Pending, JobsOf, Writers, terminate
<1>2. b \in Job /\ Decommission
  BY <1>1, Zenon DEF TypeInv, JobsOK, CalmJob, terminate
<1>3. /\ row'[s] = [status |-> "DISCONNECTED", kc |-> None, target |-> b.snap.target]
      /\ job'[j] = [b EXCEPT !.wrote = TRUE] /\ event' = event
  BY Zenon DEF terminate, updateSystem, TypeInv, RowsOK, JobsOK
<1>4. /\ job'[j].s = s /\ job'[j].wrote /\ job'[j].type = "DECOMMISSION"
      /\ job'[j].st \in {"done", "failed"} /\ job'[j].snap # None
  BY <1>2, <1>3 DEF terminate, Job
<1>5. /\ Pending(s)' = {} /\ JobsOf(s)' = JobsOf(s) /\ Releasing(s)'
      /\ \A i \in JobsOf(s) : i = j \/ job'[i] = job[i]
  BY <1>1, <1>4 DEF Pending, JobsOf, Releasing, OnlyItsSystem
<1>6. StatusTrue(s, row[s].status)'
  BY <1>3, <1>5 DEF StatusTrue
<1>7. event[s].type # "DECOMMISSION"
  BY CalmParts, Zenon DEF EventCalm
<1>8. ASSUME NEW i \in JobsOf(s), job'[i].wrote
      PROVE  /\ job'[i].type = "DECOMMISSION" /\ job'[i].st \in {"done", "failed"}
             /\ job'[i].snap # None
  BY <1>4, <1>5, <1>8, CalmParts, ZenonT(40) DEF Releasers
<1>9. Writers(s)' /\ Releasers(s)'
  BY <1>2, <1>5, <1>8, Zenon DEF Writers, Releasers
<1>10. ClaimKept(s)' /\ EventCalm(s)' /\ row'[s].status # "NONE"
  BY <1>3, <1>7 DEF ClaimKept, EventCalm
<1>. QED  BY <1>6, <1>9, <1>10, CalmWhole, Zenon

(* and releases the claim last: a new job may be under way by then. *)
LEMMA Released ==
  ASSUME TypeInv, NEW s \in Systems, NEW j \in Slots, job[j].s = s,
         CalmSystem(s), Exists(s), OnlyItsSystem(j), ReleaseClaim(j)
  PROVE  CalmSystem(s)'
<1>1. /\ job[j].wrote /\ ~claim'[s] /\ actual' = actual /\ row' = row /\ event' = event
      /\ job'[j] = NoJob
  BY Zenon DEF ReleaseClaim, TypeInv, RestOK, JobsOK
<1>2. j \in JobsOf(s) /\ Decommission
  BY <1>1, CalmParts, Zenon DEF JobsOf, Releasers
<1>3. /\ JobsOf(s)' \subseteq JobsOf(s) /\ Pending(s)' = Pending(s) /\ j \notin Pending(s)
      /\ \A i \in JobsOf(s)' : job'[i] = job[i]
  BY <1>1, <1>2, EmptyFields, NoneAssumption DEF Pending, JobsOf, OnlyItsSystem
<1>4. ASSUME NEW status, StatusTrue(s, status) PROVE StatusTrue(s, status)'
  BY <1>1, <1>2, <1>4, Zenon DEF StatusTrue
<1>5. CanGoBack(s) => CanGoBack(s)'
  BY <1>1, <1>4, Zenon DEF CanGoBack
<1>6. ASSUME NEW i \in Pending(s) PROVE CalmJob(s, job[i])'
  <2>1. CalmJob(s, job[i]) /\ i \in JobsOf(s)' /\ job'[i] = job[i]
    BY <1>3, CalmParts, Zenon DEF Writers, Pending
  <2>. QED  BY <1>1, <1>2, <1>5, <2>1, Zenon DEF CalmJob
<1>7. Writers(s)'
  BY <1>3, <1>6, CalmParts, SMTT(30) DEF Writers
<1>8. Releasers(s)'
  BY <1>3, CalmParts DEF Releasers
<1>9. StatusTrue(s, row[s].status)'
  BY <1>1, <1>4, CalmParts, Zenon
<1>10. ClaimKept(s)' /\ EventCalm(s)' /\ row'[s].status # "NONE"
  BY <1>1, <1>2, <1>5, CalmParts, Zenon DEF ClaimKept, EventCalm, Exists, Statuses
<1>. QED  BY <1>7, <1>8, <1>9, <1>10, CalmWhole, Zenon

(* Whatever a job does, every system stays as it should be. *)
LEMMA JobStepCalm ==
  ASSUME TypeInv, NoRotation, CalmState, Calm', NEW j \in Slots, JobStep(j) \/ HandlerFails(j)
  PROVE  CalmState'
<1>1. PICK s \in Systems : s = job[j].s
  BY JobsApart, Zenon
<1>2. /\ OnlyItsSystem(j) /\ UNCHANGED open /\ CalmSystem(s)
      /\ row[s].status = "DELETED" => row'[s].status = "DELETED"
  BY <1>1, JobsApart, Zenon DEF CalmState
<1>3. ASSUME NEW t \in Systems, t # s PROVE CalmSystem(t)'
  <2>1. Untouched(t)
    BY <1>1, <1>2, <1>3, NoneAssumption, ZenonT(40) DEF OnlyItsSystem, Untouched
  <2>. QED  BY <2>1, Frame, Zenon DEF CalmState
<1>4. row[s].status # "NONE"
  BY <1>1, <1>2, Zenon DEF CalmSystem, JobsOf
<1>5. CASE row[s].status = "DELETED"
  BY <1>2, <1>3, <1>5, Gone, Zenon DEF CalmState
<1>6. CASE Exists(s)
  <2>1. ASSUME ~job[j].wrote PROVE CalmSystem(s)'
    <3>1. /\ ~ReleaseClaim(j) /\ ~HandleKeyRotate(j) /\ ~SystemNotFound(j)
      BY <1>1, <1>6, <2>1, Zenon DEF ReleaseClaim, HandleKeyRotate, SystemNotFound, NoRotation
    <3>. QED  BY <1>1, <1>2, <1>6, <2>1, <3>1, OnTheWay, WritesRow, Terminated, Zenon DEF JobStep, Handle
  <2>2. ASSUME job[j].wrote PROVE CalmSystem(s)'
    <3>1. job[j].type = "DECOMMISSION" /\ job[j].st \in {"done", "failed"} /\ job[j].snap # None
      BY <1>1, <1>2, <1>6, <2>2, CalmParts, ZenonT(40) DEF Releasers, JobsOf
    <3>2. ReleaseClaim(j)
      BY <2>2, <3>1
      DEF JobStep, Handle, confirmJob, ExecuteTask, ReadSystem, HandleJobDoneEvent,
          terminateSystemJob, terminate, HandleKeyRotate, SystemNotFound, HandlerFails,
          Connecting, Calm, TypeInv, RestOK
    <3>. QED  BY <1>1, <1>2, <1>6, <3>2, Released, Zenon
  <2>3. CalmSystem(s)'
    BY <2>1, <2>2, Zenon
  <2>. QED  BY <1>2, <1>3, <2>3, Zenon DEF CalmState
<1>. QED  BY <1>4, <1>5, <1>6, Zenon DEF TypeInv, RowsOK, System, Exists

-----------------------------------------------------------------------------
(* The requests, one by one. *)

(* The refresh creates and removes systems. *)
LEMMA Refreshed ==
  ASSUME TypeInv, CalmState, NEW s \in Systems,
         createSystemIfNotExists(s) \/ removeSystemsNotInRegistry(s)
  PROVE  CalmState'
<1>1. UNCHANGED <<event, open, job, claim, actual>>
  BY Zenon DEF createSystemIfNotExists, removeSystemsNotInRegistry, requests, external
<1>2. ASSUME NEW t \in Systems, t # s PROVE CalmSystem(t)'
  <2>1. Untouched(t)
    BY <1>1, <1>2, Zenon DEF createSystemIfNotExists, removeSystemsNotInRegistry, Untouched, TypeInv, RowsOK
  <2>. QED  BY <2>1, Frame, Zenon DEF CalmState
<1>3. CASE createSystemIfNotExists(s)
  <2>1. row'[s] = [status |-> "DISCONNECTED", kc |-> None, target |-> None]
    BY <1>3 DEF createSystemIfNotExists, NoSystem, TypeInv, RowsOK
  <2>2. event[s] = NoEvent /\ JobsOf(s) = {} /\ ~claim[s]
    BY <1>3 DEF createSystemIfNotExists, NoSystem, CalmState, CalmSystem
  <2>3. JobsOf(s)' = {} /\ Pending(s)' = {}
    BY <1>1, <2>2, Zenon DEF JobsOf, Pending
  <2>4. CalmSystem(s)'
    <3>1. Writers(s)' /\ Releasers(s)'
      BY <2>3, ZenonT(40) DEF Writers, Releasers
    <3>2. ClaimKept(s)' /\ EventCalm(s)' /\ StatusTrue(s, row[s].status)'
      BY <1>1, <2>1, <2>2, EmptyFields DEF ClaimKept, EventCalm, StatusTrue
    <3>. QED  BY <2>1, <3>1, <3>2, CalmWhole
  <2>. QED  BY <1>1, <1>2, <2>4, Zenon DEF CalmState
<1>4. CASE removeSystemsNotInRegistry(s)
  <2>1. row'[s].status = "DELETED"
    BY <1>4, Zenon DEF removeSystemsNotInRegistry, Deleted, TypeInv, RowsOK
  <2>. QED  BY <1>1, <1>2, <2>1, Gone, Zenon DEF CalmState
<1>. QED  BY <1>3, <1>4, Zenon

(* A cancel, when GetRecoveryActions offers it. *)
LEMMA Cancelled ==
  ASSUME TypeInv, NoRotation, CalmState, Calm', NEW s \in Systems, cancelSystemAction(s)
  PROVE  CalmState'
<1>1. /\ UNCHANGED <<event, open, job, claim, actual>>
      /\ Exists(s) /\ event[s] # NoEvent /\ row[s].status = "FAILED"
      /\ row'[s] = [status |-> event[s].prev, kc |-> row[s].kc, target |-> None]
  BY Zenon DEF cancelSystemAction, requests, external, canCancel, Calm, TypeInv, RowsOK
<1>2. ASSUME NEW t \in Systems, t # s PROVE CalmSystem(t)'
  <2>1. Untouched(t)
    BY <1>1, <1>2, Zenon DEF cancelSystemAction, Untouched, TypeInv, RowsOK
  <2>. QED  BY <2>1, Frame, Zenon DEF CalmState
<1>3. CalmSystem(s) /\ CanGoBack(s) /\ event[s].prev \in Statuses \ {"PROCESSING"}
  BY <1>1, CalmParts, Zenon DEF CalmState, EventCalm, NoRotation, TypeInv, EventsOK, Event
<1>4. Pending(s) = {}
  BY <1>1, <1>3, NothingPending, Zenon
<1>5. /\ JobsOf(s)' = JobsOf(s) /\ Pending(s)' = {} /\ (Releasing(s)' <=> Releasing(s))
  BY <1>1, <1>4, ZenonT(40) DEF JobsOf, Pending, Releasing
<1>6. \A status : StatusTrue(s, status) => StatusTrue(s, status)'
  BY <1>1, <1>5, SMTT(30) DEF StatusTrue
<1>7. StatusTrue(s, row[s].status)' /\ CanGoBack(s)'
  BY <1>1, <1>3, <1>6 DEF CanGoBack
<1>8. row[s].kc # None => claim[s] \/ Decommission
  BY <1>1, <1>3, <1>4, CalmParts, Zenon DEF ClaimKept
<1>9. /\ event[s].type # "DECOMMISSION"
      /\ event[s].type \in {"SWITCH", "SWITCH_PK", "UNLINK"} => row[s].kc # None
  BY <1>1, <1>3, CalmParts, ZenonT(40) DEF EventCalm
<1>10. row'[s].status = event[s].prev /\ row'[s].kc = row[s].kc /\ event'[s] = event[s]
  BY <1>1
<1>11. CalmSystem(s)'
  <2>1. Writers(s)' /\ Releasers(s)'
    BY <1>1, <1>3, <1>5, CalmParts, ZenonT(40) DEF Writers, Releasers
  <2>2. ClaimKept(s)'
    BY <1>1, <1>8, <1>10, Zenon DEF ClaimKept
  <2>3. EventCalm(s)' /\ row'[s].status # "NONE"
    BY <1>1, <1>3, <1>7, <1>9, <1>10, Zenon DEF EventCalm, Statuses
  <2>. QED  BY <1>7, <2>1, <2>2, <2>3, CalmWhole, Zenon
<1>. QED  BY <1>1, <1>2, <1>11, Zenon DEF CalmState

(* Links, unlinks, decommissions and retries. *)
LEMMA Linking ==
  ASSUME TypeInv, CalmState, Calm', NEW s \in Systems, NEW j \in Slots, NEW c \in KeyConfigs,
         LinkSystemAction(j, s, c)
  PROVE  CalmState'
<1>. DEFINE r == NewRequest(s, selectEvent(s, c), primary[c], [row[s] EXCEPT !.target = c], TRUE)
<1>1. Send(j, r) /\ UNCHANGED <<primary, external>> /\ row[s].status \in {"CONNECTED", "DISCONNECTED"}
  BY Zenon DEF LinkSystemAction, handleSystemStatus
<1>2. r \in Request
  BY <1>1, ZenonT(40) DEF NewRequest, Request, selectEvent, JobTypes, TypeInv, RowsOK, System, RestOK, Statuses
<1>3. /\ r.s = s /\ r.type \in {"LINK", "SWITCH"} /\ (r.type # "LINK" => row[s].kc # None)
      /\ r.track /\ r.copy.status = row[s].status /\ r.copy.kc = row[s].kc
  BY Zenon DEF NewRequest, selectEvent, TypeInv, RowsOK, System
<1>. HIDE DEF r
<1>. QED  BY <1>1, <1>2, <1>3, Requested, Zenon DEF Statuses

(* UnlinkSystemAction leaves the systems in order. *)
LEMMA Unlinking ==
  ASSUME TypeInv, CalmState, Calm', NEW s \in Systems, NEW j \in Slots, UnlinkSystemAction(j, s)
  PROVE  CalmState'
<1>. DEFINE r == NewRequest(s, "UNLINK", None, [row[s] EXCEPT !.target = row[s].target], TRUE)
<1>1. /\ Send(j, r) /\ UNCHANGED <<primary, external>>
      /\ row[s].status \in Statuses \ {"PROCESSING"} /\ row[s].kc # None
  BY Zenon DEF UnlinkSystemAction, handleSystemStatus, Exists
<1>2. r \in Request
  BY <1>1, Zenon DEF NewRequest, Request, JobTypes, TypeInv, RowsOK, System
<1>3. /\ r.s = s /\ r.type = "UNLINK"
      /\ r.track /\ r.copy.status = row[s].status /\ r.copy.kc = row[s].kc
  BY Zenon DEF NewRequest, TypeInv, RowsOK, System
<1>. HIDE DEF r
<1>. QED  BY <1>1, <1>2, <1>3, Requested, Zenon

(* SystemUnlinkDecommission leaves the systems in order. *)
LEMMA Decommissioning ==
  ASSUME TypeInv, CalmState, Calm', NEW s \in Systems, NEW j \in Slots,
         SystemUnlinkDecommission(j, s)
  PROVE  CalmState'
<1>. DEFINE r == NewRequest(s, "DECOMMISSION", None, row[s], FALSE)
<1>1. /\ Send(j, r) /\ UNCHANGED <<primary, external>> /\ Decommission
      /\ row[s].status \in Statuses \ {"PROCESSING"} /\ row[s].kc # None
  BY Zenon DEF SystemUnlinkDecommission, Exists
<1>2. r \in Request
  BY <1>1, Zenon DEF NewRequest, Request, JobTypes, TypeInv, RowsOK, System
<1>3. r.s = s /\ r.type = "DECOMMISSION" /\ ~r.track /\ r.copy = row[s]
  BY Zenon DEF NewRequest
<1>. HIDE DEF r
<1>. QED  BY <1>1, <1>2, <1>3, Requested, Zenon

(* retrySystemAction sends the stored event again and leaves the systems in
   order. *)
LEMMA Retrying ==
  ASSUME TypeInv, NoRotation, CalmState, Calm', NEW s \in Systems, NEW j \in Slots,
         retrySystemAction(j, s)
  PROVE  CalmState'
<1>. DEFINE r == NewRequest(s, event[s].type, event[s].to, row[s], FALSE)
<1>1. /\ Send(j, r) /\ UNCHANGED <<primary, external>>
      /\ row[s].status = "FAILED" /\ event[s] # NoEvent
  BY Zenon DEF retrySystemAction
<1>2. event[s].type \in JobTypes /\ event[s].to \in Keys \union {None}
  BY <1>1, Zenon DEF TypeInv, EventsOK, Event
<1>3. r \in Request
  BY <1>1, <1>2, Zenon DEF NewRequest, Request, TypeInv, RowsOK, System, Statuses
<1>4. /\ event[s].type \in {"LINK", "UNLINK", "SWITCH", "SWITCH_PK"}
      /\ event[s].type # "LINK" => row[s].kc # None
  <2>1. EventCalm(s)
    BY <1>1, CalmParts, Zenon DEF CalmState, Exists, Statuses
  <2>. QED  BY <1>1, <1>2, <2>1, Zenon DEF NoRotation, EventCalm, JobTypes
<1>5. r.s = s /\ r.type = event[s].type /\ ~r.track /\ r.copy = row[s]
  BY Zenon DEF NewRequest
<1>. HIDE DEF r
<1>. QED  BY <1>1, <1>3, <1>4, <1>5, Requested, Zenon DEF Statuses

(* The change of a primary key, for all systems of its configuration at once. *)
LEMMA Switching ==
  ASSUME TypeInv, CalmState, NEW c \in KeyConfigs, NEW k \in Keys,
         NEW slot \in [Linked(c) -> Slots],
         \A s, t \in Linked(c) : slot[s] = slot[t] => s = t,
         handleUpdatePrimaryKey(c, k, slot)
  PROVE  CalmState'
<1>1. UNCHANGED <<open, claim, actual>>
  BY Zenon DEF handleUpdatePrimaryKey, requests, external
<1>2. ASSUME NEW s \in Linked(c)
      PROVE  slot[s] \in Slots /\ job[slot[s]] = NoJob /\ job'[slot[s]] = NewJob(s, "SWITCH_PK", k)
  <2>1. slot[s] \in Slots /\ job[slot[s]] = NoJob
    BY Zenon DEF handleUpdatePrimaryKey, CanPrepare
  <2>2. (CHOOSE t \in Linked(c) : slot[t] = slot[s]) = s
    BY Zenon
  <2>. QED  BY <2>1, <2>2, Zenon DEF handleUpdatePrimaryKey
<1>3. ASSUME NEW i \in Slots, \A s \in Linked(c) : slot[s] # i PROVE job'[i] = job[i]
  BY <1>3, Zenon DEF handleUpdatePrimaryKey
<1>4. ASSUME NEW i \in Slots, NEW t \in Systems, job[i].s = t \/ job'[i].s = t,
             t \notin Linked(c) \/ i # slot[t]
      PROVE  job'[i] = job[i]
  <2>1. CASE \A s \in Linked(c) : slot[s] # i
    BY <2>1, <1>3, Zenon
  <2>2. ASSUME NEW s \in Linked(c), slot[s] = i PROVE FALSE
    <3>0. job[i] = NoJob /\ job'[i] = NewJob(s, "SWITCH_PK", k)
      BY <1>2, <2>2, ZenonT(40)
    <3>1. job[i].s = None /\ job'[i].s = s
      BY <3>0, EmptyFields DEF NewJob
    <3>. QED  BY <1>4, <2>2, <3>1, NoneAssumption, Zenon DEF Linked
  <2>. QED  BY <2>1, <2>2, Zenon
<1>5. ASSUME NEW t \in Systems, t \notin Linked(c) PROVE CalmSystem(t)'
  <2>1. row'[t] = row[t] /\ event'[t] = Retarget(event[t], primary[c], k)
    BY <1>5, Zenon DEF handleUpdatePrimaryKey
  <2>2. /\ event'[t].type = event[t].type /\ event'[t].prev = event[t].prev
        /\ event'[t] = NoEvent <=> event[t] = NoEvent
    BY <2>1, EmptyFields, ZenonT(40) DEF Retarget, TypeInv, EventsOK, Event
  <2>3. \A i \in Slots : job[i].s = t \/ job'[i].s = t => job'[i] = job[i]
    BY <1>4, <1>5, Zenon
  <2>4. Untouched(t)
    BY <1>1, <2>1, <2>2, <2>3, Zenon DEF Untouched
  <2>. QED  BY <2>4, Frame, Zenon DEF CalmState
<1>6. ASSUME NEW s \in Systems, s \in Linked(c) PROVE CalmSystem(s)'
  <2>. DEFINE j == slot[s]
  <2>1. /\ Exists(s) /\ row[s].status # "PROCESSING" /\ row[s].kc # None /\ CalmSystem(s)
    BY <1>6, NoneAssumption, Zenon DEF Linked, handleUpdatePrimaryKey, CalmState
  <2>2. /\ j \in Slots /\ job[j].s # s /\ job'[j] = NewJob(s, "SWITCH_PK", k)
    BY <1>2, <1>6, EmptyFields, NoneAssumption, ZenonT(40)
  <2>3. \A i \in Slots : i # j /\ (job[i].s = s \/ job'[i].s = s) => job'[i] = job[i]
    BY <1>4, Zenon
  <2>4. /\ row'[s] = [row[s] EXCEPT !.status = "PROCESSING"]
        /\ event'[s] = [type |-> "SWITCH_PK", to |-> k, prev |-> row[s].status]
    BY <1>6, Zenon DEF handleUpdatePrimaryKey
  <2>5. row'[s].status = "PROCESSING" /\ row'[s].kc = row[s].kc
    BY <2>4 DEF TypeInv, RowsOK, System
  <2>. HIDE DEF j
  <2>6. "SWITCH_PK" \in JobTypes /\ "SWITCH_PK" # "DECOMMISSION"
    BY DEF JobTypes
  <2>7. claim'[s] = claim[s] /\ actual'[s] = actual[s]
    BY <1>1, Zenon
  <2>8. event'[s] = [type |-> "SWITCH_PK", to |-> k, prev |-> row[s].status]
    BY <2>4, Zenon
  <2>. QED  BY <2>1, <2>2, <2>3, <2>5, <2>6, <2>7, <2>8, Started, SMTT(30)
<1>. QED  BY <1>1, <1>5, <1>6, Zenon DEF CalmState

-----------------------------------------------------------------------------
(* Nothing at all disturbs a calm system. *)
LEMMA StepCalm == TypeInv /\ NoRotation /\ CalmState /\ [Next]_vars /\ Calm' => CalmState'
<1>. SUFFICES ASSUME TypeInv, NoRotation, CalmState, [Next]_vars, Calm' PROVE CalmState'
  BY Zenon
<1>1. CASE UserStep
  <2>1. ASSUME NEW s \in Systems, NEW j \in Slots, SystemKeyRotate(j, s) PROVE FALSE
    BY <2>1, SMTT(30) DEF SystemKeyRotate, Calm, TypeInv, RestOK
  <2>2. ASSUME NEW c \in KeyConfigs, NEW k \in Keys, NEW s \in Systems, NEW j \in Slots,
               UpdatePrimaryKeyFails(c, k, s, j)
        PROVE  FALSE
    BY <2>2 DEF UpdatePrimaryKeyFails, RollsBack, Calm, TypeInv, RestOK
  <2>3. CASE \E s \in Systems :
               \/ createSystemIfNotExists(s) \/ removeSystemsNotInRegistry(s)
               \/ cancelSystemAction(s)
    BY <2>3, Refreshed, Cancelled, Zenon
  <2>4. CASE \E s \in Systems, j \in Slots :
               \/ \E c \in KeyConfigs : LinkSystemAction(j, s, c)
               \/ UnlinkSystemAction(j, s) \/ SystemUnlinkDecommission(j, s)
               \/ retrySystemAction(j, s)
    BY <2>4, Linking, Unlinking, Decommissioning, Retrying, Zenon
  <2>5. CASE \E c \in KeyConfigs, k \in Keys : \E slot \in [Linked(c) -> Slots] :
               /\ \A s, t \in Linked(c) : slot[s] = slot[t] => s = t
               /\ handleUpdatePrimaryKey(c, k, slot)
    BY <2>5, Switching, Zenon
  <2>. QED  BY <1>1, <2>1, <2>2, <2>3, <2>4, <2>5, ZenonT(40) DEF UserStep
<1>2. CASE HeldStep
  BY <1>2, Zenon DEF HeldStep, CommitHeld, PrepareHeld, CalmState
<1>3. CASE UNCHANGED vars
  <2>1. \A t \in Systems : Untouched(t)
    BY <1>3, Zenon DEF vars, Untouched
  <2>. QED  BY <1>3, <2>1, Frame, Zenon DEF vars, CalmState
<1>. QED  BY <1>1, <1>2, <1>3, JobStepCalm, Zenon DEF Next

(* At the start there are no systems. *)
LEMMA InitCalm == Init => CalmState
<1>. SUFFICES ASSUME Init, NEW s \in Systems PROVE CalmSystem(s)
  BY Zenon DEF CalmState, Init
<1>1. row[s] = NoSystem /\ event[s] = NoEvent /\ ~claim[s] /\ \A j \in Slots : job[j] = NoJob
  BY Zenon DEF Init
<1>2. JobsOf(s) = {}
  BY <1>1, EmptyFields, NoneAssumption, Zenon DEF JobsOf
<1>3. ~Exists(s)
  BY <1>1 DEF NoSystem, Exists, Statuses
<1>. QED  BY <1>1, <1>2, <1>3, Zenon DEF CalmSystem

(* As long as nothing is out of the ordinary every system is as it should be, *)
(* at every moment of a job.                                                  *)
THEOREM CalmInvariance == Spec => []CalmInv
<1>. DEFINE I == TypeInv /\ CalmInv
<1>1. Init => I
  BY InitCalm, InitType, Zenon DEF CalmInv, CalmState
<1>2. ProcessingInv /\ I /\ [Next]_vars => I'
  <2>. SUFFICES ASSUME ProcessingInv, TypeInv, CalmInv, [Next]_vars, Calm'
                PROVE  CalmState'
    BY StepType, Zenon DEF CalmInv, CalmState
  <2>1. Calm
    BY CalmBefore, Zenon
  <2>2. NoRotation /\ CalmState
    BY <2>1, Zenon DEF ProcessingInv, Calm, CalmInv, CalmState
  <2>. QED  BY <2>2, StepCalm, Zenon
<1>. QED  BY <1>1, <1>2, Invariance, PTL DEF Spec

(* Then what CMK says of a system agrees with the operator and the registry   *)
(* once nothing is in flight,                                                 *)
THEOREM SettledAgreesHolds == Spec => [](Calm => SettledAgrees)
<1>1. CalmInv => (Calm => SettledAgrees)
  <2>. SUFFICES ASSUME NEW s \in Systems, CalmSystem(s), Quiet(s), Exists(s)
                PROVE  /\ row[s].status = "CONNECTED" =>
                            /\ actual[s] # None /\ row[s].kc = KeyConfigOf[actual[s]]
                            /\ claim[s] \/ Decommission
                       /\ row[s].status = "DISCONNECTED" => row[s].kc = None /\ ~claim[s]
    BY Zenon DEF CalmInv, SettledAgrees, Exists, Statuses
  <2>1. StatusTrue(s, row[s].status) /\ ~Releasing(s)
    BY CalmParts, Zenon DEF Releasing, Quiet
  <2>. QED  BY <2>1, Zenon DEF StatusTrue
<1>. QED  BY <1>1, CalmInvariance, PTL

(* and a FAILED system can be left again. *)
THEOREM FailedIsRecoverableHolds == Spec => [](Calm => FailedIsRecoverable)
<1>1. CalmInv => (Calm => FailedIsRecoverable)
  BY CalmParts, Zenon DEF CalmInv, EventCalm, FailedIsRecoverable, Exists, Statuses
<1>. QED  BY <1>1, CalmInvariance, PTL

=============================================================================
