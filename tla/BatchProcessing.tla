--------------------------- MODULE BatchProcessing ---------------------------
(***************************************************************************)
(* ProcessInBatchWithOptions of internal/repo/repository.go: paging through *)
(* the rows of a query while the callback changes the table.               *)
(*                                                                         *)
(* The tasks and managers walk over systems, events, keys, certificates    *)
(* and workflows with it.  A callback is described by the rows it takes    *)
(* out of the query, because it deletes them or changes a column the query *)
(* filters on, the rows it writes and leaves in, and the rows it fails on. *)
(* The queries have no ORDER BY, so the database may return a row that was *)
(* written at another place.                                               *)
(***************************************************************************)
EXTENDS Naturals, Sequences, SequencesExt

CONSTANTS
    Rows,         \* rows that match the query at first
    BatchSizes,   \* page sizes to consider (DefaultLimit is 100)
    Uses          \* records [deleteMode, ignoreFail, removes, writes, fails]

ASSUME RowsAssumption == IsFiniteSet(Rows)
ASSUME SizeAssumption == BatchSizes \subseteq Nat \ {0}
Callbacks ==
    [deleteMode : BOOLEAN, ignoreFail : BOOLEAN, removes : SUBSET Rows, writes : SUBSET Rows,
     fails : SUBSET Rows]

ASSUME UsesAssumption == Uses \subseteq Callbacks

(* Callbacks that only read the rows (the fan-out of tasks, SystemKeyRotate), *)
(* and CleanupTerminalWorkflows, which deletes every row and says so.         *)
ReadingUses == {u \in Callbacks : ~u.deleteMode /\ u.removes = {} /\ u.writes = {}}

CleaningUses ==
    {u \in Callbacks : u.deleteMode /\ ~u.ignoreFail /\ u.removes = Rows /\ u.writes = {}}

SoundUses == ReadingUses \union CleaningUses

VARIABLES
    table,      \* the matching rows, in the order the database returns them
    batchSize, use,
    offset,
    items,      \* the page in hand
    failed,     \* lastError is set
    processed,  \* rows the callback was given
    pc

vars == <<table, batchSize, use, offset, items, failed, processed, pc>>
parameters == <<batchSize, use>>

(* The rows, the loop variables and the place in the loop. *)
TypeOK ==
    /\ table \in Seq(Rows) /\ IsInjective(table)
    /\ batchSize \in BatchSizes /\ use \in Uses
    /\ offset \in Nat
    /\ items \in Seq(Rows) /\ Len(items) <= batchSize
    /\ failed \in BOOLEAN
    /\ processed \subseteq Rows
    /\ pc \in {"list", "process", "next", "done"}

Init ==
    /\ \E match \in SUBSET Rows : table \in SetToSeqs(match)
    /\ batchSize \in BatchSizes /\ use \in Uses
    /\ offset = 0
    /\ items = <<>>
    /\ failed = FALSE
    /\ processed = {}
    /\ pc = "list"

(* List with the limit and the offset of the page. *)
Page(first, size) ==
    SubSeq(table, first + 1, IF first + size <= Len(table) THEN first + size ELSE Len(table))

List ==
    /\ pc = "list"
    /\ items' = Page(offset, batchSize)
    /\ pc' = "process"
    /\ UNCHANGED <<table, parameters, offset, failed, processed>>

(* List or Count fails, and the call returns the error. *)
QueryFails ==
    /\ pc \in {"list", "next"}
    /\ failed' = TRUE
    /\ pc' = "done"
    /\ UNCHANGED <<table, parameters, offset, items, processed>>

(* processFunc is given the whole page.  It stops at a row it fails on, and   *)
(* then the walk stops, unless failures are ignored; what the callback wrote  *)
(* before is undone if it uses a transaction.  A table that was written to    *)
(* may be returned in another order by the next query.                        *)
Given(page, fails) ==
    {i \in DOMAIN page : \A h \in 1..i-1 : page[h] \notin fails}

(* The loop is left at a failure that counts and at an empty page. *)
MutantStops(error) == error /\ ~use.ignoreFail

Stops(error) == (error /\ ~use.ignoreFail) \/ items = <<>>

processFunc ==
    LET given == {items[i] : i \in Given(items, use.fails)}
        error == \E i \in DOMAIN items : items[i] \in use.fails
        gone  == (given \ use.fails) \intersect use.removes
        moved == (given \ use.fails) \intersect use.writes
    IN  /\ pc = "process"
        /\ table' \in IF gone \union moved = {} THEN {table}
                     ELSE SetToSeqs(Range(table) \ gone) \union (IF error THEN {table} ELSE {})
        /\ processed' = processed \union given
        /\ failed' = (failed \/ error)
        /\ pc' = IF Stops(error) THEN "done" ELSE "next"
        /\ UNCHANGED <<parameters, offset, items>>

(* The offset moves on, and Count, which leaves limit and offset out, says    *)
(* whether there is another page.                                             *)
MutantAdvance ==
    /\ pc = "next"
    /\ offset' = offset + batchSize
    /\ pc' = IF offset' >= Len(table) THEN "done" ELSE "list"
    /\ UNCHANGED <<table, parameters, items, failed, processed>>

Advance ==
    /\ pc = "next"
    /\ offset' = IF use.deleteMode THEN offset ELSE offset + batchSize
    /\ pc' = IF ~use.deleteMode /\ offset' >= Len(table) THEN "done" ELSE "list"
    /\ UNCHANGED <<table, parameters, items, failed, processed>>

(* The call has returned. *)
Done == pc = "done" /\ UNCHANGED vars

Next == List \/ QueryFails \/ processFunc \/ Advance \/ Done

Spec == Init /\ [][Next]_vars

(* A call runs to its end. *)
FairSpec == Spec /\ WF_vars(List \/ QueryFails \/ processFunc \/ Advance)

-----------------------------------------------------------------------------
(* "It iterates through all matching records": a call that returns no error  *)
(* gave every row that matched when it began to the callback, so that none   *)
(* is left that the callback should have taken out; and no row is given to   *)
(* the callback in two pages.                                                *)
ProcessesAllOnce ==
    /\ TypeOK
    /\ pc = "done" /\ ~failed =>
         \A i \in DOMAIN table : table[i] \in processed \ use.removes
    /\ pc = "process" => \A i \in DOMAIN items : items[i] \notin processed

(* Why it does.  A walk that reads has given the pages before its offset to   *)
(* the callback, and all of them if nothing failed; a walk that cleans up has *)
(* only rows left that it was not given.                                      *)
Upto(n) == {table[i] : i \in {j \in DOMAIN table : j <= n}}

ReadingInv ==
    LET seen == IF pc = "next" THEN offset + batchSize ELSE offset IN
    /\ pc \in {"list", "process", "next"} => processed \subseteq Upto(seen)
    /\ pc \in {"list", "process", "next"} /\ ~failed => Upto(seen) \subseteq processed
    /\ pc = "process" => items = Page(offset, batchSize)
    /\ pc = "done" /\ ~failed => Range(table) \subseteq processed

CleaningInv ==
    /\ offset = 0
    /\ pc # "done" => ~failed /\ Range(table) \intersect processed = {}
    /\ pc = "process" => items = Page(0, batchSize)
    /\ pc = "done" /\ ~failed => table = <<>>

WalkInv ==
    /\ TypeOK
    /\ use \in ReadingUses => ReadingInv
    /\ use \in CleaningUses => CleaningInv

(* The walk ends. *)
Ends == <>(pc = "done")
=============================================================================
