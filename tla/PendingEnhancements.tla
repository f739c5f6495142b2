------------------------ MODULE PendingEnhancements ------------------------
(***************************************************************************)
(* Pending enhancements: requested by a list of references, by a search or *)
(* by an automation, leased to robots in batches, answered by the robot,   *)
(* imported and indexed by a queue worker, and retried when a lease ends.  *)
(*                                                                         *)
(* The pending_enhancement table holds one row per attempt.  A status is   *)
(* changed by reading the rows, checking each against the transition table *)
(* and then updating them by id: the read takes no lock and the update     *)
(* does not look at the status again, so the two are two steps here.  Only *)
(* the claim of a batch (SELECT ... FOR UPDATE SKIP LOCKED) and the expiry *)
(* job (one UPDATE over locked candidates) lock what they read.            *)
(***************************************************************************)
EXTENDS Naturals, FiniteSets, Functions

CONSTANTS
    Reference,      \* reference ids
    Matching,       \* the references a search matches
    Request,        \* enhancement request ids
    Robot,          \* robot ids
    Caller,         \* API handlers, one call each at a time
    Worker,         \* queue workers
    None,           \* a null id
    MaxRows,        \* bound on pending enhancements
    MaxBatches,     \* bound on robot enhancement batches
    ClaimLimit,     \* max_pending_enhancements_batch_size
    ExpireLimit,    \* expire_pending_enhancements_batch_size
    MaxRetryCount,  \* max_retry_count of the expiry job
    MaxCrashes,     \* bound on crashes and lost enqueues
    MaxLockLosses   \* bound on broker locks lost while a task still runs

ASSUME ConstantsAssumption ==
    /\ Matching \subseteq Reference
    /\ None \notin Request \cup Robot
    /\ MaxRows \in Nat /\ MaxBatches \in Nat
    /\ ClaimLimit \in Nat \ {0} /\ ExpireLimit \in Nat \ {0}
    /\ MaxRetryCount \in Nat
    /\ MaxCrashes \in Nat /\ MaxLockLosses \in Nat

VARIABLES
    rows,       \* the pending_enhancement table; ids are in created_at order
    robotOf,    \* the robot_enhancement_batch table: the robot of each batch
    lapsed,     \* batches whose expires_at is in the past
    request,    \* the enhancement_request table
    call,       \* the call each API handler serves
    imports,    \* broker messages to import a batch's results
    scans,      \* broker messages to scan a search request
    task,       \* the task each worker runs
    stored,     \* how often the answer to a row is stored on its reference
    indexed,    \* rows whose answer is in the search index
    crashes,    \* crashes and lost enqueues so far
    lockLosses  \* broker locks lost so far

vars == <<rows, robotOf, lapsed, request, call, imports, scans, task, stored,
          indexed, crashes, lockLosses>>

RowId == 1..MaxRows
Batch == 1..MaxBatches

\* PendingEnhancementStatus, and where it may go from each status.
Transitions ==
    [PENDING         |-> {"PROCESSING"},
     PROCESSING      |-> {"IMPORTING", "EXPIRED", "FAILED"},
     IMPORTING       |-> {"INDEXING", "DISCARDED", "FAILED"},
     INDEXING        |-> {"COMPLETED", "INDEXING_FAILED"},
     EXPIRED         |-> {},
     DISCARDED       |-> {},
     FAILED          |-> {},
     COMPLETED       |-> {},
     INDEXING_FAILED |-> {}]

Status == DOMAIN Transitions

\* A PendingEnhancement.  status = "ABSENT" marks an id not in use; batch and
\* retryOf are 0 when null; req is None for a row made by an automation.
Row == [req : Request \cup {None}, ref : Reference \cup {None},
        robot : Robot \cup {None}, batch : Batch \cup {0},
        retryOf : RowId \cup {0}, status : Status \cup {"ABSENT"}]

NoRow == [req |-> None, ref |-> None, robot |-> None, batch |-> 0,
          retryOf |-> 0, status |-> "ABSENT"]

NewRow(q, r, b, retried) ==
    [req |-> q, ref |-> r, robot |-> b, batch |-> 0, retryOf |-> retried,
     status |-> "PENDING"]

\* An EnhancementRequest: its robot, and search_status when it has a search.
NoRequest == [robot |-> None, search |-> "NONE"]

SearchStatus == {"NONE", "PENDING", "SEARCHING", "COMPLETED", "FAILED"}

\* What a handler holds: the rows it locked or checked, and the batch, request
\* or robot it works for.
Call == [at : {"idle", "queueScan", "claim", "accept", "queueImport", "reject"},
         rows : SUBSET RowId, batch : Batch \cup {0}, req : Request \cup {None},
         robot : Robot \cup {None}]

NoCall == [at |-> "idle", rows |-> {}, batch |-> 0, req |-> None, robot |-> None]

\* What a worker holds: ProcessedResults and the references left to scan.
Task == [at : {"idle", "scan", "import", "stored", "aborted", "failed",
                "discarded", "indexing", "index", "completed", "indexFailed",
                "automate", "done"},
         locked : BOOLEAN, batch : Batch \cup {0}, req : Request \cup {None},
         rows : SUBSET RowId, ok : SUBSET RowId, discarded : SUBSET RowId,
         failed : SUBSET RowId, checked : BOOLEAN, todo : SUBSET Reference]

NoTask == [at |-> "idle", locked |-> FALSE, batch |-> 0, req |-> None,
           rows |-> {}, ok |-> {}, discarded |-> {}, failed |-> {},
           checked |-> FALSE, todo |-> {}]

Used == {i \in RowId : rows[i].status # "ABSENT"}
RowsOf(b) == {i \in Used : rows[i].batch = b}
BatchesMade == {b \in Batch : robotOf[b] # None}

-----------------------------------------------------------------------------
(* Writing rows *)

\* guard_transition over the rows of an update
CanMove(ids, status) ==
    \A i \in ids : status \in Transitions[rows[i].status]

\* UPDATE pending_enhancement SET status ... WHERE id IN ids
Moved(ids, status) ==
    [i \in RowId |-> IF i \in ids THEN [rows[i] EXCEPT !.status = status]
                     ELSE rows[i]]

\* The oldest n of a set of rows.
Oldest(ids, n) == {i \in ids : Cardinality({j \in ids : j < i}) < n}

\* The n ids that follow the used ones.
NextIds(n) == Oldest({i \in RowId : \A j \in Used : j < i}, n)

\* The rows of new added to a table in some order.  FALSE when the ids run out:
\* a bound of the model.
Insert(table, new) ==
    /\ Cardinality(NextIds(Cardinality(new))) = Cardinality(new)
    /\ \E place \in Bijection(new, NextIds(Cardinality(new))) :
           rows' = [i \in RowId |->
                       IF i \in NextIds(Cardinality(new))
                       THEN CHOOSE row \in new : place[row] = i
                       ELSE table[i]]

\* Mutant: one conflict drops the whole insert.
MissingAllOrNone(q, refs) ==
    IF \A i \in Used : rows[i].req = q => rows[i].ref \notin refs THEN refs ELSE {}

\* What add_bulk_ignore_conflicts inserts for a request: a reference that has
\* an original (non-retry) row for the request is skipped.
Missing(q, refs) ==
    {r \in refs : \A i \in Used : rows[i].req # q \/ rows[i].ref # r
                                                   \/ rows[i].retryOf # 0}

CreatePending(q, refs, b) ==
    Insert(rows, {NewRow(q, r, b, 0) : r \in Missing(q, refs)})

-----------------------------------------------------------------------------
Init ==
    /\ rows = [i \in RowId |-> NoRow]
    /\ robotOf = [b \in Batch |-> None]
    /\ lapsed = {}
    /\ request = [q \in Request |-> NoRequest]
    /\ call = [c \in Caller |-> NoCall]
    /\ imports = [b \in Batch |-> 0]
    /\ scans = [q \in Request |-> 0]
    /\ task = [w \in Worker |-> NoTask]
    /\ stored = [i \in RowId |-> 0]
    /\ indexed = {}
    /\ crashes = 0
    /\ lockLosses = 0

-----------------------------------------------------------------------------
(* Requests *)

\* register_reference_enhancement_request: a request for listed references.
RequestList(q, refs, b) ==
    /\ request[q] = NoRequest
    /\ request' = [request EXCEPT ![q].robot = b]
    /\ CreatePending(q, refs, b)
    /\ UNCHANGED <<robotOf, lapsed, call, imports, scans, task, stored, indexed,
                   crashes, lockLosses>>

\* request_search_enhancement stores the request; the scan is enqueued next.
RequestSearch(c, q, b) ==
    /\ call[c] = NoCall
    /\ request[q] = NoRequest
    /\ request' = [request EXCEPT ![q] = [robot |-> b, search |-> "PENDING"]]
    /\ call' = [call EXCEPT ![c].at = "queueScan", ![c].req = q]
    /\ UNCHANGED <<rows, robotOf, lapsed, imports, scans, task, stored, indexed,
                   crashes, lockLosses>>

QueueScan(c) ==
    /\ call[c].at = "queueScan"
    /\ scans' = [scans EXCEPT ![call[c].req] = @ + 1]
    /\ call' = [call EXCEPT ![c] = NoCall]
    /\ UNCHANGED <<rows, robotOf, lapsed, request, imports, task, stored,
                   indexed, crashes, lockLosses>>

\* The broker refuses the message: the handler marks the search FAILED.
QueueScanFails(c) ==
    /\ call[c].at = "queueScan"
    /\ request' = [request EXCEPT ![call[c].req].search = "FAILED"]
    /\ call' = [call EXCEPT ![c] = NoCall]
    /\ UNCHANGED <<rows, robotOf, lapsed, imports, scans, task, stored, indexed,
                   crashes, lockLosses>>

-----------------------------------------------------------------------------
(* Leases *)

\* Rows a claim of another handler has locked.
Claimed == UNION {call[c].rows : c \in {d \in Caller : call[d].at = "claim"}}

\* Mutant: the rows are read without locks.
AvailableUnlocked(b) ==
    {i \in Used : /\ rows[i].robot = b /\ rows[i].batch = 0
                  /\ rows[i].status = "PENDING"}

\* find_available_for_robot, before its limit
Available(b) ==
    {i \in Used : /\ rows[i].robot = b /\ rows[i].batch = 0
                  /\ rows[i].status = "PENDING" /\ i \notin Claimed}

\* One row per reference, the oldest: the rest wait for another batch.
OnePerReference(ids) ==
    {i \in ids : \A j \in ids : j < i => rows[j].ref # rows[i].ref}

\* claim_and_create_robot_enhancement_batch up to the upload of the reference
\* data: the rows are locked and checked, the update is not yet committed.
Claim(c, b) ==
    /\ call[c] = NoCall
    /\ Available(b) # {}
    /\ call' = [call EXCEPT ![c].at = "claim", ![c].robot = b,
                            ![c].rows = Oldest(Available(b), ClaimLimit)]
    /\ UNCHANGED <<rows, robotOf, lapsed, request, imports, scans, task, stored,
                   indexed, crashes, lockLosses>>

\* The commit: a new batch, leased from now on.
ClaimCommit(c) ==
    LET mine == OnePerReference(call[c].rows)
    IN  /\ call[c].at = "claim"
        /\ \E b \in Batch :
              /\ robotOf[b] = None
              /\ \A d \in Batch : d < b => robotOf[d] # None
              /\ rows' = [i \in RowId |->
                             IF i \in mine
                             THEN [rows[i] EXCEPT !.status = "PROCESSING", !.batch = b]
                             ELSE rows[i]]
              /\ robotOf' = [robotOf EXCEPT ![b] = call[c].robot]
        /\ call' = [call EXCEPT ![c] = NoCall]
        /\ UNCHANGED <<lapsed, request, imports, scans, task, stored, indexed,
                       crashes, lockLosses>>

\* The upload fails: rolled back, the rows are available again.
ClaimFails(c) ==
    /\ call[c].at = "claim"
    /\ call' = [call EXCEPT ![c] = NoCall]
    /\ UNCHANGED <<rows, robotOf, lapsed, request, imports, scans, task, stored,
                   indexed, crashes, lockLosses>>

Leased(b) == {i \in RowsOf(b) : rows[i].status = "PROCESSING"}

\* Time passes: the lease of a batch ends.
Lapse(b) ==
    /\ Leased(b) # {}
    /\ b \notin lapsed
    /\ lapsed' = lapsed \cup {b}
    /\ UNCHANGED <<rows, robotOf, request, call, imports, scans, task, stored,
                   indexed, crashes, lockLosses>>

\* renew_robot_enhancement_batch_lease: only rows still PROCESSING.
Renew(b) ==
    /\ Leased(b) # {}
    /\ b \in lapsed
    /\ lapsed' = lapsed \ {b}
    /\ UNCHANGED <<rows, robotOf, request, call, imports, scans, task, stored,
                   indexed, crashes, lockLosses>>

\* get_retry_depths: the retries that precede a row.
Depth[i \in RowId] ==
    IF rows[i].retryOf = 0 THEN 0 ELSE 1 + Depth[rows[i].retryOf]

\* Mutant: one retry too many.
RetriedOnceMore(ids) == {i \in ids : Depth[i] <= MaxRetryCount}

\* The expired rows create_retry_pending_enhancements replaces.
Retried(ids) == {i \in ids : Depth[i] < MaxRetryCount}

\* expire_and_replace_stale_pending_enhancements, one transaction: rows another
\* transaction has locked are skipped.
Expire ==
    LET past == UNION {Leased(b) : b \in lapsed}
    IN  \E ids \in SUBSET past :
            /\ ids # {}
            /\ Cardinality(ids) <= ExpireLimit
            /\ Insert(Moved(ids, "EXPIRED"),
                      {NewRow(rows[i].req, rows[i].ref, rows[i].robot, i) :
                         i \in Retried(ids)})
            /\ UNCHANGED <<robotOf, lapsed, request, call, imports, scans, task,
                           stored, indexed, crashes, lockLosses>>

-----------------------------------------------------------------------------
(* The robot's answer *)

\* fulfill_robot_enhancement_batch with results: the rows of the batch are read
\* and checked (a failed check is a 422 and changes nothing).
AcceptCheck(c, b) ==
    /\ call[c] = NoCall
    /\ CanMove(RowsOf(b), "IMPORTING")
    /\ call' = [call EXCEPT ![c].at = "accept", ![c].rows = RowsOf(b),
                            ![c].batch = b]
    /\ UNCHANGED <<rows, robotOf, lapsed, request, imports, scans, task, stored,
                   indexed, crashes, lockLosses>>

AcceptWrite(c) ==
    /\ call[c].at = "accept"
    /\ rows' = Moved(call[c].rows, "IMPORTING")
    /\ call' = [call EXCEPT ![c].at = "queueImport"]
    /\ UNCHANGED <<robotOf, lapsed, request, imports, scans, task, stored,
                   indexed, crashes, lockLosses>>

QueueImport(c) ==
    /\ call[c].at = "queueImport"
    /\ imports' = [imports EXCEPT ![call[c].batch] = @ + 1]
    /\ call' = [call EXCEPT ![c] = NoCall]
    /\ UNCHANGED <<rows, robotOf, lapsed, request, scans, task, stored, indexed,
                   crashes, lockLosses>>

\* fulfill_robot_enhancement_batch with an error, in
\* mark_robot_enhancement_batch_failed.
RejectCheck(c, b) ==
    /\ call[c] = NoCall
    /\ CanMove(RowsOf(b), "FAILED")
    /\ call' = [call EXCEPT ![c].at = "reject", ![c].rows = RowsOf(b),
                            ![c].batch = b]
    /\ UNCHANGED <<rows, robotOf, lapsed, request, imports, scans, task, stored,
                   indexed, crashes, lockLosses>>

RejectWrite(c) ==
    /\ call[c].at = "reject"
    /\ rows' = Moved(RowsOf(call[c].batch), "FAILED")
    /\ call' = [call EXCEPT ![c] = NoCall]
    /\ UNCHANGED <<robotOf, lapsed, request, imports, scans, task, stored,
                   indexed, crashes, lockLosses>>

\* A handler dies between the commit and the message, or its enqueue fails.
EnqueueLost(c) ==
    /\ call[c].at \in {"queueScan", "queueImport"}
    /\ crashes < MaxCrashes
    /\ crashes' = crashes + 1
    /\ call' = [call EXCEPT ![c] = NoCall]
    /\ UNCHANGED <<rows, robotOf, lapsed, request, imports, scans, task, stored,
                   indexed, lockLosses>>

-----------------------------------------------------------------------------
(* The search task *)

\* claim_search_request: a search PENDING or already SEARCHING is scanned.
TakeScan(w, q) ==
    /\ task[w] = NoTask
    /\ scans[q] > 0
    /\ scans' = [scans EXCEPT ![q] = @ - 1]
    /\ \/ /\ request[q].search \in {"PENDING", "SEARCHING"}
          /\ request' = [request EXCEPT ![q].search = "SEARCHING"]
          /\ task' = [task EXCEPT ![w] =
                         [NoTask EXCEPT !.at = "scan", !.locked = TRUE,
                                        !.req = q, !.todo = Matching]]
       \/ /\ request[q].search \notin {"PENDING", "SEARCHING"}
          /\ UNCHANGED <<request, task>>
    /\ UNCHANGED <<rows, robotOf, lapsed, call, imports, stored, indexed,
                   crashes, lockLosses>>

\* A page of hits, in a transaction of its own.
ScanPage(w) ==
    /\ task[w].at = "scan"
    /\ \E page \in (SUBSET task[w].todo) \ {{}} :
           /\ CreatePending(task[w].req, page, request[task[w].req].robot)
           /\ task' = [task EXCEPT ![w].todo = @ \ page]
    /\ UNCHANGED <<robotOf, lapsed, request, call, imports, scans, stored,
                   indexed, crashes, lockLosses>>

\* complete_search_enhancement_request and fail_search_enhancement_request
ScanEnds(w, status) ==
    /\ task[w].at = "scan"
    /\ status = "COMPLETED" => task[w].todo = {}
    /\ request' = [request EXCEPT ![task[w].req].search = status]
    /\ task' = [task EXCEPT ![w] = NoTask]
    /\ UNCHANGED <<rows, robotOf, lapsed, call, imports, scans, stored, indexed,
                   crashes, lockLosses>>

-----------------------------------------------------------------------------
(* The import task *)

\* validate_and_import_robot_enhancement_batch_result loads the batch's rows.
TakeImport(w, b) ==
    /\ task[w] = NoTask
    /\ imports[b] > 0
    /\ imports' = [imports EXCEPT ![b] = @ - 1]
    /\ task' = [task EXCEPT ![w] =
                   [NoTask EXCEPT !.at = "import", !.locked = TRUE,
                                  !.batch = b, !.rows = RowsOf(b)]]
    /\ UNCHANGED <<rows, robotOf, lapsed, request, call, scans, stored, indexed,
                   crashes, lockLosses>>

\* Mutant: answers are added without comparing them.
AddableAlways(ids) == ids

\* Rows whose answer _add_enhancement may add: no equal one is on the reference.
Addable(ids) == {i \in ids : stored[i] = 0}

\* Mutant: rows without an answer are left alone.
CategorisedAnswered(t, ok, discarded) ==
    [t EXCEPT !.at = "stored", !.ok = ok, !.discarded = discarded]

\* _categorize_pending_enhancements: an answer was added, or it is on the
\* reference already, or the row failed (an error, an invalid line, no line).
Categorised(t, ok, discarded) ==
    [t EXCEPT !.at = "stored", !.ok = ok, !.discarded = discarded,
              !.failed = t.rows \ (ok \cup discarded)]

\* The result file is read and each answer added, not yet committed.  An answer
\* equal to one from elsewhere is discarded too.
ReadResults(w) ==
    /\ task[w].at = "import"
    /\ \E ok \in SUBSET Addable(task[w].rows) :
          \E discarded \in SUBSET (task[w].rows \ ok) :
              task' = [task EXCEPT ![w] = Categorised(@, ok, discarded)]
    /\ UNCHANGED <<rows, robotOf, lapsed, request, call, imports, scans, stored,
                   indexed, crashes, lockLosses>>

CommitResults(w) ==
    /\ task[w].at = "stored"
    /\ stored' = [i \in RowId |-> IF i \in task[w].ok THEN stored[i] + 1
                                  ELSE stored[i]]
    /\ task' = [task EXCEPT ![w].at = "failed"]
    /\ UNCHANGED <<rows, robotOf, lapsed, request, call, imports, scans,
                   indexed, crashes, lockLosses>>

\* An exception while importing: rolled back, and the batch is marked failed.
AbortImport(w) ==
    /\ task[w].at \in {"import", "stored"}
    /\ task' = [task EXCEPT ![w].at = "aborted"]
    /\ UNCHANGED <<rows, robotOf, lapsed, request, call, imports, scans, stored,
                   indexed, crashes, lockLosses>>

\* The status updates of the task: what each writes, to which rows, and what
\* follows it.
NewStatus ==
    [aborted      |-> "FAILED",
     failed       |-> "FAILED",
     discarded    |-> "DISCARDED",
     indexing     |-> "INDEXING",
     completed    |-> "COMPLETED",
     indexFailed  |-> "INDEXING_FAILED"]

Target(t) ==
    CASE t.at = "aborted"   -> RowsOf(t.batch)
      [] t.at = "failed"    -> t.failed
      [] t.at = "discarded" -> t.discarded
      [] OTHER              -> t.ok

Following ==
    [failed       |-> "discarded",
     discarded    |-> "indexing",
     indexing     |-> "index",
     completed    |-> "automate",
     indexFailed  |-> "automate"]

\* The task has returned or raised; its message is not yet acknowledged.
Ended(t) == [NoTask EXCEPT !.at = "done", !.locked = t.locked,
                           !.batch = t.batch]

Advanced(t) ==
    IF t.at = "aborted" THEN Ended(t)
    ELSE [t EXCEPT !.at = Following[t.at], !.checked = FALSE]

\* update_pending_enhancements_status: the check; without rows there is nothing
\* to update.  A failed check raises, which ends the task, except that after
\* indexing it leads to INDEXING_FAILED.
CheckStatus(w) ==
    LET t == task[w]
    IN  /\ t.at \in DOMAIN NewStatus
        /\ ~t.checked
        /\ task' = [task EXCEPT ![w] =
               CASE Target(t) = {} -> Advanced(t)
                 [] Target(t) # {} /\ CanMove(Target(t), NewStatus[t.at])
                      -> [t EXCEPT !.checked = TRUE]
                 [] OTHER
                      -> IF t.at = "completed" THEN [t EXCEPT !.at = "indexFailed"]
                         ELSE Ended(t)]
        /\ UNCHANGED <<rows, robotOf, lapsed, request, call, imports, scans,
                       stored, indexed, crashes, lockLosses>>

\* update_pending_enhancements_status: the update.
WriteStatus(w) ==
    LET t == task[w]
    IN  /\ t.at \in DOMAIN NewStatus
        /\ t.checked
        /\ rows' = Moved(Target(t), NewStatus[t.at])
        /\ task' = [task EXCEPT ![w] = Advanced(t)]
        /\ UNCHANGED <<robotOf, lapsed, request, call, imports, scans, stored,
                       indexed, crashes, lockLosses>>

\* index_references over every reference of the batch: their documents hold all
\* that is stored on them.
Index(w) ==
    /\ task[w].at = "index"
    /\ indexed' = indexed \cup
           {i \in Used : stored[i] > 0 /\ \E j \in task[w].rows :
                                            rows[j].ref = rows[i].ref}
    /\ task' = [task EXCEPT ![w].at = "completed"]
    /\ UNCHANGED <<rows, robotOf, lapsed, request, call, imports, scans, stored,
                   crashes, lockLosses>>

\* index_references raises.
IndexFails(w) ==
    /\ task[w].at = "index"
    /\ task' = [task EXCEPT ![w].at = "indexFailed"]
    /\ UNCHANGED <<rows, robotOf, lapsed, request, call, imports, scans, stored,
                   indexed, crashes, lockLosses>>

\* detect_and_dispatch_robot_automations: rows for the other robots whose
\* automations match the added answers.  They have a source and no request, so
\* the unique index never skips one.
Automate(w) ==
    /\ task[w].at = "automate"
    /\ \E matches \in SUBSET ((Robot \ {robotOf[task[w].batch]})
                               \X {rows[i].ref : i \in task[w].ok}) :
           Insert(rows, {NewRow(None, m[2], m[1], 0) : m \in matches})
    /\ task' = [task EXCEPT ![w] = Ended(@)]
    /\ UNCHANGED <<robotOf, lapsed, request, call, imports, scans, stored,
                   indexed, crashes, lockLosses>>

\* The message of the task is acknowledged.
Finish(w) ==
    /\ task[w].at = "done"
    /\ task' = [task EXCEPT ![w] = NoTask]
    /\ UNCHANGED <<rows, robotOf, lapsed, request, call, imports, scans, stored,
                   indexed, crashes, lockLosses>>

-----------------------------------------------------------------------------
(* Workers fail, locks are lost: the message of the task is delivered again. *)

PutBack(t) ==
    /\ imports' = [b \in Batch |-> IF t.batch = b THEN imports[b] + 1
                                   ELSE imports[b]]
    /\ scans' = [q \in Request |-> IF t.req = q THEN scans[q] + 1 ELSE scans[q]]

Crash(w) ==
    /\ task[w] # NoTask
    /\ crashes < MaxCrashes
    /\ crashes' = crashes + 1
    /\ task' = [task EXCEPT ![w] = NoTask]
    /\ IF task[w].locked THEN PutBack(task[w]) ELSE UNCHANGED <<imports, scans>>
    /\ UNCHANGED <<rows, robotOf, lapsed, request, call, stored, indexed,
                   lockLosses>>

LoseLock(w) ==
    /\ task[w].locked
    /\ lockLosses < MaxLockLosses
    /\ lockLosses' = lockLosses + 1
    /\ task' = [task EXCEPT ![w].locked = FALSE]
    /\ PutBack(task[w])
    /\ UNCHANGED <<rows, robotOf, lapsed, request, call, stored, indexed,
                   crashes>>

-----------------------------------------------------------------------------
CallStep(c) ==
    \/ QueueScan(c) \/ QueueScanFails(c)
    \/ ClaimCommit(c) \/ ClaimFails(c)
    \/ AcceptWrite(c) \/ QueueImport(c) \/ RejectWrite(c)

TaskStep(w) ==
    \/ \E q \in Request : TakeScan(w, q)
    \/ ScanPage(w)
    \/ \E status \in {"COMPLETED", "FAILED"} : ScanEnds(w, status)
    \/ \E b \in Batch : TakeImport(w, b)
    \/ ReadResults(w) \/ CommitResults(w) \/ AbortImport(w)
    \/ CheckStatus(w) \/ WriteStatus(w)
    \/ Index(w) \/ IndexFails(w)
    \/ Automate(w) \/ Finish(w)

Next ==
    \/ \E q \in Request, b \in Robot :
           \E refs \in (SUBSET Reference) \ {{}} : RequestList(q, refs, b)
    \/ \E c \in Caller, q \in Request, b \in Robot : RequestSearch(c, q, b)
    \/ \E c \in Caller, b \in Robot : Claim(c, b)
    \/ \E c \in Caller, b \in BatchesMade : AcceptCheck(c, b)
    \/ \E c \in Caller, b \in BatchesMade : RejectCheck(c, b)
    \/ \E c \in Caller : CallStep(c)
    \/ \E b \in Batch : Lapse(b)
    \/ \E b \in Batch : Renew(b)
    \/ Expire
    \/ \E w \in Worker : TaskStep(w)
    \/ \E c \in Caller : EnqueueLost(c)
    \/ \E w \in Worker : Crash(w)
    \/ \E w \in Worker : LoseLock(w)

Spec == Init /\ [][Next]_vars

\* Handlers finish their calls, workers run and take tasks, and the expiry job
\* runs on its schedule.  Requests, robots and faults are not owed.
Fairness ==
    /\ \A c \in Caller : WF_vars(CallStep(c))
    /\ \A w \in Worker : WF_vars(TaskStep(w))
    /\ WF_vars(Expire)

FairSpec == Spec /\ Fairness

-----------------------------------------------------------------------------
(* Properties *)

\* Every variable keeps its type, and a batch belongs to the robot of its rows.
TypeOK ==
    /\ rows \in [RowId -> Row]
    /\ robotOf \in [Batch -> Robot \cup {None}]
    /\ lapsed \subseteq Batch
    /\ request \in [Request -> [robot : Robot \cup {None}, search : SearchStatus]]
    /\ call \in [Caller -> Call]
    /\ imports \in [Batch -> Nat]
    /\ scans \in [Request -> Nat]
    /\ task \in [Worker -> Task]
    /\ stored \in [RowId -> Nat]
    /\ indexed \subseteq RowId
    /\ crashes \in 0..MaxCrashes
    /\ lockLosses \in 0..MaxLockLosses
    /\ \A i \in RowId : rows[i].batch # 0 => robotOf[rows[i].batch] = rows[i].robot

\* Concurrent replicas of a robot never claim the same pending enhancement:
\* once a row is in a batch it stays in that batch.
BatchKept ==
    \A i \in RowId : rows[i].batch # 0 => rows'[i].batch = rows[i].batch
ClaimedOnce == [][BatchKept]_vars

\* An expired row is replaced exactly once while retries are left and never
\* after, and no chain of retries is longer than max_retry_count.
ExpiredReplaced ==
    \A i \in Used :
        /\ Depth[i] <= MaxRetryCount
        /\ rows[i].status = "EXPIRED" =>
              IF Depth[i] < MaxRetryCount
              THEN \E j \in Used : \A k \in Used : rows[k].retryOf = i <=> k = j
              ELSE \A k \in Used : rows[k].retryOf # i

\* Row i asks for reference r in request q, and is no retry.
Original(i, q, r) ==
    /\ rows[i].status # "ABSENT" /\ rows[i].retryOf = 0
    /\ rows[i].req = q /\ rows[i].ref = r

\* A search that COMPLETED has requested every match, each exactly once,
\* whatever scans of it were cut short, repeated or ran side by side.
SearchCovered ==
    \A q \in Request : request[q].search = "COMPLETED" =>
        \A r \in Matching :
            \E i \in RowId : \A j \in RowId : Original(j, q, r) <=> j = i

\* A row reported COMPLETED has its answer on the reference, once, and in the
\* index; a redelivered or repeated import stores no answer again.
CompletedIsSearchable ==
    \A i \in RowId :
        /\ stored[i] <= 1
        /\ rows[i].status = "COMPLETED" => stored[i] = 1 /\ i \in indexed

OnItsWay(i) == rows[i].status \in {"IMPORTING", "INDEXING"}

\* The batch of row i has other rows too.
Shared(i) == rows[i].batch # 0 /\ RowsOf(rows[i].batch) # {i}

\* Two calls submit the answer to batch b, or two imports of it run, at once.
Overlap(b) ==
    \/ \E c, d \in Caller : c # d /\ call[c].batch = b /\ call[d].batch = b
    \/ \E v, w \in Worker : v # w /\ task[v].batch = b /\ task[w].batch = b

\* No row is left on its way.  Accepted results are settled, unless a message
\* or a worker is lost: a row that is alone in its batch does not stay IMPORTING
\* or INDEXING, though its import is queued twice or delivered again beside the
\* first; nor does a row that shares its batch, unless the batch is worked on
\* twice at once (the guard refuses an update for all rows when one has moved,
\* so two imports can stop each other).  And whatever is lost, a row whose
\* lease is over does not stay PROCESSING unless it is renewed.
NoRowIsStuck ==
    \A i \in RowId :
        /\ \/ <>(crashes > 0)
           \/ <>(Shared(i) /\ Overlap(rows[i].batch))
           \/ OnItsWay(i) ~> ~OnItsWay(i)
        /\ rows[i].status = "PROCESSING" /\ rows[i].batch \in lapsed
              ~> rows[i].status # "PROCESSING" \/ rows[i].batch \notin lapsed

\* A status changes only along the transition table; the final ones never do.
StatusDiagram ==
    [][\A i \in Used :
          rows'[i].status # rows[i].status
              => rows'[i].status \in Transitions[rows[i].status]]_vars

=============================================================================
