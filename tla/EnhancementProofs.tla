------------------------- MODULE EnhancementProofs -------------------------
(***************************************************************************)
(* Pending enhancements keep their types, and no row is ever claimed for   *)
(* two batches, whatever the number of handlers, workers, robots and rows. *)
(*                                                                         *)
(* ClaimedOnce is not inductive as it stands.  What keeps it are the locks *)
(* a claim holds between its SELECT and its commit: the rows it locked are *)
(* in no batch, and the rows of two claims are apart (LeaseInv).           *)
(*                                                                         *)
(* On top of it: a completed search has asked for every match once         *)
(* (CoverInv), a row reported COMPLETED is answered (HoldInv), and a row   *)
(* that expired is replaced once while retries are left (RetryInv).        *)
(***************************************************************************)
EXTENDS PendingEnhancements, TLAPS

-----------------------------------------------------------------------------
(* The inductive invariant *)

\* A row in a batch is in use and is a robot's.
BatchedNamed ==
    \A i \in RowId : rows[i].batch # 0 => /\ rows[i].status # "ABSENT"
                                          /\ rows[i].robot \in Robot

\* A scan has a request.
ScanNamed == \A w \in Worker : task[w].at = "scan" => task[w].req \in Request

\* The rows a claim has locked are rows of its robot in no batch yet.
ClaimHeld ==
    \A c \in Caller : call[c].at = "claim" =>
        /\ call[c].robot \in Robot
        /\ \A i \in call[c].rows : /\ rows[i].status # "ABSENT"
                                   /\ rows[i].batch = 0
                                   /\ rows[i].robot = call[c].robot

\* Two claims lock different rows.
ClaimApart ==
    \A c, d \in Caller :
        c # d /\ call[c].at = "claim" /\ call[d].at = "claim"
            => call[c].rows \cap call[d].rows = {}

LeaseInv == TypeOK /\ BatchedNamed /\ ScanNamed /\ ClaimHeld /\ ClaimApart

-----------------------------------------------------------------------------
(* Rows from step to step *)

\* Every row is still in its batch, or was added under an unused id.
Grown ==
    /\ rows' \in [RowId -> Row]
    /\ \A i \in RowId :
          \/ /\ rows'[i].batch = rows[i].batch /\ rows'[i].robot = rows[i].robot
             /\ rows'[i].status = "ABSENT" => rows[i].status = "ABSENT"
          \/ /\ rows[i].status = "ABSENT"
             /\ rows'[i].batch = 0 /\ rows'[i].status = "PENDING"

\* A status update changes nothing else.
LEMMA MovedRows ==
    ASSUME rows \in [RowId -> Row], NEW ids, NEW s \in Status
    PROVE  /\ Moved(ids, s) \in [RowId -> Row]
           /\ \A i \in RowId :
                 /\ Moved(ids, s)[i].batch = rows[i].batch
                 /\ Moved(ids, s)[i].robot = rows[i].robot
                 /\ Moved(ids, s)[i].status = "ABSENT" => rows[i].status = "ABSENT"
  BY DEF Moved, Row, Status, Transitions

\* The rows of new are added under ids that were not in use, each once.
Inserted(table, new, ids) ==
    /\ \A i \in ids : rows[i].status = "ABSENT" /\ rows'[i] \in new
    /\ \A i \in RowId \ ids : rows'[i] = table[i]
    /\ \A row \in new : \E i \in ids : rows'[i] = row
    /\ \A i, j \in ids : rows'[i] = rows'[j] => i = j

\* An insert adds each of its rows.
LEMMA InsertExact ==
    ASSUME NEW table, NEW new, Insert(table, new)
    PROVE  \E ids \in SUBSET RowId : Inserted(table, new, ids)
  <1> DEFINE ids == NextIds(Cardinality(new))
  <1>1. PICK place \in Bijection(new, ids) :
            rows' = [i \in RowId |-> IF i \in ids THEN CHOOSE row \in new : place[row] = i
                                     ELSE table[i]]
    BY Zenon DEF Insert
  <1>2. /\ \A i \in ids : \E row \in new : place[row] = i
        /\ \A row \in new : place[row] \in ids
        /\ \A x, y \in new : place[x] = place[y] => x = y
    BY <1>1, Zenon DEF Bijection, Surjection, Injection, IsInjective
  <1>3. ids \subseteq {i \in RowId : \A j \in Used : j < i}
    BY Zenon DEF NextIds, Oldest
  <1>4. \A i \in ids : i \notin Used
    BY <1>3 DEF RowId
  <1>5. ASSUME NEW i \in ids PROVE rows'[i] \in new /\ place[rows'[i]] = i
    <2>1. rows'[i] = CHOOSE row \in new : place[row] = i
      BY <1>1, <1>3, Zenon
    <2> HIDE DEF ids
    <2> QED BY <2>1, <1>2, Zenon
  <1>6. \A i \in RowId \ ids : rows'[i] = table[i]
    BY <1>1, Zenon
  <1>7. ids \in SUBSET RowId /\ \A i \in ids : rows[i].status = "ABSENT"
    BY <1>3, <1>4, Zenon DEF Used
  <1> HIDE DEF ids
  <1>8. \A row \in new : \E i \in ids : rows'[i] = row
    BY <1>2, <1>5, Zenon
  <1>9. \A i, j \in ids : rows'[i] = rows'[j] => i = j
    BY <1>5, Zenon
  <1> QED BY <1>5, <1>6, <1>7, <1>8, <1>9, Zenon DEF Inserted

\* An insert adds its rows under unused ids.
LEMMA InsertRows ==
    ASSUME NEW table \in [RowId -> Row], NEW new \in SUBSET Row,
           Insert(table, new)
    PROVE  /\ rows' \in [RowId -> Row]
           /\ \A i \in RowId : \/ rows'[i] = table[i]
                               \/ rows[i].status = "ABSENT" /\ rows'[i] \in new
  <1>1. PICK ids \in SUBSET RowId : Inserted(table, new, ids)
    BY InsertExact, Zenon
  <1>2. \A i \in RowId : rows'[i] \in Row
    BY <1>1, Zenon DEF Inserted
  <1>3. PICK place : rows' = [i \in RowId |-> IF i \in NextIds(Cardinality(new))
                                             THEN CHOOSE row \in new : place[row] = i
                                             ELSE table[i]]
    BY Zenon DEF Insert
  <1>4. rows' \in [RowId -> Row]
    BY <1>2, <1>3, Zenon
  <1> QED BY <1>1, <1>4, Zenon DEF Inserted

\* What is inserted by the actions are new rows.
LEMMA InsertGrown ==
    ASSUME rows \in [RowId -> Row],
           NEW table \in [RowId -> Row], NEW new \in SUBSET Row,
           \A row \in new : row.batch = 0 /\ row.status = "PENDING",
           \A i \in RowId :
              /\ table[i].batch = rows[i].batch /\ table[i].robot = rows[i].robot
              /\ table[i].status = "ABSENT" => rows[i].status = "ABSENT",
           Insert(table, new)
    PROVE  Grown
  BY InsertRows, Zenon DEF Grown

\* The rows a request asks for are rows.
LEMMA CreateGrown ==
    ASSUME rows \in [RowId -> Row], NEW q \in Request, NEW b \in Robot \cup {None},
           NEW refs \in SUBSET Reference, CreatePending(q, refs, b)
    PROVE  Grown
  <1> DEFINE new == {NewRow(q, r, b, 0) : r \in Missing(q, refs)}
  <1>1. Missing(q, refs) \subseteq Reference
    BY Zenon DEF Missing
  <1>2. new \in SUBSET Row
    BY <1>1 DEF NewRow, Row, Status, Transitions
  <1>3. \A row \in new : row.batch = 0 /\ row.status = "PENDING"
    BY DEF NewRow
  <1>4. Insert(rows, new)
    BY Zenon DEF CreatePending
  <1> HIDE DEF new
  <1> QED BY <1>2, <1>3, <1>4, InsertGrown, Zenon

\* Every step but the commit of a claim leaves the rows in their batches.
LEMMA RowsStep ==
    ASSUME TypeOK, ScanNamed, [Next]_vars
    PROVE  \/ Grown /\ UNCHANGED robotOf
           \/ \E c \in Caller : ClaimCommit(c)
  <1> USE DEF TypeOK
  <1>1. ASSUME UNCHANGED <<rows, robotOf>> PROVE Grown /\ UNCHANGED robotOf
    BY <1>1, Zenon DEF Grown
  <1>2. ASSUME NEW ids, NEW s \in Status, rows' = Moved(ids, s) PROVE Grown
    BY <1>2, MovedRows DEF Grown
  <1>3. ASSUME NEW q \in Request, NEW b \in Robot, NEW refs \in SUBSET Reference,
               RequestList(q, refs, b)
        PROVE  Grown /\ UNCHANGED robotOf
    BY <1>3, CreateGrown, Zenon DEF RequestList
  <1>4. ASSUME Expire PROVE Grown /\ UNCHANGED robotOf
    <2>1. PICK ids \in SUBSET UNION {Leased(b) : b \in lapsed} :
              Insert(Moved(ids, "EXPIRED"),
                     {NewRow(rows[i].req, rows[i].ref, rows[i].robot, i) :
                        i \in Retried(ids)})
      BY <1>4, Zenon DEF Expire
    <2> DEFINE new == {NewRow(rows[i].req, rows[i].ref, rows[i].robot, i) :
                         i \in Retried(ids)}
    <2>2. ids \subseteq RowId
      BY <2>1 DEF Leased, RowsOf, Used
    <2>3. Retried(ids) \subseteq RowId
      BY <2>2, Zenon DEF Retried
    <2>4. new \in SUBSET Row
      BY <2>3 DEF NewRow, Row, Status, Transitions
    <2>5. \A row \in new : row.batch = 0 /\ row.status = "PENDING"
      BY DEF NewRow
    <2>6. "EXPIRED" \in Status
      BY Zenon DEF Status, Transitions
    <2>7. Insert(Moved(ids, "EXPIRED"), new)
      BY <2>1, Zenon
    <2> HIDE DEF new
    <2> QED BY <1>4, <2>4, <2>5, <2>6, <2>7, MovedRows, InsertGrown DEF Expire
  <1>5. ASSUME NEW w \in Worker, ScanPage(w) PROVE Grown /\ UNCHANGED robotOf
    <2>1. task[w].req \in Request /\ task[w].todo \subseteq Reference
      BY <1>5, Zenon DEF ScanPage, ScanNamed, Task
    <2>2. request[task[w].req].robot \in Robot \cup {None}
      BY <2>1, Zenon
    <2> QED BY <1>5, <2>1, <2>2, CreateGrown, Zenon DEF ScanPage
  <1>6. ASSUME NEW w \in Worker, Automate(w) PROVE Grown /\ UNCHANGED robotOf
    <2> DEFINE Reach == (Robot \ {robotOf[task[w].batch]})
                            \X {rows[i].ref : i \in task[w].ok}
    <2>1. PICK matches \in SUBSET Reach :
              Insert(rows, {NewRow(None, m[2], m[1], 0) : m \in matches})
      BY <1>6, Zenon DEF Automate
    <2> DEFINE new == {NewRow(None, m[2], m[1], 0) : m \in matches}
    <2>2. task[w].ok \subseteq RowId
      BY Zenon DEF Task
    <2>3. \A m \in matches : m[1] \in Robot /\ m[2] \in Reference \cup {None}
      BY <2>1, <2>2 DEF Row
    <2>4. new \in SUBSET Row
      BY <2>3 DEF NewRow, Row, Status, Transitions
    <2>5. \A row \in new : row.batch = 0 /\ row.status = "PENDING"
      BY DEF NewRow
    <2>6. Insert(rows, new)
      BY <2>1, Zenon
    <2> HIDE DEF new
    <2> QED BY <1>6, <2>4, <2>5, <2>6, InsertGrown, Zenon DEF Automate
  <1>7. ASSUME NEW c \in Caller, CallStep(c), ~ClaimCommit(c)
        PROVE  Grown /\ UNCHANGED robotOf
    <2>1. "IMPORTING" \in Status /\ "FAILED" \in Status
      BY Zenon DEF Status, Transitions
    <2>2. CASE AcceptWrite(c)
      BY <2>1, <2>2, <1>2, Zenon DEF AcceptWrite
    <2>3. CASE RejectWrite(c)
      BY <2>1, <2>3, <1>2, Zenon DEF RejectWrite
    <2>4. CASE QueueScan(c) \/ QueueScanFails(c) \/ ClaimFails(c) \/ QueueImport(c)
      BY <2>4, <1>1, Zenon DEF QueueScan, QueueScanFails, ClaimFails, QueueImport
    <2> QED BY <1>7, <2>2, <2>3, <2>4, Zenon DEF CallStep
  <1>8. ASSUME NEW w \in Worker, TaskStep(w) PROVE Grown /\ UNCHANGED robotOf
    <2>1. CASE WriteStatus(w)
      <3>1. task[w].at \in DOMAIN NewStatus => NewStatus[task[w].at] \in Status
        BY DEF NewStatus, Status, Transitions
      <3> QED BY <2>1, <3>1, <1>2, Zenon DEF WriteStatus
    <2>2. CASE \/ \E q \in Request : TakeScan(w, q)
               \/ \E status \in {"COMPLETED", "FAILED"} : ScanEnds(w, status)
               \/ \E b \in Batch : TakeImport(w, b)
               \/ ReadResults(w) \/ CommitResults(w) \/ AbortImport(w)
               \/ CheckStatus(w) \/ Index(w) \/ IndexFails(w) \/ Finish(w)
      BY <2>2, <1>1, Zenon DEF TakeScan, ScanEnds, TakeImport, ReadResults, CommitResults,
                        AbortImport, CheckStatus, Index, IndexFails, Finish
    <2> QED BY <1>5, <1>6, <1>8, <2>1, <2>2, Zenon DEF TaskStep
  <1>9. CASE \/ \E c \in Caller, q \in Request, b \in Robot : RequestSearch(c, q, b)
             \/ \E c \in Caller, b \in Robot : Claim(c, b)
             \/ \E c \in Caller, b \in BatchesMade : AcceptCheck(c, b)
             \/ \E c \in Caller, b \in BatchesMade : RejectCheck(c, b)
             \/ \E b \in Batch : Lapse(b)
             \/ \E b \in Batch : Renew(b)
             \/ \E c \in Caller : EnqueueLost(c)
             \/ \E w \in Worker : Crash(w)
             \/ \E w \in Worker : LoseLock(w)
             \/ UNCHANGED vars
    BY <1>9, <1>1, Zenon DEF RequestSearch, Claim, AcceptCheck, RejectCheck, Lapse, Renew,
                      EnqueueLost, Crash, LoseLock, vars
  <1> QED BY <1>3, <1>4, <1>7, <1>8, <1>9, Zenon DEF Next

-----------------------------------------------------------------------------
(* Handlers from step to step *)

\* Claims locked their rows before, or are made by Claim.
CallsKept ==
    /\ call' \in [Caller -> Call]
    /\ \A c \in Caller : call'[c] = call[c] \/ call'[c].at # "claim"

\* Only Claim makes a claim.
LEMMA CallsStep ==
    ASSUME TypeOK, [Next]_vars
    PROVE  \/ CallsKept
           \/ \E c \in Caller, b \in Robot : Claim(c, b)
  <1> USE DEF TypeOK
  <1>1. ASSUME UNCHANGED call PROVE CallsKept
    BY <1>1, Zenon DEF CallsKept
  <1>2. ASSUME NEW c \in Caller, NEW x \in Call, x.at # "claim",
               call' = [call EXCEPT ![c] = x]
        PROVE  CallsKept
    BY <1>2, Zenon DEF CallsKept
  <1>3. NoCall \in Call /\ NoCall.at # "claim"
    BY Zenon DEF NoCall, Call
  <1>4. ASSUME NEW c \in Caller, NEW q \in Request, NEW b \in Robot,
               RequestSearch(c, q, b)
        PROVE  CallsKept
    <2> DEFINE x == [call[c] EXCEPT !.at = "queueScan", !.req = q]
    <2>1. x \in Call /\ x.at # "claim"
      BY Zenon DEF Call
    <2>2. call' = [call EXCEPT ![c] = x]
      BY <1>4, Zenon DEF RequestSearch
    <2> HIDE DEF x
    <2> QED BY <2>1, <2>2, <1>2, Zenon
  <1>5. ASSUME NEW c \in Caller, NEW b \in Batch, NEW s \in {"accept", "reject"},
               call' = [call EXCEPT ![c].at = s, ![c].rows = RowsOf(b),
                                    ![c].batch = b]
        PROVE  CallsKept
    <2> DEFINE x == [call[c] EXCEPT !.at = s, !.rows = RowsOf(b), !.batch = b]
    <2>1. RowsOf(b) \subseteq RowId
      BY Zenon DEF RowsOf, Used
    <2>2. x \in Call /\ x.at # "claim"
      BY <2>1, ZenonT(30) DEF Call
    <2>3. call' = [call EXCEPT ![c] = x]
      BY <1>5, Zenon
    <2> HIDE DEF x
    <2> QED BY <2>2, <2>3, <1>2, Zenon
  <1>6. ASSUME NEW c \in Caller, CallStep(c) PROVE CallsKept
    <2>1. CASE AcceptWrite(c)
      <3> DEFINE x == [call[c] EXCEPT !.at = "queueImport"]
      <3>1. x \in Call /\ x.at # "claim"
        BY Zenon DEF Call
      <3>2. call' = [call EXCEPT ![c] = x]
        BY <2>1, Zenon DEF AcceptWrite
      <3> HIDE DEF x
      <3> QED BY <3>1, <3>2, <1>2, Zenon
    <2>2. CASE ~AcceptWrite(c)
      <3>1. call' = [call EXCEPT ![c] = NoCall]
        BY <1>6, <2>2, Zenon DEF CallStep, QueueScan, QueueScanFails, ClaimCommit,
                          ClaimFails, QueueImport, RejectWrite
      <3> QED BY <3>1, <1>2, <1>3, Zenon
    <2> QED BY <2>1, <2>2, Zenon
  <1>7. ASSUME NEW c \in Caller, EnqueueLost(c) PROVE CallsKept
    BY <1>7, <1>2, <1>3, Zenon DEF EnqueueLost
  <1>8. ASSUME NEW w \in Worker, TaskStep(w) PROVE CallsKept
    BY <1>8, <1>1, Zenon DEF TaskStep, TakeScan, ScanPage, ScanEnds, TakeImport,
                      ReadResults, CommitResults, AbortImport, CheckStatus,
                      WriteStatus, Index, IndexFails, Automate, Finish
  <1>9. ASSUME NEW c \in Caller, NEW b \in BatchesMade,
               AcceptCheck(c, b) \/ RejectCheck(c, b)
        PROVE  CallsKept
    BY <1>9, <1>5, Zenon DEF AcceptCheck, RejectCheck, BatchesMade
  <1>10. CASE \/ \E q \in Request, b \in Robot :
                    \E refs \in (SUBSET Reference) \ {{}} : RequestList(q, refs, b)
              \/ \E b \in Batch : Lapse(b)
              \/ \E b \in Batch : Renew(b)
              \/ Expire
              \/ \E w \in Worker : Crash(w)
              \/ \E w \in Worker : LoseLock(w)
              \/ UNCHANGED vars
    BY <1>10, <1>1, Zenon DEF RequestList, Lapse, Renew, Expire, Crash, LoseLock, vars
  <1> QED BY <1>4, <1>6, <1>7, <1>8, <1>9, <1>10, Zenon DEF Next

\* Claims stay sound: their rows are in no batch and apart.
LEMMA ClaimsStep ==
    ASSUME LeaseInv, [Next]_vars
    PROVE  call' \in [Caller -> Call] /\ ClaimHeld' /\ ClaimApart'
  <1>1. CASE CallsKept /\ Grown
    <2>1. ClaimHeld'
      <3>0. \A c \in Caller : call'[c].at = "claim" => call'[c].robot \in Robot
        BY <1>1, Zenon DEF CallsKept, LeaseInv, ClaimHeld
      <3> SUFFICES ASSUME NEW c \in Caller, call'[c].at = "claim",
                          NEW i \in call'[c].rows
                   PROVE  /\ rows'[i].status # "ABSENT" /\ rows'[i].batch = 0
                          /\ rows'[i].robot = call'[c].robot
        BY <3>0, Zenon DEF ClaimHeld
      <3>1. call'[c] = call[c] /\ i \in RowId
        BY <1>1, Zenon DEF CallsKept, Call
      <3>2. /\ rows[i].status # "ABSENT" /\ rows[i].batch = 0
            /\ rows[i].robot = call[c].robot
        BY <3>1, Zenon DEF LeaseInv, ClaimHeld
      <3> QED BY <1>1, <3>1, <3>2, Zenon DEF Grown
    <2>2. ClaimApart'
      BY <1>1, Zenon DEF CallsKept, LeaseInv, ClaimApart
    <2> QED BY <1>1, <2>1, <2>2, Zenon DEF CallsKept
  <1>2. ASSUME NEW c \in Caller, NEW b \in Robot, Claim(c, b)
        PROVE  call' \in [Caller -> Call] /\ ClaimHeld' /\ ClaimApart'
    <2> DEFINE mine == Oldest(Available(b), ClaimLimit)
               x == [call[c] EXCEPT !.at = "claim", !.robot = b, !.rows = mine]
    <2>1. mine \subseteq Available(b)
      BY Zenon DEF Oldest
    <2>2. Available(b) \subseteq RowId
      BY Zenon DEF Available, Used
    <2>3. call[c] \in Call /\ call \in [Caller -> Call]
      BY Zenon DEF LeaseInv, TypeOK
    <2>4. x \in Call /\ x.rows = mine /\ x.robot = b
      <3> HIDE DEF mine
      <3> QED BY <2>1, <2>2, <2>3, Zenon DEF Call
    <2>5. call' = [call EXCEPT ![c] = x] /\ UNCHANGED rows
      BY <1>2, <2>3, Zenon DEF Claim
    <2>6. \A i \in mine : /\ rows[i].status # "ABSENT" /\ rows[i].batch = 0
                          /\ rows[i].robot = b /\ i \notin Claimed
      BY <2>1, Zenon DEF Available, Used
    <2> HIDE DEF mine, x
    <2>7. ClaimHeld'
      BY <2>3, <2>4, <2>5, <2>6, Zenon DEF ClaimHeld, LeaseInv
    <2>8. \A d \in Caller : call[d].at = "claim" => mine \cap call[d].rows = {}
      BY <2>6 DEF Claimed
    <2>9. ClaimApart'
      BY <2>3, <2>4, <2>5, <2>8, Zenon DEF ClaimApart, LeaseInv
    <2> QED BY <2>3, <2>4, <2>5, <2>7, <2>9, Zenon
  <1>3. ASSUME NEW c \in Caller, ClaimCommit(c)
        PROVE  call' \in [Caller -> Call] /\ ClaimHeld' /\ ClaimApart'
    <2>1. NoCall \in Call /\ NoCall.at # "claim"
      BY Zenon DEF NoCall, Call
    <2>2. call \in [Caller -> Call] /\ call' = [call EXCEPT ![c] = NoCall]
          /\ call[c].at = "claim"
      BY <1>3, Zenon DEF ClaimCommit, LeaseInv, TypeOK
    <2>3. \A i \in RowId : i \notin call[c].rows => rows'[i] = rows[i]
      BY <1>3, Zenon DEF ClaimCommit, OnePerReference
    <2>4. ClaimHeld'
      <3>0. \A d \in Caller : call'[d].at = "claim" => call'[d].robot \in Robot
        BY <2>1, <2>2, Zenon DEF LeaseInv, ClaimHeld
      <3> SUFFICES ASSUME NEW d \in Caller, call'[d].at = "claim",
                          NEW i \in call'[d].rows
                   PROVE  /\ rows'[i].status # "ABSENT" /\ rows'[i].batch = 0
                          /\ rows'[i].robot = call'[d].robot
        BY <3>0, Zenon DEF ClaimHeld
      <3>1. d # c /\ call'[d] = call[d]
        BY <2>1, <2>2, Zenon
      <3>2. i \in RowId /\ i \notin call[c].rows
        BY <2>2, <3>1, Zenon DEF LeaseInv, ClaimApart, Call
      <3> QED BY <2>3, <3>1, <3>2, Zenon DEF LeaseInv, ClaimHeld
    <2>5. ClaimApart'
      BY <2>1, <2>2, Zenon DEF ClaimApart, LeaseInv
    <2> QED BY <2>1, <2>2, <2>4, <2>5, Zenon
  <1>4. ASSUME CallsKept, ~(\E c \in Caller : ClaimCommit(c)) PROVE Grown
    BY <1>4, RowsStep, Zenon DEF LeaseInv
  <1> QED BY <1>1, <1>2, <1>3, <1>4, CallsStep, Zenon DEF LeaseInv

-----------------------------------------------------------------------------
(* Workers from step to step *)

\* Reading the results of a task makes a task.
LEMMA CategorisedTask ==
    ASSUME NEW t \in Task, NEW ok \in SUBSET RowId, NEW discarded \in SUBSET RowId,
           NEW failed \in SUBSET RowId
    PROVE  LET u == [t EXCEPT !.at = "stored", !.ok = ok,
                              !.discarded = discarded, !.failed = failed]
           IN  u \in Task /\ u.at # "scan"
  BY Zenon DEF Task

\* A scan of request q with todo left goes on as it was, from its start, or
\* after a page.
ScanFollows(w, q, todo) ==
    \/ task[w].at = "scan" /\ q = task[w].req /\ todo = task[w].todo
    \/ q \in Request /\ todo = Matching
    \/ ScanPage(w) /\ q = task[w].req

\* Tasks keep their type, and scans follow.
LEMMA ScansStep ==
    ASSUME TypeOK, [Next]_vars
    PROVE  /\ task' \in [Worker -> Task]
           /\ \A w \in Worker :
                 task'[w].at = "scan" => ScanFollows(w, task'[w].req, task'[w].todo)
  <1> USE DEF TypeOK
  <1> DEFINE Goal == /\ task' \in [Worker -> Task]
                     /\ \A w \in Worker : task'[w].at = "scan" =>
                            ScanFollows(w, task'[w].req, task'[w].todo)
  <1>1. ASSUME UNCHANGED task PROVE Goal
    BY <1>1, Zenon DEF ScanFollows
  <1>2. ASSUME NEW w \in Worker, NEW t \in Task,
               t.at = "scan" => ScanFollows(w, t.req, t.todo),
               task' = [task EXCEPT ![w] = t]
        PROVE  Goal
    <2>1. \A v \in Worker : task'[v] = IF v = w THEN t ELSE task[v]
      BY <1>2, Zenon
    <2>2. \A v \in Worker : task[v].at = "scan" => ScanFollows(v, task[v].req, task[v].todo)
      BY Zenon DEF ScanFollows
    <2> QED BY <1>2, <2>1, <2>2, Zenon
  <1>3. NoTask \in Task /\ NoTask.at # "scan"
    BY Zenon DEF NoTask, Task
  <1>4. ASSUME NEW t \in Task PROVE Ended(t) \in Task /\ Ended(t).at # "scan"
    BY Zenon DEF Ended, NoTask, Task
  <1>5. ASSUME NEW t \in Task, t.at \in DOMAIN NewStatus
        PROVE  Advanced(t) \in Task /\ Advanced(t).at # "scan"
    <2>1. CASE t.at = "aborted"
      BY <2>1, <1>4, Zenon DEF Advanced
    <2>2. CASE t.at # "aborted"
      <3> DEFINE s == Following[t.at]
      <3>1. s \in {"discarded", "indexing", "index", "automate"} \/ t.at = "aborted"
        BY <1>5 DEF NewStatus, Following
      <3>2. Advanced(t) = [t EXCEPT !.at = s, !.checked = FALSE]
        BY <2>2, Zenon DEF Advanced
      <3> HIDE DEF s
      <3> QED BY <2>2, <3>1, <3>2, Zenon DEF Task
    <2> QED BY <2>1, <2>2, Zenon
  <1>6. ASSUME NEW w \in Worker, NEW s \in {"failed", "aborted", "completed", "indexFailed"},
               task' = [task EXCEPT ![w].at = s]
        PROVE  Goal
    <2> DEFINE t == [task[w] EXCEPT !.at = s]
    <2>1. t \in Task /\ t.at # "scan"
      BY ZenonT(30) DEF Task
    <2>2. task' = [task EXCEPT ![w] = t]
      BY <1>6, Zenon
    <2> HIDE DEF t
    <2> QED BY <2>1, <2>2, <1>2, Zenon
  <1>7. ASSUME NEW w \in Worker, TaskStep(w) PROVE Goal
    <2>1. ASSUME NEW q \in Request, TakeScan(w, q) PROVE Goal
      <3> DEFINE t == [NoTask EXCEPT !.at = "scan", !.locked = TRUE,
                                     !.req = q, !.todo = Matching]
      <3>1. t \in Task /\ t.req = q /\ t.todo = Matching
        BY ConstantsAssumption, Zenon DEF NoTask, Task
      <3>2. task' = [task EXCEPT ![w] = t] \/ UNCHANGED task
        BY <2>1, Zenon DEF TakeScan
      <3> HIDE DEF t
      <3>3. ScanFollows(w, t.req, t.todo)
        BY <3>1, Zenon DEF ScanFollows
      <3> QED BY <3>1, <3>2, <3>3, <1>1, <1>2, Zenon
    <2>2. CASE ScanPage(w)
      <3>1. PICK page : task' = [task EXCEPT ![w].todo = @ \ page]
        BY <2>2, Zenon DEF ScanPage
      <3> DEFINE t == [task[w] EXCEPT !.todo = @ \ page]
      <3>2. t \in Task /\ t.req = task[w].req
        BY ZenonT(30) DEF Task
      <3>3. task' = [task EXCEPT ![w] = t]
        BY <3>1, Zenon
      <3> HIDE DEF t
      <3>4. ScanFollows(w, t.req, t.todo)
        BY <2>2, <3>2, Zenon DEF ScanFollows
      <3> QED BY <3>2, <3>3, <3>4, <1>2, Zenon
    <2>3. ASSUME NEW b \in Batch, TakeImport(w, b) PROVE Goal
      <3> DEFINE t == [NoTask EXCEPT !.at = "import", !.locked = TRUE,
                                     !.batch = b, !.rows = RowsOf(b)]
      <3>1. RowsOf(b) \subseteq RowId
        BY Zenon DEF RowsOf, Used
      <3>2. t \in Task /\ t.at # "scan"
        BY <3>1, Zenon DEF NoTask, Task
      <3>3. task' = [task EXCEPT ![w] = t]
        BY <2>3, Zenon DEF TakeImport
      <3> HIDE DEF t
      <3> QED BY <3>2, <3>3, <1>2, Zenon
    <2>4. CASE ReadResults(w)
      <3>1. PICK ok \in SUBSET Addable(task[w].rows) :
              \E discarded \in SUBSET (task[w].rows \ ok) :
                  task' = [task EXCEPT ![w] = Categorised(@, ok, discarded)]
        BY <2>4, Zenon DEF ReadResults
      <3>2. PICK discarded \in SUBSET (task[w].rows \ ok) :
                  task' = [task EXCEPT ![w] = Categorised(task[w], ok, discarded)]
        BY <3>1, Zenon
      <3>3. task[w].rows \subseteq RowId
        BY Zenon DEF Task
      <3>4. ok \subseteq RowId /\ discarded \subseteq RowId
        BY <3>1, <3>2, <3>3, Zenon DEF Addable
      <3> DEFINE t == Categorised(task[w], ok, discarded)
                 failed == task[w].rows \ (ok \cup discarded)
      <3>5. failed \subseteq RowId
        BY <3>3, Zenon
      <3>6. t = [task[w] EXCEPT !.at = "stored", !.ok = ok,
                                !.discarded = discarded, !.failed = failed]
        BY Zenon DEF Categorised
      <3>7. t \in Task /\ t.at # "scan"
        <4>1. task[w] \in Task
          BY Zenon
        <4> HIDE DEF failed, t, TypeOK
        <4> QED BY <4>1, <3>4, <3>5, <3>6, CategorisedTask, Zenon
      <3> HIDE DEF t
      <3> QED BY <3>2, <3>7, <1>2, Zenon DEF t
    <2>5. CASE CommitResults(w) \/ AbortImport(w) \/ Index(w) \/ IndexFails(w)
      BY <2>5, <1>6, Zenon DEF CommitResults, AbortImport, Index, IndexFails
    <2>6. CASE CheckStatus(w)
      <3> DEFINE t == task[w]
                 u == CASE Target(t) = {} -> Advanced(t)
                        [] Target(t) # {} /\ CanMove(Target(t), NewStatus[t.at])
                             -> [t EXCEPT !.checked = TRUE]
                        [] OTHER
                             -> IF t.at = "completed" THEN [t EXCEPT !.at = "indexFailed"]
                                ELSE Ended(t)
      <3>1. t \in Task /\ t.at \in DOMAIN NewStatus
        BY <2>6, Zenon DEF CheckStatus
      <3>2. task' = [task EXCEPT ![w] = u]
        BY <2>6, Zenon DEF CheckStatus
      <3> HIDE DEF t
      <3>3. /\ [t EXCEPT !.checked = TRUE] \in Task
            /\ [t EXCEPT !.checked = TRUE].at # "scan"
            /\ [t EXCEPT !.at = "indexFailed"] \in Task
            /\ [t EXCEPT !.at = "indexFailed"].at # "scan"
        BY <3>1, Zenon DEF Task, NewStatus
      <3>4. \/ u = Advanced(t) \/ u = [t EXCEPT !.checked = TRUE]
            \/ u = [t EXCEPT !.at = "indexFailed"] \/ u = Ended(t)
        BY Zenon
      <3> HIDE DEF u
      <3>5. u \in Task /\ u.at # "scan"
        BY <3>1, <3>3, <3>4, <1>4, <1>5, Zenon
      <3> QED BY <3>2, <3>5, <1>2, Zenon
    <2>7. CASE WriteStatus(w)
      <3>1. task[w] \in Task /\ task[w].at \in DOMAIN NewStatus
            /\ task' = [task EXCEPT ![w] = Advanced(task[w])]
        BY <2>7, Zenon DEF WriteStatus
      <3> QED BY <3>1, <1>2, <1>5, Zenon
    <2>8. CASE Automate(w)
      <3>1. task[w] \in Task /\ task' = [task EXCEPT ![w] = Ended(task[w])]
        BY <2>8, Zenon DEF Automate
      <3> QED BY <3>1, <1>2, <1>4, Zenon
    <2>9. CASE \/ \E status \in {"COMPLETED", "FAILED"} : ScanEnds(w, status)
               \/ Finish(w)
      BY <2>9, <1>2, <1>3, Zenon DEF ScanEnds, Finish
    <2> QED BY <1>7, <2>1, <2>2, <2>3, <2>4, <2>5, <2>6, <2>7, <2>8, <2>9, Zenon
            DEF TaskStep
  <1>8. ASSUME NEW w \in Worker, Crash(w) PROVE Goal
    BY <1>8, <1>2, <1>3, Zenon DEF Crash
  <1>9. ASSUME NEW w \in Worker, LoseLock(w) PROVE Goal
    <2> DEFINE t == [task[w] EXCEPT !.locked = FALSE]
    <2>1. t \in Task /\ t.at = task[w].at /\ t.req = task[w].req /\ t.todo = task[w].todo
      BY ZenonT(30) DEF Task
    <2>2. task' = [task EXCEPT ![w] = t]
      BY <1>9, Zenon DEF LoseLock
    <2> HIDE DEF t
    <2>3. t.at = "scan" => ScanFollows(w, t.req, t.todo)
      BY <2>1, Zenon DEF ScanFollows
    <2> QED BY <2>1, <2>2, <2>3, <1>2, Zenon
  <1>10. ASSUME NEW c \in Caller, CallStep(c) PROVE Goal
    BY <1>10, <1>1, Zenon DEF CallStep, QueueScan, QueueScanFails, ClaimCommit, ClaimFails,
                       AcceptWrite, QueueImport, RejectWrite
  <1>11. CASE \/ \E q \in Request, b \in Robot :
                    \E refs \in (SUBSET Reference) \ {{}} : RequestList(q, refs, b)
              \/ \E c \in Caller, q \in Request, b \in Robot : RequestSearch(c, q, b)
              \/ \E c \in Caller, b \in Robot : Claim(c, b)
              \/ \E c \in Caller, b \in BatchesMade : AcceptCheck(c, b)
              \/ \E c \in Caller, b \in BatchesMade : RejectCheck(c, b)
              \/ \E b \in Batch : Lapse(b)
              \/ \E b \in Batch : Renew(b)
              \/ Expire
              \/ \E c \in Caller : EnqueueLost(c)
              \/ UNCHANGED vars
    BY <1>11, <1>1, Zenon DEF RequestList, RequestSearch, Claim, AcceptCheck, RejectCheck,
                       Lapse, Renew, Expire, EnqueueLost, vars
  <1> QED BY <1>7, <1>8, <1>9, <1>10, <1>11, Zenon DEF Next

\* Tasks keep their type, and a scan its request.
LEMMA TasksStep ==
    ASSUME TypeOK, ScanNamed, [Next]_vars
    PROVE  task' \in [Worker -> Task] /\ ScanNamed'
  <1>1. \A w \in Worker : ScanPage(w) => task[w].at = "scan"
    BY Zenon DEF ScanPage
  <1> QED BY <1>1, ScansStep, Zenon DEF ScanNamed, ScanFollows

-----------------------------------------------------------------------------
(* The theorems *)

\* The other variables keep their types.
LEMMA OthersStep ==
    ASSUME TypeOK, [Next]_vars
    PROVE  /\ lapsed' \subseteq Batch
           /\ request' \in [Request -> [robot : Robot \cup {None}, search : SearchStatus]]
           /\ imports' \in [Batch -> Nat]
           /\ scans' \in [Request -> Nat]
           /\ stored' \in [RowId -> Nat]
           /\ indexed' \subseteq RowId
           /\ crashes' \in 0..MaxCrashes
           /\ lockLosses' \in 0..MaxLockLosses
  <1> USE DEF TypeOK
  <1>1. /\ \A q \in Request : request[q] \in [robot : Robot \cup {None}, search : SearchStatus]
        /\ {"PENDING", "SEARCHING", "COMPLETED", "FAILED"} \subseteq SearchStatus
    BY Zenon DEF SearchStatus
  <1>2. ASSUME NEW c \in Caller, CallStep(c)
        PROVE  /\ request' \in [Request -> [robot : Robot \cup {None}, search : SearchStatus]]
               /\ imports' \in [Batch -> Nat] /\ scans' \in [Request -> Nat]
               /\ UNCHANGED <<lapsed, stored, indexed, crashes, lockLosses>>
    <2>1. CASE QueueScan(c)
      <3>1. scans' = [scans EXCEPT ![call[c].req] = scans[call[c].req] + 1]
        BY <2>1, Zenon DEF QueueScan
      <3>2. ASSUME NEW x \in Request PROVE scans'[x] \in Nat
        <4>1. CASE x = call[c].req
          BY <3>1, <4>1
        <4>2. CASE x # call[c].req
          BY <3>1, <4>2, Zenon
        <4> QED BY <4>1, <4>2, Zenon
      <3>3. scans' \in [Request -> Nat]
        BY <3>1, <3>2, Zenon
      <3> QED BY <2>1, <3>3, Zenon DEF QueueScan
    <2>2. CASE QueueScanFails(c)
      BY <1>1, <2>2, Zenon DEF QueueScanFails
    <2>3. CASE QueueImport(c)
      <3>1. imports' = [imports EXCEPT ![call[c].batch] = imports[call[c].batch] + 1]
        BY <2>3, Zenon DEF QueueImport
      <3>2. ASSUME NEW x \in Batch PROVE imports'[x] \in Nat
        <4>1. CASE x = call[c].batch
          BY <3>1, <4>1
        <4>2. CASE x # call[c].batch
          BY <3>1, <4>2, Zenon
        <4> QED BY <4>1, <4>2, Zenon
      <3>3. imports' \in [Batch -> Nat]
        BY <3>1, <3>2, Zenon
      <3> QED BY <2>3, <3>3, Zenon DEF QueueImport
    <2>4. CASE ClaimCommit(c) \/ ClaimFails(c) \/ AcceptWrite(c) \/ RejectWrite(c)
      BY <2>4, Zenon DEF ClaimCommit, ClaimFails, AcceptWrite, RejectWrite
    <2> QED BY <1>2, <2>1, <2>2, <2>3, <2>4, Zenon DEF CallStep
  <1>3. ASSUME NEW w \in Worker, TaskStep(w)
        PROVE  /\ request' \in [Request -> [robot : Robot \cup {None}, search : SearchStatus]]
               /\ imports' \in [Batch -> Nat] /\ scans' \in [Request -> Nat]
               /\ stored' \in [RowId -> Nat] /\ indexed' \subseteq RowId
               /\ UNCHANGED <<lapsed, crashes, lockLosses>>
    <2>1. ASSUME NEW q \in Request, TakeScan(w, q)
          PROVE  /\ request' \in [Request -> [robot : Robot \cup {None}, search : SearchStatus]]
                 /\ scans' \in [Request -> Nat]
                 /\ UNCHANGED <<imports, stored, indexed, lapsed, crashes, lockLosses>>
      BY <1>1, <2>1 DEF TakeScan
    <2>2. ASSUME NEW s \in {"COMPLETED", "FAILED"}, ScanEnds(w, s)
          PROVE  /\ request' \in [Request -> [robot : Robot \cup {None}, search : SearchStatus]]
                 /\ UNCHANGED <<imports, scans, stored, indexed, lapsed, crashes, lockLosses>>
      BY <1>1, <2>2, Zenon DEF ScanEnds
    <2>3. ASSUME NEW b \in Batch, TakeImport(w, b)
          PROVE  /\ imports' \in [Batch -> Nat]
                 /\ UNCHANGED <<request, scans, stored, indexed, lapsed, crashes, lockLosses>>
      BY <2>3 DEF TakeImport
    <2>4. CASE CommitResults(w)
      BY <2>4 DEF CommitResults
    <2>5. CASE Index(w)
      BY <2>5, Zenon DEF Index, Used
    <2>6. CASE \/ ScanPage(w) \/ ReadResults(w) \/ AbortImport(w) \/ CheckStatus(w)
               \/ WriteStatus(w) \/ IndexFails(w) \/ Automate(w) \/ Finish(w)
      BY <2>6, Zenon DEF ScanPage, ReadResults, AbortImport, CheckStatus, WriteStatus,
                  IndexFails, Automate, Finish
    <2> QED BY <1>3, <2>1, <2>2, <2>3, <2>4, <2>5, <2>6, Zenon DEF TaskStep
  <1>4. ASSUME NEW w \in Worker, Crash(w) \/ LoseLock(w)
        PROVE  /\ imports' \in [Batch -> Nat] /\ scans' \in [Request -> Nat]
               /\ crashes' \in 0..MaxCrashes /\ lockLosses' \in 0..MaxLockLosses
               /\ UNCHANGED <<lapsed, request, stored, indexed>>
    BY <1>4, ConstantsAssumption DEF Crash, LoseLock, PutBack
  <1>5. ASSUME NEW c \in Caller, EnqueueLost(c)
        PROVE  /\ crashes' \in 0..MaxCrashes
               /\ UNCHANGED <<lapsed, request, imports, scans, stored, indexed, lockLosses>>
    BY <1>5, ConstantsAssumption DEF EnqueueLost
  <1>6. ASSUME NEW q \in Request, NEW b \in Robot,
               \/ \E refs \in (SUBSET Reference) \ {{}} : RequestList(q, refs, b)
               \/ \E c \in Caller : RequestSearch(c, q, b)
        PROVE  /\ request' \in [Request -> [robot : Robot \cup {None}, search : SearchStatus]]
               /\ UNCHANGED <<lapsed, imports, scans, stored, indexed, crashes, lockLosses>>
    <2>1. CASE \E refs \in (SUBSET Reference) \ {{}} : RequestList(q, refs, b)
      BY <1>1, <2>1 DEF RequestList
    <2>2. CASE \E c \in Caller : RequestSearch(c, q, b)
      BY <1>1, <2>2 DEF RequestSearch
    <2> QED BY <1>6, <2>1, <2>2, Zenon
  <1>7. ASSUME NEW b \in Batch, Lapse(b) \/ Renew(b)
        PROVE  /\ lapsed' \subseteq Batch
               /\ UNCHANGED <<request, imports, scans, stored, indexed, crashes, lockLosses>>
    BY <1>7, Zenon DEF Lapse, Renew
  <1>8. CASE \/ \E c \in Caller, b \in Robot : Claim(c, b)
             \/ \E c \in Caller, b \in BatchesMade : AcceptCheck(c, b)
             \/ \E c \in Caller, b \in BatchesMade : RejectCheck(c, b)
             \/ Expire
             \/ UNCHANGED vars
    BY <1>8, Zenon DEF Claim, AcceptCheck, RejectCheck, Expire, vars
  <1> QED BY <1>2, <1>3, <1>4, <1>5, <1>6, <1>7, <1>8, Zenon DEF Next

\* The commit of a claim puts rows that are in no batch into a batch that has
\* none, of their robot.
LEMMA CommitRows ==
    ASSUME LeaseInv, NEW c \in Caller, ClaimCommit(c)
    PROVE  /\ rows' \in [RowId -> Row]
           /\ robotOf' \in [Batch -> Robot \cup {None}]
           /\ BatchedNamed'
           /\ \A i \in RowId : rows'[i].batch # 0
                                 => robotOf'[rows'[i].batch] = rows'[i].robot
           /\ \A i \in RowId : rows[i].batch # 0 => rows'[i].batch = rows[i].batch
  <1> DEFINE mine == OnePerReference(call[c].rows)
  <1>1. PICK b \in Batch :
              /\ robotOf[b] = None
              /\ rows' = [i \in RowId |->
                             IF i \in mine
                             THEN [rows[i] EXCEPT !.status = "PROCESSING", !.batch = b]
                             ELSE rows[i]]
              /\ robotOf' = [robotOf EXCEPT ![b] = call[c].robot]
    BY Zenon DEF ClaimCommit
  <1>2. \A i \in mine : /\ i \in RowId
                        /\ rows[i].batch = 0 /\ rows[i].robot = call[c].robot
    BY Zenon DEF ClaimCommit, OnePerReference, LeaseInv, ClaimHeld, TypeOK, Call
  <1>3. /\ rows \in [RowId -> Row] /\ robotOf \in [Batch -> Robot \cup {None}]
        /\ call[c].robot \in Robot
        /\ None \notin Robot
        /\ \A i \in RowId : rows[i].batch # 0 => rows[i].robot \in Robot
        /\ \A i \in RowId : /\ rows[i].batch \in Batch \cup {0}
                            /\ rows[i].batch # 0 => robotOf[rows[i].batch] = rows[i].robot
    BY ConstantsAssumption, Zenon
       DEF LeaseInv, TypeOK, ClaimHeld, ClaimCommit, BatchedNamed, Row
  <1> HIDE DEF mine
  <1>4. ASSUME NEW i \in mine
        PROVE  /\ rows'[i] \in Row /\ rows'[i].batch = b
               /\ rows'[i].status = "PROCESSING" /\ rows'[i].robot = rows[i].robot
    <2> DEFINE x == [rows[i] EXCEPT !.status = "PROCESSING", !.batch = b]
    <2>1. rows'[i] = x
      BY <1>1, <1>2, Zenon
    <2>2. rows[i] \in Row /\ "PROCESSING" \in Status
      BY <1>2, <1>3, Zenon DEF Status, Transitions
    <2>3. x \in Row /\ x.batch = b /\ x.status = "PROCESSING" /\ x.robot = rows[i].robot
      BY <2>2, Zenon DEF Row
    <2> HIDE DEF x
    <2> QED BY <2>1, <2>3, Zenon
  <1>5. ASSUME NEW i \in RowId, i \notin mine PROVE rows'[i] = rows[i]
    BY <1>1, <1>5, Zenon
  <1>6. rows' \in [RowId -> Row]
    BY <1>1, <1>3, <1>4, <1>5, Zenon
  <1>7. robotOf' \in [Batch -> Robot \cup {None}]
    BY <1>1, <1>3, Zenon
  <1>8. BatchedNamed'
    BY <1>2, <1>3, <1>4, <1>5, Zenon DEF BatchedNamed, LeaseInv
  <1>9. ASSUME NEW i \in RowId, rows'[i].batch # 0
        PROVE  robotOf'[rows'[i].batch] = rows'[i].robot
    <2>1. CASE i \in mine
      BY <2>1, <1>1, <1>2, <1>3, <1>4, ZenonT(30)
    <2>2. CASE i \notin mine /\ rows[i].batch # b
      <3>1. rows'[i] = rows[i] /\ rows[i].batch \in Batch
        <4>1. rows'[i] = rows[i]
          BY <2>2, <1>5, Zenon
        <4>2. rows[i].batch # 0
          BY <4>1, <1>9, Zenon
        <4> QED BY <4>1, <4>2, <1>3, Zenon
      <3>2. robotOf'[rows[i].batch] = robotOf[rows[i].batch]
        BY <2>2, <3>1, <1>1, <1>3, Zenon
      <3> QED BY <3>1, <3>2, <1>3, <1>9, Zenon
    <2>3. CASE i \notin mine /\ rows[i].batch = b
      BY <2>3, <1>1, <1>3, <1>5, <1>9, Zenon
    <2> QED BY <2>1, <2>2, <2>3, Zenon
  <1>10. \A i \in RowId : rows[i].batch # 0 => rows'[i].batch = rows[i].batch
    BY <1>2, <1>5, Zenon
  <1> QED BY <1>6, <1>7, <1>8, <1>9, <1>10, Zenon

\* Every step keeps the invariant, and every row in its batch.
LEMMA LeaseStep ==
    ASSUME LeaseInv, [Next]_vars
    PROVE  /\ LeaseInv'
           /\ \A i \in RowId : rows[i].batch # 0 => rows'[i].batch = rows[i].batch
  <1>1. /\ rows' \in [RowId -> Row]
        /\ robotOf' \in [Batch -> Robot \cup {None}]
        /\ BatchedNamed'
        /\ \A i \in RowId : rows'[i].batch # 0
                              => robotOf'[rows'[i].batch] = rows'[i].robot
        /\ \A i \in RowId : rows[i].batch # 0 => rows'[i].batch = rows[i].batch
    <2>1. CASE Grown /\ UNCHANGED robotOf
      BY <2>1, Zenon DEF Grown, BatchedNamed, LeaseInv, TypeOK
    <2>2. CASE \E c \in Caller : ClaimCommit(c)
      BY <2>2, CommitRows, Zenon
    <2> QED BY <2>1, <2>2, RowsStep, Zenon DEF LeaseInv
  <1>2. TypeOK'
    BY <1>1, OthersStep, ClaimsStep, TasksStep, Zenon DEF LeaseInv, TypeOK
  <1> QED BY <1>1, <1>2, ClaimsStep, TasksStep, Zenon DEF LeaseInv

\* The invariant holds from the start.
LEMMA LeaseInit ==
    ASSUME Init
    PROVE  LeaseInv
  <1>1. NoRow \in Row /\ NoRow.batch = 0
    BY Zenon DEF NoRow, Row
  <1>2. NoCall \in Call /\ NoCall.at = "idle"
    BY Zenon DEF NoCall, Call
  <1>3. NoTask \in Task /\ NoTask.at = "idle"
    BY Zenon DEF NoTask, Task
  <1>4. NoRequest \in [robot : Robot \cup {None}, search : SearchStatus]
    BY Zenon DEF NoRequest, SearchStatus
  <1>5. TypeOK
    BY <1>1, <1>2, <1>3, <1>4, ConstantsAssumption DEF Init, TypeOK
  <1> QED BY <1>1, <1>2, <1>3, <1>5, Zenon
          DEF Init, LeaseInv, BatchedNamed, ScanNamed, ClaimHeld, ClaimApart

\* The tables, the handlers and the workers stay well formed, a batch holds
\* only rows of its robot, and the locks of claims never overlap.
THEOREM LeaseInvariance == Spec => []LeaseInv
  <1>1. Init => LeaseInv
    BY LeaseInit, Zenon
  <1>2. LeaseInv /\ [Next]_vars => LeaseInv'
    BY LeaseStep, Zenon
  <1> QED BY <1>1, <1>2, PTL DEF Spec

\* Every variable keeps its type, and a batch belongs to the robot of its rows.
THEOREM EnhancementTypes == Spec => []TypeOK
  <1>1. LeaseInv => TypeOK
    BY Zenon DEF LeaseInv
  <1> QED BY <1>1, LeaseInvariance, PTL

\* find_available_for_robot with its row locks hands no pending enhancement to
\* two batches, however many replicas of a robot claim at once.
THEOREM ClaimedOnceSafe == Spec => ClaimedOnce
  <1>1. LeaseInv /\ [Next]_vars => [BatchKept]_vars
    BY LeaseStep, Zenon DEF BatchKept
  <1> QED BY <1>1, LeaseInvariance, PTL DEF Spec, ClaimedOnce

-----------------------------------------------------------------------------
(* What a completed search has asked for *)

\* Reference r has been asked for in request q.
Asked(q, r) == \E i \in RowId : Original(i, q, r)

\* An id not in use is in no request.
UnusedFree == \A i \in RowId : rows[i].status = "ABSENT" => rows[i].req = None

\* The unique index over the rows that are no retries.
OriginalsApart ==
    \A q \in Request, r \in Reference : \A i, j \in RowId :
        Original(i, q, r) /\ Original(j, q, r) => i = j

\* A scan has asked for the matches it has passed.
ScanCovers ==
    \A w \in Worker : task[w].at = "scan" =>
        \A r \in Matching \ task[w].todo : Asked(task[w].req, r)

\* A completed search has asked for all.
DoneCovers ==
    \A q \in Request : request[q].search = "COMPLETED" =>
        \A r \in Matching : Asked(q, r)

CoverInv == LeaseInv /\ UnusedFree /\ OriginalsApart /\ ScanCovers /\ DoneCovers

\* The rows asked for from one state to the next.
SameOriginals ==
    \A i \in RowId, q \in Request, r \in Reference :
        Original(i, q, r)' <=> Original(i, q, r)

\* An update of the table that leaves req, ref and retryOf as they were, or
\* adds rows that are retries or of no request, asks for nothing.
LEMMA Unasked ==
    ASSUME UnusedFree,
           \A i \in RowId :
              \/ /\ rows'[i].req = rows[i].req /\ rows'[i].ref = rows[i].ref
                 /\ rows'[i].retryOf = rows[i].retryOf
                 /\ rows'[i].status = "ABSENT" => rows[i].status = "ABSENT"
              \/ /\ rows[i].status = "ABSENT" /\ rows'[i].status # "ABSENT"
                 /\ rows'[i].retryOf # 0 \/ rows'[i].req = None
    PROVE  SameOriginals /\ UnusedFree'
  <1>1. \A q \in Request : q # None
    BY ConstantsAssumption, Zenon
  <1>2. UnusedFree'
    BY Zenon DEF UnusedFree
  <1>3. ASSUME NEW i \in RowId, NEW q \in Request, NEW r \in Reference
        PROVE  Original(i, q, r)' <=> Original(i, q, r)
    <2>1. rows[i].status = "ABSENT" => rows[i].req # q
      BY <1>1, Zenon DEF UnusedFree
    <2>2. CASE /\ rows'[i].req = rows[i].req /\ rows'[i].ref = rows[i].ref
               /\ rows'[i].retryOf = rows[i].retryOf
               /\ rows'[i].status = "ABSENT" => rows[i].status = "ABSENT"
      BY <2>1, <2>2, Zenon DEF Original
    <2>3. CASE /\ rows[i].status = "ABSENT" /\ rows'[i].status # "ABSENT"
               /\ rows'[i].retryOf # 0 \/ rows'[i].req = None
      BY <1>1, <2>3, Zenon DEF Original
    <2> QED BY <2>2, <2>3, Zenon
  <1> QED BY <1>2, <1>3, Zenon DEF SameOriginals

\* add_bulk_ignore_conflicts asks for every listed reference not asked for
\* before, and for each once.
LEMMA CreateCovers ==
    ASSUME rows \in [RowId -> Row], UnusedFree, OriginalsApart,
           NEW q \in Request, NEW b, NEW refs \in SUBSET Reference,
           CreatePending(q, refs, b)
    PROVE  /\ UnusedFree' /\ OriginalsApart'
           /\ \A p \in Request, r \in Reference : Asked(p, r) => Asked(p, r)'
           /\ \A r \in refs : Asked(q, r)'
  <1> DEFINE new == {NewRow(q, r, b, 0) : r \in Missing(q, refs)}
  <1>1. PICK ids \in SUBSET RowId : Inserted(rows, new, ids)
    BY InsertExact, Zenon DEF CreatePending
  <1> USE DEF Inserted
  <1>2. \A i \in ids : \E r \in Missing(q, refs) : rows'[i] = NewRow(q, r, b, 0)
    BY <1>1, Zenon
  <1>3. \A r : /\ NewRow(q, r, b, 0).req = q /\ NewRow(q, r, b, 0).ref = r
               /\ NewRow(q, r, b, 0).retryOf = 0
               /\ NewRow(q, r, b, 0).status # "ABSENT"
    BY Zenon DEF NewRow
  <1>4. \A r \in Missing(q, refs) : \E i \in ids : rows'[i] = NewRow(q, r, b, 0)
    BY <1>1, Zenon
  <1> HIDE DEF new
  <1>5. ASSUME NEW i \in ids, NEW p \in Request, NEW r \in Reference, Original(i, p, r)'
        PROVE  p = q /\ r \in Missing(q, refs) /\ rows'[i] = NewRow(q, r, b, 0)
    BY <1>2, <1>3, <1>5, Zenon DEF Original
  <1>6. ASSUME NEW i \in RowId \ ids, NEW p \in Request, NEW r \in Reference
        PROVE  Original(i, p, r)' <=> Original(i, p, r)
    BY <1>1, Zenon DEF Original
  <1>7. \A r \in refs : r \in Missing(q, refs) <=> ~Asked(q, r)
    BY Zenon DEF Missing, Asked, Original, Used
  <1>8. UnusedFree'
    <2>1. \A i \in ids : rows'[i].status # "ABSENT"
      BY <1>2, <1>3, Zenon
    <2>2. \A i \in RowId \ ids : rows'[i] = rows[i]
      BY <1>1, Zenon
    <2> QED BY <2>1, <2>2, Zenon DEF UnusedFree
  <1>9. ASSUME NEW p \in Request, NEW r \in Reference, Asked(p, r)
        PROVE  Asked(p, r)'
    <2>1. PICK i \in RowId : Original(i, p, r)
      BY <1>9, Zenon DEF Asked
    <2>2. i \notin ids
      BY <1>1, <2>1, Zenon DEF Original
    <2>3. Original(i, p, r)'
      BY <1>6, <2>1, <2>2, Zenon
    <2> QED BY <2>3, Zenon DEF Asked
  <1>10. ASSUME NEW r \in refs PROVE Asked(q, r)'
    <2>1. CASE r \in Missing(q, refs)
      <3>1. PICK i \in ids : rows'[i] = NewRow(q, r, b, 0)
        BY <1>4, <2>1, Zenon
      <3>2. i \in RowId /\ Original(i, q, r)'
        BY <1>3, <3>1, Zenon DEF Original
      <3> QED BY <3>2, Zenon DEF Asked
    <2>2. CASE r \notin Missing(q, refs)
      BY <1>7, <1>9, <2>2, Zenon
    <2> QED BY <2>1, <2>2, Zenon
  <1>11. ASSUME NEW p \in Request, NEW r \in Reference, NEW i \in RowId, NEW j \in RowId,
                Original(i, p, r)', Original(j, p, r)'
         PROVE  i = j
    <2>1. CASE i \in ids /\ j \in ids
      <3>1. rows'[i] = rows'[j]
        BY <1>5, <1>11, <2>1, Zenon
      <3> QED BY <1>1, <2>1, <3>1, Zenon
    <2>2. CASE i \notin ids /\ j \notin ids
      BY <1>6, <1>11, <2>2, Zenon DEF OriginalsApart
    <2>3. ASSUME NEW k \in ids, NEW l \in RowId \ ids,
                 Original(k, p, r)', Original(l, p, r)'
          PROVE  FALSE
      <3>1. p = q /\ r \in Missing(q, refs)
        BY <1>5, <2>3, Zenon
      <3>2. Asked(q, r) /\ r \in refs
        BY <1>6, <2>3, <3>1, Zenon DEF Asked, Missing
      <3> QED BY <1>7, <3>1, <3>2, Zenon
    <2> QED BY <1>11, <2>1, <2>2, <2>3, Zenon
  <1>12. OriginalsApart'
    BY <1>11, Zenon DEF OriginalsApart
  <1> QED BY <1>8, <1>9, <1>10, <1>12, Zenon

\* The steps that write rows.
LEMMA RowWrites ==
    ASSUME [Next]_vars
    PROVE  \/ UNCHANGED rows
           \/ \E c \in Caller : AcceptWrite(c) \/ RejectWrite(c) \/ ClaimCommit(c)
           \/ \E w \in Worker : WriteStatus(w) \/ Automate(w) \/ ScanPage(w)
           \/ Expire
           \/ \E q \in Request, b \in Robot, refs \in SUBSET Reference :
                 RequestList(q, refs, b)
  <1>1. ASSUME NEW c \in Caller, CallStep(c)
        PROVE  UNCHANGED rows \/ AcceptWrite(c) \/ RejectWrite(c) \/ ClaimCommit(c)
    BY <1>1, Zenon DEF CallStep, QueueScan, QueueScanFails, ClaimFails, QueueImport
  <1>2. ASSUME NEW w \in Worker, TaskStep(w)
        PROVE  UNCHANGED rows \/ WriteStatus(w) \/ Automate(w) \/ ScanPage(w)
    BY <1>2, Zenon DEF TaskStep, TakeScan, ScanEnds, TakeImport, ReadResults,
                       CommitResults, AbortImport, CheckStatus, Index, IndexFails, Finish
  <1>3. CASE \/ \E c \in Caller, q \in Request, b \in Robot : RequestSearch(c, q, b)
             \/ \E c \in Caller, b \in Robot : Claim(c, b)
             \/ \E c \in Caller, b \in BatchesMade : AcceptCheck(c, b)
             \/ \E c \in Caller, b \in BatchesMade : RejectCheck(c, b)
             \/ \E b \in Batch : Lapse(b)
             \/ \E b \in Batch : Renew(b)
             \/ \E c \in Caller : EnqueueLost(c)
             \/ \E w \in Worker : Crash(w)
             \/ \E w \in Worker : LoseLock(w)
             \/ UNCHANGED vars
    BY <1>3, Zenon DEF RequestSearch, Claim, AcceptCheck, RejectCheck, Lapse, Renew,
                       EnqueueLost, Crash, LoseLock, vars
  <1>4. CASE \E q \in Request, b \in Robot :
                \E refs \in (SUBSET Reference) \ {{}} : RequestList(q, refs, b)
    BY <1>4, Zenon
  <1> QED BY <1>1, <1>2, <1>3, <1>4, Zenon DEF Next

\* The statuses that updates write.
LEMMA StatusesWritten ==
    /\ {"IMPORTING", "FAILED", "EXPIRED", "PROCESSING"} \subseteq Status
    /\ \A s \in DOMAIN NewStatus :
          /\ NewStatus[s] \in Status
          /\ NewStatus[s] \notin {"PENDING", "PROCESSING", "EXPIRED", "ABSENT"}
          /\ NewStatus[s] = "COMPLETED" <=> s = "completed"
  BY DEF NewStatus, Status, Transitions

\* A status update leaves the other columns.
LEMMA MovedKeeps ==
    ASSUME rows \in [RowId -> Row], NEW ids, NEW s \in Status
    PROVE  \A i \in RowId :
              /\ Moved(ids, s)[i].req = rows[i].req
              /\ Moved(ids, s)[i].ref = rows[i].ref
              /\ Moved(ids, s)[i].batch = rows[i].batch
              /\ Moved(ids, s)[i].retryOf = rows[i].retryOf
              /\ i \in ids => Moved(ids, s)[i].status = s
              /\ i \notin ids => Moved(ids, s)[i].status = rows[i].status
              /\ Moved(ids, s)[i].status = "ABSENT" => rows[i].status = "ABSENT"
  BY DEF Moved, Row, Status, Transitions

\* And so does the commit of a claim, to all but the batch.
LEMMA CommitKeeps ==
    ASSUME rows \in [RowId -> Row], NEW c \in Caller, ClaimCommit(c)
    PROVE  \A i \in RowId :
              /\ rows'[i].req = rows[i].req /\ rows'[i].ref = rows[i].ref
              /\ rows'[i].retryOf = rows[i].retryOf
              /\ \/ rows'[i] = rows[i]
                 \/ i \in call[c].rows /\ rows'[i].status = "PROCESSING"
                                       /\ rows'[i].batch \in Batch
  <1> DEFINE mine == OnePerReference(call[c].rows)
  <1>1. PICK b \in Batch :
            rows' = [i \in RowId |->
                        IF i \in mine
                        THEN [rows[i] EXCEPT !.status = "PROCESSING", !.batch = b]
                        ELSE rows[i]]
    BY Zenon DEF ClaimCommit
  <1>2. mine \subseteq call[c].rows
    BY Zenon DEF OnePerReference
  <1> HIDE DEF mine
  <1> TAKE i \in RowId
  <1>3. CASE i \in mine
    <2> DEFINE x == [rows[i] EXCEPT !.status = "PROCESSING", !.batch = b]
    <2>1. /\ x.req = rows[i].req /\ x.ref = rows[i].ref /\ x.batch = b
          /\ x.retryOf = rows[i].retryOf /\ x.status = "PROCESSING"
      BY Zenon DEF Row
    <2>2. rows'[i] = x
      BY <1>1, <1>3, Zenon
    <2> HIDE DEF x
    <2> QED BY <1>2, <1>3, <2>1, <2>2, Zenon
  <1>4. CASE i \notin mine
    BY <1>1, <1>4, Zenon
  <1> QED BY <1>3, <1>4, Zenon

\* The expiry job marks leased rows EXPIRED and inserts retries of them.
LEMMA ExpireRows ==
    ASSUME TypeOK, Expire
    PROVE  \E ids \in SUBSET RowId, added \in SUBSET RowId :
              /\ \A i \in ids : rows[i].status = "PROCESSING" /\ rows[i].batch # 0
              /\ Inserted(Moved(ids, "EXPIRED"),
                          {NewRow(rows[i].req, rows[i].ref, rows[i].robot, i) :
                             i \in Retried(ids)}, added)
  <1>1. PICK ids \in SUBSET UNION {Leased(b) : b \in lapsed} :
            Insert(Moved(ids, "EXPIRED"),
                   {NewRow(rows[i].req, rows[i].ref, rows[i].robot, i) :
                      i \in Retried(ids)})
    BY Zenon DEF Expire
  <1>2. \A b \in lapsed : b # 0
    BY ConstantsAssumption DEF TypeOK, Batch
  <1>3. /\ ids \in SUBSET RowId
        /\ \A i \in ids : rows[i].status = "PROCESSING" /\ rows[i].batch # 0
    BY <1>1, <1>2, Zenon DEF Leased, RowsOf, Used
  <1>4. PICK added \in SUBSET RowId :
            Inserted(Moved(ids, "EXPIRED"),
                     {NewRow(rows[i].req, rows[i].ref, rows[i].robot, i) :
                        i \in Retried(ids)}, added)
    BY <1>1, InsertExact, Zenon
  <1> QED BY <1>3, <1>4, Zenon

\* The retries it inserts.
LEMMA RetryRow ==
    ASSUME NEW ids, NEW row \in {NewRow(rows[i].req, rows[i].ref, rows[i].robot, i) :
                                   i \in Retried(ids)}
    PROVE  /\ row.retryOf \in Retried(ids) /\ row.status = "PENDING" /\ row.batch = 0
           /\ row = NewRow(rows[row.retryOf].req, rows[row.retryOf].ref,
                           rows[row.retryOf].robot, row.retryOf)
  <1>1. PICK i \in Retried(ids) : row = NewRow(rows[i].req, rows[i].ref, rows[i].robot, i)
    BY Zenon
  <1>2. row.retryOf = i /\ row.status = "PENDING" /\ row.batch = 0
    BY <1>1, Zenon DEF NewRow
  <1> QED BY <1>1, <1>2, Zenon

\* Only a request for listed references and a page of a scan ask for more.
LEMMA OriginalsStep ==
    ASSUME LeaseInv, UnusedFree, [Next]_vars
    PROVE  \/ SameOriginals /\ UnusedFree'
           \/ \E q \in Request, b \in Robot \cup {None}, refs \in SUBSET Reference :
                 CreatePending(q, refs, b)
  <1>0. TypeOK /\ ScanNamed /\ rows \in [RowId -> Row]
    BY Zenon DEF LeaseInv, TypeOK
  <1>1. CASE UNCHANGED rows
    BY <1>1, Unasked, Zenon
  <1>2. ASSUME NEW ids, NEW s \in Status, rows' = Moved(ids, s)
        PROVE  SameOriginals /\ UnusedFree'
    <2>1. s # "ABSENT"
      BY Zenon DEF Status, Transitions
    <2>2. \A i \in RowId :
              /\ rows'[i].req = rows[i].req /\ rows'[i].ref = rows[i].ref
              /\ rows'[i].retryOf = rows[i].retryOf
              /\ rows'[i].status = "ABSENT" => rows[i].status = "ABSENT"
      BY <1>0, <1>2, <2>1, MovedKeeps
    <2> QED BY <2>2, Unasked, Zenon
  <1>3. CASE \E c \in Caller : AcceptWrite(c) \/ RejectWrite(c)
    BY <1>2, <1>3, StatusesWritten, Zenon DEF AcceptWrite, RejectWrite
  <1>4. ASSUME NEW c \in Caller, ClaimCommit(c) PROVE SameOriginals /\ UnusedFree'
    BY <1>0, <1>4, CommitKeeps, Unasked, Zenon
  <1>5. ASSUME NEW w \in Worker, WriteStatus(w) PROVE SameOriginals /\ UnusedFree'
    BY <1>2, <1>5, StatusesWritten, Zenon DEF WriteStatus
  <1>6. ASSUME Expire PROVE SameOriginals /\ UnusedFree'
    <2>1. PICK ids \in SUBSET RowId, added \in SUBSET RowId :
              Inserted(Moved(ids, "EXPIRED"),
                       {NewRow(rows[i].req, rows[i].ref, rows[i].robot, i) :
                          i \in Retried(ids)}, added)
      BY <1>0, <1>6, ExpireRows, Zenon
    <2>2. 0 \notin RowId
      BY DEF RowId
    <2>3. \A i \in added : /\ rows[i].status = "ABSENT" /\ rows'[i].status # "ABSENT"
                           /\ rows'[i].retryOf # 0
      <3>1. Retried(ids) \subseteq RowId
        BY <2>1, Zenon DEF Retried
      <3> QED BY <2>1, <2>2, <3>1, RetryRow, Zenon DEF Inserted
    <2>4. \A i \in RowId \ added : rows'[i] = Moved(ids, "EXPIRED")[i]
      BY <2>1, Zenon DEF Inserted
    <2>5. \A i \in RowId \ added :
              /\ rows'[i].req = rows[i].req /\ rows'[i].ref = rows[i].ref
              /\ rows'[i].retryOf = rows[i].retryOf
              /\ rows'[i].status = "ABSENT" => rows[i].status = "ABSENT"
      <3>1. "EXPIRED" \in Status /\ "EXPIRED" # "ABSENT"
        BY StatusesWritten, Zenon
      <3> QED BY <1>0, <2>4, <3>1, MovedKeeps
    <2> QED BY <2>3, <2>5, Unasked, Zenon
  <1>7. ASSUME NEW w \in Worker, Automate(w) PROVE SameOriginals /\ UnusedFree'
    <2>1. PICK matches : Insert(rows, {NewRow(None, m[2], m[1], 0) : m \in matches})
      BY <1>7, Zenon DEF Automate
    <2> DEFINE new == {NewRow(None, m[2], m[1], 0) : m \in matches}
    <2>2. \A row \in new : row.req = None /\ row.status # "ABSENT"
      BY DEF NewRow
    <2>3. PICK added \in SUBSET RowId : Inserted(rows, new, added)
      BY <2>1, InsertExact, Zenon
    <2> HIDE DEF new
    <2> QED BY <2>2, <2>3, Unasked, Zenon DEF Inserted
  <1>8. ASSUME NEW w \in Worker, ScanPage(w)
        PROVE  \E q \in Request, b \in Robot \cup {None}, refs \in SUBSET Reference :
                  CreatePending(q, refs, b)
    <2>1. task[w].req \in Request /\ task[w].todo \subseteq Reference
      BY <1>0, <1>8, Zenon DEF ScanPage, ScanNamed, TypeOK, Task
    <2>2. request[task[w].req].robot \in Robot \cup {None}
      BY <1>0, <2>1, Zenon DEF TypeOK
    <2> QED BY <1>8, <2>1, <2>2, Zenon DEF ScanPage
  <1>9. CASE \E q \in Request, b \in Robot, refs \in SUBSET Reference :
                RequestList(q, refs, b)
    BY <1>9, Zenon DEF RequestList
  <1> QED BY <1>1, <1>3, <1>4, <1>5, <1>6, <1>7, <1>8, <1>9, RowWrites, Zenon

\* A search is completed by a scan that has nothing left.
LEMMA SearchesStep ==
    ASSUME TypeOK, [Next]_vars, NEW q \in Request, request'[q].search = "COMPLETED"
    PROVE  \/ request[q].search = "COMPLETED"
           \/ \E w \in Worker : /\ task[w].at = "scan" /\ task[w].req = q
                                /\ task[w].todo = {}
  <1> DEFINE Goal == \/ request[q].search = "COMPLETED"
                     \/ \E w \in Worker : /\ task[w].at = "scan" /\ task[w].req = q
                                          /\ task[w].todo = {}
  <1>0. request \in [Request -> [robot : Robot \cup {None}, search : SearchStatus]]
    BY Zenon DEF TypeOK
  <1>1. ASSUME UNCHANGED request PROVE Goal
    BY <1>1, Zenon
  <1>2. ASSUME NEW p, NEW s, s # "COMPLETED", request' = [request EXCEPT ![p].search = s]
        PROVE  Goal
    BY <1>0, <1>2, Zenon
  <1>3. ASSUME NEW p, NEW b, NEW refs, RequestList(p, refs, b) PROVE Goal
    BY <1>0, <1>3, Zenon DEF RequestList
  <1>4. ASSUME NEW c, NEW p, NEW b, RequestSearch(c, p, b) PROVE Goal
    BY <1>0, <1>4, Zenon DEF RequestSearch
  <1>5. ASSUME NEW w \in Worker, NEW s \in {"COMPLETED", "FAILED"}, ScanEnds(w, s)
        PROVE  Goal
    <2>1. CASE q = task[w].req /\ s = "COMPLETED"
      BY <1>5, <2>1, Zenon DEF ScanEnds
    <2>2. CASE q # task[w].req
      BY <1>0, <1>5, <2>2, Zenon DEF ScanEnds
    <2>3. CASE s = "FAILED"
      BY <1>2, <1>5, <2>3, Zenon DEF ScanEnds
    <2> QED BY <1>5, <2>1, <2>2, <2>3, Zenon
  <1>6. ASSUME NEW w \in Worker, TaskStep(w) PROVE Goal
    <2>1. ASSUME NEW p, TakeScan(w, p) PROVE Goal
      <3>1. \/ UNCHANGED request
            \/ request' = [request EXCEPT ![p].search = "SEARCHING"]
        BY <2>1, Zenon DEF TakeScan
      <3>2. "SEARCHING" # "COMPLETED"
        BY Zenon
      <3> QED BY <1>1, <1>2, <3>1, <3>2, Zenon
    <2>2. CASE \/ ScanPage(w) \/ \E b \in Batch : TakeImport(w, b)
               \/ ReadResults(w) \/ CommitResults(w) \/ AbortImport(w)
               \/ CheckStatus(w) \/ WriteStatus(w) \/ Index(w) \/ IndexFails(w)
               \/ Automate(w) \/ Finish(w)
      BY <1>1, <2>2, Zenon DEF ScanPage, TakeImport, ReadResults, CommitResults,
                        AbortImport, CheckStatus, WriteStatus, Index, IndexFails,
                        Automate, Finish
    <2> QED BY <1>5, <1>6, <2>1, <2>2, Zenon DEF TaskStep
  <1>7. ASSUME NEW c \in Caller, CallStep(c) PROVE Goal
    <2>1. CASE QueueScanFails(c)
      BY <1>2, <2>1, Zenon DEF QueueScanFails
    <2>2. CASE ~QueueScanFails(c)
      BY <1>1, <1>7, <2>2, Zenon DEF CallStep, QueueScan, ClaimCommit, ClaimFails,
                        AcceptWrite, QueueImport, RejectWrite
    <2> QED BY <2>1, <2>2, Zenon
  <1>8. CASE \/ \E c \in Caller, b \in Robot : Claim(c, b)
             \/ \E c \in Caller, b \in BatchesMade : AcceptCheck(c, b)
             \/ \E c \in Caller, b \in BatchesMade : RejectCheck(c, b)
             \/ \E b \in Batch : Lapse(b)
             \/ \E b \in Batch : Renew(b)
             \/ Expire
             \/ \E c \in Caller : EnqueueLost(c)
             \/ \E w \in Worker : Crash(w)
             \/ \E w \in Worker : LoseLock(w)
             \/ UNCHANGED vars
    BY <1>8, <1>1, Zenon DEF Claim, AcceptCheck, RejectCheck, Lapse, Renew, Expire,
                       EnqueueLost, Crash, LoseLock, vars
  <1> QED BY <1>3, <1>4, <1>6, <1>7, <1>8, Zenon DEF Next

\* Every step keeps what searches have asked for.
LEMMA CoverStep ==
    ASSUME CoverInv, [Next]_vars
    PROVE  CoverInv'
  <1>0. /\ LeaseInv /\ UnusedFree /\ OriginalsApart /\ ScanCovers /\ DoneCovers
        /\ TypeOK /\ ScanNamed /\ rows \in [RowId -> Row]
        /\ Matching \subseteq Reference
    BY ConstantsAssumption, Zenon DEF CoverInv, LeaseInv, TypeOK
  <1>1. LeaseInv'
    BY <1>0, LeaseStep, Zenon
  <1>2. /\ UnusedFree' /\ OriginalsApart'
        /\ \A p \in Request, r \in Reference : Asked(p, r) => Asked(p, r)'
    <2>1. CASE SameOriginals /\ UnusedFree'
      <3>1. OriginalsApart'
        BY <1>0, <2>1, Zenon DEF OriginalsApart, SameOriginals
      <3>2. ASSUME NEW p \in Request, NEW r \in Reference, Asked(p, r)
            PROVE  Asked(p, r)'
        BY <2>1, <3>2, Zenon DEF Asked, SameOriginals
      <3> QED BY <2>1, <3>1, <3>2, Zenon
    <2>2. CASE \E q \in Request, b \in Robot \cup {None}, refs \in SUBSET Reference :
                  CreatePending(q, refs, b)
      BY <1>0, <2>2, CreateCovers, Zenon
    <2> QED BY <1>0, <2>1, <2>2, OriginalsStep, Zenon
  <1>3. ScanCovers'
    <2>1. ASSUME NEW w \in Worker, NEW q, NEW todo, ScanFollows(w, q, todo),
                 task'[w].todo = todo, NEW r \in Matching \ todo
          PROVE  Asked(q, r)'
      <3>1. CASE task[w].at = "scan" /\ q = task[w].req /\ todo = task[w].todo
        <4>1. q \in Request /\ Asked(q, r)
          BY <1>0, <2>1, <3>1, Zenon DEF ScanCovers, ScanNamed
        <4> QED BY <1>0, <1>2, <2>1, <4>1, Zenon
      <3>2. CASE todo = Matching
        BY <2>1, <3>2, Zenon
      <3>3. CASE ScanPage(w) /\ q = task[w].req
        <4>1. PICK page \in SUBSET task[w].todo :
                  /\ CreatePending(q, page, request[q].robot)
                  /\ task' = [task EXCEPT ![w].todo = @ \ page]
          BY <3>3, Zenon DEF ScanPage
        <4>2. task[w].at = "scan" /\ q \in Request /\ task[w] \in Task
          BY <1>0, <3>3, Zenon DEF ScanPage, ScanNamed, TypeOK
        <4>3. page \subseteq Reference
          BY <4>1, <4>2, Zenon DEF Task
        <4>4. todo = task[w].todo \ page
          <5>1. task \in [Worker -> Task]
            BY <1>0, Zenon DEF TypeOK
          <5> QED BY <2>1, <4>1, <4>2, <5>1, Zenon DEF Task
        <4>5. CASE r \in page
          BY <1>0, <4>1, <4>2, <4>3, <4>5, CreateCovers, Zenon
        <4>6. CASE r \notin page
          <5>1. Asked(q, r)
            BY <1>0, <2>1, <3>3, <4>2, <4>4, <4>6, Zenon DEF ScanCovers
          <5> QED BY <1>0, <1>2, <2>1, <4>2, <5>1, Zenon
        <4> QED BY <4>5, <4>6, Zenon
      <3> QED BY <2>1, <3>1, <3>2, <3>3, Zenon DEF ScanFollows
    <2>2. ASSUME NEW w \in Worker, task'[w].at = "scan"
          PROVE  \A r \in Matching \ task'[w].todo : Asked(task[w].req, r)'
      <3>1. PICK q : q = task'[w].req
        BY Zenon
      <3>2. \A r \in Matching \ task'[w].todo : Asked(q, r)'
        BY <1>0, <2>1, <2>2, <3>1, ScansStep, Zenon
      <3>3. \A r : Asked(q, r)' => Asked(task[w].req, r)'
        BY <3>1, Zenon DEF Asked, Original
      <3> QED BY <3>2, <3>3, Zenon
    <2> QED BY <2>2, Zenon DEF ScanCovers
  <1>4. DoneCovers'
    <2> SUFFICES ASSUME NEW q \in Request, request'[q].search = "COMPLETED",
                        NEW r \in Matching
                 PROVE  Asked(q, r)'
      BY Zenon DEF DoneCovers
    <2>1. Asked(q, r)
      <3>1. CASE request[q].search = "COMPLETED"
        BY <1>0, <3>1, Zenon DEF DoneCovers
      <3>2. ASSUME NEW w \in Worker, task[w].at = "scan", task[w].req = q,
                   task[w].todo = {}
            PROVE  Asked(q, r)
        BY <1>0, <3>2, Zenon DEF ScanCovers
      <3> QED BY <1>0, <3>1, <3>2, SearchesStep, Zenon
    <2> QED BY <1>0, <1>2, <2>1, Zenon
  <1> QED BY <1>1, <1>2, <1>3, <1>4, Zenon DEF CoverInv

\* Searches that complete have asked for every match, and scans for what they
\* have passed.
THEOREM CoverInvariance == Spec => []CoverInv
  <1>1. Init => CoverInv
    <2>1. NoRow.status = "ABSENT" /\ NoRow.req = None
      BY Zenon DEF NoRow
    <2>2. NoTask.at # "scan" /\ NoRequest.search # "COMPLETED"
      BY Zenon DEF NoTask, NoRequest
    <2>3. ASSUME Init PROVE UnusedFree /\ OriginalsApart /\ ScanCovers /\ DoneCovers
      BY <2>1, <2>2, <2>3, Zenon
         DEF Init, UnusedFree, OriginalsApart, Original, ScanCovers, DoneCovers
    <2> QED BY <2>3, LeaseInit, Zenon DEF CoverInv
  <1>2. CoverInv /\ [Next]_vars => CoverInv'
    <2>1. ASSUME CoverInv, [Next]_vars PROVE CoverInv'
      BY <2>1, CoverStep, Zenon
    <2> QED BY <2>1, Zenon
  <1> QED BY <1>1, <1>2, PTL DEF Spec

\* collect_pending_enhancements_from_search: a search that completed has asked
\* for every match exactly once, however many scans of it ran, were cut short
\* or repeated, and whatever was retried.
THEOREM SearchIsCovered == Spec => []SearchCovered
  <1>1. CoverInv => SearchCovered
    <2> SUFFICES ASSUME CoverInv, NEW q \in Request, request[q].search = "COMPLETED",
                        NEW r \in Matching
                 PROVE  \E i \in RowId : \A j \in RowId : Original(j, q, r) <=> j = i
      BY Zenon DEF SearchCovered
    <2>1. r \in Reference /\ Asked(q, r)
      BY ConstantsAssumption, Zenon DEF CoverInv, DoneCovers
    <2>2. PICK i \in RowId : Original(i, q, r)
      BY <2>1, Zenon DEF Asked
    <2>3. \A j \in RowId : Original(j, q, r) <=> j = i
      BY <2>1, <2>2, Zenon DEF CoverInv, OriginalsApart
    <2> QED BY <2>3, Zenon
  <1> QED BY <1>1, CoverInvariance, PTL

-----------------------------------------------------------------------------
(* What tasks and calls hold, and what imports have stored *)

Batched(ids) == \A i \in ids : rows[i].batch # 0

\* The stages of an import after its results are committed.
Committed == {"failed", "discarded", "indexing", "index", "completed", "indexFailed",
              "automate"}

\* A task sorts rows of its batch, and has stored and indexed what it says.
TaskHolds(t) ==
    /\ t.ok \subseteq t.rows /\ t.discarded \subseteq t.rows /\ t.failed \subseteq t.rows
    /\ Batched(t.rows)
    /\ t.at \in {"import", "stored", "aborted"} => t.batch # 0
    /\ t.at \in Committed => \A i \in t.ok : stored[i] # 0
    /\ t.at = "completed" => t.ok \subseteq indexed

\* A call that answers a batch answers rows that are in one.
CallHolds(x) ==
    /\ x.at = "accept" => Batched(x.rows)
    /\ x.at = "reject" => x.batch # 0

\* A row in no batch waits; a row reported COMPLETED has its answer on the
\* reference and in the index.
Waiting == \A i \in RowId : rows[i].batch = 0 => rows[i].status \in {"ABSENT", "PENDING"}
Answered ==
    \A i \in RowId : rows[i].status = "COMPLETED" => stored[i] # 0 /\ i \in indexed

HoldInv ==
    /\ LeaseInv
    /\ \A w \in Worker : TaskHolds(task[w])
    /\ \A c \in Caller : CallHolds(call[c])
    /\ Waiting /\ Answered

\* Nothing that is held is lost.
Lasting ==
    \A i \in RowId : /\ rows[i].batch # 0 => rows'[i].batch # 0
                     /\ stored[i] # 0 => stored'[i] # 0
                     /\ i \in indexed => i \in indexed'

\* A step loses no batch of a row, no stored answer and no indexed one.
LEMMA LastingStep ==
    ASSUME LeaseInv, [Next]_vars
    PROVE  Lasting
  <1>1. TypeOK
    BY Zenon DEF LeaseInv
  <1>2. \A i \in RowId : rows[i].batch # 0 => rows'[i].batch # 0
    BY LeaseStep, Zenon
  <1>3. \/ UNCHANGED <<stored, indexed>>
        \/ \E w \in Worker : CommitResults(w) \/ Index(w)
    <2>1. ASSUME NEW w \in Worker, TaskStep(w), ~CommitResults(w), ~Index(w)
          PROVE  UNCHANGED <<stored, indexed>>
      BY <2>1, Zenon DEF TaskStep, TakeScan, ScanPage, ScanEnds, TakeImport, ReadResults,
                         AbortImport, CheckStatus, WriteStatus, IndexFails, Automate,
                         Finish
    <2>2. ASSUME NEW c \in Caller, CallStep(c) PROVE UNCHANGED <<stored, indexed>>
      BY <2>2, Zenon DEF CallStep, QueueScan, QueueScanFails, ClaimCommit, ClaimFails,
                         AcceptWrite, QueueImport, RejectWrite
    <2>3. CASE \/ \E q \in Request, b \in Robot :
                     \E refs \in (SUBSET Reference) \ {{}} : RequestList(q, refs, b)
               \/ \E c \in Caller, q \in Request, b \in Robot : RequestSearch(c, q, b)
               \/ \E c \in Caller, b \in Robot : Claim(c, b)
               \/ \E c \in Caller, b \in BatchesMade : AcceptCheck(c, b)
               \/ \E c \in Caller, b \in BatchesMade : RejectCheck(c, b)
               \/ \E b \in Batch : Lapse(b)
               \/ \E b \in Batch : Renew(b)
               \/ Expire
               \/ \E c \in Caller : EnqueueLost(c)
               \/ \E w \in Worker : Crash(w)
               \/ \E w \in Worker : LoseLock(w)
               \/ UNCHANGED vars
      BY <2>3, Zenon DEF RequestList, RequestSearch, Claim, AcceptCheck, RejectCheck,
                         Lapse, Renew, Expire, EnqueueLost, Crash, LoseLock, vars
    <2> QED BY <2>1, <2>2, <2>3, Zenon DEF Next
  <1>4. \A i \in RowId : stored[i] # 0 => stored'[i] # 0
    <2>1. ASSUME NEW w \in Worker, CommitResults(w), NEW i \in RowId, stored[i] # 0
          PROVE  stored'[i] # 0
      <3>1. stored'[i] = stored[i] \/ stored'[i] = stored[i] + 1
        BY <2>1, Zenon DEF CommitResults
      <3>2. stored[i] \in Nat
        BY <1>1, Zenon DEF TypeOK
      <3> QED BY <2>1, <3>1, <3>2
    <2> QED BY <1>3, <2>1, Zenon DEF Index
  <1>5. \A i \in RowId : i \in indexed => i \in indexed'
    BY <1>3, Zenon DEF Index, CommitResults
  <1> QED BY <1>2, <1>4, <1>5, Zenon DEF Lasting

\* What a task or a call holds, it holds after a step too.
LEMMA HoldsOn ==
    ASSUME Lasting
    PROVE  /\ \A t \in Task : TaskHolds(t) => TaskHolds(t)'
           /\ \A x \in Call : CallHolds(x) => CallHolds(x)'
  <1>1. \A ids \in SUBSET RowId : Batched(ids) => Batched(ids)'
    BY Zenon DEF Lasting, Batched
  <1>2. ASSUME NEW t \in Task, TaskHolds(t) PROVE TaskHolds(t)'
    <2>1. t.rows \in SUBSET RowId /\ t.ok \in SUBSET RowId
      BY Zenon DEF Task
    <2>2. Batched(t.rows)'
      BY <1>1, <1>2, <2>1, Zenon DEF TaskHolds
    <2>3. t.at \in Committed => \A i \in t.ok : stored'[i] # 0
      BY <1>2, <2>1, Zenon DEF TaskHolds, Lasting
    <2>4. t.at = "completed" => t.ok \subseteq indexed'
      BY <1>2, <2>1, Zenon DEF TaskHolds, Lasting
    <2> QED BY <1>2, <2>2, <2>3, <2>4, Zenon DEF TaskHolds
  <1>3. ASSUME NEW x \in Call, CallHolds(x) PROVE CallHolds(x)'
    <2>1. x.rows \in SUBSET RowId
      BY Zenon DEF Call
    <2> QED BY <1>1, <1>3, <2>1, Zenon DEF CallHolds
  <1> QED BY <1>2, <1>3, Zenon

\* A task that holds no rows.
LEMMA HoldsNothing ==
    ASSUME NEW t \in Task, t.rows = {}, t.ok = {}, t.discarded = {}, t.failed = {},
           t.at \notin {"import", "stored", "aborted"}
    PROVE  TaskHolds(t)
  BY Zenon DEF TaskHolds, Batched

\* A task that holds what it held, at another stage.
LEMMA HoldsSame ==
    ASSUME NEW t \in Task, NEW u \in Task, TaskHolds(t),
           u.rows = t.rows, u.ok = t.ok, u.discarded = t.discarded, u.failed = t.failed,
           u.batch = t.batch,
           u.at \in {"import", "stored", "aborted"} => t.at \in {"import", "stored", "aborted"},
           u.at \in Committed => t.at \in Committed,
           u.at = "completed" => t.at = "completed"
    PROVE  TaskHolds(u)
  BY Zenon DEF TaskHolds

\* Tasks end, advance and start holding what they may.
LEMMA HoldsEnded ==
    ASSUME NEW t \in Task
    PROVE  /\ NoTask \in Task /\ TaskHolds(NoTask)
           /\ Ended(t) \in Task /\ TaskHolds(Ended(t))
  <1>1. /\ NoTask \in Task
        /\ NoTask.rows = {} /\ NoTask.ok = {} /\ NoTask.discarded = {} /\ NoTask.failed = {}
        /\ NoTask.at \notin {"import", "stored", "aborted"}
    BY Zenon DEF NoTask, Task
  <1>2. /\ Ended(t) \in Task
        /\ Ended(t).rows = {} /\ Ended(t).ok = {} /\ Ended(t).discarded = {}
        /\ Ended(t).failed = {}
        /\ Ended(t).at \notin {"import", "stored", "aborted"}
    BY Zenon DEF Ended, NoTask, Task
  <1> QED BY <1>1, <1>2, HoldsNothing, Zenon

\* A task that advances holds what it held.
LEMMA HoldsAdvanced ==
    ASSUME NEW t \in Task, TaskHolds(t), t.at \in DOMAIN NewStatus
    PROVE  Advanced(t) \in Task /\ TaskHolds(Advanced(t))
  <1>1. CASE t.at = "aborted"
    BY <1>1, HoldsEnded, Zenon DEF Advanced
  <1>2. CASE t.at # "aborted"
    <2> DEFINE s == Following[t.at]
               u == [t EXCEPT !.at = s, !.checked = FALSE]
    <2>1. s \in {"discarded", "indexing", "index", "automate"} /\ t.at \in Committed
      BY <1>2 DEF NewStatus, Following, Committed
    <2>2. Advanced(t) = u
      BY <1>2, Zenon DEF Advanced
    <2> HIDE DEF s
    <2>3. /\ u \in Task /\ u.at = s /\ u.batch = t.batch /\ u.rows = t.rows
          /\ u.ok = t.ok /\ u.discarded = t.discarded /\ u.failed = t.failed
      BY <2>1, Zenon DEF Task
    <2> HIDE DEF u
    <2>4. u.at \notin {"import", "stored", "aborted", "completed"}
      BY <2>1, <2>3, Zenon
    <2>5. TaskHolds(u)
      BY <2>1, <2>3, <2>4, HoldsSame, Zenon
    <2> QED BY <2>2, <2>3, <2>5, Zenon
  <1> QED BY <1>1, <1>2, Zenon

\* The tasks after a step that replaces one of them.
LEMMA HoldsReplaced ==
    ASSUME TypeOK, Lasting, \A v \in Worker : TaskHolds(task[v]),
           NEW w \in Worker, NEW t \in Task, TaskHolds(t)',
           task' = [task EXCEPT ![w] = t]
    PROVE  \A v \in Worker : TaskHolds(task[v])'
  <1> SUFFICES ASSUME NEW v \in Worker PROVE TaskHolds(task[v])'
    BY Zenon
  <1>1. PICK u : u = task[v]
    BY Zenon
  <1>2. u \in Task /\ TaskHolds(u)
    BY <1>1, Zenon DEF TypeOK
  <1>3. TaskHolds(u)'
    BY <1>2, HoldsOn, Zenon
  <1>4. CASE v = w
    <2>1. task'[v] = t
      BY <1>4, Zenon DEF TypeOK
    <2> QED BY <2>1, Zenon DEF TaskHolds, Batched
  <1>5. CASE v # w
    <2>1. task'[v] = u
      BY <1>1, <1>5, Zenon DEF TypeOK
    <2> QED BY <1>3, <2>1, Zenon DEF TaskHolds, Batched
  <1> QED BY <1>4, <1>5, Zenon

\* The rows of a batch are in one.
LEMMA RowsOfBatched ==
    ASSUME NEW b \in Batch
    PROVE  RowsOf(b) \subseteq RowId /\ Batched(RowsOf(b)) /\ b # 0
  <1>1. b # 0
    BY DEF Batch
  <1> QED BY <1>1, Zenon DEF RowsOf, Used, Batched

\* Tasks hold what they say, from step to step.
LEMMA TasksHold ==
    ASSUME HoldInv, [Next]_vars
    PROVE  \A v \in Worker : TaskHolds(task[v])'
  <1>0. /\ TypeOK /\ Lasting /\ task \in [Worker -> Task]
        /\ \A v \in Worker : TaskHolds(task[v])
    BY LastingStep, Zenon DEF HoldInv, LeaseInv, TypeOK
  <1> DEFINE Goal == \A v \in Worker : TaskHolds(task[v])'
  <1>1. ASSUME UNCHANGED task PROVE Goal
    <2> SUFFICES ASSUME NEW v \in Worker PROVE TaskHolds(task[v])'
      BY Zenon
    <2>1. PICK u : u = task[v]
      BY Zenon
    <2>2. TaskHolds(u)'
      BY <1>0, <2>1, HoldsOn, Zenon
    <2>3. task'[v] = u
      BY <1>1, <2>1, Zenon
    <2> QED BY <2>2, <2>3, Zenon DEF TaskHolds, Batched
  <1>2. ASSUME NEW w \in Worker, NEW t \in Task, TaskHolds(t), task' = [task EXCEPT ![w] = t]
        PROVE  Goal
    <2>1. TaskHolds(t)'
      BY <1>0, <1>2, HoldsOn, Zenon
    <2> QED BY <1>0, <1>2, <2>1, HoldsReplaced, Zenon
  <1>3. ASSUME NEW w \in Worker, NEW t \in Task, task' = [task EXCEPT ![w] = t],
               t.rows = task[w].rows, t.ok = task[w].ok, t.discarded = task[w].discarded,
               t.failed = task[w].failed, t.batch = task[w].batch,
               t.at \in {"import", "stored", "aborted"} =>
                   task[w].at \in {"import", "stored", "aborted"},
               t.at \in Committed => task[w].at \in Committed,
               t.at = "completed" => task[w].at = "completed"
        PROVE  Goal
    <2>1. TaskHolds(t)
      BY <1>0, <1>3, HoldsSame, Zenon
    <2> QED BY <1>2, <1>3, <2>1, Zenon
  <1>4. ASSUME NEW w \in Worker, NEW q \in Request, TakeScan(w, q) PROVE Goal
    <2> DEFINE t == [NoTask EXCEPT !.at = "scan", !.locked = TRUE,
                                   !.req = q, !.todo = Matching]
    <2>1. /\ t \in Task /\ t.rows = {} /\ t.ok = {} /\ t.discarded = {} /\ t.failed = {}
          /\ t.at \notin {"import", "stored", "aborted"}
      BY ConstantsAssumption, Zenon DEF NoTask, Task
    <2>2. UNCHANGED task \/ task' = [task EXCEPT ![w] = t]
      BY <1>4, Zenon DEF TakeScan
    <2> HIDE DEF t
    <2>3. TaskHolds(t)
      BY <2>1, HoldsNothing, Zenon
    <2> QED BY <1>1, <1>2, <2>1, <2>2, <2>3, Zenon
  <1>5. ASSUME NEW w \in Worker, ScanPage(w) PROVE Goal
    <2>1. PICK page : task' = [task EXCEPT ![w].todo = @ \ page]
      BY <1>5, Zenon DEF ScanPage
    <2> DEFINE t == [task[w] EXCEPT !.todo = @ \ page]
    <2>2. /\ t \in Task /\ t.rows = task[w].rows /\ t.ok = task[w].ok
          /\ t.discarded = task[w].discarded /\ t.failed = task[w].failed
          /\ t.batch = task[w].batch /\ t.at = task[w].at
      BY <1>0, ZenonT(30) DEF Task
    <2>3. task' = [task EXCEPT ![w] = t]
      BY <2>1, Zenon
    <2> HIDE DEF t
    <2> QED BY <1>3, <2>2, <2>3, Zenon
  <1>6. ASSUME NEW w \in Worker, NEW b \in Batch, TakeImport(w, b) PROVE Goal
    <2> DEFINE t == [NoTask EXCEPT !.at = "import", !.locked = TRUE,
                                   !.batch = b, !.rows = RowsOf(b)]
    <2>1. RowsOf(b) \subseteq RowId /\ Batched(RowsOf(b)) /\ b # 0
      BY RowsOfBatched, Zenon
    <2>2. /\ t \in Task /\ t.rows = RowsOf(b) /\ t.ok = {} /\ t.discarded = {}
          /\ t.failed = {} /\ t.at = "import" /\ t.batch = b
      BY <2>1, Zenon DEF NoTask, Task
    <2>3. task' = [task EXCEPT ![w] = t]
      BY <1>6, Zenon DEF TakeImport
    <2> HIDE DEF t
    <2>4. TaskHolds(t)
      BY <2>1, <2>2, Zenon DEF TaskHolds, Committed
    <2> QED BY <1>2, <2>2, <2>3, <2>4, Zenon
  <1>7. ASSUME NEW w \in Worker, ReadResults(w) PROVE Goal
    <2>1. PICK ok \in SUBSET Addable(task[w].rows) :
              \E discarded \in SUBSET (task[w].rows \ ok) :
                  task' = [task EXCEPT ![w] = Categorised(@, ok, discarded)]
      BY <1>7, Zenon DEF ReadResults
    <2>2. PICK discarded \in SUBSET (task[w].rows \ ok) :
              task' = [task EXCEPT ![w] = Categorised(task[w], ok, discarded)]
      BY <2>1, Zenon
    <2> DEFINE t == Categorised(task[w], ok, discarded)
               failed == task[w].rows \ (ok \cup discarded)
    <2>3. task[w] \in Task /\ TaskHolds(task[w]) /\ task[w].at = "import"
          /\ task[w].rows \subseteq RowId
      BY <1>0, <1>7, Zenon DEF ReadResults, Task
    <2>4. /\ ok \subseteq task[w].rows /\ discarded \subseteq task[w].rows
          /\ failed \subseteq task[w].rows
      BY <2>1, <2>2, Zenon DEF Addable
    <2>5. t = [task[w] EXCEPT !.at = "stored", !.ok = ok,
                              !.discarded = discarded, !.failed = failed]
      BY Zenon DEF Categorised
    <2> HIDE DEF failed, t
    <2>6. /\ t \in Task /\ t.at = "stored" /\ t.ok = ok /\ t.discarded = discarded
          /\ t.failed = failed /\ t.rows = task[w].rows /\ t.batch = task[w].batch
      <3>1. /\ ok \in SUBSET RowId /\ discarded \in SUBSET RowId
            /\ failed \in SUBSET RowId
        BY <2>3, <2>4, Zenon
      <3> QED BY <2>3, <2>5, <3>1, ZenonT(30) DEF Task
    <2>7. TaskHolds(t)
      BY <2>3, <2>4, <2>6, Zenon DEF TaskHolds, Committed
    <2> QED BY <1>2, <2>2, <2>6, <2>7, Zenon DEF t
  <1>8. ASSUME NEW w \in Worker, CommitResults(w) PROVE Goal
    <2>0. PICK t : t = [task[w] EXCEPT !.at = "failed"]
      BY Zenon
    <2>1. /\ t \in Task /\ t.rows = task[w].rows /\ t.ok = task[w].ok
          /\ t.discarded = task[w].discarded /\ t.failed = task[w].failed
          /\ t.batch = task[w].batch /\ t.at = "failed" /\ task[w].at = "stored"
      BY <1>0, <1>8, <2>0, ZenonT(30) DEF Task, CommitResults
    <2>2. task' = [task EXCEPT ![w] = t]
      BY <1>8, <2>0, Zenon DEF CommitResults
    <2>3. \A i \in t.ok : stored'[i] # 0
      <3>1. \A i \in t.ok : i \in RowId /\ stored'[i] = stored[i] + 1
        BY <1>8, <2>1, Zenon DEF CommitResults, Task
      <3>2. \A i \in RowId : stored[i] \in Nat
        BY <1>0, Zenon DEF TypeOK
      <3> QED BY <3>1, <3>2
    <2>4. Batched(t.rows)'
      <3>1. t.rows \subseteq RowId
        BY <2>1, Zenon DEF Task
      <3> QED BY <1>0, <2>1, <3>1, Zenon DEF TaskHolds, Batched, Lasting
    <2>5. TaskHolds(t)'
      BY <1>0, <2>1, <2>3, <2>4, Zenon DEF TaskHolds
    <2> QED BY <1>0, <2>1, <2>2, <2>5, HoldsReplaced, Zenon
  <1>9. ASSUME NEW w \in Worker, AbortImport(w) \/ IndexFails(w) PROVE Goal
    <2>1. PICK s \in {"aborted", "indexFailed"} :
              /\ task' = [task EXCEPT ![w].at = s]
              /\ s = "aborted" => task[w].at \in {"import", "stored"}
              /\ s = "indexFailed" => task[w].at = "index"
      BY <1>9, Zenon DEF AbortImport, IndexFails
    <2> DEFINE t == [task[w] EXCEPT !.at = s]
    <2>2. /\ t \in Task /\ t.rows = task[w].rows /\ t.ok = task[w].ok
          /\ t.discarded = task[w].discarded /\ t.failed = task[w].failed
          /\ t.batch = task[w].batch /\ t.at = s
      BY <1>0, ZenonT(30) DEF Task
    <2>3. task' = [task EXCEPT ![w] = t]
      BY <2>1, Zenon
    <2> HIDE DEF t
    <2>4. /\ t.at \in {"import", "stored", "aborted"} =>
                 task[w].at \in {"import", "stored", "aborted"}
          /\ t.at \in Committed => task[w].at \in Committed
          /\ t.at # "completed"
      BY <2>1, <2>2, Zenon DEF Committed
    <2> QED BY <1>3, <2>2, <2>3, <2>4, Zenon
  <1>10. ASSUME NEW w \in Worker, CheckStatus(w) PROVE Goal
    <2> DEFINE t == task[w]
               u == CASE Target(t) = {} -> Advanced(t)
                      [] Target(t) # {} /\ CanMove(Target(t), NewStatus[t.at])
                           -> [t EXCEPT !.checked = TRUE]
                      [] OTHER
                           -> IF t.at = "completed" THEN [t EXCEPT !.at = "indexFailed"]
                              ELSE Ended(t)
    <2>1. t \in Task /\ TaskHolds(t) /\ t.at \in DOMAIN NewStatus
      BY <1>0, <1>10, Zenon DEF CheckStatus
    <2>2. task' = [task EXCEPT ![w] = u]
      BY <1>10, Zenon DEF CheckStatus
    <2>3. \/ u = Advanced(t) \/ u = [t EXCEPT !.checked = TRUE]
          \/ u = Ended(t)
          \/ t.at = "completed" /\ u = [t EXCEPT !.at = "indexFailed"]
      BY Zenon
    <2> HIDE DEF t, u
    <2>4. LET x == [t EXCEPT !.checked = TRUE] IN x \in Task /\ TaskHolds(x)
      <3> DEFINE x == [t EXCEPT !.checked = TRUE]
      <3>1. /\ x \in Task /\ x.rows = t.rows /\ x.ok = t.ok /\ x.discarded = t.discarded
            /\ x.failed = t.failed /\ x.batch = t.batch /\ x.at = t.at
        BY <2>1, ZenonT(30) DEF Task
      <3> HIDE DEF x
      <3>2. x \in Task /\ TaskHolds(x)
        BY <2>1, <3>1, HoldsSame, Zenon
      <3> QED BY <3>2, Zenon DEF x
    <2>5. t.at = "completed" =>
             LET x == [t EXCEPT !.at = "indexFailed"] IN x \in Task /\ TaskHolds(x)
      <3> HAVE t.at = "completed"
      <3> DEFINE x == [t EXCEPT !.at = "indexFailed"]
      <3>1. /\ x \in Task /\ x.rows = t.rows /\ x.ok = t.ok /\ x.discarded = t.discarded
            /\ x.failed = t.failed /\ x.batch = t.batch /\ x.at = "indexFailed"
        BY <2>1, ZenonT(30) DEF Task
      <3> HIDE DEF x
      <3>2. x \in Task /\ TaskHolds(x)
        <4>1. "completed" \in Committed
          BY Zenon DEF Committed
        <4> QED BY <2>1, <3>1, <4>1, HoldsSame, Zenon
      <3> QED BY <3>2, Zenon DEF x
    <2>6. u \in Task /\ TaskHolds(u)
      BY <2>1, <2>3, <2>4, <2>5, HoldsEnded, HoldsAdvanced, Zenon
    <2> QED BY <1>2, <2>2, <2>6, Zenon
  <1>11. ASSUME NEW w \in Worker, WriteStatus(w) PROVE Goal
    <2>1. task[w] \in Task /\ task[w].at \in DOMAIN NewStatus
          /\ task' = [task EXCEPT ![w] = Advanced(task[w])]
      BY <1>0, <1>11, Zenon DEF WriteStatus
    <2>2. PICK t : t = Advanced(task[w])
      BY Zenon
    <2>3. t \in Task /\ TaskHolds(t)
      BY <1>0, <2>1, <2>2, HoldsAdvanced, Zenon
    <2> QED BY <1>2, <2>1, <2>2, <2>3, Zenon
  <1>12. ASSUME NEW w \in Worker, Index(w) PROVE Goal
    <2>0. PICK t : t = [task[w] EXCEPT !.at = "completed"]
      BY Zenon
    <2>1. /\ t \in Task /\ t.rows = task[w].rows /\ t.ok = task[w].ok
          /\ t.discarded = task[w].discarded /\ t.failed = task[w].failed
          /\ t.batch = task[w].batch /\ t.at = "completed" /\ task[w].at = "index"
          /\ task[w] \in Task
      BY <1>0, <1>12, <2>0, ZenonT(30) DEF Task, Index
    <2>2. task' = [task EXCEPT ![w] = t]
      BY <1>12, <2>0, Zenon DEF Index
    <2>3. TaskHolds(task[w]) /\ task[w].at \in Committed
      BY <1>0, <2>1, Zenon DEF Committed
    <2>4. \A i \in t.ok : i \in t.rows /\ i \in RowId /\ stored[i] # 0
      BY <2>1, <2>3, Zenon DEF TaskHolds, Task
    <2>5. \A i \in t.ok : stored[i] > 0
      <3>1. \A i \in RowId : stored[i] \in Nat
        BY <1>0, Zenon DEF TypeOK
      <3> QED BY <2>4, <3>1
    <2>6. \A i \in t.ok : i \in Used
      BY <2>1, <2>3, <2>4, Zenon
         DEF TaskHolds, Batched, Used, HoldInv, LeaseInv, BatchedNamed
    <2>7. t.ok \subseteq indexed'
      BY <1>12, <2>1, <2>4, <2>5, <2>6, Zenon DEF Index
    <2>8. Batched(t.rows)'
      <3>1. t.rows \subseteq RowId
        BY <2>1, Zenon DEF Task
      <3> QED BY <1>0, <2>1, <2>3, <3>1, Zenon DEF TaskHolds, Batched, Lasting
    <2>9. \A i \in t.ok : stored'[i] # 0
      BY <1>0, <2>4, Zenon DEF Lasting
    <2>10. TaskHolds(t)'
      BY <2>1, <2>3, <2>7, <2>8, <2>9, Zenon DEF TaskHolds
    <2> QED BY <1>0, <2>1, <2>2, <2>10, HoldsReplaced, Zenon
  <1>13. ASSUME NEW w \in Worker, Automate(w) PROVE Goal
    <2>1. PICK t : t = Ended(task[w])
      BY Zenon
    <2>2. task' = [task EXCEPT ![w] = t]
      BY <1>13, <2>1, Zenon DEF Automate
    <2>3. t \in Task /\ TaskHolds(t)
      BY <1>0, <2>1, HoldsEnded, Zenon
    <2> QED BY <1>2, <2>2, <2>3, Zenon
  <1>14. ASSUME NEW w \in Worker, task' = [task EXCEPT ![w] = NoTask] PROVE Goal
    <2>1. task[w] \in Task
      BY <1>0, Zenon
    <2>2. NoTask \in Task /\ TaskHolds(NoTask)
      BY <2>1, HoldsEnded, Zenon
    <2> QED BY <1>2, <1>14, <2>2, Zenon
  <1>15. ASSUME NEW w \in Worker, LoseLock(w) PROVE Goal
    <2> DEFINE t == [task[w] EXCEPT !.locked = FALSE]
    <2>1. /\ t \in Task /\ t.rows = task[w].rows /\ t.ok = task[w].ok
          /\ t.discarded = task[w].discarded /\ t.failed = task[w].failed
          /\ t.batch = task[w].batch /\ t.at = task[w].at
      BY <1>0, ZenonT(30) DEF Task
    <2>2. task' = [task EXCEPT ![w] = t]
      BY <1>15, Zenon DEF LoseLock
    <2> HIDE DEF t
    <2> QED BY <1>3, <2>1, <2>2, Zenon
  <1>16. ASSUME NEW w \in Worker, TaskStep(w) PROVE Goal
    <2>1. CASE \/ \E status \in {"COMPLETED", "FAILED"} : ScanEnds(w, status)
               \/ Finish(w)
      BY <1>14, <2>1, Zenon DEF ScanEnds, Finish
    <2> QED BY <1>4, <1>5, <1>6, <1>7, <1>8, <1>9, <1>10, <1>11, <1>12, <1>13, <1>16,
               <2>1, Zenon DEF TaskStep
  <1>17. CASE \/ \E c \in Caller : CallStep(c)
              \/ \E q \in Request, b \in Robot :
                    \E refs \in (SUBSET Reference) \ {{}} : RequestList(q, refs, b)
              \/ \E c \in Caller, q \in Request, b \in Robot : RequestSearch(c, q, b)
              \/ \E c \in Caller, b \in Robot : Claim(c, b)
              \/ \E c \in Caller, b \in BatchesMade : AcceptCheck(c, b)
              \/ \E c \in Caller, b \in BatchesMade : RejectCheck(c, b)
              \/ \E b \in Batch : Lapse(b)
              \/ \E b \in Batch : Renew(b)
              \/ Expire
              \/ \E c \in Caller : EnqueueLost(c)
              \/ UNCHANGED vars
    BY <1>1, <1>17, Zenon
       DEF CallStep, QueueScan, QueueScanFails, ClaimCommit, ClaimFails, AcceptWrite,
           QueueImport, RejectWrite, RequestList, RequestSearch, Claim, AcceptCheck,
           RejectCheck, Lapse, Renew, Expire, EnqueueLost, vars
  <1>18. ASSUME NEW w \in Worker, Crash(w) PROVE Goal
    BY <1>14, <1>18, Zenon DEF Crash
  <1> QED BY <1>15, <1>16, <1>17, <1>18, Zenon DEF Next

\* Calls hold what they say, from step to step.
LEMMA CallsHold ==
    ASSUME HoldInv, [Next]_vars
    PROVE  \A d \in Caller : CallHolds(call[d])'
  <1>0. /\ Lasting /\ call \in [Caller -> Call]
        /\ \A d \in Caller : CallHolds(call[d])
    BY LastingStep, Zenon DEF HoldInv, LeaseInv, TypeOK
  <1> DEFINE Goal == \A d \in Caller : CallHolds(call[d])'
  <1>1. ASSUME NEW d \in Caller, call'[d] = call[d] PROVE CallHolds(call[d])'
    <2>1. PICK x : x = call[d]
      BY Zenon
    <2>2. CallHolds(x)'
      BY <1>0, <2>1, HoldsOn, Zenon
    <2> QED BY <1>1, <2>1, <2>2, Zenon DEF CallHolds, Batched
  <1>2. ASSUME UNCHANGED call PROVE Goal
    BY <1>1, <1>2, Zenon
  <1>3. ASSUME NEW c \in Caller, NEW x \in Call, CallHolds(x),
               call' = [call EXCEPT ![c] = x]
        PROVE  Goal
    <2>1. CallHolds(x)'
      BY <1>0, <1>3, HoldsOn, Zenon
    <2>2. call'[c] = x
      BY <1>0, <1>3, Zenon
    <2>3. CallHolds(call[c])'
      BY <2>1, <2>2, Zenon DEF CallHolds, Batched
    <2>4. \A d \in Caller : d # c => call'[d] = call[d]
      BY <1>0, <1>3, Zenon
    <2> QED BY <1>1, <2>3, <2>4, Zenon
  <1>4. ASSUME NEW c \in Caller, NEW x \in Call, x.at \notin {"accept", "reject"},
               call' = [call EXCEPT ![c] = x]
        PROVE  Goal
    BY <1>3, <1>4, Zenon DEF CallHolds
  <1>5. ASSUME NEW c \in Caller, call' = [call EXCEPT ![c] = NoCall] PROVE Goal
    <2>1. NoCall \in Call /\ NoCall.at \notin {"accept", "reject"}
      BY Zenon DEF NoCall, Call
    <2> QED BY <1>4, <1>5, <2>1, Zenon
  <1>6. ASSUME NEW c \in Caller, NEW q \in Request, NEW b \in Robot,
               RequestSearch(c, q, b)
        PROVE  Goal
    <2> DEFINE x == [call[c] EXCEPT !.at = "queueScan", !.req = q]
    <2>1. x \in Call /\ x.at \notin {"accept", "reject"}
      BY <1>0, Zenon DEF Call
    <2>2. call' = [call EXCEPT ![c] = x]
      BY <1>6, Zenon DEF RequestSearch
    <2> HIDE DEF x
    <2> QED BY <1>4, <2>1, <2>2, Zenon
  <1>7. ASSUME NEW c \in Caller, NEW b \in Robot, Claim(c, b) PROVE Goal
    <2> DEFINE x == [call[c] EXCEPT !.at = "claim", !.robot = b,
                                    !.rows = Oldest(Available(b), ClaimLimit)]
    <2>1. Oldest(Available(b), ClaimLimit) \subseteq RowId
      BY Zenon DEF Oldest, Available, Used
    <2>2. x \in Call /\ x.at \notin {"accept", "reject"}
      BY <1>0, <2>1, ZenonT(30) DEF Call
    <2>3. call' = [call EXCEPT ![c] = x]
      BY <1>7, Zenon DEF Claim
    <2> HIDE DEF x
    <2> QED BY <1>4, <2>2, <2>3, Zenon
  <1>8. ASSUME NEW c \in Caller, NEW b \in Batch, NEW s \in {"accept", "reject"},
               call' = [call EXCEPT ![c].at = s, ![c].rows = RowsOf(b),
                                    ![c].batch = b]
        PROVE  Goal
    <2> DEFINE x == [call[c] EXCEPT !.at = s, !.rows = RowsOf(b), !.batch = b]
    <2>1. RowsOf(b) \subseteq RowId /\ Batched(RowsOf(b)) /\ b # 0
      BY RowsOfBatched, Zenon
    <2>2. x \in Call /\ x.rows = RowsOf(b) /\ x.batch = b
      BY <1>0, <2>1, ZenonT(30) DEF Call
    <2>3. call' = [call EXCEPT ![c] = x]
      BY <1>8, Zenon
    <2> HIDE DEF x
    <2>4. CallHolds(x)
      BY <2>1, <2>2, Zenon DEF CallHolds
    <2> QED BY <1>3, <2>2, <2>3, <2>4, Zenon
  <1>9. ASSUME NEW c \in Caller, CallStep(c) PROVE Goal
    <2>1. CASE AcceptWrite(c)
      <3> DEFINE x == [call[c] EXCEPT !.at = "queueImport"]
      <3>1. x \in Call /\ x.at \notin {"accept", "reject"}
        BY <1>0, Zenon DEF Call
      <3>2. call' = [call EXCEPT ![c] = x]
        BY <2>1, Zenon DEF AcceptWrite
      <3> HIDE DEF x
      <3> QED BY <1>4, <3>1, <3>2, Zenon
    <2>2. CASE ~AcceptWrite(c)
      <3>1. call' = [call EXCEPT ![c] = NoCall]
        BY <1>9, <2>2, Zenon DEF CallStep, QueueScan, QueueScanFails, ClaimCommit,
                                 ClaimFails, QueueImport, RejectWrite
      <3> QED BY <1>5, <3>1, Zenon
    <2> QED BY <2>1, <2>2, Zenon
  <1>10. ASSUME NEW c \in Caller, EnqueueLost(c) PROVE Goal
    BY <1>5, <1>10, Zenon DEF EnqueueLost
  <1>11. ASSUME NEW w \in Worker, TaskStep(w) PROVE Goal
    BY <1>2, <1>11, Zenon
       DEF TaskStep, TakeScan, ScanPage, ScanEnds, TakeImport, ReadResults, CommitResults,
           AbortImport, CheckStatus, WriteStatus, Index, IndexFails, Automate, Finish
  <1>12. ASSUME NEW c \in Caller, NEW b \in BatchesMade,
                AcceptCheck(c, b) \/ RejectCheck(c, b)
         PROVE  Goal
    BY <1>8, <1>12, Zenon DEF AcceptCheck, RejectCheck, BatchesMade
  <1>13. CASE \/ \E q \in Request, b \in Robot :
                    \E refs \in (SUBSET Reference) \ {{}} : RequestList(q, refs, b)
              \/ \E b \in Batch : Lapse(b)
              \/ \E b \in Batch : Renew(b)
              \/ Expire
              \/ \E w \in Worker : Crash(w)
              \/ \E w \in Worker : LoseLock(w)
              \/ UNCHANGED vars
    BY <1>2, <1>13, Zenon DEF RequestList, Lapse, Renew, Expire, Crash, LoseLock, vars
  <1> QED BY <1>6, <1>7, <1>9, <1>10, <1>11, <1>12, <1>13, Zenon DEF Next

\* The statuses of rows no robot has answered yet.
Open == {"ABSENT", "PENDING", "PROCESSING"}

\* Rows already in a batch are moved on by the status updates of a call or of a
\* task; COMPLETED is written by an import that has indexed the rows.
Settles ==
    \E ids \in SUBSET RowId, s \in Status \ (Open \cup {"EXPIRED"}) :
        /\ rows' = Moved(ids, s) /\ Batched(ids)
        /\ s = "COMPLETED" => \A i \in ids : stored[i] # 0 /\ i \in indexed
        /\ UNCHANGED <<stored, indexed>>

\* Rows are added that wait for their robot and are no retries.
Adds ==
    \E new : \E ids \in SUBSET RowId :
        /\ Inserted(rows, new, ids) /\ UNCHANGED <<stored, indexed>>
        /\ \A row \in new : row.status = "PENDING" /\ row.batch = 0 /\ row.retryOf = 0

\* The rows a status update of a task writes are in a batch.
LEMMA TargetHeld ==
    ASSUME NEW t \in Task, TaskHolds(t), t.at \in DOMAIN NewStatus
    PROVE  Target(t) \subseteq RowId /\ Batched(Target(t))
  <1>1. CASE t.at = "aborted"
    <2>1. Target(t) = RowsOf(t.batch)
      BY <1>1, Zenon DEF Target
    <2>2. t.batch # 0
      BY <1>1, Zenon DEF TaskHolds
    <2> QED BY <2>1, <2>2, Zenon DEF RowsOf, Used, Batched
  <1>2. CASE t.at # "aborted"
    <2>1. Target(t) \in {t.failed, t.discarded, t.ok}
      BY <1>2, Zenon DEF Target
    <2>2. t.failed \subseteq t.rows /\ t.discarded \subseteq t.rows /\ t.ok \subseteq t.rows
          /\ t.rows \subseteq RowId /\ Batched(t.rows)
      BY Zenon DEF TaskHolds, Task
    <2> QED BY <2>1, <2>2, Zenon DEF Batched
  <1> QED BY <1>1, <1>2, Zenon

\* How the rows change: some are settled, claimed, expired or added.
LEMMA RowChanges ==
    ASSUME HoldInv, [Next]_vars
    PROVE  \/ UNCHANGED rows
           \/ Settles
           \/ \E c \in Caller : ClaimCommit(c)
           \/ Expire
           \/ Adds
  <1>0. /\ \A w \in Worker : task[w] \in Task /\ TaskHolds(task[w])
        /\ \A c \in Caller : call[c] \in Call /\ CallHolds(call[c])
    BY Zenon DEF HoldInv, LeaseInv, TypeOK
  <1>1. ASSUME NEW new, Insert(rows, new), UNCHANGED <<stored, indexed>>,
               \A row \in new : row.status = "PENDING" /\ row.batch = 0 /\ row.retryOf = 0
        PROVE  Adds
    BY <1>1, InsertExact, Zenon DEF Adds
  <1>2. ASSUME NEW q, NEW refs, NEW b, CreatePending(q, refs, b),
               UNCHANGED <<stored, indexed>>
        PROVE  Adds
    <2>1. PICK new : new = {NewRow(q, r, b, 0) : r \in Missing(q, refs)}
      BY Zenon
    <2>2. \A row \in new : row.status = "PENDING" /\ row.batch = 0 /\ row.retryOf = 0
      BY <2>1 DEF NewRow
    <2> QED BY <1>1, <1>2, <2>1, <2>2, Zenon DEF CreatePending
  <1>3. ASSUME NEW c \in Caller, AcceptWrite(c) PROVE Settles
    <2>1. call[c].rows \in SUBSET RowId /\ Batched(call[c].rows)
      BY <1>0, <1>3, Zenon DEF AcceptWrite, CallHolds, Call
    <2>2. /\ "IMPORTING" \in Status \ (Open \cup {"EXPIRED"}) /\ "IMPORTING" # "COMPLETED"
      BY StatusesWritten, Zenon DEF Open
    <2> QED BY <1>3, <2>1, <2>2, Zenon DEF AcceptWrite, Settles
  <1>4. ASSUME NEW c \in Caller, RejectWrite(c) PROVE Settles
    <2>1. call[c].batch # 0
      BY <1>0, <1>4, Zenon DEF RejectWrite, CallHolds
    <2>2. RowsOf(call[c].batch) \in SUBSET RowId /\ Batched(RowsOf(call[c].batch))
      BY <2>1, Zenon DEF RowsOf, Used, Batched
    <2>3. /\ "FAILED" \in Status \ (Open \cup {"EXPIRED"}) /\ "FAILED" # "COMPLETED"
      BY StatusesWritten, Zenon DEF Open
    <2> QED BY <1>4, <2>2, <2>3, Zenon DEF RejectWrite, Settles
  <1>5. ASSUME NEW w \in Worker, WriteStatus(w) PROVE Settles
    <2>1. PICK t : t = task[w]
      BY Zenon
    <2>2. /\ t \in Task /\ TaskHolds(t) /\ t.at \in DOMAIN NewStatus
          /\ rows' = Moved(Target(t), NewStatus[t.at]) /\ UNCHANGED <<stored, indexed>>
      BY <1>0, <1>5, <2>1, Zenon DEF WriteStatus
    <2>3. Target(t) \in SUBSET RowId /\ Batched(Target(t))
      BY <2>2, TargetHeld, Zenon
    <2>4. NewStatus[t.at] \in Status \ (Open \cup {"EXPIRED"})
      BY <2>2, StatusesWritten, Zenon DEF Open
    <2>5. NewStatus[t.at] = "COMPLETED" =>
             \A i \in Target(t) : stored[i] # 0 /\ i \in indexed
      <3> HAVE NewStatus[t.at] = "COMPLETED"
      <3>1. t.at = "completed"
        BY <2>2, StatusesWritten, Zenon
      <3>2. Target(t) = t.ok /\ t.at \in Committed
        BY <3>1, Zenon DEF Target, Committed
      <3> QED BY <2>2, <3>1, <3>2, Zenon DEF TaskHolds
    <2> QED BY <2>2, <2>3, <2>4, <2>5, Zenon DEF Settles
  <1>6. ASSUME NEW w \in Worker, Automate(w)
        PROVE  Adds
    <2>1. PICK matches \in SUBSET ((Robot \ {robotOf[task[w].batch]})
                                      \X {rows[i].ref : i \in task[w].ok}) :
              Insert(rows, {NewRow(None, m[2], m[1], 0) : m \in matches})
      BY <1>6, Zenon DEF Automate
    <2>2. PICK new : new = {NewRow(None, m[2], m[1], 0) : m \in matches}
      BY Zenon
    <2>3. \A row \in new : row.status = "PENDING" /\ row.batch = 0 /\ row.retryOf = 0
      BY <2>2 DEF NewRow
    <2> QED BY <1>1, <1>6, <2>1, <2>2, <2>3, Zenon DEF Automate
  <1>7. ASSUME NEW w \in Worker, ScanPage(w)
        PROVE  Adds
    BY <1>2, <1>7, Zenon DEF ScanPage
  <1>8. ASSUME NEW q, NEW b, NEW refs, RequestList(q, refs, b)
        PROVE  Adds
    BY <1>2, <1>8, Zenon DEF RequestList
  <1> QED BY RowWrites, <1>3, <1>4, <1>5, <1>6, <1>7, <1>8, Zenon

\* From step to step, a row in no batch waits, a row reported COMPLETED is
\* answered.
LEMMA AnsweredStep ==
    ASSUME HoldInv, [Next]_vars
    PROVE  Waiting' /\ Answered'
  <1>0. /\ TypeOK /\ rows \in [RowId -> Row] /\ Lasting /\ Waiting /\ Answered
    BY LastingStep, Zenon DEF HoldInv, LeaseInv, TypeOK
  <1>1. ASSUME NEW i \in RowId, rows'[i] = rows[i]
        PROVE  /\ rows'[i].batch = 0 => rows'[i].status \in {"ABSENT", "PENDING"}
               /\ rows'[i].status = "COMPLETED" => stored'[i] # 0 /\ i \in indexed'
    BY <1>0, <1>1, Zenon DEF Waiting, Answered, Lasting
  <1>2. CASE UNCHANGED rows
    BY <1>1, <1>2, Zenon DEF Waiting, Answered
  <1>3. CASE Settles
    <2>1. PICK ids \in SUBSET RowId, s \in Status \ (Open \cup {"EXPIRED"}) :
              /\ rows' = Moved(ids, s) /\ Batched(ids)
              /\ s = "COMPLETED" => \A i \in ids : stored[i] # 0 /\ i \in indexed
      BY <1>3, Zenon DEF Settles
    <2>2. \A i \in RowId : /\ rows'[i].batch = rows[i].batch
                           /\ i \in ids => rows'[i].status = s
                           /\ i \notin ids => rows'[i].status = rows[i].status
      BY <1>0, <2>1, MovedKeeps
    <2>3. \A i \in RowId : rows'[i].batch = 0 => rows'[i].status \in {"ABSENT", "PENDING"}
      BY <1>0, <2>1, <2>2, Zenon DEF Waiting, Batched
    <2>4. \A i \in RowId : rows'[i].status = "COMPLETED" => stored'[i] # 0 /\ i \in indexed'
      BY <1>0, <2>1, <2>2, Zenon DEF Answered, Lasting
    <2> QED BY <2>3, <2>4, Zenon DEF Waiting, Answered
  <1>4. ASSUME NEW c \in Caller, ClaimCommit(c) PROVE Waiting' /\ Answered'
    <2>1. \A i \in RowId : \/ rows'[i] = rows[i]
                           \/ rows'[i].status = "PROCESSING" /\ rows'[i].batch # 0
      <3>1. \A b \in Batch : b # 0
        BY DEF Batch
      <3> QED BY <1>0, <1>4, <3>1, CommitKeeps, Zenon
    <2> QED BY <1>1, <2>1, Zenon DEF Waiting, Answered
  <1>5. CASE Expire
    <2>1. PICK ids \in SUBSET RowId, added \in SUBSET RowId :
              /\ \A i \in ids : rows[i].status = "PROCESSING" /\ rows[i].batch # 0
              /\ Inserted(Moved(ids, "EXPIRED"),
                          {NewRow(rows[i].req, rows[i].ref, rows[i].robot, i) :
                             i \in Retried(ids)}, added)
      BY <1>0, <1>5, ExpireRows, Zenon
    <2>2. \A i \in added : rows'[i].status = "PENDING"
      BY <2>1, RetryRow, Zenon DEF Inserted
    <2>3. \A i \in RowId \ added :
             \/ rows'[i].batch # 0 /\ rows'[i].status = "EXPIRED"
             \/ rows'[i].batch = rows[i].batch /\ rows'[i].status = rows[i].status
      <3>1. PICK table : table = Moved(ids, "EXPIRED")
        BY Zenon
      <3>2. \A i \in RowId : /\ table[i].batch = rows[i].batch
                             /\ i \in ids => table[i].status = "EXPIRED"
                             /\ i \notin ids => table[i].status = rows[i].status
        BY <1>0, <3>1, StatusesWritten, MovedKeeps
      <3>3. \A i \in RowId \ added : rows'[i] = table[i]
        BY <2>1, <3>1, Zenon DEF Inserted
      <3> QED BY <2>1, <3>2, <3>3, Zenon
    <2>4. UNCHANGED <<stored, indexed>>
      BY <1>5, Zenon DEF Expire
    <2> QED BY <1>0, <2>2, <2>3, <2>4, Zenon DEF Waiting, Answered
  <1>6. CASE Adds
    <2>1. \A i \in RowId : rows'[i] = rows[i] \/ rows'[i].status = "PENDING"
      BY <1>6, Zenon DEF Adds, Inserted
    <2> QED BY <1>1, <2>1, Zenon DEF Waiting, Answered
  <1> QED BY <1>2, <1>3, <1>4, <1>5, <1>6, RowChanges, Zenon

\* HoldInv holds from step to step.
LEMMA HoldStep ==
    ASSUME HoldInv, [Next]_vars
    PROVE  HoldInv'
  <1>1. LeaseInv'
    BY LeaseStep, Zenon DEF HoldInv
  <1> QED BY <1>1, TasksHold, CallsHold, AnsweredStep, Zenon DEF HoldInv

\* Nothing is held at first.
LEMMA HoldInit ==
    ASSUME Init
    PROVE  HoldInv
  <1>1. LeaseInv
    BY LeaseInit, Zenon
  <1>2. \A w \in Worker : TaskHolds(task[w])
    BY Zenon DEF Init, NoTask, TaskHolds, Batched, Committed
  <1>3. \A c \in Caller : CallHolds(call[c])
    BY Zenon DEF Init, NoCall, CallHolds
  <1>4. Waiting /\ Answered
    BY Zenon DEF Init, NoRow, Waiting, Answered
  <1> QED BY <1>1, <1>2, <1>3, <1>4, Zenon DEF HoldInv

\* What tasks and calls hold is an invariant.
THEOREM HoldInvariance == Spec => []HoldInv
  <1>1. Init => HoldInv
    BY HoldInit, Zenon
  <1>2. HoldInv /\ [Next]_vars => HoldInv'
    BY HoldStep, Zenon
  <1> QED BY <1>1, <1>2, PTL DEF Spec

-----------------------------------------------------------------------------
(* One import task at a time *)

\* What an import is about to add was not added before, and no answer is added
\* twice.
AddedOnce ==
    /\ \A w \in Worker : task[w].at = "stored" => \A i \in task[w].ok : stored[i] = 0
    /\ \A i \in RowId : stored[i] <= 1

OneWorker == \A v, w \in Worker : v = w

\* With one import task at a time an answer is added once, from step to step.
LEMMA AddedStep ==
    ASSUME HoldInv, AddedOnce, OneWorker, [Next]_vars
    PROVE  AddedOnce'
  <1>0. /\ task \in [Worker -> Task] /\ stored \in [RowId -> Nat]
    BY Zenon DEF HoldInv, LeaseInv, TypeOK
  <1>1. ASSUME NEW w \in Worker, ReadResults(w) PROVE AddedOnce'
    <2>1. PICK ok \in SUBSET Addable(task[w].rows), discarded \in SUBSET RowId :
              task' = [task EXCEPT ![w] = Categorised(task[w], ok, discarded)]
      <3>1. task[w].rows \subseteq RowId
        BY <1>0, Zenon DEF Task
      <3> QED BY <1>1, <3>1, Zenon DEF ReadResults
    <2>2. Categorised(task[w], ok, discarded).ok = ok
      <3>1. task[w] \in Task
        BY <1>0, Zenon
      <3> QED BY <3>1, ZenonT(30) DEF Categorised, Task
    <2>3. task'[w].ok = ok
      BY <1>0, <2>1, <2>2, Zenon
    <2>4. UNCHANGED stored /\ \A i \in ok : stored[i] = 0
      BY <1>1, <2>1, Zenon DEF ReadResults, Addable
    <2>5. \A v \in Worker : v = w
      BY Zenon DEF OneWorker
    <2> QED BY <2>3, <2>4, <2>5, Zenon DEF AddedOnce
  <1>2. ASSUME NEW w \in Worker, CommitResults(w) PROVE AddedOnce'
    <2>1. task'[w].at = "failed"
      BY <1>0, <1>2, Zenon DEF CommitResults, Task
    <2>2. \A v \in Worker : v = w
      BY Zenon DEF OneWorker
    <2>3. \A i \in RowId : stored'[i] <= 1
      <3>1. \A i \in task[w].ok : stored[i] = 0
        BY <1>2, Zenon DEF CommitResults, AddedOnce
      <3>2. \A i \in RowId : stored'[i] = IF i \in task[w].ok THEN stored[i] + 1 ELSE stored[i]
        BY <1>2, Zenon DEF CommitResults
      <3> QED BY <1>0, <3>1, <3>2 DEF AddedOnce
    <2> QED BY <2>1, <2>2, <2>3, Zenon DEF AddedOnce
  <1>3. ASSUME UNCHANGED stored,
               \A w \in Worker : task'[w].at = "stored" =>
                                    task[w].at = "stored" /\ task'[w].ok = task[w].ok
        PROVE  AddedOnce'
    BY <1>3, Zenon DEF AddedOnce
  <1>4. ASSUME UNCHANGED stored, NEW w \in Worker, NEW t, task' = [task EXCEPT ![w] = t],
               t.at # "stored"
        PROVE  AddedOnce'
    BY <1>0, <1>3, <1>4, Zenon
  <1>5. ASSUME UNCHANGED <<stored, task>> PROVE AddedOnce'
    BY <1>3, <1>5, Zenon
  <1>6. ASSUME NEW t \in Task
        PROVE  /\ NoTask.at # "stored" /\ Ended(t).at # "stored"
               /\ t.at \in DOMAIN NewStatus => Advanced(t).at # "stored"
    <2>1. NoTask.at # "stored" /\ Ended(t).at # "stored"
      BY Zenon DEF NoTask, Ended
    <2>2. t.at \in DOMAIN NewStatus /\ t.at # "aborted" => Following[t.at] # "stored"
      BY DEF NewStatus, Following
    <2>3. [t EXCEPT !.at = Following[t.at], !.checked = FALSE].at = Following[t.at]
      BY Zenon DEF Task
    <2> QED BY <2>1, <2>2, <2>3, Zenon DEF Advanced
  <1>7. ASSUME NEW w \in Worker, NEW q \in Request, TakeScan(w, q) PROVE AddedOnce'
    <2> DEFINE t == [NoTask EXCEPT !.at = "scan", !.locked = TRUE,
                                   !.req = q, !.todo = Matching]
    <2>1. t.at # "stored"
      BY Zenon DEF NoTask
    <2>2. UNCHANGED stored /\ (UNCHANGED task \/ task' = [task EXCEPT ![w] = t])
      BY <1>7, Zenon DEF TakeScan
    <2> HIDE DEF t
    <2> QED BY <1>4, <1>5, <2>1, <2>2, Zenon
  <1>8. ASSUME NEW w \in Worker, ScanPage(w) PROVE AddedOnce'
    <2>1. PICK page : task' = [task EXCEPT ![w].todo = @ \ page]
      BY <1>8, Zenon DEF ScanPage
    <2> DEFINE t == [task[w] EXCEPT !.todo = @ \ page]
    <2>2. t.at # "stored"
      BY <1>0, <1>8, Zenon DEF Task, ScanPage
    <2>3. task' = [task EXCEPT ![w] = t] /\ UNCHANGED stored
      BY <1>8, <2>1, Zenon DEF ScanPage
    <2> HIDE DEF t
    <2> QED BY <1>4, <2>2, <2>3, Zenon
  <1>9. ASSUME NEW w \in Worker, NEW b \in Batch, TakeImport(w, b) PROVE AddedOnce'
    <2> DEFINE t == [NoTask EXCEPT !.at = "import", !.locked = TRUE,
                                   !.batch = b, !.rows = RowsOf(b)]
    <2>1. t.at # "stored"
      BY Zenon DEF NoTask
    <2>2. UNCHANGED stored /\ task' = [task EXCEPT ![w] = t]
      BY <1>9, Zenon DEF TakeImport
    <2> HIDE DEF t
    <2> QED BY <1>4, <2>1, <2>2, Zenon
  <1>10. ASSUME NEW w \in Worker, AbortImport(w) \/ IndexFails(w) \/ Index(w) PROVE AddedOnce'
    <2>1. PICK s \in {"aborted", "indexFailed", "completed"} :
              task' = [task EXCEPT ![w].at = s] /\ UNCHANGED stored
      BY <1>10, Zenon DEF AbortImport, IndexFails, Index
    <2> DEFINE t == [task[w] EXCEPT !.at = s]
    <2>2. t.at # "stored"
      BY <1>0, Zenon DEF Task
    <2>3. task' = [task EXCEPT ![w] = t]
      BY <2>1, Zenon
    <2> HIDE DEF t
    <2> QED BY <1>4, <2>1, <2>2, <2>3, Zenon
  <1>11. ASSUME NEW w \in Worker, CheckStatus(w) PROVE AddedOnce'
    <2> DEFINE t == task[w]
               u == CASE Target(t) = {} -> Advanced(t)
                      [] Target(t) # {} /\ CanMove(Target(t), NewStatus[t.at])
                           -> [t EXCEPT !.checked = TRUE]
                      [] OTHER
                           -> IF t.at = "completed" THEN [t EXCEPT !.at = "indexFailed"]
                              ELSE Ended(t)
    <2>1. t \in Task /\ t.at \in DOMAIN NewStatus /\ UNCHANGED stored
      BY <1>0, <1>11, Zenon DEF CheckStatus
    <2>2. task' = [task EXCEPT ![w] = u]
      BY <1>11, Zenon DEF CheckStatus
    <2>3. \/ u = Advanced(t) \/ u = [t EXCEPT !.checked = TRUE] \/ u = Ended(t)
          \/ u = [t EXCEPT !.at = "indexFailed"]
      BY Zenon
    <2> HIDE DEF t, u
    <2>4. t.at # "stored"
      BY <2>1, Zenon DEF NewStatus
    <2>5. [t EXCEPT !.checked = TRUE].at # "stored" /\ [t EXCEPT !.at = "indexFailed"].at # "stored"
      BY <2>1, <2>4, Zenon DEF Task
    <2>6. u.at # "stored"
      BY <1>6, <2>1, <2>3, <2>5, Zenon
    <2> QED BY <1>4, <2>1, <2>2, <2>6, Zenon
  <1>12. ASSUME NEW w \in Worker, WriteStatus(w) \/ Automate(w) PROVE AddedOnce'
    <2>1. PICK t : /\ \/ t = Advanced(task[w]) /\ task[w].at \in DOMAIN NewStatus
                      \/ t = Ended(task[w])
                   /\ task' = [task EXCEPT ![w] = t] /\ UNCHANGED stored
      BY <1>12, Zenon DEF WriteStatus, Automate
    <2>2. t.at # "stored"
      BY <1>0, <1>6, <2>1, Zenon
    <2> QED BY <1>4, <2>1, <2>2, Zenon
  <1>13. ASSUME NEW w \in Worker, task' = [task EXCEPT ![w] = NoTask], UNCHANGED stored
         PROVE  AddedOnce'
    BY <1>0, <1>4, <1>6, <1>13, Zenon
  <1>14. ASSUME NEW w \in Worker, LoseLock(w) PROVE AddedOnce'
    <2> DEFINE t == [task[w] EXCEPT !.locked = FALSE]
    <2>1. t.ok = task[w].ok /\ t.at = task[w].at
      BY <1>0, Zenon DEF Task
    <2>2. task' = [task EXCEPT ![w] = t] /\ UNCHANGED stored
      BY <1>14, Zenon DEF LoseLock
    <2> HIDE DEF t
    <2> QED BY <1>0, <1>3, <2>1, <2>2, Zenon
  <1>15. ASSUME NEW w \in Worker, TaskStep(w) PROVE AddedOnce'
    <2>1. CASE \/ \E status \in {"COMPLETED", "FAILED"} : ScanEnds(w, status)
               \/ Finish(w)
      BY <1>13, <2>1, Zenon DEF ScanEnds, Finish
    <2> QED BY <1>1, <1>2, <1>7, <1>8, <1>9, <1>10, <1>11, <1>12, <1>15, <2>1,
               Zenon DEF TaskStep
  <1>16. CASE \/ \E c \in Caller : CallStep(c)
              \/ \E q \in Request, b \in Robot :
                    \E refs \in (SUBSET Reference) \ {{}} : RequestList(q, refs, b)
              \/ \E c \in Caller, q \in Request, b \in Robot : RequestSearch(c, q, b)
              \/ \E c \in Caller, b \in Robot : Claim(c, b)
              \/ \E c \in Caller, b \in BatchesMade : AcceptCheck(c, b)
              \/ \E c \in Caller, b \in BatchesMade : RejectCheck(c, b)
              \/ \E b \in Batch : Lapse(b)
              \/ \E b \in Batch : Renew(b)
              \/ Expire
              \/ \E c \in Caller : EnqueueLost(c)
              \/ UNCHANGED vars
    BY <1>5, <1>16, Zenon
       DEF CallStep, QueueScan, QueueScanFails, ClaimCommit, ClaimFails, AcceptWrite,
           QueueImport, RejectWrite, RequestList, RequestSearch, Claim, AcceptCheck,
           RejectCheck, Lapse, Renew, Expire, EnqueueLost, vars
  <1>17. ASSUME NEW w \in Worker, Crash(w) PROVE AddedOnce'
    BY <1>13, <1>17, Zenon DEF Crash
  <1> QED BY <1>14, <1>15, <1>16, <1>17, Zenon DEF Next

\* A row that was reported COMPLETED has its answer on the reference and in the
\* index, however many workers import and whatever is delivered twice; with one
\* import task at a time the answer is there once.
THEOREM CompletedIsAnswered == Spec => []Answered
  <1>1. HoldInv => Answered
    BY Zenon DEF HoldInv
  <1> QED BY <1>1, HoldInvariance, PTL

\* With one import task at a time no answer is stored twice, and a row that was
\* reported COMPLETED has its answer on the reference and in the index.
THEOREM CompletedAreSearchable ==
    ASSUME OneWorker
    PROVE  Spec => []CompletedIsSearchable
  <1>1. Init => AddedOnce
    <2> SUFFICES ASSUME Init PROVE AddedOnce
      OBVIOUS
    <2>1. \A w \in Worker : task[w].at # "stored"
      BY Zenon DEF Init, NoTask
    <2>2. \A i \in RowId : stored[i] = 0
      BY Zenon DEF Init
    <2>3. \A i \in RowId : stored[i] <= 1
      BY <2>2
    <2> QED BY <2>1, <2>3, Zenon DEF AddedOnce
  <1>2. HoldInv /\ AddedOnce /\ [Next]_vars => AddedOnce'
    BY AddedStep, Zenon
  <1>3. HoldInv /\ AddedOnce => CompletedIsSearchable
    <2> SUFFICES ASSUME HoldInv, AddedOnce, NEW i \in RowId
                 PROVE  /\ stored[i] <= 1
                        /\ rows[i].status = "COMPLETED" => stored[i] = 1 /\ i \in indexed
      BY Zenon DEF CompletedIsSearchable
    <2>1. stored[i] \in Nat /\ stored[i] <= 1
      BY Zenon DEF HoldInv, LeaseInv, TypeOK, AddedOnce
    <2>2. rows[i].status = "COMPLETED" => stored[i] # 0 /\ i \in indexed
      BY Zenon DEF HoldInv, Answered
    <2> QED BY <2>1, <2>2
  <1> QED BY <1>1, <1>2, <1>3, HoldInvariance, PTL DEF Spec

-----------------------------------------------------------------------------
(* Retries *)

\* Depth is the one function that satisfies its recursive equation.
DepthEq(f) ==
    f = [i \in RowId |-> IF rows[i].retryOf = 0 THEN 0 ELSE 1 + f[rows[i].retryOf]]
DepthIs(f) ==
    /\ f \in [RowId -> Nat] /\ DepthEq(f)
    /\ \A g : DepthEq(g) => g = f

\* A row that has a retry is past its lease, and has one retry only; a retry is
\* made while retries are left, and every expired row then has one.
Unretried == \A i \in RowId : rows[i].status = "ABSENT" => rows[i].retryOf = 0
RetryClosed ==
    \A i \in RowId : rows[i].retryOf # 0 => rows[rows[i].retryOf].status \notin Open
RetryOnce ==
    \A i, j \in RowId : rows[i].retryOf = rows[j].retryOf /\ rows[i].retryOf # 0 => i = j
RetryMade(f) ==
    \A i \in RowId :
        /\ f[i] <= MaxRetryCount
        /\ rows[i].status = "EXPIRED" /\ f[i] < MaxRetryCount =>
              \E j \in RowId : rows[j].retryOf = i

RetryInv ==
    /\ HoldInv /\ Unretried /\ RetryClosed /\ RetryOnce
    /\ \E f : DepthIs(f) /\ RetryMade(f)

\* What Depth is.
LEMMA DepthDefined ==
    ASSUME NEW f, DepthIs(f)
    PROVE  Depth = f
  <1>1. \A g : DepthEq(g) <=> g = f
    BY Zenon DEF DepthIs
  <1> QED BY <1>1, Zenon DEF Depth, DepthEq

\* Steps other than Expire neither make nor need retries.
Quiet ==
    \A i \in RowId :
        /\ rows'[i].retryOf = rows[i].retryOf
        /\ rows[i].status \notin Open => rows'[i].status \notin Open
        /\ rows'[i].status = "EXPIRED" => rows[i].status = "EXPIRED"
        /\ rows'[i].status = "ABSENT" => rows[i].status = "ABSENT"

\* Every step is quiet, or is the expiry job.
LEMMA QuietStep ==
    ASSUME RetryInv, [Next]_vars
    PROVE  Quiet \/ Expire
  <1>0. HoldInv /\ rows \in [RowId -> Row] /\ Unretried /\ Waiting
    BY Zenon DEF RetryInv, HoldInv, LeaseInv, TypeOK
  <1>1. CASE UNCHANGED rows
    BY <1>1, Zenon DEF Quiet
  <1>2. CASE Settles
    <2>1. PICK ids \in SUBSET RowId, s \in Status \ (Open \cup {"EXPIRED"}) : rows' = Moved(ids, s)
      BY <1>2, Zenon DEF Settles
    <2>2. \A i \in RowId : /\ rows'[i].retryOf = rows[i].retryOf
                           /\ i \in ids => rows'[i].status = s
                           /\ i \notin ids => rows'[i].status = rows[i].status
      BY <1>0, <2>1, MovedKeeps
    <2> QED BY <2>1, <2>2, Zenon DEF Quiet, Open
  <1>3. ASSUME NEW c \in Caller, ClaimCommit(c) PROVE Quiet
    <2>1. \A i \in RowId :
             /\ rows'[i].retryOf = rows[i].retryOf
             /\ \/ rows'[i] = rows[i]
                \/ i \in call[c].rows /\ rows'[i].status = "PROCESSING"
      BY <1>0, <1>3, CommitKeeps, Zenon
    <2>2. \A i \in RowId : i \in call[c].rows => rows[i].status = "PENDING"
      <3>1. \A i \in call[c].rows : rows[i].batch = 0 /\ rows[i].status # "ABSENT"
        BY <1>0, <1>3, Zenon DEF HoldInv, LeaseInv, ClaimHeld, ClaimCommit
      <3> QED BY <1>0, <3>1, Zenon DEF Waiting
    <2> QED BY <2>1, <2>2, Zenon DEF Quiet, Open
  <1>4. CASE Adds
    <2>1. PICK new, ids :
              /\ Inserted(rows, new, ids)
              /\ \A row \in new : row.status = "PENDING" /\ row.retryOf = 0
      BY <1>4, Zenon DEF Adds
    <2>2. \A i \in RowId :
             \/ rows'[i] = rows[i]
             \/ /\ rows[i].status = "ABSENT" /\ rows[i].retryOf = 0
                /\ rows'[i].status = "PENDING" /\ rows'[i].retryOf = 0
      BY <1>0, <2>1, Zenon DEF Inserted, Unretried
    <2> QED BY <2>2, Zenon DEF Quiet, Open
  <1> QED BY <1>0, <1>1, <1>2, <1>3, <1>4, RowChanges, Zenon

\* A quiet step leaves the retries as they are.
LEMMA QuietKeeps ==
    ASSUME RetryInv, HoldInv', Quiet
    PROVE  RetryInv'
  <1>0. \A i \in RowId : rows[i].retryOf = 0 \/ rows[i].retryOf \in RowId
    BY Zenon DEF RetryInv, HoldInv, LeaseInv, TypeOK, Row
  <1>1. Unretried' /\ RetryClosed' /\ RetryOnce'
    BY <1>0, Zenon DEF RetryInv, Unretried, RetryClosed, RetryOnce, Quiet
  <1>2. PICK f : DepthIs(f) /\ RetryMade(f)
    BY Zenon DEF RetryInv
  <1>3. \A g : DepthEq(g)' <=> DepthEq(g)
    <2> TAKE g
    <2>1. [i \in RowId |-> IF rows'[i].retryOf = 0 THEN 0 ELSE 1 + g[rows'[i].retryOf]]
            = [i \in RowId |-> IF rows[i].retryOf = 0 THEN 0 ELSE 1 + g[rows[i].retryOf]]
      BY Zenon DEF Quiet
    <2> QED BY <2>1, Zenon DEF DepthEq
  <1>4. DepthIs(f)'
    BY <1>2, <1>3, Zenon DEF DepthIs
  <1>5. RetryMade(f)'
    BY <1>2, Zenon DEF RetryMade, Quiet
  <1> QED BY <1>1, <1>4, <1>5, Zenon DEF RetryInv

\* The expiry job: ids expire and added are their retries.
Expires(ids, added) ==
    /\ \A i \in ids : i \in RowId /\ rows[i].status = "PROCESSING"
    /\ \A i \in added : /\ i \in RowId /\ rows[i].status = "ABSENT"
                        /\ rows'[i].status = "PENDING"
                        /\ rows'[i].retryOf \in Retried(ids)
    /\ \A i \in RowId \ added : rows'[i].retryOf = rows[i].retryOf
    /\ \A i \in RowId \ added : i \in ids => rows'[i].status = "EXPIRED"
    /\ \A i \in RowId \ added : i \notin ids => rows'[i].status = rows[i].status
    /\ \A r \in Retried(ids) : \E i \in added : rows'[i].retryOf = r
    /\ \A i, j \in added : rows'[i].retryOf = rows'[j].retryOf => i = j

\* What the expiry job writes, row by row.
LEMMA ExpireIs ==
    ASSUME TypeOK, Expire
    PROVE  \E ids, added : Expires(ids, added)
  <1>0. rows \in [RowId -> Row]
    BY Zenon DEF TypeOK
  <1>1. PICK ids \in SUBSET RowId, added \in SUBSET RowId :
            /\ \A i \in ids : rows[i].status = "PROCESSING" /\ rows[i].batch # 0
            /\ Inserted(Moved(ids, "EXPIRED"),
                        {NewRow(rows[i].req, rows[i].ref, rows[i].robot, i) :
                           i \in Retried(ids)}, added)
    BY ExpireRows, Zenon
  <1>2. \A i \in added :
           /\ rows[i].status = "ABSENT" /\ rows'[i].status = "PENDING"
           /\ rows'[i].retryOf \in Retried(ids)
           /\ rows'[i] = NewRow(rows[rows'[i].retryOf].req, rows[rows'[i].retryOf].ref,
                                rows[rows'[i].retryOf].robot, rows'[i].retryOf)
    BY <1>1, RetryRow, Zenon DEF Inserted
  <1>3. \A i, j \in added : rows'[i].retryOf = rows'[j].retryOf => i = j
    <2> SUFFICES ASSUME NEW i \in added, NEW j \in added, rows'[i].retryOf = rows'[j].retryOf
                 PROVE  i = j
      BY Zenon
    <2>1. rows'[i] = rows'[j]
      BY <1>2, Zenon
    <2> QED BY <1>1, <2>1, Zenon DEF Inserted
  <1>4. \A r \in Retried(ids) : \E i \in added : rows'[i].retryOf = r
    <2> TAKE r \in Retried(ids)
    <2>1. PICK i \in added : rows'[i] = NewRow(rows[r].req, rows[r].ref, rows[r].robot, r)
      BY <1>1, Zenon DEF Inserted
    <2>2. rows'[i].retryOf = r
      BY <2>1 DEF NewRow
    <2> QED BY <2>2, Zenon
  <1>5. \A i \in RowId \ added :
           /\ rows'[i].retryOf = rows[i].retryOf
           /\ i \in ids => rows'[i].status = "EXPIRED"
           /\ i \notin ids => rows'[i].status = rows[i].status
    <2>1. PICK table : table = Moved(ids, "EXPIRED")
      BY Zenon
    <2>2. \A i \in RowId : /\ table[i].retryOf = rows[i].retryOf
                           /\ i \in ids => table[i].status = "EXPIRED"
                           /\ i \notin ids => table[i].status = rows[i].status
      BY <1>0, <2>1, StatusesWritten, MovedKeeps
    <2>3. \A i \in RowId \ added : rows'[i] = table[i]
      BY <1>1, <2>1, Zenon DEF Inserted
    <2> QED BY <2>2, <2>3, Zenon
  <1>6. Expires(ids, added)
    BY <1>1, <1>2, <1>3, <1>4, <1>5, Zenon DEF Expires
  <1> QED BY <1>6, Zenon

\* The depths after the expiry job.
Deeper(f, added) ==
    [i \in RowId |-> IF i \in added THEN 1 + f[rows'[i].retryOf] ELSE f[i]]

\* A retry is one deeper than the row it replaces; the other depths stay.
LEMMA DepthAfter ==
    ASSUME RetryInv, NEW ids, NEW added, Expires(ids, added), NEW f, DepthIs(f),
           NEW h, h = Deeper(f, added)
    PROVE  DepthIs(h)'
  <1>0. /\ \A i \in RowId : rows[i].retryOf = 0 \/ rows[i].retryOf \in RowId
        /\ \A i \in RowId : rows[i].retryOf # 0 => rows[rows[i].retryOf].status # "ABSENT"
        /\ Unretried
    <2>1. \A i \in RowId : rows[i].retryOf = 0 \/ rows[i].retryOf \in RowId
      BY Zenon DEF RetryInv, HoldInv, LeaseInv, TypeOK, Row
    <2> QED BY <2>1, Zenon DEF RetryInv, RetryClosed, Open
  <1>1. \A i \in ids : i \in RowId /\ i \notin added
    BY Zenon DEF Expires
  <1>2. \A i \in added : /\ i \in RowId /\ rows[i].retryOf = 0
                         /\ rows'[i].retryOf \in RowId /\ rows'[i].retryOf \notin added
                         /\ rows'[i].retryOf # 0
    <2>1. \A i \in added : i \in RowId /\ rows[i].status = "ABSENT"
                           /\ rows'[i].retryOf \in ids
      BY Zenon DEF Expires, Retried
    <2>2. \A i \in RowId : i # 0
      BY DEF RowId
    <2> QED BY <1>0, <1>1, <2>1, <2>2, Zenon DEF Unretried
  <1>3. \A i \in RowId \ added :
           /\ rows'[i].retryOf = rows[i].retryOf
           /\ rows[i].retryOf # 0 => rows[i].retryOf \in RowId \ added
    BY <1>0, Zenon DEF Expires
  <1>4. f \in [RowId -> Nat] /\ DepthEq(f) /\ \A g : DepthEq(g) => g = f
    BY Zenon DEF DepthIs
  <1>5. \A i \in RowId : f[i] = IF rows[i].retryOf = 0 THEN 0 ELSE 1 + f[rows[i].retryOf]
    BY <1>4, Zenon DEF DepthEq
  <1>6. /\ \A i \in added : h[i] = 1 + f[rows'[i].retryOf]
        /\ \A i \in RowId \ added : h[i] = f[i]
        /\ h = [i \in RowId |-> h[i]]
    BY <1>2, Zenon DEF Deeper
  <1>7. h \in [RowId -> Nat]
    <2>1. \A i \in RowId : h[i] \in Nat
      BY <1>2, <1>4, <1>6
    <2> QED BY <1>6, <2>1, Zenon
  <1>8. DepthEq(h)'
    <2>1. ASSUME NEW i \in RowId
          PROVE  h[i] = IF rows'[i].retryOf = 0 THEN 0 ELSE 1 + h[rows'[i].retryOf]
      <3>1. CASE i \in added
        BY <1>2, <1>6, <3>1, Zenon
      <3>2. CASE i \notin added
        BY <1>3, <1>5, <1>6, <3>2, ZenonT(30)
      <3> QED BY <3>1, <3>2, Zenon
    <2>2. [i \in RowId |-> h[i]]
            = [i \in RowId |-> IF rows'[i].retryOf = 0 THEN 0 ELSE 1 + h[rows'[i].retryOf]]
      BY <2>1, Zenon
    <2> QED BY <1>6, <2>2, Zenon DEF DepthEq
  <1>9. ASSUME NEW g, DepthEq(g)' PROVE g = h
    <2>1. /\ g = [i \in RowId |-> g[i]]
          /\ \A i \in RowId : g[i] = IF rows'[i].retryOf = 0 THEN 0
                                     ELSE 1 + g[rows'[i].retryOf]
      BY <1>9, Zenon DEF DepthEq
    <2>2. PICK k : k = [i \in RowId |-> IF i \in added THEN 0 ELSE g[i]]
      BY Zenon
    <2>3. /\ \A i \in added : k[i] = 0
          /\ \A i \in RowId \ added : k[i] = g[i]
          /\ k = [i \in RowId |-> k[i]]
      BY <1>2, <2>2, Zenon
    <2>4. ASSUME NEW i \in RowId
          PROVE  k[i] = IF rows[i].retryOf = 0 THEN 0 ELSE 1 + k[rows[i].retryOf]
      <3>1. CASE i \in added
        BY <1>2, <2>3, <3>1, Zenon
      <3>2. CASE i \notin added
        BY <1>3, <2>1, <2>3, <3>2, Zenon
      <3> QED BY <3>1, <3>2, Zenon
    <2>5. [i \in RowId |-> k[i]]
            = [i \in RowId |-> IF rows[i].retryOf = 0 THEN 0 ELSE 1 + k[rows[i].retryOf]]
      BY <2>4, Zenon
    <2>6. DepthEq(k)
      BY <2>3, <2>5, Zenon DEF DepthEq
    <2>7. k = f
      BY <1>4, <2>6, Zenon
    <2>8. \A i \in RowId : g[i] = h[i]
      <3>1. \A i \in RowId \ added : g[i] = h[i]
        BY <1>6, <2>3, <2>7, Zenon
      <3>2. ASSUME NEW i \in added PROVE g[i] = h[i]
        <4>1. PICK r : r = rows'[i].retryOf
          BY Zenon
        <4>2. i \in RowId /\ r \in RowId \ added /\ r # 0
          BY <1>2, <4>1, Zenon
        <4>3. g[i] = 1 + g[r]
          BY <2>1, <4>1, <4>2, Zenon
        <4>4. g[r] = f[r]
          BY <2>3, <2>7, <4>2, Zenon
        <4>5. h[i] = 1 + f[r]
          BY <1>6, <4>1, Zenon
        <4> QED BY <4>3, <4>4, <4>5, Zenon
      <3> QED BY <3>1, <3>2, Zenon
    <2> QED BY <1>6, <2>1, <2>8, Zenon
  <1> QED BY <1>7, <1>8, <1>9, Zenon DEF DepthIs

\* The expiry job replaces each row once, while retries are left.
LEMMA ExpireKeeps ==
    ASSUME RetryInv, HoldInv', Expire
    PROVE  RetryInv'
  <1>1. PICK ids, added : Expires(ids, added)
    BY ExpireIs, Zenon DEF RetryInv, HoldInv, LeaseInv
  <1>2. PICK f : DepthIs(f) /\ RetryMade(f)
    BY Zenon DEF RetryInv
  <1>3. PICK h : h = Deeper(f, added)
    BY Zenon
  <1>4. DepthIs(h)'
    BY <1>1, <1>2, <1>3, DepthAfter, Zenon
  <1>5. \A r : r \in Retried(ids) <=> r \in ids /\ f[r] < MaxRetryCount
    BY <1>2, DepthDefined, Zenon DEF Retried
  <1>6. /\ \A i \in RowId : rows[i].retryOf = 0 \/ rows[i].retryOf \in RowId
        /\ Unretried /\ RetryClosed /\ RetryOnce
    BY Zenon DEF RetryInv, HoldInv, LeaseInv, TypeOK, Row
  <1>7. \A i \in added : /\ i \in RowId /\ rows[i].status = "ABSENT" /\ rows[i].retryOf = 0
                         /\ rows'[i].status = "PENDING"
                         /\ rows'[i].retryOf \in ids /\ f[rows'[i].retryOf] < MaxRetryCount
    BY <1>1, <1>5, <1>6, Zenon DEF Expires, Unretried
  <1>8. \A i \in RowId \ added :
           /\ rows'[i].retryOf = rows[i].retryOf
           /\ i \in ids => rows'[i].status = "EXPIRED"
           /\ i \notin ids => rows'[i].status = rows[i].status
    BY <1>1, Zenon DEF Expires
  <1>9. \A i \in ids : i \in RowId /\ i \notin added /\ rows[i].status = "PROCESSING"
    BY <1>1, Zenon DEF Expires
  <1>10. Unretried'
    <2>1. \A i \in RowId : rows'[i].status = "ABSENT" =>
             i \notin added /\ rows[i].status = "ABSENT"
      BY <1>7, <1>8, <1>9, Zenon
    <2> QED BY <1>6, <1>8, <2>1, Zenon DEF Unretried
  <1>11. RetryClosed'
    <2> SUFFICES ASSUME NEW i \in RowId, rows'[i].retryOf # 0
                 PROVE  rows'[rows'[i].retryOf].status \notin Open
      BY Zenon DEF RetryClosed
    <2>1. CASE i \in added
      BY <1>7, <1>8, <1>9, <2>1, Zenon DEF Open
    <2>2. CASE i \notin added
      <3>1. PICK r \in RowId : r = rows'[i].retryOf /\ r = rows[i].retryOf
        BY <1>6, <1>8, <2>2, Zenon
      <3>2. rows[r].status \notin Open
        BY <1>6, <1>8, <2>2, <3>1, Zenon DEF RetryClosed
      <3>3. r \notin added /\ r \notin ids
        BY <1>7, <1>9, <3>2, Zenon DEF Open
      <3> QED BY <1>8, <3>1, <3>2, <3>3, Zenon
    <2> QED BY <2>1, <2>2, Zenon
  <1>12. RetryOnce'
    <2>1. ASSUME NEW i \in RowId \ added, rows'[i].retryOf # 0
          PROVE  rows'[i].retryOf \notin ids
      <3>1. rows[rows[i].retryOf].status \notin Open /\ rows'[i].retryOf = rows[i].retryOf
        BY <1>6, <1>8, <2>1, Zenon DEF RetryClosed
      <3> QED BY <1>9, <3>1, Zenon DEF Open
    <2> SUFFICES ASSUME NEW i \in RowId, NEW j \in RowId,
                        rows'[i].retryOf = rows'[j].retryOf, rows'[i].retryOf # 0
                 PROVE  i = j
      BY Zenon DEF RetryOnce
    <2>2. CASE i \in added /\ j \in added
      BY <1>1, <2>2, Zenon DEF Expires
    <2>3. CASE i \in added /\ j \notin added
      BY <1>7, <2>1, <2>3, Zenon
    <2>4. CASE i \notin added /\ j \in added
      BY <1>7, <2>1, <2>4, Zenon
    <2>5. CASE i \notin added /\ j \notin added
      BY <1>6, <1>8, <2>5, ZenonT(30) DEF RetryOnce
    <2> QED BY <2>2, <2>3, <2>4, <2>5, Zenon
  <1>13. /\ \A i \in added : h[i] = 1 + f[rows'[i].retryOf]
         /\ \A i \in RowId \ added : h[i] = f[i]
    BY <1>3, <1>7, Zenon DEF Deeper
  <1>14. \A i \in RowId : h[i] <= MaxRetryCount
    <2>1. \A i \in RowId : f[i] \in Nat /\ f[i] <= MaxRetryCount
      BY <1>2, Zenon DEF DepthIs, RetryMade
    <2>2. MaxRetryCount \in Nat
      BY ConstantsAssumption, Zenon
    <2>3. \A i \in added : f[rows'[i].retryOf] \in Nat /\ f[rows'[i].retryOf] < MaxRetryCount
      BY <1>7, <1>9, <2>1, Zenon
    <2> QED BY <1>13, <2>1, <2>2, <2>3
  <1>15. ASSUME NEW i \in RowId, rows'[i].status = "EXPIRED", h[i] < MaxRetryCount
         PROVE  \E j \in RowId : rows'[j].retryOf = i
    <2>1. i \notin added
      BY <1>7, <1>15, Zenon
    <2>2. h[i] = f[i]
      BY <1>13, <2>1, Zenon
    <2>3. CASE i \in ids
      <3>1. i \in Retried(ids)
        BY <1>5, <1>15, <2>2, <2>3, Zenon
      <3>2. PICK j \in added : rows'[j].retryOf = i
        BY <1>1, <3>1, Zenon DEF Expires
      <3> QED BY <1>7, <3>2, Zenon
    <2>4. CASE i \notin ids
      <3>1. PICK j \in RowId : rows[j].retryOf = i
        BY <1>2, <1>8, <1>15, <2>1, <2>2, <2>4, Zenon DEF RetryMade
      <3>2. i # 0
        BY DEF RowId
      <3>3. j \notin added
        BY <1>7, <3>1, <3>2, Zenon
      <3> QED BY <1>8, <3>1, <3>3, Zenon
    <2> QED BY <2>3, <2>4, Zenon
  <1>16. RetryMade(h)'
    BY <1>14, <1>15, Zenon DEF RetryMade
  <1> QED BY <1>4, <1>10, <1>11, <1>12, <1>16, Zenon DEF RetryInv

\* Nothing is retried at first.
LEMMA RetryInit ==
    ASSUME Init
    PROVE  RetryInv
  <1>1. HoldInv
    BY HoldInit, Zenon
  <1>2. \A i \in RowId : rows[i].retryOf = 0 /\ rows[i].status = "ABSENT"
    BY Zenon DEF Init, NoRow
  <1>3. Unretried /\ RetryClosed /\ RetryOnce
    BY <1>2, Zenon DEF Unretried, RetryClosed, RetryOnce
  <1>4. PICK f : f = [i \in RowId |-> 0]
    BY Zenon
  <1>5. \A g : [i \in RowId |-> IF rows[i].retryOf = 0 THEN 0 ELSE 1 + g[rows[i].retryOf]]
                 = [i \in RowId |-> 0]
    BY <1>2, Zenon
  <1>6. \A g : DepthEq(g) <=> g = f
    BY <1>4, <1>5, Zenon DEF DepthEq
  <1>7. f \in [RowId -> Nat] /\ \A i \in RowId : f[i] = 0
    BY <1>4
  <1>8. DepthIs(f)
    BY <1>6, <1>7, Zenon DEF DepthIs
  <1>9. \A i \in RowId : f[i] <= MaxRetryCount
    BY <1>7, ConstantsAssumption
  <1>10. RetryMade(f)
    BY <1>2, <1>9, Zenon DEF RetryMade
  <1> QED BY <1>1, <1>3, <1>8, <1>10, Zenon DEF RetryInv

\* How rows are retried is an invariant.
THEOREM RetryInvariance == Spec => []RetryInv
  <1>1. Init => RetryInv
    BY RetryInit, Zenon
  <1>2. RetryInv /\ [Next]_vars => RetryInv'
    <2> SUFFICES ASSUME RetryInv, [Next]_vars PROVE RetryInv'
      BY Zenon
    <2>1. HoldInv'
      BY HoldStep, Zenon DEF RetryInv
    <2> QED BY <2>1, QuietStep, QuietKeeps, ExpireKeeps, Zenon
  <1> QED BY <1>1, <1>2, PTL DEF Spec

\* Whatever interleaves with the expiry job, a row that expired is replaced by
\* one retry while retries are left and by none after, and no chain of retries
\* is longer than max_retry_count.
THEOREM ExpiredAreReplaced == Spec => []ExpiredReplaced
  <1>1. RetryInv => ExpiredReplaced
    <2> SUFFICES ASSUME RetryInv PROVE ExpiredReplaced
      BY Zenon
    <2>1. PICK f : DepthIs(f) /\ RetryMade(f)
      BY Zenon DEF RetryInv
    <2>2. Depth = f
      BY <2>1, DepthDefined, Zenon
    <2>3. Unretried /\ RetryOnce
      BY Zenon DEF RetryInv
    <2>4. \A i \in RowId : i # 0
      BY DEF RowId
    <2>5. ASSUME NEW i \in RowId, NEW k \in RowId, rows[k].retryOf = i
          PROVE  f[i] < MaxRetryCount
      <3>1. f[k] = 1 + f[i]
        BY <2>1, <2>4, <2>5, Zenon DEF DepthIs, DepthEq
      <3>2. f[k] <= MaxRetryCount /\ f[i] \in Nat
        BY <2>1, Zenon DEF DepthIs, RetryMade
      <3> QED BY <3>1, <3>2, ConstantsAssumption
    <2> SUFFICES ASSUME NEW i \in Used
                 PROVE  /\ f[i] <= MaxRetryCount
                        /\ rows[i].status = "EXPIRED" =>
                             IF f[i] < MaxRetryCount
                             THEN \E j \in Used : \A k \in Used : rows[k].retryOf = i <=> k = j
                             ELSE \A k \in Used : rows[k].retryOf # i
      BY <2>2, Zenon DEF ExpiredReplaced
    <2>6. i \in RowId /\ f[i] <= MaxRetryCount
      BY <2>1, Zenon DEF RetryMade, Used
    <2>7. ASSUME rows[i].status = "EXPIRED", f[i] < MaxRetryCount
          PROVE  \E j \in Used : \A k \in Used : rows[k].retryOf = i <=> k = j
      <3>1. PICK j \in RowId : rows[j].retryOf = i
        BY <2>1, <2>6, <2>7, Zenon DEF RetryMade
      <3>2. j \in Used
        BY <2>3, <2>4, <2>6, <3>1, Zenon DEF Unretried, Used
      <3>3. \A k \in Used : rows[k].retryOf = i <=> k = j
        BY <2>3, <2>4, <2>6, <3>1, Zenon DEF RetryOnce, Used
      <3> QED BY <3>2, <3>3, Zenon
    <2>8. ASSUME ~(f[i] < MaxRetryCount) PROVE \A k \in Used : rows[k].retryOf # i
      BY <2>5, <2>6, <2>8, Zenon DEF Used
    <2> QED BY <2>6, <2>7, <2>8, Zenon
  <1> QED BY <1>1, RetryInvariance, PTL
=============================================================================
