--------------------------- MODULE Deduplication ---------------------------
(***************************************************************************)
(* Duplicate decisions on references, and the workers that take them.      *)
(*                                                                         *)
(* The reference_duplicate_decision table holds one row per decision.  At  *)
(* most one row of a reference is active: that row says whether the        *)
(* reference is CANONICAL, a DUPLICATE of another one, or UNSEARCHABLE.    *)
(* Rows are decided by queue workers (import and invoke-API decisions) and *)
(* by the manual endpoint.  Each runs one PostgreSQL transaction at READ   *)
(* COMMITTED: it sees what was committed before each of its reads and its  *)
(* own writes, takes the row lock of every row it writes, and waits on the *)
(* unique index over active decisions.  Elasticsearch is written inside    *)
(* the transaction and is not rolled back with it.                         *)
(***************************************************************************)
EXTENDS Naturals, FiniteSets

CONSTANTS
    Reference,    \* reference ids
    Decision,     \* decision ids; the size of the set bounds a behaviour
    Worker,       \* queue workers
    Handler,      \* API request handlers, one manual request each at a time
    NoRef,        \* a null canonical_reference_id
    NoDecision,   \* no decision row
    TrustedIds,   \* [Reference -> set of identifiers of a trusted type]
    OtherIds,     \* [Reference -> set of the other unionable identifiers]
    TestEnv,      \* settings.env = Environment.TEST
    ReservedIds,  \* decision ids requests leave to workers (a bound)
    MaxRetries,   \* remaining_retries of a freshly queued task
    MaxCrashes,   \* bound on worker crashes and failed enqueues
    MaxLockLosses \* bound on broker locks lost while a task still runs

ASSUME ConstantsAssumption ==
    /\ NoRef \notin Reference
    /\ NoDecision \notin Decision
    /\ Worker \cap Handler = {}
    /\ TestEnv \in BOOLEAN
    /\ ReservedIds \in Nat
    /\ MaxRetries \in Nat
    /\ MaxCrashes \in Nat
    /\ MaxLockLosses \in Nat

\* The table of references is finite.
ASSUME FiniteReferences == IsFiniteSet(Reference)

VARIABLES
    imported,   \* references stored in SQL
    decisions,  \* the committed decision table
    queue,      \* tasks visible on the message broker
    stage,      \* where each worker is
    task,       \* the task each worker holds, NoTask for an API request
    locked,     \* whether the worker still owns the broker lock of its task
    plan,       \* the decision each worker is mapping
    old,        \* the active decision the worker read for that reference
    then,       \* the stage that follows the worker's current write
    undecided,  \* references still to be mapped to the worker's canonical
    writes,     \* uncommitted rows of each worker
    touched,    \* references the worker has yet to project to Elasticsearch
    es,         \* the search index
    reported,   \* decisions whose processing was reported as failed
    crashes,    \* crashes so far
    lockLosses  \* broker locks lost so far

\* Every process that runs transactions.
Process == Worker \cup Handler

sqlVars == <<imported, decisions>>
txnVars == <<plan, old, then, undecided, writes, touched>>
faultVars == <<crashes, lockLosses>>
vars == <<imported, decisions, queue, stage, task, locked, plan, old, then,
          undecided, writes, touched, es, reported, crashes, lockLosses>>

Determination ==
    {"PENDING", "DUPLICATE", "CANONICAL", "UNSEARCHABLE", "DECOUPLED"}

RefOrNone == Reference \cup {NoRef}

\* A ReferenceDuplicateDecision row.  det = "ABSENT" marks an id not in use.
Row == [ref : RefOrNone, det : Determination \cup {"ABSENT"}, canon : RefOrNone,
        auth : {"SYSTEM", "PERSON"}, active : BOOLEAN]

NoRow == [ref |-> NoRef, det |-> "ABSENT", canon |-> NoRef,
          auth |-> "SYSTEM", active |-> FALSE]

\* The new_decision handed to map_duplicate_decision, with its id.
Plan == [id : Decision \cup {NoDecision}, row : Row]

NoPlan == [id |-> NoDecision, row |-> NoRow]

Task == [decision : Decision, retries : 0..MaxRetries]

NoTask == [decision |-> NoDecision, retries |-> 0]

\* A ReferenceDocument: the determination and the references whose data the
\* deduplicated projection merged into it.
Doc == [det : Determination \cup {"ABSENT"}, merged : SUBSET Reference]

NoDoc == [det |-> "ABSENT", merged |-> {}]

Stage == {"idle", "loaded", "map", "write", "guard", "side", "project",
          "commit"}

-----------------------------------------------------------------------------
(* What a transaction reads.  T is a decision table. *)

\* The table as worker w sees it: its own writes over what is committed.
View(w) ==
    [d \in Decision |-> IF writes[w][d].det = "ABSENT" THEN decisions[d]
                        ELSE writes[w][d]]

ActiveRows(T, r) == {d \in Decision : T[d].ref = r /\ T[d].active}

\* Reference.duplicate_decision
ActiveDecision(T, r) ==
    IF ActiveRows(T, r) = {} THEN NoDecision
    ELSE CHOOSE d \in Decision : d \in ActiveRows(T, r)

ActiveDet(T, r) ==
    IF ActiveRows(T, r) = {} THEN "ABSENT" ELSE T[ActiveDecision(T, r)].det

ActiveCanon(T, r) ==
    IF ActiveRows(T, r) = {} THEN NoRef ELSE T[ActiveDecision(T, r)].canon

\* Reference.is_canonical and Reference.duplicate_references
IsCanonical(T, r) == ActiveDet(T, r) = "CANONICAL"

DuplicatesOf(T, r) == {x \in Reference : ActiveCanon(T, x) = r}

\* Decision ids no committed row, uncommitted write or plan uses.
Unused ==
    {d \in Decision : /\ decisions[d].det = "ABSENT"
                      /\ \A w \in Process : /\ writes[w][d].det = "ABSENT"
                                            /\ plan[w].id # d}

FreshId == CHOOSE d \in Decision : d \in Unused

\* The bound on requests: ids are kept back for the decisions workers add.
RequestsLeft == Cardinality(Unused) > ReservedIds

-----------------------------------------------------------------------------
Init ==
    /\ imported = {}
    /\ decisions = [d \in Decision |-> NoRow]
    /\ queue = {}
    /\ stage = [w \in Process |-> "idle"]
    /\ task = [w \in Process |-> NoTask]
    /\ locked = [w \in Process |-> FALSE]
    /\ plan = [w \in Process |-> NoPlan]
    /\ old = [w \in Process |-> NoDecision]
    /\ then = [w \in Process |-> "idle"]
    /\ undecided = [w \in Process |-> {}]
    /\ writes = [w \in Process |-> [d \in Decision |-> NoRow]]
    /\ touched = [w \in Process |-> {}]
    /\ es = [r \in Reference |-> NoDoc]
    /\ reported = {}
    /\ crashes = 0
    /\ lockLosses = 0

-----------------------------------------------------------------------------
(* Registering PENDING decisions *)

PendingRow(r) == [NoRow EXCEPT !.ref = r, !.det = "PENDING"]

\* ingest_reference stores a new reference with its PENDING decision in one
\* transaction, and import_reference queues the decision's task after it.
Import(r) ==
    /\ r \notin imported
    /\ RequestsLeft
    /\ imported' = imported \cup {r}
    /\ decisions' = [decisions EXCEPT ![FreshId] = PendingRow(r)]
    /\ queue' = queue \cup {[decision |-> FreshId, retries |-> MaxRetries]}
    /\ UNCHANGED <<stage, task, locked, txnVars, es, reported, faultVars>>

\* The invoke API commits a PENDING decision for a stored reference, then
\* queues its task.
Invoke(r) ==
    /\ r \in imported
    /\ RequestsLeft
    /\ decisions' = [decisions EXCEPT ![FreshId] = PendingRow(r)]
    /\ queue' = queue \cup {[decision |-> FreshId, retries |-> MaxRetries]}
    /\ UNCHANGED <<imported, stage, task, locked, txnVars, es, reported,
                   faultVars>>

\* The same request when the broker refuses the task or the API dies between
\* the commit and the enqueue: the caller gets an error, the row stays.
InvokeUnqueued(r) ==
    /\ r \in imported
    /\ RequestsLeft
    /\ crashes < MaxCrashes
    /\ decisions' = [decisions EXCEPT ![FreshId] = PendingRow(r)]
    /\ reported' = reported \cup {FreshId}
    /\ crashes' = crashes + 1
    /\ UNCHANGED <<imported, queue, stage, task, locked, txnVars, es,
                   lockLosses>>

-----------------------------------------------------------------------------
(* A task on a worker *)

Subject(w) == decisions[task[w].decision].ref

\* End of a transaction: its writes are gone (rolled back, or committed by
\* the same step) and so are its locks.
Release(w) ==
    /\ stage' = [stage EXCEPT ![w] = "idle"]
    /\ task' = [task EXCEPT ![w] = NoTask]
    /\ locked' = [locked EXCEPT ![w] = FALSE]
    /\ plan' = [plan EXCEPT ![w] = NoPlan]
    /\ old' = [old EXCEPT ![w] = NoDecision]
    /\ then' = [then EXCEPT ![w] = "idle"]
    /\ undecided' = [undecided EXCEPT ![w] = {}]
    /\ writes' = [writes EXCEPT ![w] = [d \in Decision |-> NoRow]]
    /\ touched' = [touched EXCEPT ![w] = {}]

\* Mutant: the exception is swallowed.
RaiseUnreported(w) ==
    /\ Release(w)
    /\ UNCHANGED <<sqlVars, queue, es, reported, faultVars>>

\* An exception leaves the handler: rolled back, the message is acknowledged
\* all the same and only the log (or the HTTP response) has the error.
Raise(w) ==
    /\ Release(w)
    /\ reported' = IF w \in Handler THEN reported
                   ELSE reported \cup {task[w].decision}
    /\ UNCHANGED <<sqlVars, queue, es, faultVars>>

\* Mutant: no check that the decision is still PENDING.
DeliverAnyway(w, t) ==
    /\ stage[w] = "idle"
    /\ queue' = queue \ {t}
    /\ stage' = [stage EXCEPT ![w] = "loaded"]
    /\ task' = [task EXCEPT ![w] = t]
    /\ locked' = [locked EXCEPT ![w] = TRUE]
    /\ UNCHANGED <<sqlVars, txnVars, es, reported, faultVars>>

\* The task reads its decision in a transaction of its own.
Deliver(w, t) ==
    /\ stage[w] = "idle"
    /\ decisions[t.decision].det = "PENDING"
    /\ queue' = queue \ {t}
    /\ stage' = [stage EXCEPT ![w] = "loaded"]
    /\ task' = [task EXCEPT ![w] = t]
    /\ locked' = [locked EXCEPT ![w] = TRUE]
    /\ UNCHANGED <<sqlVars, txnVars, es, reported, faultVars>>

SkipProcessed(w, t) ==
    /\ stage[w] = "idle"
    /\ decisions[t.decision].det # "PENDING"
    /\ queue' = queue \ {t}
    /\ UNCHANGED <<sqlVars, stage, task, locked, txnVars, es, reported,
                   faultVars>>

\* Stored references other than r with one of the identifiers ids(r).
MatchesOf(r, ids) == {c \in imported \ {r} : ids[c] \cap ids[r] # {}}

IsUndecided(T, r) == ActiveDet(T, r) \in {"ABSENT", "UNSEARCHABLE"}

\* Mutant: candidates that are canonical themselves are not collected.
CanonicalIdsOfDuplicates(C) ==
    {ActiveCanon(decisions, c) :
        c \in {x \in C : ActiveDet(decisions, x) = "DUPLICATE"}}

\* Classification of the shortcut's candidates: the canonical of each tree.
CanonicalIds(C) ==
    {c \in C : IsCanonical(decisions, c)}
        \cup {ActiveCanon(decisions, c) :
                 c \in {x \in C : ActiveDet(decisions, x) = "DUPLICATE"}}

\* The subject's own row with a proposed determination.
Proposal(w, det, canon) ==
    [id |-> task[w].decision,
     row |-> [ref |-> Subject(w), det |-> det, canon |-> canon,
              auth |-> "SYSTEM", active |-> FALSE]]

\* shortcut_deduplication_using_identifiers up to the subject's own mapping.
\* More than one canonical is written as DECOUPLED without being mapped.
Shortcut(w) ==
    LET C == MatchesOf(Subject(w), TrustedIds)
        K == CanonicalIds(C)
    IN  /\ stage[w] = "loaded"
        /\ TrustedIds[Subject(w)] # {}
        /\ \/ /\ K = {}
              /\ plan' = [plan EXCEPT ![w] = Proposal(w, "CANONICAL", NoRef)]
              /\ stage' = [stage EXCEPT ![w] = "map"]
              /\ then' = [then EXCEPT ![w] = "guard"]
           \/ \E k \in K :
                /\ K = {k}
                /\ plan' = [plan EXCEPT ![w] = Proposal(w, "DUPLICATE", k)]
                /\ stage' = [stage EXCEPT ![w] = "map"]
                /\ then' = [then EXCEPT ![w] = "guard"]
           \/ /\ \E k1, k2 \in K : k1 # k2
              /\ plan' = [plan EXCEPT ![w] = Proposal(w, "DECOUPLED", NoRef)]
              /\ stage' = [stage EXCEPT ![w] = "write"]
              /\ then' = [then EXCEPT ![w] = "project"]
        /\ undecided' = [undecided EXCEPT
                            ![w] = {c \in C : IsUndecided(decisions, c)}]
        /\ UNCHANGED <<sqlVars, queue, task, locked, old, writes, touched, es,
                       reported, faultVars>>

\* Identifier matches of candidate selection, resolved to their canonicals.
IdentifierMatches(r) ==
    {IF ActiveDet(decisions, c) = "DUPLICATE" THEN ActiveCanon(decisions, c)
     ELSE c : c \in MatchesOf(r, OtherIds)} \ {r}

\* Elasticsearch only returns documents indexed as canonical.
SearchHits(r) == {c \in Reference \ {r} : es[c].det = "CANONICAL"}

\* Candidates that can rank first: identifier-only matches precede scored hits,
\* and which documents the query scores is left open.
FirstCandidates(r) ==
    IdentifierMatches(r)
        \cup IF IdentifierMatches(r) \subseteq SearchHits(r)
             THEN SearchHits(r) ELSE {}

\* _placeholder_duplicate_determinator
CandidateSearch(w) ==
    /\ stage[w] = "loaded"
    /\ TrustedIds[Subject(w)] = {}
    /\ \/ /\ TestEnv
          /\ \E c \in FirstCandidates(Subject(w)) :
                plan' = [plan EXCEPT ![w] = Proposal(w, "DUPLICATE", c)]
       \/ /\ TestEnv
          /\ IdentifierMatches(Subject(w)) = {}
          /\ plan' = [plan EXCEPT ![w] = Proposal(w, "CANONICAL", NoRef)]
       \/ /\ TestEnv => IdentifierMatches(Subject(w)) = {}
          /\ plan' = [plan EXCEPT ![w] = Proposal(w, "UNSEARCHABLE", NoRef)]
    /\ stage' = [stage EXCEPT ![w] = "map"]
    /\ then' = [then EXCEPT ![w] = "project"]
    /\ UNCHANGED <<sqlVars, queue, task, locked, old, undecided, writes,
                   touched, es, reported, faultVars>>

\* The search times out or Elasticsearch is unavailable: ESError.
SearchError(w) ==
    /\ stage[w] = "loaded"
    /\ TrustedIds[Subject(w)] = {}
    /\ crashes < MaxCrashes
    /\ crashes' = crashes + 1
    /\ Release(w)
    /\ reported' = reported \cup {task[w].decision}
    /\ UNCHANGED <<sqlVars, queue, es, lockLosses>>

-----------------------------------------------------------------------------
(* map_duplicate_decision: reads and outcome, then the write *)

\* The manual endpoint passes allow_destructive_decision.
AllowDestructive(w) == w \in Handler

\* Mutant: any decided reference passes for a canonical one.
NamesUndecided(w) ==
    LET p == plan[w].row
    IN  /\ p.canon # NoRef
        /\ p.canon = p.ref \/ ActiveDet(View(w), p.canon) = "ABSENT"

\* Raised for a duplicate of itself or of a reference that is not canonical.
NamesNonCanonical(w) ==
    LET p == plan[w].row
    IN  /\ p.canon # NoRef
        /\ p.canon = p.ref \/ ~IsCanonical(View(w), p.canon)

MapRejected(w) ==
    /\ stage[w] = "map"
    /\ NamesNonCanonical(w)
    /\ Raise(w)

\* Mutant: an automatic proposal that agrees with the person replaces it.
ReplacesPersonIfDifferent(w) ==
    LET p == plan[w].row
        a == ActiveDecision(View(w), p.ref)
    IN  /\ a # NoDecision
        /\ View(w)[a].auth = "PERSON"
        /\ p.auth = "SYSTEM"
        /\ p.det # View(w)[a].det
        /\ ~AllowDestructive(w)

\* An automatic proposal against an active decision of a person.
ReplacesPerson(w) ==
    LET p == plan[w].row
        a == ActiveDecision(View(w), p.ref)
    IN  /\ a # NoDecision
        /\ View(w)[a].auth = "PERSON"
        /\ p.auth = "SYSTEM"
        /\ ~AllowDestructive(w)

\* A duplicate turns canonical or moves to another canonical.
LeavesCanonical(w) ==
    LET p == plan[w].row
    IN  /\ ActiveDet(View(w), p.ref) = "DUPLICATE"
        /\ \/ p.det = "CANONICAL"
           \/ p.det = "DUPLICATE" /\ ActiveCanon(View(w), p.ref) # p.canon
        /\ ~AllowDestructive(w)

\* A reference with duplicates turns duplicate.
WouldChain(w) ==
    LET p == plan[w].row
    IN  p.det = "DUPLICATE" /\ DuplicatesOf(View(w), p.ref) # {}

Decouples(w) == ReplacesPerson(w) \/ LeavesCanonical(w) \/ WouldChain(w)

\* The proposal as it will be written.
Outcome(w) ==
    IF Decouples(w)
    THEN [plan[w].row EXCEPT !.det = "DECOUPLED", !.active = FALSE]
    ELSE [plan[w].row EXCEPT !.active = TRUE]

MapDecision(w) ==
    /\ stage[w] = "map"
    /\ ~NamesNonCanonical(w)
    /\ plan' = [plan EXCEPT ![w] = [id |-> plan[w].id, row |-> Outcome(w)]]
    /\ old' = [old EXCEPT ![w] = ActiveDecision(View(w), plan[w].row.ref)]
    /\ stage' = [stage EXCEPT ![w] = "write"]
    /\ UNCHANGED <<sqlVars, queue, task, locked, then, undecided, writes,
                   touched, es, reported, faultVars>>

\* The previous active decision is deactivated only when the new one activates.
Deactivated(w) ==
    IF plan[w].row.active /\ old[w] \notin {NoDecision, plan[w].id}
    THEN {old[w]} ELSE {}

RowsWritten(w) == {plan[w].id} \cup Deactivated(w)

\* Worker w waits on v: for a row lock, or for the outcome of v's entry in
\* uix_reference_one_active_decision_constraint.
WaitsFor(w, v) ==
    /\ v # w
    /\ stage[w] = "write"
    /\ \/ \E d \in RowsWritten(w) : writes[v][d].det # "ABSENT"
       \/ /\ plan[w].row.active
          /\ \E d \in Decision : /\ writes[v][d].active
                                 /\ writes[v][d].ref = plan[w].row.ref

Blocked(w) == \E v \in Process : WaitsFor(w, v)

\* Mutant: the unique index is missing.
NoIndex(w) == FALSE

\* The unique index: another row of the reference is active.
IndexCollision(w) ==
    /\ plan[w].row.active
    /\ \E d \in Decision \ {plan[w].id, old[w]} :
          View(w)[d].ref = plan[w].row.ref /\ View(w)[d].active

\* A decoupled proposal merges back the decision it retains, as read: if that
\* was displaced since, reactivating it meets the index, unless the merge
\* loaded the row before the other commit.
RetainedDisplaced(w) ==
    /\ ~plan[w].row.active
    /\ old[w] # NoDecision
    /\ ~View(w)[old[w]].active

\* Mutant: the canonical a duplicate left is not projected again.
NoAbandonedCanonical(w) == {}

\* make_duplicate_decisions projects again the canonical a duplicate left.
AbandonedCanonical(w) ==
    {c \in Reference :
        /\ w \in Handler
        /\ Deactivated(w) # {}
        /\ View(w)[old[w]].canon = c
        /\ plan[w].row.canon # c
        /\ ActiveDet(View(w), c) # "ABSENT"}

WriteDecision(w) ==
    /\ stage[w] = "write"
    /\ ~Blocked(w)
    /\ ~IndexCollision(w)
    /\ writes' = [writes EXCEPT ![w] =
                    [d \in Decision |->
                        IF d = plan[w].id THEN plan[w].row
                        ELSE IF d \in Deactivated(w)
                        THEN [View(w)[d] EXCEPT !.active = FALSE]
                        ELSE writes[w][d]]]
    /\ touched' = [touched EXCEPT ![w] =
                    @ \cup AbandonedCanonical(w)
                      \cup IF plan[w].row.active THEN {plan[w].row.ref} ELSE {}]
    /\ stage' = [stage EXCEPT ![w] = then[w]]
    /\ UNCHANGED <<sqlVars, queue, task, locked, plan, old, then, undecided,
                   es, reported, faultVars>>

\* remaining_retries > 0
MayRetry(t) == t.retries > 0

\* SQLIntegrityError on the active-decision index: the task rolls back, reads
\* its decision again and skips, queues itself again or raises.
WriteCollision(w) ==
    /\ stage[w] = "write"
    /\ ~Blocked(w)
    /\ IndexCollision(w) \/ RetainedDisplaced(w)
    /\ Release(w)
    /\ \/ /\ w \in Handler
          /\ UNCHANGED <<queue, reported>>
       \/ /\ w \in Worker
          /\ decisions[task[w].decision].det # "PENDING"
          /\ UNCHANGED <<queue, reported>>
       \/ /\ w \in Worker
          /\ decisions[task[w].decision].det = "PENDING"
          /\ MayRetry(task[w])
          /\ queue' = queue \cup {[task[w] EXCEPT !.retries = @ - 1]}
          /\ UNCHANGED reported
       \/ /\ w \in Worker
          /\ decisions[task[w].decision].det = "PENDING"
          /\ ~MayRetry(task[w])
          /\ reported' = reported \cup {task[w].decision}
          /\ UNCHANGED queue
    /\ UNCHANGED <<sqlVars, es, faultVars>>

\* PostgreSQL cancels one of a set of transactions that wait on each other; the
\* error is not an integrity error, so the task raises.
DeadlockVictim(w) ==
    /\ \E S \in SUBSET Process :
          /\ w \in S
          /\ \A x \in S : \E y \in S : WaitsFor(x, y)
    /\ Raise(w)

-----------------------------------------------------------------------------
(* The shortcut's other matches *)

\* get_active_decision_determinations: references decided meanwhile are skipped.
GuardUndecided(w) ==
    /\ stage[w] = "guard"
    /\ undecided' = [undecided EXCEPT
                        ![w] = {c \in @ : IsUndecided(View(w), c)}]
    /\ stage' = [stage EXCEPT ![w] = "side"]
    /\ UNCHANGED <<sqlVars, queue, task, locked, plan, old, then, writes,
                   touched, es, reported, faultVars>>

\* canonical_id: the subject itself, or the canonical it was mapped to.
TreeCanonical(w) ==
    IF plan[w].row.canon = NoRef THEN plan[w].row.ref ELSE plan[w].row.canon

MapProxied(w) ==
    /\ stage[w] = "side"
    /\ Unused # {}
    /\ \E c \in undecided[w] :
         /\ plan' = [plan EXCEPT ![w] =
                        [id |-> FreshId,
                         row |-> [ref |-> c, det |-> "DUPLICATE",
                                  canon |-> TreeCanonical(w),
                                  auth |-> "SYSTEM", active |-> FALSE]]]
         /\ undecided' = [undecided EXCEPT ![w] = @ \ {c}]
    /\ stage' = [stage EXCEPT ![w] = "map"]
    /\ then' = [then EXCEPT ![w] = "side"]
    /\ UNCHANGED <<sqlVars, queue, task, locked, old, writes, touched, es,
                   reported, faultVars>>

AllMapped(w) ==
    /\ stage[w] = "side"
    /\ undecided[w] = {}
    /\ stage' = [stage EXCEPT ![w] = "project"]
    /\ UNCHANGED <<sqlVars, queue, task, locked, txnVars, es, reported,
                   faultVars>>

-----------------------------------------------------------------------------
(* Elasticsearch, commit, and the manual endpoint *)

\* The references sql_to_es visits from r, canonical by canonical.
Visit(T, r) ==
    LET next == [x \in Reference |-> IF ActiveDet(T, x) = "DUPLICATE"
                                     THEN ActiveCanon(T, x) ELSE x]
        hop[n \in 0..Cardinality(Reference)] ==
            IF n = 0 THEN r ELSE next[hop[n - 1]]
    IN  hop

\* What sql_to_es writes for document x when called on the references R.
Projection(T, R, x) ==
    LET Last == Cardinality(Reference)
    IN  IF \E r \in R : x = Visit(T, r)[Last] /\ ActiveDet(T, x) # "DUPLICATE"
        THEN [det |-> ActiveDet(T, x), merged |-> DuplicatesOf(T, x)]
        ELSE IF \E r \in R, n \in 0..Last :
                   x = Visit(T, r)[n] /\ ActiveDet(T, x) = "DUPLICATE"
        THEN NoDoc
        ELSE es[x]

\* sql_to_es never reaches a reference to index.
Diverges(T, R) ==
    \E r \in R : ActiveDet(T, Visit(T, r)[Cardinality(Reference)]) = "DUPLICATE"

\* sql_to_es for every reference whose active decision was written.
Project(w) ==
    /\ stage[w] = "project"
    /\ \E T \in {View(w)} :
          /\ ~Diverges(T, touched[w])
          /\ es' = [x \in Reference |-> Projection(T, touched[w], x)]
    /\ touched' = [touched EXCEPT ![w] = {}]
    /\ stage' = [stage EXCEPT ![w] = "commit"]
    /\ UNCHANGED <<sqlVars, queue, task, locked, plan, old, then, undecided,
                   writes, reported, faultVars>>

\* Two references that are duplicates of each other: the recursion limit ends
\* sql_to_es after it deleted both documents.
ProjectionDiverges(w) ==
    /\ stage[w] = "project"
    /\ \E T \in {View(w)} :
          /\ Diverges(T, touched[w])
          /\ es' = [x \in Reference |-> Projection(T, touched[w], x)]
    /\ Release(w)
    /\ reported' = IF w \in Handler THEN reported
                   ELSE reported \cup {task[w].decision}
    /\ UNCHANGED <<sqlVars, queue, faultVars>>

Commit(w) ==
    /\ stage[w] = "commit"
    /\ decisions' = View(w)
    /\ Release(w)
    /\ UNCHANGED <<imported, queue, es, reported, faultVars>>

\* One decision of a manual request; a request lists several, mapped in order
\* in one transaction.
ManualDecision(w, r, det, canon) ==
    /\ stage[w] \in {"idle", "commit"}
    /\ RequestsLeft
    /\ (canon # NoRef) <=> (det = "DUPLICATE")
    /\ plan' = [plan EXCEPT ![w] =
                   [id |-> FreshId,
                    row |-> [ref |-> r, det |-> det, canon |-> canon,
                             auth |-> "PERSON", active |-> FALSE]]]
    /\ stage' = [stage EXCEPT ![w] = "map"]
    /\ then' = [then EXCEPT ![w] = "project"]
    /\ UNCHANGED <<sqlVars, queue, task, locked, old, undecided, writes,
                   touched, es, reported, faultVars>>

-----------------------------------------------------------------------------
(* Failures *)

\* The process dies: PostgreSQL rolls back and the broker redelivers.
Crash(w) ==
    /\ stage[w] # "idle"
    /\ crashes < MaxCrashes
    /\ crashes' = crashes + 1
    /\ Release(w)
    /\ queue' = IF locked[w] THEN queue \cup {task[w]} ELSE queue
    /\ UNCHANGED <<sqlVars, es, reported, lockLosses>>

\* The broker lock expires under a slow task, which runs on.
LoseLock(w) ==
    /\ locked[w]
    /\ lockLosses < MaxLockLosses
    /\ lockLosses' = lockLosses + 1
    /\ queue' = queue \cup {task[w]}
    /\ locked' = [locked EXCEPT ![w] = FALSE]
    /\ UNCHANGED <<sqlVars, stage, task, txnVars, es, reported, crashes>>

-----------------------------------------------------------------------------
\* A queue worker takes a task and looks for the reference's canonical.
TaskStep(w) ==
    \/ \E t \in queue : Deliver(w, t) \/ SkipProcessed(w, t)
    \/ Shortcut(w)
    \/ CandidateSearch(w)
    \/ GuardUndecided(w)
    \/ MapProxied(w)
    \/ AllMapped(w)

\* What workers and request handlers share: mapping a decision, side effects.
TxnStep(w) ==
    \/ MapRejected(w)
    \/ MapDecision(w)
    \/ WriteDecision(w)
    \/ WriteCollision(w)
    \/ DeadlockVictim(w)
    \/ Project(w)
    \/ ProjectionDiverges(w)
    \/ Commit(w)

Request ==
    \/ \E r \in Reference : Import(r) \/ Invoke(r)
    \/ \E h \in Handler, r \in imported, canon \in imported \cup {NoRef},
          det \in {"CANONICAL", "DUPLICATE"} : ManualDecision(h, r, det, canon)

Fault ==
    \/ \E r \in Reference : InvokeUnqueued(r)
    \/ \E w \in Worker : SearchError(w) \/ LoseLock(w)
    \/ \E w \in Process : Crash(w)

Next ==
    \/ Request
    \/ Fault
    \/ \E w \in Worker : TaskStep(w)
    \/ \E w \in Process : TxnStep(w)

Spec == Init /\ [][Next]_vars

\* Processes run on once started, workers keep taking tasks, and PostgreSQL
\* grants a contended lock in the order of its queue, so a transaction that can
\* write again and again does write.  Requests and faults are not owed.
Fairness ==
    /\ \A w \in Worker : SF_vars(TaskStep(w) \/ TxnStep(w))
    /\ \A h \in Handler : SF_vars(TxnStep(h))

FairSpec == Spec /\ Fairness

\* Transactions that never overlap: one process at work at a time.
OneBusy == \A p, q \in Process : stage[p] # "idle" /\ stage[q] # "idle" => p = q

-----------------------------------------------------------------------------
(* Properties *)

\* Every variable keeps its type.
TypeOK ==
    /\ imported \subseteq Reference
    /\ decisions \in [Decision -> Row]
    /\ queue \subseteq Task
    /\ stage \in [Process -> Stage]
    /\ task \in [Process -> Task \cup {NoTask}]
    /\ locked \in [Process -> BOOLEAN]
    /\ plan \in [Process -> Plan]
    /\ old \in [Process -> Decision \cup {NoDecision}]
    /\ then \in [Process -> Stage]
    /\ undecided \in [Process -> SUBSET Reference]
    /\ writes \in [Process -> [Decision -> Row]]
    /\ touched \in [Process -> SUBSET Reference]
    /\ es \in [Reference -> Doc]
    /\ reported \subseteq Decision
    /\ crashes \in 0..MaxCrashes
    /\ lockLosses \in 0..MaxLockLosses

\* A reference has at most one active decision, whatever transactions overlap.
OneActiveDecision ==
    \A d, e \in Decision :
        decisions[d].active /\ decisions[e].active
            /\ decisions[d].ref = decisions[e].ref => d = e

\* An automatic decision never takes the place of an active decision a person
\* made: only a manual request deactivates one.
PersonDecisionKept ==
    [][\A d \in Decision :
          decisions[d].active /\ decisions[d].auth = "PERSON"
              /\ ~decisions'[d].active
          => \E h \in Handler : stage[h] = "commit" /\ stage'[h] = "idle"]_vars

\* A decision is decided once: redeliveries and retries of its task do not
\* decide it again.
DecidedOnce ==
    [][\A d \in Decision :
          decisions[d].det \notin {"ABSENT", "PENDING"} =>
              /\ decisions'[d].det = decisions[d].det
              /\ decisions'[d].canon = decisions[d].canon]_vars

\* Once requests stop, every decision is decided or its failure reported:
\* waiting on locks, deadlocks, redeliveries and retries all come to an end.
EveryTaskSettles ==
    <>[](\A d \in Decision : decisions[d].det = "PENDING" => d \in reported)

\* Duplicates do not point to other duplicates.
NoChaining ==
    \A r \in Reference :
        ActiveDet(decisions, r) = "DUPLICATE" =>
            ActiveDet(decisions, ActiveCanon(decisions, r))
                \in {"CANONICAL", "UNSEARCHABLE"}

\* References the system made canonical never share a trusted identifier: the
\* shortcut puts all matches in one tree.
OneTreePerIdentifier ==
    \A x, y \in Reference :
        LET systemCanonical(r) ==
                /\ IsCanonical(decisions, r)
                /\ decisions[ActiveDecision(decisions, r)].auth = "SYSTEM"
        IN  x # y /\ systemCanonical(x) /\ systemCanonical(y)
                => TrustedIds[x] \cap TrustedIds[y] = {}

\* The document the deduplicated projection gives a reference; duplicates and
\* undecided references have none.
ExpectedDoc(T, r) ==
    IF ActiveDet(T, r) \in {"ABSENT", "DUPLICATE"} THEN NoDoc
    ELSE [det |-> ActiveDet(T, r), merged |-> DuplicatesOf(T, r)]

\* Whatever a commit changes in the projection of a reference, its own subject
\* or a canonical that gained or lost a duplicate, is in the index by then.
ChangesIndexed ==
    \A r \in Reference :
        ExpectedDoc(decisions', r) # ExpectedDoc(decisions, r)
            => es'[r] = ExpectedDoc(decisions', r)
CommitIsIndexed == [][ChangesIndexed]_vars

=============================================================================
