------------------------ MODULE DeduplicationProofs ------------------------
(***************************************************************************)
(* Theorems about Deduplication, for any references, decisions, workers,   *)
(* handlers and identifiers.                                               *)
(***************************************************************************)
EXTENDS Deduplication, FiniteSetTheorems, TLAPS

-----------------------------------------------------------------------------
(* Types of the operators the actions are built from. *)

\* The empty values have the types of the variables that hold them.
LEMMA NullTypes ==
    /\ NoRow \in Row
    /\ NoPlan \in Plan
    /\ NoDoc \in Doc
    /\ NoTask.decision = NoDecision
  BY Zenon DEF NoRow, Row, NoPlan, Plan, NoDoc, Doc, NoTask, RefOrNone

\* A transaction reads a table of decisions.
LEMMA ViewType ==
    ASSUME decisions \in [Decision -> Row],
           writes \in [Process -> [Decision -> Row]],
           NEW w \in Process
    PROVE  View(w) \in [Decision -> Row]
  BY Zenon DEF View

\* The relationships of a reference read from a table.
LEMMA ActiveTypes ==
    ASSUME NEW T \in [Decision -> Row], NEW r
    PROVE  /\ ActiveDecision(T, r) \in Decision \cup {NoDecision}
           /\ ActiveDecision(T, r) # NoDecision =>
                 /\ ActiveDecision(T, r) \in Decision
                 /\ T[ActiveDecision(T, r)].active
                 /\ T[ActiveDecision(T, r)].ref = r
           /\ ActiveDet(T, r) \in Determination \cup {"ABSENT"}
           /\ ActiveCanon(T, r) \in RefOrNone
  <1>1. CASE ActiveRows(T, r) = {}
    BY <1>1, Zenon DEF ActiveDecision, ActiveDet, ActiveCanon, RefOrNone
  <1>2. CASE ActiveRows(T, r) # {}
    <2>1. ActiveDecision(T, r) \in ActiveRows(T, r)
      BY <1>2, Zenon DEF ActiveDecision, ActiveRows
    <2>2. /\ ActiveDecision(T, r) \in Decision
          /\ T[ActiveDecision(T, r)].active
          /\ T[ActiveDecision(T, r)].ref = r
      BY <2>1, Zenon DEF ActiveRows
    <2>3. T[ActiveDecision(T, r)] \in Row
      BY <2>2, Zenon
    <2> QED BY <1>2, <2>2, <2>3, Zenon DEF ActiveDet, ActiveCanon, Row
  <1> QED BY <1>1, <1>2, Zenon

\* Requests and workers only take an id that nothing uses.
LEMMA FreshIdUnused ==
    ASSUME RequestsLeft \/ Unused # {}
    PROVE  /\ FreshId \in Unused
           /\ FreshId \in Decision
  <1>1. Unused # {}
    <2> SUFFICES ASSUME RequestsLeft, Unused = {} PROVE FALSE
      BY Zenon
    <2>1. Cardinality(Unused) = 0
      BY FS_EmptySet, Zenon
    <2> QED BY <2>1, ConstantsAssumption DEF RequestsLeft
  <1> QED BY <1>1, Zenon DEF FreshId, Unused

-----------------------------------------------------------------------------
(* Type correctness *)

\* A worker that is not idle holds a task, and so does who owns a broker lock.
TaskHeld ==
    /\ \A w \in Worker : stage[w] # "idle" => task[w] \in Task
    /\ \A w \in Process : locked[w] => task[w] \in Task

\* A process that maps or writes a decision has one: of a stored reference,
\* with an outcome, and in a worker's case the system's own.
PlanMade ==
    \A w \in Process : stage[w] \in {"map", "write"} =>
        /\ plan[w].id \in Decision
        /\ plan[w].row.ref \in Reference
        /\ plan[w].row.det \notin {"ABSENT", "PENDING"}
        /\ w \in Worker => plan[w].row.auth = "SYSTEM"

\* The end of a transaction, typed.
LEMMA ReleaseType ==
    ASSUME TypeOK, TaskHeld, NEW w \in Process, Release(w)
    PROVE  /\ stage' \in [Process -> Stage]
           /\ task' \in [Process -> Task \cup {NoTask}]
           /\ locked' \in [Process -> BOOLEAN]
           /\ plan' \in [Process -> Plan]
           /\ old' \in [Process -> Decision \cup {NoDecision}]
           /\ then' \in [Process -> Stage]
           /\ undecided' \in [Process -> SUBSET Reference]
           /\ writes' \in [Process -> [Decision -> Row]]
           /\ touched' \in [Process -> SUBSET Reference]
           /\ TaskHeld'
  <1>1. [d \in Decision |-> NoRow] \in [Decision -> Row]
    BY NullTypes, Zenon
  <1>2. /\ stage' \in [Process -> Stage]
        /\ task' \in [Process -> Task \cup {NoTask}]
        /\ locked' \in [Process -> BOOLEAN]
        /\ old' \in [Process -> Decision \cup {NoDecision}]
        /\ then' \in [Process -> Stage]
    BY Zenon DEF TypeOK, Release, Stage
  <1>3. /\ plan' \in [Process -> Plan]
        /\ undecided' \in [Process -> SUBSET Reference]
        /\ writes' \in [Process -> [Decision -> Row]]
        /\ touched' \in [Process -> SUBSET Reference]
    BY <1>1, NullTypes, Zenon DEF TypeOK, Release
  <1>4. TaskHeld'
    BY Zenon DEF TypeOK, TaskHeld, Release, Process
  <1> QED BY <1>2, <1>3, <1>4, Zenon

\* An exception, typed.
LEMMA RaiseType ==
    ASSUME TypeOK, TaskHeld, NEW w \in Process, stage[w] # "idle", Raise(w)
    PROVE  TypeOK' /\ TaskHeld'
  <1>1. Release(w)
    BY Zenon DEF Raise
  <1>2. reported' \subseteq Decision
    BY Zenon DEF Raise, TypeOK, TaskHeld, Process, Task
  <1> QED BY <1>1, <1>2, ReleaseType, Zenon DEF Raise, TypeOK, sqlVars, faultVars

\* A PENDING row is a row.
LEMMA PendingRowType ==
    ASSUME NEW r \in Reference
    PROVE  PendingRow(r) \in Row
  BY Zenon DEF PendingRow, Row, NoRow, RefOrNone, Determination

\* A worker's proposal is a plan.
LEMMA ProposalType ==
    ASSUME TypeOK, TaskHeld, NEW w \in Worker, stage[w] # "idle",
           NEW det \in Determination, NEW canon \in RefOrNone
    PROVE  Proposal(w, det, canon) \in Plan
  <1>1. task[w].decision \in Decision
    BY Zenon DEF TaskHeld, Task
  <1>2. Subject(w) \in RefOrNone
    BY <1>1, Zenon DEF TypeOK, Subject, Row
  <1> QED BY <1>1, <1>2, Zenon DEF Proposal, Plan, Row

\* What sql_to_es writes are documents.
LEMMA ProjectionType ==
    ASSUME TypeOK, NEW T \in [Decision -> Row], NEW R
    PROVE  [x \in Reference |-> Projection(T, R, x)] \in [Reference -> Doc]
  <1> SUFFICES ASSUME NEW x \in Reference
               PROVE  Projection(T, R, x) \in Doc
    BY Zenon
  <1>1. [det |-> ActiveDet(T, x), merged |-> DuplicatesOf(T, x)] \in Doc
    BY ActiveTypes, Zenon DEF Doc, DuplicatesOf
  <1>2. es[x] \in Doc
    BY Zenon DEF TypeOK
  <1> QED BY <1>1, <1>2, NullTypes, Zenon DEF Projection

\* Every step keeps the types.
LEMMA TypeStep ==
    ASSUME TypeOK, TaskHeld, PlanMade, [Next]_vars
    PROVE  TypeOK' /\ TaskHeld'
  <1> USE DEF sqlVars, txnVars, faultVars
  <1>1. ASSUME NEW r \in Reference, Import(r) PROVE TypeOK' /\ TaskHeld'
    <2>1. FreshId \in Decision
      BY <1>1, FreshIdUnused, Zenon DEF Import
    <2>2. [decision |-> FreshId, retries |-> MaxRetries] \in Task
      BY <2>1, ConstantsAssumption DEF Task
    <2> QED BY <1>1, <2>1, <2>2, PendingRowType, Zenon DEF Import, TypeOK, TaskHeld
  <1>2. ASSUME NEW r \in Reference, Invoke(r) PROVE TypeOK' /\ TaskHeld'
    <2>1. FreshId \in Decision
      BY <1>2, FreshIdUnused, Zenon DEF Invoke
    <2>2. [decision |-> FreshId, retries |-> MaxRetries] \in Task
      BY <2>1, ConstantsAssumption DEF Task
    <2> QED BY <1>2, <2>1, <2>2, PendingRowType, Zenon DEF Invoke, TypeOK, TaskHeld
  <1>3. ASSUME NEW r \in Reference, InvokeUnqueued(r) PROVE TypeOK' /\ TaskHeld'
    <2>1. FreshId \in Decision
      BY <1>3, FreshIdUnused, Zenon DEF InvokeUnqueued
    <2>2. crashes' \in 0..MaxCrashes
      BY <1>3, ConstantsAssumption DEF InvokeUnqueued, TypeOK
    <2> QED BY <1>3, <2>1, <2>2, PendingRowType, Zenon
            DEF InvokeUnqueued, TypeOK, TaskHeld
  <1>4. ASSUME NEW w \in Worker, NEW t \in queue, Deliver(w, t)
        PROVE  TypeOK' /\ TaskHeld'
    <2>1. w \in Process
      BY Zenon DEF Process
    <2>2. t \in Task
      BY Zenon DEF TypeOK
    <2>3. TypeOK'
      BY <1>4, <2>1, <2>2, Zenon DEF Deliver, TypeOK, Stage
    <2>4. TaskHeld'
      BY <1>4, <2>1, <2>2, Zenon DEF Deliver, TypeOK, TaskHeld, Process
    <2> QED BY <2>3, <2>4, Zenon
  <1>5. ASSUME NEW w \in Worker, NEW t \in queue, SkipProcessed(w, t)
        PROVE  TypeOK' /\ TaskHeld'
    BY <1>5, Zenon DEF SkipProcessed, TypeOK, TaskHeld
  <1>6. ASSUME NEW w \in Worker, Shortcut(w) PROVE TypeOK' /\ TaskHeld'
    <2> DEFINE C == MatchesOf(Subject(w), TrustedIds)
    <2>1. w \in Process /\ stage[w] # "idle"
      BY <1>6, Zenon DEF Process, Shortcut
    <2>2. CanonicalIds(C) \subseteq RefOrNone
      BY ActiveTypes DEF CanonicalIds, TypeOK, MatchesOf, RefOrNone
    <2>3. plan' \in [Process -> Plan]
      <3>1. /\ Proposal(w, "CANONICAL", NoRef) \in Plan
            /\ Proposal(w, "DECOUPLED", NoRef) \in Plan
            /\ \A k \in CanonicalIds(C) : Proposal(w, "DUPLICATE", k) \in Plan
        BY <2>1, <2>2, ProposalType, Zenon DEF Determination, RefOrNone
      <3>2. \E p \in Plan : plan' = [plan EXCEPT ![w] = p]
        BY <1>6, <3>1, Zenon DEF Shortcut
      <3> QED BY <2>1, <3>2, Zenon DEF TypeOK
    <2>4. stage' \in [Process -> Stage] /\ then' \in [Process -> Stage]
      BY <1>6, <2>1, Zenon DEF Shortcut, TypeOK, Stage
    <2>5. undecided' \in [Process -> SUBSET Reference]
      BY <1>6, <2>1, Zenon DEF Shortcut, TypeOK, MatchesOf
    <2>6. TaskHeld'
      <3>1. /\ \E s \in Stage : stage' = [stage EXCEPT ![w] = s]
            /\ UNCHANGED <<task, locked>>
        BY <1>6, Zenon DEF Shortcut, Stage
      <3> QED BY <2>1, <3>1 DEF TaskHeld, TypeOK
    <2> QED BY <1>6, <2>3, <2>4, <2>5, <2>6, Zenon DEF Shortcut, TypeOK
  <1>7. ASSUME NEW w \in Worker, CandidateSearch(w) PROVE TypeOK' /\ TaskHeld'
    <2>1. w \in Process /\ stage[w] # "idle"
      BY <1>7, Zenon DEF Process, CandidateSearch
    <2>2. FirstCandidates(Subject(w)) \subseteq RefOrNone
      <3>1. IdentifierMatches(Subject(w)) \subseteq RefOrNone
        BY ActiveTypes DEF IdentifierMatches, TypeOK, MatchesOf, RefOrNone
      <3> QED BY <3>1, Zenon DEF FirstCandidates, SearchHits, RefOrNone
    <2>3. plan' \in [Process -> Plan]
      <3>1. /\ Proposal(w, "CANONICAL", NoRef) \in Plan
            /\ Proposal(w, "UNSEARCHABLE", NoRef) \in Plan
            /\ \A c \in FirstCandidates(Subject(w)) :
                  Proposal(w, "DUPLICATE", c) \in Plan
        BY <2>1, <2>2, ProposalType, Zenon DEF Determination, RefOrNone
      <3> QED BY <1>7, <2>1, <3>1, Zenon DEF CandidateSearch, TypeOK
    <2>4. stage' \in [Process -> Stage] /\ then' \in [Process -> Stage]
      BY <1>7, <2>1, Zenon DEF CandidateSearch, TypeOK, Stage
    <2>5. TaskHeld'
      BY <1>7, <2>1 DEF CandidateSearch, TaskHeld, TypeOK
    <2> QED BY <1>7, <2>3, <2>4, <2>5, Zenon DEF CandidateSearch, TypeOK
  <1>8. ASSUME NEW w \in Worker, SearchError(w) PROVE TypeOK' /\ TaskHeld'
    <2>1. w \in Process /\ Release(w) /\ stage[w] # "idle"
      BY <1>8, Zenon DEF Process, SearchError
    <2>2. crashes' \in 0..MaxCrashes
      BY <1>8, ConstantsAssumption DEF SearchError, TypeOK
    <2>3. reported' \subseteq Decision
      BY <1>8, <2>1, Zenon DEF SearchError, TypeOK, TaskHeld, Task
    <2> QED BY <1>8, <2>1, <2>2, <2>3, ReleaseType, Zenon DEF SearchError, TypeOK
  <1>9. ASSUME NEW w \in Process, MapRejected(w) PROVE TypeOK' /\ TaskHeld'
    BY <1>9, RaiseType, Zenon DEF MapRejected
  <1>10. ASSUME NEW w \in Process, MapDecision(w) PROVE TypeOK' /\ TaskHeld'
    <2>1. Outcome(w) \in Row
      <3>1. plan[w].row \in Row
        BY Zenon DEF TypeOK, Plan
      <3> QED BY <3>1, Zenon DEF Outcome, Row, Determination
    <2>2. plan' \in [Process -> Plan]
      BY <1>10, <2>1, Zenon DEF MapDecision, TypeOK, Plan
    <2>3. old' \in [Process -> Decision \cup {NoDecision}]
      BY <1>10, ViewType, ActiveTypes, Zenon DEF MapDecision, TypeOK
    <2>4. TaskHeld' /\ stage' \in [Process -> Stage]
      BY <1>10 DEF MapDecision, TaskHeld, TypeOK, Stage
    <2> QED BY <1>10, <2>2, <2>3, <2>4, Zenon DEF MapDecision, TypeOK
  <1>11. ASSUME NEW w \in Process, WriteDecision(w) PROVE TypeOK' /\ TaskHeld'
    <2>1. writes' \in [Process -> [Decision -> Row]]
      <3>1. plan[w].row \in Row
        BY Zenon DEF TypeOK, Plan
      <3>2. \A d \in Decision : [View(w)[d] EXCEPT !.active = FALSE] \in Row
        <4> SUFFICES ASSUME NEW d \in Decision
                     PROVE  [View(w)[d] EXCEPT !.active = FALSE] \in Row
          BY Zenon
        <4>1. View(w)[d] \in Row
          BY ViewType, Zenon DEF TypeOK
        <4> QED BY <4>1, Zenon DEF Row
      <3> QED BY <1>11, <3>1, <3>2, Zenon DEF WriteDecision, TypeOK
    <2>2. touched' \in [Process -> SUBSET Reference]
      <3>1. AbandonedCanonical(w) \subseteq Reference
        BY Zenon DEF AbandonedCanonical
      <3>2. plan[w].row.ref \in Reference
        BY <1>11, Zenon DEF WriteDecision, PlanMade
      <3> QED BY <1>11, <3>1, <3>2, Zenon DEF WriteDecision, TypeOK
    <2>3. TaskHeld' /\ stage' \in [Process -> Stage]
      BY <1>11 DEF WriteDecision, TaskHeld, TypeOK
    <2> QED BY <1>11, <2>1, <2>2, <2>3, Zenon DEF WriteDecision, TypeOK
  <1>12. ASSUME NEW w \in Process, WriteCollision(w) PROVE TypeOK' /\ TaskHeld'
    <2>1. Release(w) /\ stage[w] # "idle"
      BY <1>12, Zenon DEF WriteCollision
    <2>2. queue' \subseteq Task /\ reported' \subseteq Decision
      <3>1. CASE w \in Handler /\ UNCHANGED <<queue, reported>>
        BY <3>1, Zenon DEF TypeOK
      <3>2. CASE w \in Worker
        <4>1. task[w] \in Task
          BY <2>1, <3>2, Zenon DEF TaskHeld
        <4>2. MayRetry(task[w]) => [task[w] EXCEPT !.retries = @ - 1] \in Task
          BY <4>1, ConstantsAssumption DEF MayRetry, Task
        <4>3. task[w].decision \in Decision
          BY <4>1, Zenon DEF Task
        <4> QED BY <1>12, <4>2, <4>3, Zenon DEF WriteCollision, TypeOK
      <3> QED BY <1>12, <3>1, <3>2, Zenon DEF WriteCollision
    <2> QED BY <1>12, <2>1, <2>2, ReleaseType, Zenon DEF WriteCollision, TypeOK
  <1>13. ASSUME NEW w \in Process, DeadlockVictim(w) PROVE TypeOK' /\ TaskHeld'
    <2>1. stage[w] = "write"
      BY <1>13, Zenon DEF DeadlockVictim, WaitsFor
    <2> QED BY <1>13, <2>1, RaiseType, Zenon DEF DeadlockVictim
  <1>14. ASSUME NEW w \in Worker, GuardUndecided(w) PROVE TypeOK' /\ TaskHeld'
    <2>1. w \in Process
      BY Zenon DEF Process
    <2> QED BY <1>14, <2>1 DEF GuardUndecided, TypeOK, TaskHeld, Stage
  <1>15. ASSUME NEW w \in Worker, MapProxied(w) PROVE TypeOK' /\ TaskHeld'
    <2>1. w \in Process
      BY Zenon DEF Process
    <2>2. FreshId \in Decision
      BY <1>15, FreshIdUnused, Zenon DEF MapProxied
    <2>3. TreeCanonical(w) \in RefOrNone
      BY <2>1, Zenon DEF TreeCanonical, TypeOK, Plan, Row, RefOrNone
    <2>4. \A c \in undecided[w] :
             [id |-> FreshId,
              row |-> [ref |-> c, det |-> "DUPLICATE", canon |-> TreeCanonical(w),
                       auth |-> "SYSTEM", active |-> FALSE]] \in Plan
      BY <2>1, <2>2, <2>3, Zenon DEF TypeOK, Plan, Row, Determination, RefOrNone
    <2>5. plan' \in [Process -> Plan]
      BY <1>15, <2>1, <2>4 DEF MapProxied, TypeOK
    <2>6. undecided' \in [Process -> SUBSET Reference]
      BY <1>15, <2>1 DEF MapProxied, TypeOK
    <2>7. /\ TaskHeld'
          /\ stage' \in [Process -> Stage]
          /\ then' \in [Process -> Stage]
      BY <1>15, <2>1 DEF MapProxied, TaskHeld, TypeOK, Stage
    <2> QED BY <1>15, <2>5, <2>6, <2>7, Zenon DEF MapProxied, TypeOK
  <1>16. ASSUME NEW w \in Worker, AllMapped(w) PROVE TypeOK' /\ TaskHeld'
    <2>1. w \in Process
      BY Zenon DEF Process
    <2> QED BY <1>16, <2>1 DEF AllMapped, TypeOK, TaskHeld, Stage
  <1>17. ASSUME NEW w \in Process, Project(w) PROVE TypeOK' /\ TaskHeld'
    <2>1. es' \in [Reference -> Doc]
      <3>1. es' = [x \in Reference |-> Projection(View(w), touched[w], x)]
        BY <1>17, Zenon DEF Project
      <3>2. View(w) \in [Decision -> Row]
        BY ViewType, Zenon DEF TypeOK
      <3> QED BY <3>1, <3>2, ProjectionType, Zenon
    <2>2. /\ TaskHeld'
          /\ stage' \in [Process -> Stage]
          /\ touched' \in [Process -> SUBSET Reference]
      BY <1>17 DEF Project, TaskHeld, TypeOK, Stage
    <2> QED BY <1>17, <2>1, <2>2, Zenon DEF Project, TypeOK
  <1>18. ASSUME NEW w \in Process, ProjectionDiverges(w)
         PROVE  TypeOK' /\ TaskHeld'
    <2>1. es' \in [Reference -> Doc]
      <3>1. es' = [x \in Reference |-> Projection(View(w), touched[w], x)]
        BY <1>18, Zenon DEF ProjectionDiverges
      <3>2. View(w) \in [Decision -> Row]
        BY ViewType, Zenon DEF TypeOK
      <3> QED BY <3>1, <3>2, ProjectionType, Zenon
    <2>2. Release(w) /\ stage[w] # "idle"
      BY <1>18, Zenon DEF ProjectionDiverges
    <2>3. reported' \subseteq Decision
      BY <1>18, <2>2, Zenon DEF ProjectionDiverges, TypeOK, TaskHeld, Process, Task
    <2> QED BY <1>18, <2>1, <2>2, <2>3, ReleaseType, Zenon
            DEF ProjectionDiverges, TypeOK
  <1>19. ASSUME NEW w \in Process, Commit(w) PROVE TypeOK' /\ TaskHeld'
    BY <1>19, ViewType, ReleaseType, Zenon DEF Commit, TypeOK
  <1>20. ASSUME NEW h \in Handler, NEW r \in imported,
                NEW canon \in imported \cup {NoRef},
                NEW det \in {"CANONICAL", "DUPLICATE"},
                ManualDecision(h, r, det, canon)
         PROVE  TypeOK' /\ TaskHeld'
    <2>1. h \in Process /\ h \notin Worker
      BY ConstantsAssumption, Zenon DEF Process
    <2>2. FreshId \in Decision
      BY <1>20, FreshIdUnused, Zenon DEF ManualDecision
    <2>3. [id |-> FreshId,
           row |-> [ref |-> r, det |-> det, canon |-> canon,
                    auth |-> "PERSON", active |-> FALSE]] \in Plan
      BY <2>2, Zenon DEF TypeOK, Plan, Row, Determination, RefOrNone
    <2>4. plan' \in [Process -> Plan]
      BY <1>20, <2>1, <2>3, Zenon DEF ManualDecision, TypeOK
    <2>5. /\ stage' \in [Process -> Stage]
          /\ then' \in [Process -> Stage]
      BY <1>20, <2>1, Zenon DEF ManualDecision, TypeOK, Stage
    <2>6. TaskHeld'
      BY <1>20, <2>1 DEF ManualDecision, TypeOK, TaskHeld
    <2> QED BY <1>20, <2>4, <2>5, <2>6, Zenon DEF ManualDecision, TypeOK
  <1>21. ASSUME NEW w \in Process, Crash(w) PROVE TypeOK' /\ TaskHeld'
    <2>1. Release(w)
      BY <1>21, Zenon DEF Crash
    <2>2. crashes' \in 0..MaxCrashes
      BY <1>21, ConstantsAssumption DEF Crash, TypeOK
    <2>3. queue' \subseteq Task
      BY <1>21, Zenon DEF Crash, TypeOK, TaskHeld
    <2> QED BY <1>21, <2>1, <2>2, <2>3, ReleaseType, Zenon DEF Crash, TypeOK
  <1>22. ASSUME NEW w \in Worker, LoseLock(w) PROVE TypeOK' /\ TaskHeld'
    <2>1. w \in Process
      BY Zenon DEF Process
    <2>2. lockLosses' \in 0..MaxLockLosses
      BY <1>22, ConstantsAssumption DEF LoseLock, TypeOK
    <2>3. queue' \subseteq Task
      BY <1>22, <2>1, Zenon DEF LoseLock, TypeOK, TaskHeld
    <2>4. TaskHeld' /\ locked' \in [Process -> BOOLEAN]
      BY <1>22, <2>1, Zenon DEF LoseLock, TypeOK, TaskHeld
    <2> QED BY <1>22, <2>2, <2>3, <2>4, Zenon DEF LoseLock, TypeOK
  <1>23. ASSUME UNCHANGED vars PROVE TypeOK' /\ TaskHeld'
    BY <1>23, Zenon DEF vars, TypeOK, TaskHeld
  <1> QED
    BY <1>1, <1>2, <1>3, <1>4, <1>5, <1>6, <1>7, <1>8, <1>9, <1>10, <1>11,
       <1>12, <1>13, <1>14, <1>15, <1>16, <1>17, <1>18, <1>19, <1>20, <1>21,
       <1>22, <1>23, Zenon
    DEF Next, Request, Fault, TaskStep, TxnStep

-----------------------------------------------------------------------------
(* What a step does to the decision table and the uncommitted rows. *)

\* A request commits a PENDING row under an id of its own.
Register(r) ==
    /\ FreshId \in Unused
    /\ decisions' = [decisions EXCEPT ![FreshId] = PendingRow(r)]
    /\ UNCHANGED <<stage, plan, old, writes>>

\* A transaction ends without a commit.
Rollback(w) ==
    /\ UNCHANGED decisions
    /\ writes' = [writes EXCEPT ![w] = [d \in Decision |-> NoRow]]
    /\ old' = [old EXCEPT ![w] = NoDecision]

\* Only requests, writes and the two ends of a transaction touch the rows.
LEMMA StepKinds ==
    ASSUME TypeOK, [Next]_vars
    PROVE  \/ UNCHANGED <<decisions, writes, old>>
           \/ \E w \in Process : MapDecision(w)
           \/ \E r \in Reference : Register(r)
           \/ \E w \in Process : Rollback(w)
           \/ \E w \in Process : WriteDecision(w)
           \/ \E w \in Process : Commit(w)
  <1> USE DEF sqlVars, txnVars
  <1>1. ASSUME NEW r \in Reference, Import(r) \/ Invoke(r) \/ InvokeUnqueued(r)
        PROVE  Register(r)
    BY <1>1, FreshIdUnused, Zenon DEF Import, Invoke, InvokeUnqueued, Register
  <1>2. ASSUME NEW w \in Process,
               \/ SearchError(w)
               \/ MapRejected(w)
               \/ WriteCollision(w)
               \/ DeadlockVictim(w)
               \/ ProjectionDiverges(w)
               \/ Crash(w)
        PROVE  Rollback(w)
    BY <1>2, Zenon DEF SearchError, MapRejected, WriteCollision, DeadlockVictim,
                ProjectionDiverges, Crash, Raise, Release, Rollback
  <1>3. ASSUME NEW w \in Process,
               \/ \E t \in queue : Deliver(w, t) \/ SkipProcessed(w, t)
               \/ Shortcut(w)
               \/ CandidateSearch(w)
               \/ GuardUndecided(w)
               \/ MapProxied(w)
               \/ AllMapped(w)
               \/ Project(w)
               \/ LoseLock(w)
               \/ \E r \in imported, canon \in imported \cup {NoRef},
                     det \in {"CANONICAL", "DUPLICATE"} :
                        ManualDecision(w, r, det, canon)
        PROVE  UNCHANGED <<decisions, writes, old>>
    BY <1>3, Zenon DEF Deliver, SkipProcessed, Shortcut, CandidateSearch,
                GuardUndecided, MapProxied, AllMapped, Project, LoseLock,
                ManualDecision
  <1>4. ASSUME UNCHANGED vars PROVE UNCHANGED <<decisions, writes, old>>
    BY <1>4, Zenon DEF vars
  <1>5. Worker \subseteq Process /\ Handler \subseteq Process
    BY Zenon DEF Process
  <1> QED BY <1>1, <1>2, <1>3, <1>4, <1>5, Zenon
          DEF Next, Request, Fault, TaskStep, TxnStep

-----------------------------------------------------------------------------
(* At most one active decision per reference *)

\* An unused row is inactive; a row in use belongs to a stored reference; an
\* active row is decided.
Sound(row) ==
    /\ row.det = "ABSENT" => ~row.active
    /\ row.det # "ABSENT" => row.ref \in Reference
    /\ row.active => row.det # "PENDING"

\* Every committed and every uncommitted row is sound, and no transaction
\* writes a row back to PENDING.
RowsSound ==
    \A d \in Decision :
        /\ Sound(decisions[d])
        /\ \A w \in Process : /\ Sound(writes[w][d])
                              /\ writes[w][d].det # "PENDING"

\* A decided row of a transaction stays decided in its view: what the process
\* read as the active decision of the reference still is a decision.
OldDecided ==
    \A w \in Process : old[w] # NoDecision =>
        /\ old[w] \in Decision
        /\ View(w)[old[w]].det \notin {"ABSENT", "PENDING"}

\* At most one active row per reference in table T.
AtMostOne(T) ==
    \A d, e \in Decision :
        T[d].active /\ T[e].active /\ T[d].ref = T[e].ref => d = e

\* Each transaction sees at most one active row per reference.
ViewsHaveOne == \A w \in Process : AtMostOne(View(w))

\* No two transactions hold an active row of the same reference: the second
\* waits for the index entry of the first.
ActiveApart ==
    \A v, w \in Process : v # w =>
        \A d, e \in Decision :
            writes[v][d].active /\ writes[w][e].active
                => writes[v][d].ref # writes[w][e].ref

\* Rows stay sound.
LEMMA RowsStep ==
    ASSUME TypeOK, PlanMade, RowsSound, OldDecided, [Next]_vars
    PROVE  RowsSound'
  <1>1. ASSUME \/ UNCHANGED <<decisions, writes, old>>
               \/ \E w \in Process : MapDecision(w)
        PROVE  UNCHANGED <<decisions, writes>>
    BY <1>1, Zenon DEF MapDecision, sqlVars
  <1>6. CASE UNCHANGED <<decisions, writes>>
    BY <1>6, Zenon DEF RowsSound
  <1>2. ASSUME NEW r \in Reference, Register(r) PROVE RowsSound'
    <2>1. Sound(PendingRow(r))
      BY Zenon DEF Sound, PendingRow, NoRow
    <2> QED BY <1>2, <2>1, Zenon DEF Register, RowsSound, TypeOK
  <1>3. ASSUME NEW w \in Process, Rollback(w) PROVE RowsSound'
    <2>1. Sound(NoRow) /\ NoRow.det # "PENDING"
      BY Zenon DEF Sound, NoRow
    <2> QED BY <1>3, <2>1, Zenon DEF Rollback, RowsSound, TypeOK
  <1>4. ASSUME NEW w \in Process, WriteDecision(w) PROVE RowsSound'
    <2>1. Sound(plan[w].row) /\ plan[w].row.det # "PENDING"
      BY <1>4, Zenon DEF WriteDecision, PlanMade, Sound
    <2>2. ASSUME NEW d \in Deactivated(w)
          PROVE  /\ d \in Decision
                 /\ Sound([View(w)[d] EXCEPT !.active = FALSE])
                 /\ [View(w)[d] EXCEPT !.active = FALSE].det # "PENDING"
      <3>1. /\ d \in Decision
            /\ View(w)[d].det \notin {"ABSENT", "PENDING"}
        BY <2>2, Zenon DEF Deactivated, OldDecided
      <3>2. View(w)[d] \in Row
        BY <3>1, ViewType, Zenon DEF TypeOK
      <3>3. Sound(View(w)[d])
        BY <3>1, Zenon DEF View, RowsSound
      <3> QED BY <3>1, <3>2, <3>3, Zenon DEF Sound, Row
    <2>3. ASSUME NEW v \in Process, NEW d \in Decision
          PROVE  Sound(writes'[v][d]) /\ writes'[v][d].det # "PENDING"
      <3>1. CASE v # w
        BY <1>4, <3>1, Zenon DEF WriteDecision, RowsSound, TypeOK
      <3>2. CASE v = w
        <4>1. writes'[v][d] = IF d = plan[w].id THEN plan[w].row
                              ELSE IF d \in Deactivated(w)
                              THEN [View(w)[d] EXCEPT !.active = FALSE]
                              ELSE writes[w][d]
          BY <1>4, <3>2, Zenon DEF WriteDecision, TypeOK
        <4>2. Sound(writes[w][d]) /\ writes[w][d].det # "PENDING"
          BY Zenon DEF RowsSound
        <4> QED BY <2>1, <2>2, <4>1, <4>2, Zenon
      <3> QED BY <3>1, <3>2, Zenon
    <2> QED BY <1>4, <2>3, Zenon DEF WriteDecision, RowsSound, sqlVars
  <1>5. ASSUME NEW w \in Process, Commit(w) PROVE RowsSound'
    <2>1. \A d \in Decision : Sound(View(w)[d])
      BY Zenon DEF View, RowsSound
    <2>2. decisions' = View(w)
      BY <1>5, Zenon DEF Commit
    <2>3. Sound(NoRow) /\ NoRow.det # "PENDING"
      BY Zenon DEF Sound, NoRow
    <2>4. writes' = [writes EXCEPT ![w] = [d \in Decision |-> NoRow]]
      BY <1>5, Zenon DEF Commit, Release
    <2> QED BY <2>1, <2>2, <2>3, <2>4, Zenon DEF RowsSound, TypeOK
  <1> QED BY <1>1, <1>2, <1>3, <1>4, <1>5, <1>6, StepKinds, Zenon

\* The unique index, row by row: overlapping transactions keep at most one
\* active decision per reference, committed and in every view.
LEMMA OneActiveStep ==
    ASSUME TypeOK, PlanMade, RowsSound, OldDecided, OneActiveDecision,
           ViewsHaveOne, ActiveApart, [Next]_vars
    PROVE  OneActiveDecision' /\ ViewsHaveOne' /\ ActiveApart'
  <1>1. ASSUME \/ UNCHANGED <<decisions, writes, old>>
               \/ \E w \in Process : MapDecision(w)
        PROVE  UNCHANGED <<decisions, writes>>
    BY <1>1, Zenon DEF MapDecision, sqlVars
  <1>6. CASE UNCHANGED <<decisions, writes>>
    BY <1>6 DEF OneActiveDecision, ViewsHaveOne, AtMostOne, View, ActiveApart
  <1>2. ASSUME NEW r \in Reference, Register(r)
        PROVE  OneActiveDecision' /\ ViewsHaveOne' /\ ActiveApart'
    <2>1. /\ FreshId \in Decision
          /\ ~PendingRow(r).active
          /\ \A d \in Decision : decisions'[d] = IF d = FreshId THEN PendingRow(r)
                                                 ELSE decisions[d]
      BY <1>2, Zenon DEF Register, Unused, PendingRow, NoRow, TypeOK
    <2>2. OneActiveDecision'
      BY <2>1, Zenon DEF OneActiveDecision
    <2>3. ASSUME NEW w \in Process PROVE AtMostOne(View(w))'
      <3>1. \A d \in Decision : d # FreshId => View(w)'[d] = View(w)[d]
        BY <1>2, <2>1, Zenon DEF View, Register
      <3>2. ~View(w)'[FreshId].active
        <4>1. writes[w][FreshId].det = "ABSENT"
          BY <1>2, Zenon DEF Register, Unused
        <4> QED BY <1>2, <2>1, <4>1, Zenon DEF View, Register
      <3> QED BY <3>1, <3>2, Zenon DEF AtMostOne, ViewsHaveOne
    <2> QED BY <1>2, <2>2, <2>3, Zenon DEF ViewsHaveOne, ActiveApart, Register
  <1>3. ASSUME NEW w \in Process, Rollback(w)
        PROVE  OneActiveDecision' /\ ViewsHaveOne' /\ ActiveApart'
    <2>1. /\ \A d \in Decision : writes'[w][d] = NoRow
          /\ \A v \in Process : v # w => writes'[v] = writes[v]
      BY <1>3, Zenon DEF Rollback, TypeOK
    <2>2. NoRow.det = "ABSENT" /\ ~NoRow.active
      BY Zenon DEF NoRow
    <2>3. ASSUME NEW v \in Process PROVE AtMostOne(View(v))'
      <3>1. CASE v = w
        <4>1. \A d \in Decision : View(v)'[d] = decisions[d]
          BY <1>3, <2>1, <2>2, <3>1, Zenon DEF View, Rollback
        <4> QED BY <4>1, Zenon DEF AtMostOne, OneActiveDecision
      <3>2. CASE v # w
        <4>1. \A d \in Decision : View(v)'[d] = View(v)[d]
          BY <1>3, <2>1, <3>2 DEF View, Rollback
        <4> QED BY <4>1, Zenon DEF AtMostOne, ViewsHaveOne
      <3> QED BY <3>1, <3>2, Zenon
    <2>4. ActiveApart'
      BY <2>1, <2>2 DEF ActiveApart
    <2> QED BY <1>3, <2>3, <2>4, Zenon DEF ViewsHaveOne, OneActiveDecision, Rollback
  <1>4. ASSUME NEW w \in Process, WriteDecision(w)
        PROVE  OneActiveDecision' /\ ViewsHaveOne' /\ ActiveApart'
    <2>1. /\ \A d \in Decision :
                writes'[w][d] = IF d = plan[w].id THEN plan[w].row
                                ELSE IF d \in Deactivated(w)
                                THEN [View(w)[d] EXCEPT !.active = FALSE]
                                ELSE writes[w][d]
          /\ \A v \in Process : v # w => writes'[v] = writes[v]
          /\ UNCHANGED decisions
      BY <1>4, Zenon DEF WriteDecision, TypeOK, sqlVars
    <2>2. plan[w].id \in Decision /\ plan[w].row.det # "ABSENT"
      BY <1>4, Zenon DEF WriteDecision, PlanMade
    <2>3. \A d \in Deactivated(w) :
             /\ d \in Decision
             /\ ~[View(w)[d] EXCEPT !.active = FALSE].active
             /\ [View(w)[d] EXCEPT !.active = FALSE].det # "ABSENT"
      <3> SUFFICES ASSUME NEW d \in Deactivated(w)
                   PROVE  /\ d \in Decision
                          /\ ~[View(w)[d] EXCEPT !.active = FALSE].active
                          /\ [View(w)[d] EXCEPT !.active = FALSE].det # "ABSENT"
        BY Zenon
      <3>1. d \in Decision /\ View(w)[d].det # "ABSENT"
        BY Zenon DEF Deactivated, OldDecided
      <3>2. View(w)[d] \in Row
        BY <3>1, ViewType, Zenon DEF TypeOK
      <3> QED BY <3>1, <3>2, Zenon DEF Row
    <2>4. AtMostOne(View(w))'
      <3>1. \A d \in Decision :
               View(w)'[d] = IF d = plan[w].id THEN plan[w].row
                             ELSE IF d \in Deactivated(w)
                             THEN [View(w)[d] EXCEPT !.active = FALSE]
                             ELSE View(w)[d]
        <4>1. \A d \in Decision :
                 View(w)'[d] = IF writes'[w][d].det = "ABSENT" THEN decisions[d]
                               ELSE writes'[w][d]
          BY <2>1, Zenon DEF View
        <4>2. \A d \in Decision :
                 View(w)[d] = IF writes[w][d].det = "ABSENT" THEN decisions[d]
                              ELSE writes[w][d]
          BY Zenon DEF View
        <4>3. ASSUME NEW d \in Decision, d = plan[w].id
              PROVE  View(w)'[d] = plan[w].row
          BY <2>1, <2>2, <4>1, <4>3, Zenon
        <4>4. ASSUME NEW d \in Deactivated(w), d # plan[w].id
              PROVE  View(w)'[d] = [View(w)[d] EXCEPT !.active = FALSE]
          <5>1. /\ d \in Decision
                /\ writes'[w][d] = [View(w)[d] EXCEPT !.active = FALSE]
                /\ writes'[w][d].det # "ABSENT"
            BY <2>1, <2>3, <4>4, Zenon
          <5> QED BY <4>1, <5>1, Zenon
        <4>5. ASSUME NEW d \in Decision, d # plan[w].id, d \notin Deactivated(w)
              PROVE  View(w)'[d] = View(w)[d]
          <5>1. writes'[w][d] = writes[w][d]
            BY <2>1, <4>5, Zenon
          <5> QED BY <4>1, <4>2, <5>1, Zenon
        <4> QED BY <4>3, <4>4, <4>5, Zenon
      <3>2. ASSUME NEW d \in Decision, d # plan[w].id, View(w)'[d].active,
                   plan[w].row.active
            PROVE  View(w)'[d].ref # plan[w].row.ref
        <4>1. d \notin Deactivated(w) /\ View(w)'[d] = View(w)[d]
          BY <2>3, <3>1, <3>2, Zenon
        <4>2. d # old[w]
          BY <3>2, <4>1, ConstantsAssumption, Zenon DEF Deactivated
        <4> QED BY <1>4, <3>2, <4>1, <4>2, Zenon DEF WriteDecision, IndexCollision
      <3>3. ASSUME NEW d \in Decision, NEW e \in Decision,
                   d # plan[w].id, e # plan[w].id,
                   View(w)'[d].active, View(w)'[e].active,
                   View(w)'[d].ref = View(w)'[e].ref
            PROVE  d = e
        <4>1. View(w)'[d] = View(w)[d] /\ View(w)'[e] = View(w)[e]
          BY <2>3, <3>1, <3>3, Zenon
        <4> QED BY <3>3, <4>1, Zenon DEF ViewsHaveOne, AtMostOne
      <3>4. View(w)'[plan[w].id] = plan[w].row
        BY <2>2, <3>1, Zenon
      <3> QED BY <3>2, <3>3, <3>4, Zenon DEF AtMostOne
    <2>5. ASSUME NEW v \in Process, v # w PROVE AtMostOne(View(v))'
      <3>1. \A d \in Decision : View(v)'[d] = View(v)[d]
        BY <2>1, <2>5, Zenon DEF View
      <3> QED BY <3>1, Zenon DEF AtMostOne, ViewsHaveOne
    <2>6. ActiveApart'
      <3>1. ASSUME NEW v \in Process, v # w, NEW d \in Decision,
                   NEW e \in Decision, writes'[v][d].active, writes'[w][e].active
            PROVE  writes'[v][d].ref # writes'[w][e].ref
        <4>1. writes'[v][d] = writes[v][d]
          BY <2>1, <3>1, Zenon
        <4>2. CASE e = plan[w].id
          <5>1. writes'[w][e] = plan[w].row /\ plan[w].row.active
            BY <2>1, <3>1, <4>2, Zenon
          <5>2. ~WaitsFor(w, v)
            BY <1>4, Zenon DEF WriteDecision, Blocked
          <5> QED BY <1>4, <3>1, <4>1, <5>1, <5>2, Zenon DEF WaitsFor, WriteDecision
        <4>3. CASE e # plan[w].id
          <5>1. writes'[w][e] = writes[w][e]
            BY <2>1, <2>3, <3>1, <4>3, Zenon
          <5> QED BY <3>1, <4>1, <5>1 DEF ActiveApart
        <4> QED BY <4>2, <4>3, Zenon
      <3>2. \A v, u \in Process : v # w /\ u # w /\ u # v =>
               \A d, e \in Decision :
                  writes'[v][d].active /\ writes'[u][e].active
                      => writes'[v][d].ref # writes'[u][e].ref
        BY <2>1 DEF ActiveApart
      <3> QED BY <3>1, <3>2 DEF ActiveApart
    <2> QED BY <2>1, <2>4, <2>5, <2>6, Zenon DEF ViewsHaveOne, OneActiveDecision
  <1>5. ASSUME NEW w \in Process, Commit(w)
        PROVE  OneActiveDecision' /\ ViewsHaveOne' /\ ActiveApart'
    <2>1. /\ decisions' = View(w)
          /\ \A d \in Decision : writes'[w][d] = NoRow
          /\ \A v \in Process : v # w => writes'[v] = writes[v]
      BY <1>5, Zenon DEF Commit, Release, TypeOK
    <2>2. NoRow.det = "ABSENT" /\ ~NoRow.active
      BY Zenon DEF NoRow
    <2>3. OneActiveDecision'
      BY <2>1, Zenon DEF OneActiveDecision, ViewsHaveOne, AtMostOne
    <2>4. AtMostOne(View(w))'
      <3>1. \A d \in Decision : View(w)'[d] = View(w)[d]
        BY <2>1, <2>2, Zenon DEF View
      <3> QED BY <3>1, Zenon DEF ViewsHaveOne, AtMostOne
    <2>5. ASSUME NEW v \in Process, v # w, NEW d \in Decision,
                 NEW e \in Decision, View(v)'[d].active, View(v)'[e].active,
                 View(v)'[d].ref = View(v)'[e].ref
          PROVE  d = e
      <3>1. \A x \in Decision :
               View(v)'[x] = IF writes[v][x].det = "ABSENT" THEN View(w)[x]
                             ELSE writes[v][x]
        BY <2>1, <2>5, Zenon DEF View
      <3>2. \A x \in Decision :
               View(w)[x] = IF writes[w][x].det = "ABSENT" THEN decisions[x]
                            ELSE writes[w][x]
        BY Zenon DEF View
      <3>3. \A x \in Decision :
               View(v)[x] = IF writes[v][x].det = "ABSENT" THEN decisions[x]
                            ELSE writes[v][x]
        BY Zenon DEF View
      <3>4. CASE /\ writes[v][d].det = "ABSENT"
                 /\ writes[v][e].det = "ABSENT"
        BY <2>5, <3>1, <3>4, Zenon DEF ViewsHaveOne, AtMostOne
      <3>5. CASE /\ writes[v][d].det # "ABSENT"
                 /\ writes[v][e].det # "ABSENT"
        BY <2>5, <3>1, <3>3, <3>5 DEF ViewsHaveOne, AtMostOne
      <3>6. ASSUME NEW x \in Decision, NEW y \in Decision,
                   writes[v][x].det # "ABSENT", writes[v][y].det = "ABSENT",
                   View(v)'[x].active, View(v)'[y].active,
                   View(v)'[x].ref = View(v)'[y].ref
            PROVE  x = y
        <4>1. View(v)'[x] = writes[v][x] /\ View(v)'[y] = View(w)[y]
          BY <3>1, <3>6, Zenon
        <4>2. CASE writes[w][y].det # "ABSENT"
          BY <2>5, <3>2, <3>6, <4>1, <4>2 DEF ActiveApart
        <4>3. CASE writes[w][y].det = "ABSENT"
          BY <3>2, <3>3, <3>6, <4>1, <4>3 DEF ViewsHaveOne, AtMostOne
        <4> QED BY <4>2, <4>3, Zenon
      <3> QED BY <2>5, <3>4, <3>5, <3>6, Zenon
    <2>6. ViewsHaveOne'
      BY <2>4, <2>5, Zenon DEF ViewsHaveOne, AtMostOne
    <2>7. ActiveApart'
      BY <2>1, <2>2 DEF ActiveApart
    <2> QED BY <2>3, <2>6, <2>7, Zenon
  <1> QED BY <1>1, <1>2, <1>3, <1>4, <1>5, <1>6, StepKinds, Zenon

\* What a transaction read as active stays a decided row of its view, whatever
\* the others commit meanwhile.
LEMMA OldStep ==
    ASSUME TypeOK, PlanMade, RowsSound, OldDecided, [Next]_vars
    PROVE  OldDecided'
  <1> DEFINE Decided(row) == row.det \notin {"ABSENT", "PENDING"}
  <1>1. CASE UNCHANGED <<decisions, writes, old>>
    BY <1>1, Zenon DEF OldDecided, View
  <1>2. ASSUME NEW w \in Process, MapDecision(w) PROVE OldDecided'
    <2>1. /\ UNCHANGED <<decisions, writes>>
          /\ old' = [old EXCEPT ![w] = ActiveDecision(View(w), plan[w].row.ref)]
      BY <1>2, Zenon DEF MapDecision, sqlVars
    <2>2. ActiveDecision(View(w), plan[w].row.ref) # NoDecision =>
             /\ ActiveDecision(View(w), plan[w].row.ref) \in Decision
             /\ View(w)[ActiveDecision(View(w), plan[w].row.ref)].active
      BY ViewType, ActiveTypes, Zenon DEF TypeOK
    <2>3. \A d \in Decision : View(w)[d].active => Decided(View(w)[d])
      BY Zenon DEF RowsSound, Sound, View
    <2>4. \A v \in Process : View(v)' = View(v)
      BY <2>1, Zenon DEF View
    <2> QED BY <2>1, <2>2, <2>3, <2>4, Zenon DEF OldDecided, TypeOK
  <1>3. ASSUME NEW r \in Reference, Register(r) PROVE OldDecided'
    <2> SUFFICES ASSUME NEW w \in Process, old[w] # NoDecision
                 PROVE  Decided(View(w)'[old[w]])
      BY <1>3, Zenon DEF OldDecided, Register
    <2>1. old[w] \in Decision /\ Decided(View(w)[old[w]])
      BY Zenon DEF OldDecided
    <2>2. old[w] # FreshId
      BY <1>3, <2>1, Zenon DEF Register, Unused, View
    <2> QED BY <1>3, <2>1, <2>2, Zenon DEF Register, View, TypeOK
  <1>4. ASSUME NEW w \in Process, Rollback(w) PROVE OldDecided'
    <2> SUFFICES ASSUME NEW v \in Process, old'[v] # NoDecision
                 PROVE  old'[v] \in Decision /\ Decided(View(v)'[old'[v]])
      BY Zenon DEF OldDecided
    <2>1. v # w /\ old'[v] = old[v] /\ writes'[v] = writes[v]
      BY <1>4, Zenon DEF Rollback, TypeOK
    <2> QED BY <1>4, <2>1, Zenon DEF OldDecided, View, Rollback
  <1>5. ASSUME NEW w \in Process, WriteDecision(w) PROVE OldDecided'
    <2>1. /\ \A v \in Process : v # w => writes'[v] = writes[v]
          /\ UNCHANGED <<decisions, old>>
          /\ \A d \in Decision :
                \/ writes'[w][d] = writes[w][d]
                \/ d = plan[w].id /\ writes'[w][d] = plan[w].row
                \/ /\ d \in Deactivated(w)
                   /\ writes'[w][d] = [View(w)[d] EXCEPT !.active = FALSE]
      BY <1>5, Zenon DEF WriteDecision, TypeOK, sqlVars
    <2>2. Decided(plan[w].row)
      BY <1>5, Zenon DEF WriteDecision, PlanMade
    <2>3. ASSUME NEW d \in Decision, Decided(View(w)[d])
          PROVE  Decided(View(w)'[d])
      <3>1. [View(w)[d] EXCEPT !.active = FALSE].det = View(w)[d].det
        <4>1. View(w)[d] \in Row
          BY ViewType, Zenon DEF TypeOK
        <4> QED BY <4>1, Zenon DEF Row
      <3>2. View(w)'[d] = IF writes'[w][d].det = "ABSENT" THEN decisions[d]
                          ELSE writes'[w][d]
        BY <2>1, Zenon DEF View
      <3>3. View(w)[d] = IF writes[w][d].det = "ABSENT" THEN decisions[d]
                         ELSE writes[w][d]
        BY Zenon DEF View
      <3>4. CASE writes'[w][d] = writes[w][d]
        BY <2>3, <3>2, <3>3, <3>4, Zenon
      <3>5. CASE writes'[w][d] = plan[w].row
        BY <2>2, <3>2, <3>5, Zenon
      <3>6. CASE writes'[w][d] = [View(w)[d] EXCEPT !.active = FALSE]
        BY <2>3, <3>1, <3>2, <3>6, Zenon
      <3> QED BY <2>1, <3>4, <3>5, <3>6, Zenon
    <2>4. ASSUME NEW v \in Process, v # w PROVE View(v)' = View(v)
      BY <2>1, <2>4, Zenon DEF View
    <2> QED BY <2>1, <2>3, <2>4, Zenon DEF OldDecided
  <1>6. ASSUME NEW w \in Process, Commit(w) PROVE OldDecided'
    <2> SUFFICES ASSUME NEW v \in Process, old'[v] # NoDecision
                 PROVE  old'[v] \in Decision /\ Decided(View(v)'[old'[v]])
      BY Zenon DEF OldDecided
    <2>1. /\ v # w /\ old'[v] = old[v] /\ writes'[v] = writes[v]
          /\ decisions' = View(w)
      BY <1>6, Zenon DEF Commit, Release, TypeOK
    <2>2. old[v] \in Decision /\ Decided(View(v)[old[v]])
      BY <2>1, Zenon DEF OldDecided
    <2>3. CASE writes[v][old[v]].det # "ABSENT"
      BY <2>1, <2>2, <2>3, Zenon DEF View
    <2>4. CASE writes[v][old[v]].det = "ABSENT"
      <3>1. Decided(decisions[old[v]])
        BY <2>2, <2>4, Zenon DEF View
      <3>2. Decided(View(w)[old[v]])
        BY <2>2, <3>1, Zenon DEF View, RowsSound
      <3> QED BY <2>1, <2>2, <2>4, <3>2, Zenon DEF View
    <2> QED BY <2>3, <2>4, Zenon
  <1> QED BY <1>1, <1>2, <1>3, <1>4, <1>5, <1>6, StepKinds, Zenon

-----------------------------------------------------------------------------
(* Tasks and plans *)

\* A queued or running task is about a decision that is stored.
TasksStored ==
    /\ \A t \in queue : decisions[t.decision].det # "ABSENT"
    /\ \A w \in Process :
          task[w] \in Task => decisions[task[w].decision].det # "ABSENT"

\* Where tasks come from: requests queue a fresh decision, and everything else
\* moves tasks between the queue and the processes.
LEMMA TaskMoves ==
    ASSUME TypeOK, TaskHeld, [Next]_vars
    PROVE  /\ \A t \in queue' :
                 \/ t \in queue
                 \/ \E w \in Process : /\ task[w] \in Task
                                       /\ t.decision = task[w].decision
                 \/ \E r \in Reference : Register(r) /\ t.decision = FreshId
           /\ \A w \in Process : \/ task'[w] = task[w]
                                 \/ task'[w] = NoTask
                                 \/ task'[w] \in queue
  <1> USE DEF sqlVars, txnVars
  <1> DEFINE QueueOK ==
               \A t \in queue' :
                  \/ t \in queue
                  \/ \E w \in Process : /\ task[w] \in Task
                                        /\ t.decision = task[w].decision
                  \/ \E r \in Reference : Register(r) /\ t.decision = FreshId
             TaskOK ==
               \A w \in Process : \/ task'[w] = task[w]
                                  \/ task'[w] = NoTask
                                  \/ task'[w] \in queue
  <1>1. ASSUME NEW r \in Reference, Import(r) \/ Invoke(r) \/ InvokeUnqueued(r)
        PROVE  QueueOK /\ TaskOK
    <2>1. Register(r) /\ UNCHANGED task
      BY <1>1, FreshIdUnused, Zenon DEF Import, Invoke, InvokeUnqueued, Register
    <2>2. queue' \subseteq
             queue \cup {[decision |-> FreshId, retries |-> MaxRetries]}
      BY <1>1, Zenon DEF Import, Invoke, InvokeUnqueued
    <2> QED BY <2>1, <2>2
  <1>2. ASSUME NEW w \in Process,
               \/ SearchError(w)
               \/ MapRejected(w)
               \/ DeadlockVictim(w)
               \/ ProjectionDiverges(w)
               \/ Commit(w)
        PROVE  QueueOK /\ TaskOK
    <2>1. task' = [task EXCEPT ![w] = NoTask] /\ UNCHANGED queue
      BY <1>2, Zenon DEF SearchError, MapRejected, DeadlockVictim, ProjectionDiverges,
                  Commit, Raise, Release
    <2> QED BY <2>1, Zenon DEF TypeOK
  <1>3. ASSUME NEW w \in Process, WriteCollision(w) PROVE QueueOK /\ TaskOK
    <2>1. task' = [task EXCEPT ![w] = NoTask]
      BY <1>3, Zenon DEF WriteCollision, Release
    <2>2. CASE UNCHANGED queue
      BY <2>1, <2>2, Zenon DEF TypeOK
    <2>3. CASE /\ w \in Worker
               /\ queue' = queue \cup {[task[w] EXCEPT !.retries = @ - 1]}
      <3>1. task[w] \in Task
        BY <1>3, <2>3, Zenon DEF WriteCollision, TaskHeld
      <3>2. [task[w] EXCEPT !.retries = @ - 1].decision = task[w].decision
        BY <3>1, Zenon DEF Task
      <3> QED BY <2>1, <2>3, <3>1, <3>2, Zenon DEF TypeOK
    <2> QED BY <1>3, <2>2, <2>3, Zenon DEF WriteCollision
  <1>4. ASSUME NEW w \in Process, Crash(w) PROVE QueueOK /\ TaskOK
    <2>1. task' = [task EXCEPT ![w] = NoTask]
      BY <1>4, Zenon DEF Crash, Release
    <2>2. /\ queue' \subseteq queue \cup {task[w]}
          /\ queue' # queue => task[w] \in Task
      BY <1>4, Zenon DEF Crash, TaskHeld
    <2> QED BY <2>1, <2>2, Zenon DEF TypeOK
  <1>5. ASSUME NEW w \in Process, LoseLock(w) PROVE QueueOK /\ TaskOK
    <2>1. queue' = queue \cup {task[w]} /\ task[w] \in Task /\ UNCHANGED task
      BY <1>5, Zenon DEF LoseLock, TaskHeld
    <2> QED BY <2>1, Zenon
  <1>6. ASSUME NEW w \in Process, NEW t \in queue, Deliver(w, t)
        PROVE  QueueOK /\ TaskOK
    BY <1>6, Zenon DEF Deliver, TypeOK
  <1>7. ASSUME NEW w \in Process,
               \/ \E t \in queue : SkipProcessed(w, t)
               \/ Shortcut(w)
               \/ CandidateSearch(w)
               \/ GuardUndecided(w)
               \/ MapProxied(w)
               \/ AllMapped(w)
               \/ MapDecision(w)
               \/ WriteDecision(w)
               \/ Project(w)
               \/ \E r \in imported, canon \in imported \cup {NoRef},
                     det \in {"CANONICAL", "DUPLICATE"} :
                        ManualDecision(w, r, det, canon)
        PROVE  QueueOK /\ TaskOK
    <2>1. queue' \subseteq queue /\ UNCHANGED task
      BY <1>7, Zenon DEF SkipProcessed, Shortcut, CandidateSearch, GuardUndecided,
                  MapProxied, AllMapped, MapDecision, WriteDecision, Project,
                  ManualDecision
    <2> QED BY <2>1, Zenon
  <1>8. ASSUME UNCHANGED vars PROVE QueueOK /\ TaskOK
    BY <1>8, Zenon DEF vars
  <1>9. Worker \subseteq Process /\ Handler \subseteq Process
    BY Zenon DEF Process
  <1> QED BY <1>1, <1>2, <1>3, <1>4, <1>5, <1>6, <1>7, <1>8, <1>9, Zenon
          DEF Next, Request, Fault, TaskStep, TxnStep

\* A stored decision stays stored.
LEMMA StoredForever ==
    ASSUME TypeOK, RowsSound, [Next]_vars, NEW d \in Decision,
           decisions[d].det # "ABSENT"
    PROVE  decisions'[d].det # "ABSENT"
  <1>1. ASSUME NEW r \in Reference, Register(r)
        PROVE  decisions'[d].det # "ABSENT"
    BY <1>1, Zenon DEF Register, Unused, TypeOK
  <1>2. ASSUME NEW w \in Process, Commit(w) PROVE decisions'[d].det # "ABSENT"
    BY <1>2, Zenon DEF Commit, View
  <1>3. ASSUME \/ UNCHANGED decisions
               \/ \E w \in Process : \/ MapDecision(w)
                                     \/ Rollback(w)
                                     \/ WriteDecision(w)
        PROVE  decisions'[d].det # "ABSENT"
    BY <1>3, Zenon DEF MapDecision, Rollback, WriteDecision, sqlVars
  <1> QED BY <1>1, <1>2, <1>3, StepKinds, Zenon

\* Tasks keep naming stored decisions.
LEMMA TasksStoredStep ==
    ASSUME TypeOK, TaskHeld, RowsSound, TasksStored, TypeOK', [Next]_vars
    PROVE  TasksStored'
  <1>1. ASSUME NEW d \in Decision, decisions[d].det # "ABSENT"
        PROVE  decisions'[d].det # "ABSENT"
    BY <1>1, StoredForever, Zenon
  <1>2. ASSUME NEW r \in Reference, Register(r)
        PROVE  decisions'[FreshId].det # "ABSENT"
    BY <1>2, Zenon DEF Register, Unused, PendingRow, NoRow, TypeOK
  <1>3. ASSUME NEW t \in queue' PROVE decisions'[t.decision].det # "ABSENT"
    <2>1. CASE t \in queue
      <3>1. t.decision \in Decision
        BY <2>1, Zenon DEF TypeOK, Task
      <3> QED BY <1>1, <2>1, <3>1, Zenon DEF TasksStored
    <2>2. ASSUME NEW w \in Process, task[w] \in Task, t.decision = task[w].decision
          PROVE  decisions'[t.decision].det # "ABSENT"
      <3>1. t.decision \in Decision
        BY <2>2, Zenon DEF Task
      <3> QED BY <1>1, <2>2, <3>1, Zenon DEF TasksStored
    <2> QED BY <1>2, <1>3, <2>1, <2>2, TaskMoves, Zenon
  <1>4. ASSUME NEW w \in Process, task'[w] \in Task
        PROVE  decisions'[task'[w].decision].det # "ABSENT"
    <2>1. task'[w].decision \in Decision /\ task'[w] # NoTask
      BY <1>4, NullTypes, ConstantsAssumption, Zenon DEF Task
    <2>2. task'[w] = task[w] \/ task'[w] \in queue
      BY <2>1, TaskMoves, Zenon
    <2> QED BY <1>1, <1>4, <2>1, <2>2, Zenon DEF TasksStored
  <1> QED BY <1>3, <1>4, Zenon DEF TasksStored

\* Whoever starts mapping has a plan for a stored reference.
LEMMA PlanStep ==
    ASSUME TypeOK, TaskHeld, PlanMade, RowsSound, TasksStored, [Next]_vars
    PROVE  PlanMade'
  <1> USE DEF txnVars
  <1> DEFINE Made(w, p) ==
               /\ p.id \in Decision
               /\ p.row.ref \in Reference
               /\ p.row.det \notin {"ABSENT", "PENDING"}
               /\ w \in Worker => p.row.auth = "SYSTEM"
  <1>0. ASSUME NEW w \in Process,
               \A v \in Process : v # w => /\ stage'[v] = stage[v]
                                           /\ plan'[v] = plan[v],
               stage'[w] \in {"map", "write"} => Made(w, plan'[w])
        PROVE  PlanMade'
    BY <1>0, Zenon DEF PlanMade
  <1>1. ASSUME UNCHANGED <<stage, plan>> PROVE PlanMade'
    BY <1>1, Zenon DEF PlanMade
  <1>2. ASSUME NEW w \in Process, Release(w) PROVE PlanMade'
    <2>1. /\ stage'[w] = "idle"
          /\ \A v \in Process : v # w => /\ stage'[v] = stage[v]
                                         /\ plan'[v] = plan[v]
      BY <1>2, Zenon DEF Release, TypeOK
    <2> QED BY <1>0, <2>1, Zenon
  <1>3. ASSUME NEW w \in Process, UNCHANGED plan, NEW s,
               stage' = [stage EXCEPT ![w] = s],
               s \notin {"map", "write"} \/ stage[w] = "write"
        PROVE  PlanMade'
    BY <1>3, Zenon DEF PlanMade, TypeOK
  <1>4. ASSUME NEW w \in Worker, stage[w] # "idle"
        PROVE  task[w].decision \in Decision /\ Subject(w) \in Reference
    <2>1. task[w] \in Task /\ w \in Process
      BY <1>4, Zenon DEF TaskHeld, Process
    <2>2. task[w].decision \in Decision
      BY <2>1, Zenon DEF Task
    <2> QED BY <2>1, <2>2, Zenon DEF TasksStored, RowsSound, Sound, Subject
  <1>5. ASSUME NEW w \in Worker, Shortcut(w) \/ CandidateSearch(w) PROVE PlanMade'
    <2>1. w \in Process /\ stage[w] # "idle"
      BY <1>5, Zenon DEF Process, Shortcut, CandidateSearch
    <2>2. \A det, canon : det \notin {"ABSENT", "PENDING"} =>
                              Made(w, Proposal(w, det, canon))
      BY <1>4, <2>1, Zenon DEF Proposal
    <2> HIDE DEF Made
    <2>3. \E p : Made(w, p) /\ plan' = [plan EXCEPT ![w] = p]
      <3>1. CASE Shortcut(w)
        <4>1. \/ plan' = [plan EXCEPT ![w] = Proposal(w, "CANONICAL", NoRef)]
              \/ \E k : plan' = [plan EXCEPT ![w] = Proposal(w, "DUPLICATE", k)]
              \/ plan' = [plan EXCEPT ![w] = Proposal(w, "DECOUPLED", NoRef)]
          BY <3>1, Zenon DEF Shortcut
        <4> QED BY <2>2, <4>1, Zenon
      <3>2. CASE CandidateSearch(w)
        <4>1. \/ \E c : plan' = [plan EXCEPT ![w] = Proposal(w, "DUPLICATE", c)]
              \/ plan' = [plan EXCEPT ![w] = Proposal(w, "CANONICAL", NoRef)]
              \/ plan' = [plan EXCEPT ![w] = Proposal(w, "UNSEARCHABLE", NoRef)]
          BY <3>2, Zenon DEF CandidateSearch
        <4> QED BY <2>2, <4>1, Zenon
      <3> QED BY <1>5, <3>1, <3>2, Zenon
    <2>4. \E s : stage' = [stage EXCEPT ![w] = s]
      BY <1>5, Zenon DEF Shortcut, CandidateSearch
    <2> QED BY <1>0, <2>1, <2>3, <2>4, Zenon DEF TypeOK
  <1>6. ASSUME NEW w \in Process, MapDecision(w) PROVE PlanMade'
    <2>1. /\ plan' = [plan EXCEPT ![w] = [id |-> plan[w].id, row |-> Outcome(w)]]
          /\ stage' = [stage EXCEPT ![w] = "write"]
          /\ stage[w] = "map"
      BY <1>6, Zenon DEF MapDecision
    <2>2. Made(w, plan[w])
      BY <2>1, Zenon DEF PlanMade
    <2>3. plan[w].row \in Row
      BY Zenon DEF TypeOK, Plan
    <2>4. /\ Outcome(w).ref = plan[w].row.ref
          /\ Outcome(w).auth = plan[w].row.auth
          /\ Outcome(w).det \in {"DECOUPLED", plan[w].row.det}
      BY <2>3, Zenon DEF Outcome, Row
    <2>5. Made(w, [id |-> plan[w].id, row |-> Outcome(w)])
      BY <2>2, <2>4, Zenon
    <2> QED BY <1>0, <2>1, <2>5, Zenon DEF TypeOK
  <1>7. ASSUME NEW w \in Worker, MapProxied(w) PROVE PlanMade'
    <2>1. w \in Process
      BY Zenon DEF Process
    <2>2. FreshId \in Decision
      BY <1>7, FreshIdUnused, Zenon DEF MapProxied
    <2>3. PICK c \in undecided[w] :
             plan' = [plan EXCEPT ![w] =
                        [id |-> FreshId,
                         row |-> [ref |-> c, det |-> "DUPLICATE",
                                  canon |-> TreeCanonical(w),
                                  auth |-> "SYSTEM", active |-> FALSE]]]
      BY <1>7, Zenon DEF MapProxied
    <2>4. c \in Reference
      BY <2>1, Zenon DEF TypeOK
    <2>5. stage' = [stage EXCEPT ![w] = "map"]
      BY <1>7, Zenon DEF MapProxied
    <2>6. Made(w, plan'[w])
      BY <2>1, <2>2, <2>3, <2>4, Zenon DEF TypeOK
    <2> QED BY <1>0, <2>1, <2>3, <2>5, <2>6, Zenon DEF TypeOK
  <1>8. ASSUME NEW h \in Handler, NEW r \in imported,
               NEW canon \in imported \cup {NoRef},
               NEW det \in {"CANONICAL", "DUPLICATE"},
               ManualDecision(h, r, det, canon)
        PROVE  PlanMade'
    <2>1. h \in Process /\ h \notin Worker
      BY ConstantsAssumption, Zenon DEF Process
    <2>2. FreshId \in Decision /\ r \in Reference
      BY <1>8, FreshIdUnused, Zenon DEF ManualDecision, TypeOK
    <2>3. /\ plan' = [plan EXCEPT ![h] =
                        [id |-> FreshId,
                         row |-> [ref |-> r, det |-> det, canon |-> canon,
                                  auth |-> "PERSON", active |-> FALSE]]]
          /\ stage' = [stage EXCEPT ![h] = "map"]
      BY <1>8, Zenon DEF ManualDecision
    <2>4. Made(h, plan'[h])
      BY <2>1, <2>2, <2>3, Zenon DEF TypeOK
    <2> QED BY <1>0, <2>1, <2>3, <2>4, Zenon DEF TypeOK
  <1>9. ASSUME NEW w \in Process,
               \/ \E t \in queue : Deliver(w, t)
               \/ GuardUndecided(w)
               \/ AllMapped(w)
               \/ Project(w)
               \/ WriteDecision(w)
        PROVE  PlanMade'
    <2>1. \/ /\ UNCHANGED plan
             /\ \E s \in {"loaded", "side", "project", "commit"} :
                   stage' = [stage EXCEPT ![w] = s]
          \/ /\ UNCHANGED plan
             /\ stage[w] = "write"
             /\ \E s \in Stage : stage' = [stage EXCEPT ![w] = s]
      BY <1>9, Zenon DEF Deliver, GuardUndecided, AllMapped, Project, WriteDecision,
                  TypeOK
    <2> QED BY <1>3, <2>1, Zenon
  <1>10. ASSUME NEW w \in Process,
                \/ SearchError(w)
                \/ MapRejected(w)
                \/ WriteCollision(w)
                \/ DeadlockVictim(w)
                \/ ProjectionDiverges(w)
                \/ Commit(w)
                \/ Crash(w)
         PROVE  PlanMade'
    <2>1. Release(w)
      BY <1>10, Zenon DEF SearchError, MapRejected, WriteCollision, DeadlockVictim,
                   ProjectionDiverges, Commit, Crash, Raise
    <2> QED BY <1>2, <2>1, Zenon
  <1>11. ASSUME \/ \E r \in Reference :
                      Import(r) \/ Invoke(r) \/ InvokeUnqueued(r)
                \/ \E w \in Worker, t \in queue : SkipProcessed(w, t)
                \/ \E w \in Worker : LoseLock(w)
                \/ UNCHANGED vars
         PROVE  PlanMade'
    <2>1. UNCHANGED <<stage, plan>>
      BY <1>11, Zenon DEF Import, Invoke, InvokeUnqueued, SkipProcessed, LoseLock, vars
    <2> QED BY <1>1, <2>1, Zenon
  <1>12. Worker \subseteq Process /\ Handler \subseteq Process
    BY Zenon DEF Process
  <1> QED BY <1>5, <1>6, <1>7, <1>8, <1>9, <1>10, <1>11, <1>12, Zenon
          DEF Next, Request, Fault, TaskStep, TxnStep

-----------------------------------------------------------------------------
(* The inductive invariant and the first theorems *)

\* What every step preserves: types, sound rows and tasks, and the three
\* faces of the unique index.
IInv ==
    /\ TypeOK
    /\ TaskHeld
    /\ PlanMade
    /\ RowsSound
    /\ OldDecided
    /\ TasksStored
    /\ OneActiveDecision
    /\ ViewsHaveOne
    /\ ActiveApart

\* The empty system satisfies the inductive invariant.
LEMMA IInvInit ==
    ASSUME Init
    PROVE  IInv
  <1>1. /\ NoRow.det = "ABSENT"
        /\ ~NoRow.active
        /\ \A d \in Decision : decisions[d] = NoRow
        /\ \A w \in Process, d \in Decision : writes[w][d] = NoRow
        /\ \A w \in Process : stage[w] = "idle" /\ old[w] = NoDecision
        /\ \A w \in Process : task[w] = NoTask /\ ~locked[w]
    BY Zenon DEF Init, NoRow
  <1>2. TypeOK
    <2>1. /\ [d \in Decision |-> NoRow] \in [Decision -> Row]
          /\ 0 \in 0..MaxCrashes
          /\ 0 \in 0..MaxLockLosses
      BY NullTypes, ConstantsAssumption
    <2> QED BY <2>1, NullTypes, Zenon DEF Init, TypeOK, Stage
  <1>3. TaskHeld /\ PlanMade /\ OldDecided
    BY <1>1, Zenon DEF TaskHeld, PlanMade, OldDecided, Process
  <1>4. NoTask \notin Task
    BY NullTypes, ConstantsAssumption, Zenon DEF Task
  <1>5. TasksStored
    BY <1>1, <1>4, Zenon DEF TasksStored, Init
  <1>6. RowsSound
    BY <1>1, Zenon DEF RowsSound, Sound
  <1>7. OneActiveDecision /\ ActiveApart
    BY <1>1, Zenon DEF OneActiveDecision, ActiveApart
  <1>8. ViewsHaveOne
    BY <1>1, Zenon DEF ViewsHaveOne, AtMostOne, View
  <1> QED BY <1>2, <1>3, <1>5, <1>6, <1>7, <1>8, Zenon DEF IInv

\* Every step preserves the inductive invariant.
LEMMA IInvStep ==
    ASSUME IInv, [Next]_vars
    PROVE  IInv'
  <1>1. TypeOK' /\ TaskHeld'
    BY TypeStep, Zenon DEF IInv
  <1>2. RowsSound' /\ OldDecided'
    BY RowsStep, OldStep, Zenon DEF IInv
  <1>3. OneActiveDecision' /\ ViewsHaveOne' /\ ActiveApart'
    BY OneActiveStep, Zenon DEF IInv
  <1>4. TasksStored'
    BY <1>1, TasksStoredStep, Zenon DEF IInv
  <1>5. PlanMade'
    BY PlanStep, Zenon DEF IInv
  <1> QED BY <1>1, <1>2, <1>3, <1>4, <1>5, Zenon DEF IInv

\* The inductive invariant holds throughout every behaviour.
THEOREM Invariance == Spec => []IInv
  BY IInvInit, IInvStep, PTL DEF Spec

\* Every variable keeps its type: a worker never runs without a task, and an
\* attempt never goes below zero retries left.
THEOREM TypeCorrect == Spec => []TypeOK
  <1>1. IInv => TypeOK
    BY Zenon DEF IInv
  <1> QED BY <1>1, Invariance, PTL

\* However the transactions of map_duplicate_decision overlap, collide, crash
\* or are redelivered, a reference has at most one active decision.
THEOREM OneActiveSafe == Spec => []OneActiveDecision
  <1>1. IInv => OneActiveDecision
    BY Zenon DEF IInv
  <1> QED BY <1>1, Invariance, PTL

-----------------------------------------------------------------------------
(* An automatic decision never replaces one a person made.  A decision keeps *)
(* its authority through all of its versions: the committed row, the         *)
(* uncommitted ones and the plan of whoever maps it.  Workers only ever      *)
(* write rows of the system's authority.                                     *)

-----------------------------------------------------------------------------
(* Plans from step to step *)

Mapping(w) == stage[w] \in {"map", "write"}

\* A plan is kept, mapped to its outcome, made for the worker's own task, or
\* made under an id nothing uses.
LEMMA PlanMoves ==
    ASSUME TypeOK, TaskHeld, [Next]_vars, NEW w \in Process
    PROVE  \/ plan'[w] = plan[w] /\ old'[w] = old[w] /\ (Mapping(w)' => Mapping(w))
           \/ MapDecision(w)
           \/ plan'[w] = NoPlan /\ old'[w] = NoDecision /\ ~Mapping(w)'
           \/ /\ w \in Worker /\ task[w] \in Task
              /\ plan'[w].id = task[w].decision
              /\ plan'[w].row.auth = "SYSTEM" /\ ~plan'[w].row.active
              /\ \A v \in Process : v # w => plan'[v] = plan[v]
              /\ UNCHANGED <<decisions, writes>>
           \/ /\ plan'[w].id = FreshId /\ FreshId \in Unused
              /\ ~plan'[w].row.active
              /\ \A v \in Process : v # w => plan'[v] = plan[v]
              /\ UNCHANGED <<decisions, writes>>
  <1> USE DEF sqlVars, txnVars
  <1> DEFINE Kept(x) == /\ plan'[x] = plan[x] /\ old'[x] = old[x]
                        /\ Mapping(x)' => Mapping(x)
             Ended(x) == plan'[x] = NoPlan /\ old'[x] = NoDecision /\ ~Mapping(x)'
             Own(x) == /\ x \in Worker /\ task[x] \in Task
                       /\ plan'[x].id = task[x].decision
                       /\ plan'[x].row.auth = "SYSTEM" /\ ~plan'[x].row.active
                       /\ \A v \in Process : v # x => plan'[v] = plan[v]
                       /\ UNCHANGED <<decisions, writes>>
             Fresh(x) == /\ plan'[x].id = FreshId /\ FreshId \in Unused
                         /\ ~plan'[x].row.active
                         /\ \A v \in Process : v # x => plan'[v] = plan[v]
                         /\ UNCHANGED <<decisions, writes>>
             Goal == Kept(w) \/ MapDecision(w) \/ Ended(w) \/ Own(w) \/ Fresh(w)
  <1>1. ASSUME UNCHANGED <<stage, plan, old>> PROVE Goal
    BY <1>1, Zenon DEF Mapping
  <1>2. ASSUME NEW v \in Process, Release(v) PROVE Goal
    <2>1. CASE v = w
      BY <1>2, <2>1, Zenon DEF Release, Mapping, TypeOK
    <2>2. CASE v # w
      BY <1>2, <2>2, Zenon DEF Release, Mapping, TypeOK
    <2> QED BY <2>1, <2>2, Zenon
  <1>3. ASSUME NEW v \in Process, UNCHANGED <<plan, old>>, NEW s,
               stage' = [stage EXCEPT ![v] = s],
               s \notin {"map", "write"} \/ stage[v] = "write"
        PROVE  Goal
    BY <1>3, Zenon DEF Mapping, TypeOK
  <1>4. ASSUME NEW v \in Process, NEW p, NEW s, v # w, UNCHANGED old,
               stage' = [stage EXCEPT ![v] = s], plan' = [plan EXCEPT ![v] = p]
        PROVE  Goal
    BY <1>4, Zenon DEF Mapping, TypeOK
  <1>5. ASSUME NEW v \in Worker, Shortcut(v) \/ CandidateSearch(v) PROVE Goal
    <2>1. v \in Process /\ task[v] \in Task
      BY <1>5, Zenon DEF Process, Shortcut, CandidateSearch, TaskHeld
    <2>2. \E det, canon : plan' = [plan EXCEPT ![v] = Proposal(v, det, canon)]
      <3>1. CASE Shortcut(v)
        BY <3>1, Zenon DEF Shortcut
      <3>2. CASE CandidateSearch(v)
        BY <3>2, Zenon DEF CandidateSearch
      <3> QED BY <1>5, <3>1, <3>2, Zenon
    <2>3. /\ \E s : stage' = [stage EXCEPT ![v] = s]
          /\ UNCHANGED <<decisions, writes, old>>
      BY <1>5, Zenon DEF Shortcut, CandidateSearch
    <2>4. CASE v = w
      <3>1. PICK det, canon : plan' = [plan EXCEPT ![w] = Proposal(w, det, canon)]
        BY <2>2, <2>4, Zenon
      <3>2. plan'[w] = Proposal(w, det, canon)
        BY <3>1, Zenon DEF TypeOK
      <3> QED BY <2>1, <2>3, <2>4, <3>1, <3>2, Zenon DEF Proposal, TypeOK
    <2>5. CASE v # w
      BY <1>4, <2>1, <2>2, <2>3, <2>5, Zenon
    <2> QED BY <2>4, <2>5, Zenon
  <1>6. ASSUME NEW v \in Process, MapDecision(v) PROVE Goal
    BY <1>6, Zenon DEF MapDecision, Mapping, TypeOK
  <1>7. ASSUME NEW v \in Worker, MapProxied(v) PROVE Goal
    <2>1. v \in Process /\ FreshId \in Unused
      BY <1>7, FreshIdUnused, Zenon DEF MapProxied, Process
    <2>2. PICK c \in undecided[v] :
             plan' = [plan EXCEPT ![v] =
                        [id |-> FreshId,
                         row |-> [ref |-> c, det |-> "DUPLICATE",
                                  canon |-> TreeCanonical(v),
                                  auth |-> "SYSTEM", active |-> FALSE]]]
      BY <1>7, Zenon DEF MapProxied
    <2>3. /\ stage' = [stage EXCEPT ![v] = "map"]
          /\ UNCHANGED <<decisions, writes, old>>
      BY <1>7, Zenon DEF MapProxied
    <2>4. CASE v = w
      BY <2>1, <2>2, <2>3, <2>4, Zenon DEF TypeOK
    <2>5. CASE v # w
      BY <1>4, <2>1, <2>2, <2>3, <2>5, Zenon
    <2> QED BY <2>4, <2>5, Zenon
  <1>8. ASSUME NEW h \in Handler, NEW r \in imported,
               NEW canon \in imported \cup {NoRef},
               NEW det \in {"CANONICAL", "DUPLICATE"},
               ManualDecision(h, r, det, canon)
        PROVE  Goal
    <2>1. h \in Process /\ FreshId \in Unused
      BY <1>8, FreshIdUnused, Zenon DEF ManualDecision, Process
    <2>2. /\ plan' = [plan EXCEPT ![h] =
                        [id |-> FreshId,
                         row |-> [ref |-> r, det |-> det, canon |-> canon,
                                  auth |-> "PERSON", active |-> FALSE]]]
          /\ stage' = [stage EXCEPT ![h] = "map"]
          /\ UNCHANGED <<decisions, writes, old>>
      BY <1>8, Zenon DEF ManualDecision
    <2>3. CASE h = w
      BY <2>1, <2>2, <2>3, Zenon DEF TypeOK
    <2>4. CASE h # w
      BY <1>4, <2>1, <2>2, <2>4, Zenon
    <2> QED BY <2>3, <2>4, Zenon
  <1>9. ASSUME NEW v \in Process,
               \/ \E t \in queue : Deliver(v, t)
               \/ GuardUndecided(v)
               \/ AllMapped(v)
               \/ Project(v)
               \/ WriteDecision(v)
        PROVE  Goal
    <2>1. /\ UNCHANGED <<plan, old>>
          /\ \/ \E s \in {"loaded", "side", "project", "commit"} :
                   stage' = [stage EXCEPT ![v] = s]
             \/ /\ stage[v] = "write"
                /\ \E s \in Stage : stage' = [stage EXCEPT ![v] = s]
      BY <1>9, Zenon DEF Deliver, GuardUndecided, AllMapped, Project, WriteDecision,
                  TypeOK
    <2> QED BY <1>3, <2>1, Zenon
  <1>10. ASSUME NEW v \in Process,
                \/ SearchError(v)
                \/ MapRejected(v)
                \/ WriteCollision(v)
                \/ DeadlockVictim(v)
                \/ ProjectionDiverges(v)
                \/ Commit(v)
                \/ Crash(v)
         PROVE  Goal
    <2>1. Release(v)
      BY <1>10, Zenon DEF SearchError, MapRejected, WriteCollision, DeadlockVictim,
                   ProjectionDiverges, Commit, Crash, Raise
    <2> QED BY <1>2, <2>1, Zenon
  <1>11. ASSUME \/ \E r \in Reference :
                      Import(r) \/ Invoke(r) \/ InvokeUnqueued(r)
                \/ \E v \in Worker, t \in queue : SkipProcessed(v, t)
                \/ \E v \in Worker : LoseLock(v)
                \/ UNCHANGED vars
         PROVE  Goal
    <2>1. UNCHANGED <<stage, plan, old>>
      BY <1>11, Zenon DEF Import, Invoke, InvokeUnqueued, SkipProcessed, LoseLock, vars
    <2> QED BY <1>1, <2>1, Zenon
  <1>12. Worker \subseteq Process /\ Handler \subseteq Process
    BY Zenon DEF Process
  <1> QED BY <1>5, <1>6, <1>7, <1>8, <1>9, <1>10, <1>11, <1>12, Zenon
          DEF Next, Request, Fault, TaskStep, TxnStep

-----------------------------------------------------------------------------
(* Authority is fixed when a decision is made *)

\* Every version of decision d has authority a.
AuthOf(d, a) ==
    /\ decisions[d].det # "ABSENT" => decisions[d].auth = a
    /\ \A w \in Process : writes[w][d].det # "ABSENT" => writes[w][d].auth = a
    /\ \A w \in Process : Mapping(w) /\ plan[w].id = d => plan[w].row.auth = a

AuthAgree == \A d \in Decision : \E a : AuthOf(d, a)

\* Tasks are queued for decisions of the system.
TaskSystem ==
    /\ \A t \in queue : decisions[t.decision].auth = "SYSTEM"
    /\ \A w \in Process : task[w] \in Task =>
                              decisions[task[w].decision].auth = "SYSTEM"

WorkerWritesSystem ==
    \A w \in Worker, d \in Decision :
        writes[w][d].det # "ABSENT" => writes[w][d].auth = "SYSTEM"

\* A worker that activates its proposal has seen that the decision it
\* deactivates is not a person's.
OldSystem ==
    \A w \in Worker : old[w] # NoDecision /\ plan[w].row.active =>
        View(w)[old[w]].auth = "SYSTEM"

\* A committed or written decision keeps its authority in every step.
LEMMA AuthForever ==
    ASSUME TypeOK, PlanMade, RowsSound, OldDecided, AuthAgree, [Next]_vars,
           NEW d \in Decision
    PROVE  /\ decisions[d].det # "ABSENT" => decisions'[d].auth = decisions[d].auth
           /\ \A v \in Process :
                 View(v)[d].det # "ABSENT" /\ View(v)'[d].det # "ABSENT"
                     => View(v)'[d].auth = View(v)[d].auth
  <1> DEFINE Goal ==
               /\ decisions[d].det # "ABSENT"
                     => decisions'[d].auth = decisions[d].auth
               /\ \A v \in Process :
                     View(v)[d].det # "ABSENT" /\ View(v)'[d].det # "ABSENT"
                         => View(v)'[d].auth = View(v)[d].auth
  <1>0. PICK a : AuthOf(d, a)
    BY Zenon DEF AuthAgree
  <1>1. ASSUME \/ UNCHANGED <<decisions, writes, old>>
               \/ \E w \in Process : MapDecision(w)
        PROVE  Goal
    <2>1. UNCHANGED <<decisions, writes>>
      BY <1>1, Zenon DEF MapDecision, sqlVars
    <2> QED BY <2>1, Zenon DEF View
  <1>2. ASSUME NEW r \in Reference, Register(r) PROVE Goal
    BY <1>2, Zenon DEF Register, Unused, View, TypeOK
  <1>3. ASSUME NEW w \in Process, Rollback(w) PROVE Goal
    <2>1. /\ \A v \in Process : v # w => writes'[v] = writes[v]
          /\ writes'[w][d].det = "ABSENT"
          /\ UNCHANGED decisions
      BY <1>3, Zenon DEF Rollback, NoRow, TypeOK
    <2> QED BY <1>0, <2>1, Zenon DEF View, AuthOf
  <1>4. ASSUME NEW w \in Process, WriteDecision(w) PROVE Goal
    <2>1. /\ \A v \in Process : v # w => writes'[v] = writes[v]
          /\ UNCHANGED decisions
      BY <1>4, Zenon DEF WriteDecision, sqlVars, TypeOK
    <2>2. writes'[w][d] = IF d = plan[w].id THEN plan[w].row
                          ELSE IF d \in Deactivated(w)
                          THEN [View(w)[d] EXCEPT !.active = FALSE]
                          ELSE writes[w][d]
      BY <1>4, Zenon DEF WriteDecision, TypeOK
    <2>3. Mapping(w)
      BY <1>4, Zenon DEF WriteDecision, Mapping
    <2>4. View(w)[d] \in Row
      BY ViewType, Zenon DEF TypeOK
    <2>5. [View(w)[d] EXCEPT !.active = FALSE].auth = View(w)[d].auth
      BY <2>4, Zenon DEF Row
    <2>6. View(w)[d].det # "ABSENT" => View(w)[d].auth = a
      BY <1>0, Zenon DEF View, AuthOf
    <2>7. d = plan[w].id => plan[w].row.auth = a
      BY <1>0, <2>3, Zenon DEF AuthOf
    <2>8. View(w)[d].det # "ABSENT" /\ View(w)'[d].det # "ABSENT"
             => View(w)'[d].auth = a
      BY <1>0, <2>1, <2>2, <2>5, <2>6, <2>7, Zenon DEF View, AuthOf
    <2> QED BY <2>1, <2>6, <2>8, Zenon DEF View
  <1>5. ASSUME NEW w \in Process, Commit(w) PROVE Goal
    <2>1. /\ decisions'[d] = View(w)[d]
          /\ writes'[w][d].det = "ABSENT"
          /\ \A v \in Process : v # w => writes'[v] = writes[v]
      BY <1>5, Zenon DEF Commit, Release, NoRow, TypeOK
    <2> QED BY <1>0, <2>1, Zenon DEF View, AuthOf
  <1> QED BY <1>1, <1>2, <1>3, <1>4, <1>5, StepKinds, Zenon

\* All versions of a decision go on to agree on its authority.
LEMMA AuthAgreeStep ==
    ASSUME TypeOK, TaskHeld, PlanMade, RowsSound, OldDecided, TasksStored,
           AuthAgree, TaskSystem, [Next]_vars
    PROVE  AuthAgree'
  <1> SUFFICES ASSUME NEW d \in Decision PROVE \E a : AuthOf(d, a)'
    BY Zenon DEF AuthAgree
  <1>0. PICK a : AuthOf(d, a)
    BY Zenon DEF AuthAgree
  <1>1. ASSUME NEW w \in Process, plan'[w].id = d, FreshId \in Unused,
               plan'[w].id = FreshId,
               \A v \in Process : v # w => plan'[v] = plan[v],
               UNCHANGED <<decisions, writes>>,
               NEW b, b = plan'[w].row.auth
        PROVE  AuthOf(d, b)'
    BY <1>1, Zenon DEF AuthOf, Unused
  <1>2. ASSUME NEW r \in Reference, Register(r), d = FreshId
        PROVE  AuthOf(d, "SYSTEM")'
    <2>1. decisions'[d].auth = "SYSTEM"
      BY <1>2, Zenon DEF Register, PendingRow, NoRow, TypeOK
    <2> QED BY <1>2, <2>1, Zenon DEF Register, Unused, AuthOf
  <1>3. ASSUME \A w \in Process : ~ /\ plan'[w].id = d
                                    /\ FreshId \in Unused
                                    /\ plan'[w].id = FreshId
                                    /\ \A v \in Process : v # w => plan'[v] = plan[v]
                                    /\ UNCHANGED <<decisions, writes>>,
               \A r \in Reference : ~(Register(r) /\ d = FreshId)
        PROVE  AuthOf(d, a)'
    <2>1. \A w \in Process : Mapping(w)' /\ plan'[w].id = d
                                 => plan'[w].row.auth = a
      <3> SUFFICES ASSUME NEW w \in Process, Mapping(w)', plan'[w].id = d
                   PROVE  plan'[w].row.auth = a
        BY Zenon
      <3>1. CASE plan'[w] = plan[w] /\ Mapping(w)
        BY <1>0, <3>1, Zenon DEF AuthOf
      <3>2. CASE MapDecision(w)
        <4>1. plan'[w] = [id |-> plan[w].id, row |-> Outcome(w)] /\ Mapping(w)
          BY <3>2, Zenon DEF MapDecision, Mapping, TypeOK
        <4>2. plan[w].row \in Row
          BY Zenon DEF TypeOK, Plan
        <4>3. Outcome(w).auth = plan[w].row.auth
          BY <4>2, Zenon DEF Outcome, Row
        <4> QED BY <1>0, <4>1, <4>3 DEF AuthOf
      <3>3. CASE /\ task[w] \in Task
                 /\ plan'[w].id = task[w].decision
                 /\ plan'[w].row.auth = "SYSTEM"
        BY <1>0, <3>3, Zenon DEF AuthOf, TasksStored, TaskSystem
      <3> QED BY <1>3, <3>1, <3>2, <3>3, PlanMoves, Zenon
    <2>2. /\ decisions'[d].det # "ABSENT" => decisions'[d].auth = a
          /\ \A w \in Process :
                writes'[w][d].det # "ABSENT" => writes'[w][d].auth = a
      <3> DEFINE Goal ==
                   /\ decisions'[d].det # "ABSENT" => decisions'[d].auth = a
                   /\ \A w \in Process :
                         writes'[w][d].det # "ABSENT" => writes'[w][d].auth = a
      <3>1. ASSUME \/ UNCHANGED <<decisions, writes, old>>
                   \/ \E w \in Process : MapDecision(w)
            PROVE  Goal
        BY <1>0, <3>1, Zenon DEF MapDecision, sqlVars, AuthOf
      <3>2. ASSUME NEW r \in Reference, Register(r) PROVE Goal
        BY <1>0, <1>3, <3>2, Zenon DEF Register, AuthOf, TypeOK
      <3>3. ASSUME NEW w \in Process, Rollback(w) PROVE Goal
        BY <1>0, <3>3, Zenon DEF Rollback, NoRow, AuthOf, TypeOK
      <3>4. ASSUME NEW w \in Process, WriteDecision(w) PROVE Goal
        <4>1. /\ \A v \in Process : v # w => writes'[v] = writes[v]
              /\ UNCHANGED decisions
          BY <3>4, Zenon DEF WriteDecision, sqlVars, TypeOK
        <4>2. writes'[w][d] = IF d = plan[w].id THEN plan[w].row
                              ELSE IF d \in Deactivated(w)
                              THEN [View(w)[d] EXCEPT !.active = FALSE]
                              ELSE writes[w][d]
          BY <3>4, Zenon DEF WriteDecision, TypeOK
        <4>3. Mapping(w)
          BY <3>4, Zenon DEF WriteDecision, Mapping
        <4>4. View(w)[d] \in Row
          BY ViewType, Zenon DEF TypeOK
        <4>5. /\ [View(w)[d] EXCEPT !.active = FALSE].auth = View(w)[d].auth
              /\ [View(w)[d] EXCEPT !.active = FALSE].det = View(w)[d].det
          BY <4>4, Zenon DEF Row
        <4>6. View(w)[d].det # "ABSENT" => View(w)[d].auth = a
          BY <1>0, Zenon DEF View, AuthOf
        <4>7. writes'[w][d].det # "ABSENT" => writes'[w][d].auth = a
          BY <1>0, <4>2, <4>3, <4>5, <4>6, Zenon DEF AuthOf
        <4> QED BY <1>0, <4>1, <4>7, Zenon DEF AuthOf
      <3>5. ASSUME NEW w \in Process, Commit(w) PROVE Goal
        <4>1. /\ decisions'[d] = View(w)[d]
              /\ writes'[w][d].det = "ABSENT"
              /\ \A v \in Process : v # w => writes'[v] = writes[v]
          BY <3>5, Zenon DEF Commit, Release, NoRow, TypeOK
        <4> QED BY <1>0, <4>1, Zenon DEF View, AuthOf
      <3> QED BY <3>1, <3>2, <3>3, <3>4, <3>5, StepKinds, Zenon
    <2> QED BY <2>1, <2>2, Zenon DEF AuthOf
  <1> QED BY <1>1, <1>2, <1>3, Zenon

\* Tasks go on to name decisions of the system.
LEMMA TaskSystemStep ==
    ASSUME TypeOK, TypeOK', TaskHeld, PlanMade, RowsSound, OldDecided,
           TasksStored, AuthAgree, TaskSystem, [Next]_vars
    PROVE  TaskSystem'
  <1>1. ASSUME NEW d \in Decision, decisions[d].det # "ABSENT",
               decisions[d].auth = "SYSTEM"
        PROVE  decisions'[d].auth = "SYSTEM"
    BY <1>1, AuthForever, Zenon
  <1>2. ASSUME NEW r \in Reference, Register(r)
        PROVE  decisions'[FreshId].auth = "SYSTEM"
    BY <1>2, Zenon DEF Register, Unused, PendingRow, NoRow, TypeOK
  <1>3. ASSUME NEW t \in queue' PROVE decisions'[t.decision].auth = "SYSTEM"
    <2>1. CASE t \in queue
      <3>1. t.decision \in Decision
        BY <2>1, Zenon DEF TypeOK, Task
      <3> QED BY <1>1, <2>1, <3>1, Zenon DEF TasksStored, TaskSystem
    <2>2. ASSUME NEW w \in Process, task[w] \in Task, t.decision = task[w].decision
          PROVE  decisions'[t.decision].auth = "SYSTEM"
      <3>1. t.decision \in Decision
        BY <2>2, Zenon DEF Task
      <3> QED BY <1>1, <2>2, <3>1, Zenon DEF TasksStored, TaskSystem
    <2> QED BY <1>2, <1>3, <2>1, <2>2, TaskMoves, Zenon
  <1>4. ASSUME NEW w \in Process, task'[w] \in Task
        PROVE  decisions'[task'[w].decision].auth = "SYSTEM"
    <2>1. task'[w].decision \in Decision /\ task'[w] # NoTask
      BY <1>4, NullTypes, ConstantsAssumption, Zenon DEF Task
    <2>2. task'[w] = task[w] \/ task'[w] \in queue
      BY <2>1, TaskMoves, Zenon
    <2> QED BY <1>1, <1>4, <2>1, <2>2, Zenon DEF TasksStored, TaskSystem
  <1> QED BY <1>3, <1>4, Zenon DEF TaskSystem

\* A worker goes on to write rows of the system only.
LEMMA WorkerWritesStep ==
    ASSUME TypeOK, PlanMade, WorkerWritesSystem, OldSystem, [Next]_vars
    PROVE  WorkerWritesSystem'
  <1> SUFFICES ASSUME NEW v \in Worker, NEW d \in Decision,
                      writes'[v][d].det # "ABSENT"
               PROVE  writes'[v][d].auth = "SYSTEM"
    BY Zenon DEF WorkerWritesSystem
  <1>0. v \in Process
    BY Zenon DEF Process
  <1>1. CASE UNCHANGED writes
    BY <1>1, Zenon DEF WorkerWritesSystem
  <1>2. ASSUME NEW w \in Process, Rollback(w) \/ Commit(w)
        PROVE  writes'[v][d].auth = "SYSTEM"
    <2>1. writes' = [writes EXCEPT ![w] = [e \in Decision |-> NoRow]]
      BY <1>2, Zenon DEF Rollback, Commit, Release
    <2>2. writes'[v][d] \in {NoRow, writes[v][d]}
      BY <1>0, <2>1, Zenon DEF TypeOK
    <2> QED BY <2>2 DEF NoRow, WorkerWritesSystem
  <1>3. ASSUME NEW w \in Process, WriteDecision(w)
        PROVE  writes'[v][d].auth = "SYSTEM"
    <2>1. CASE v # w
      BY <1>0, <1>3, <2>1, Zenon DEF WriteDecision, WorkerWritesSystem, TypeOK
    <2>2. CASE v = w
      <3>1. writes'[v][d] = IF d = plan[v].id THEN plan[v].row
                            ELSE IF d \in Deactivated(v)
                            THEN [View(v)[d] EXCEPT !.active = FALSE]
                            ELSE writes[v][d]
        BY <1>3, <2>2, Zenon DEF WriteDecision, TypeOK
      <3>2. plan[v].row.auth = "SYSTEM"
        BY <1>3, <2>2, Zenon DEF WriteDecision, PlanMade
      <3>3. View(v)[d] \in Row
        BY <1>0, ViewType, Zenon DEF TypeOK
      <3>4. [View(v)[d] EXCEPT !.active = FALSE].auth = View(v)[d].auth
        BY <3>3, Zenon DEF Row
      <3>5. d \in Deactivated(v) => View(v)[d].auth = "SYSTEM"
        BY Zenon DEF Deactivated, OldSystem
      <3> QED BY <3>1, <3>2, <3>4, <3>5, Zenon DEF WorkerWritesSystem
    <2> QED BY <2>1, <2>2, Zenon
  <1>4. ASSUME \/ UNCHANGED <<decisions, writes, old>>
               \/ \E w \in Process : MapDecision(w)
               \/ \E r \in Reference : Register(r)
        PROVE  UNCHANGED writes
    BY <1>4, Zenon DEF MapDecision, Register
  <1> QED BY <1>1, <1>2, <1>3, <1>4, StepKinds, Zenon

\* The decision a worker is about to deactivate stays one of the system.
LEMMA OldSystemStep ==
    ASSUME TypeOK, TaskHeld, PlanMade, RowsSound, OldDecided, OldDecided',
           AuthAgree, OldSystem, [Next]_vars
    PROVE  OldSystem'
  <1> SUFFICES ASSUME NEW w \in Worker, old'[w] # NoDecision, plan'[w].row.active
               PROVE  View(w)'[old'[w]].auth = "SYSTEM"
    BY Zenon DEF OldSystem
  <1>0. w \in Process /\ w \notin Handler
    BY ConstantsAssumption, Zenon DEF Process
  <1>1. CASE plan'[w] = plan[w] /\ old'[w] = old[w]
    <2>1. /\ old[w] \in Decision
          /\ View(w)[old[w]].auth = "SYSTEM"
          /\ View(w)[old[w]].det # "ABSENT"
          /\ View(w)'[old[w]].det # "ABSENT"
      BY <1>0, <1>1, Zenon DEF OldSystem, OldDecided
    <2> QED BY <1>0, <1>1, <2>1, AuthForever
  <1>2. CASE MapDecision(w)
    <2>1. /\ UNCHANGED <<decisions, writes>>
          /\ plan'[w].row = Outcome(w)
          /\ old'[w] = ActiveDecision(View(w), plan[w].row.ref)
          /\ stage[w] = "map"
      BY <1>0, <1>2, Zenon DEF MapDecision, sqlVars, TypeOK
    <2>2. plan[w].row \in Row
      BY <1>0, Zenon DEF TypeOK, Plan
    <2>3. ~ReplacesPerson(w)
      <3>1. Decouples(w) => ~Outcome(w).active
        BY <2>2, Zenon DEF Outcome, Row
      <3> QED BY <2>1, <3>1, Zenon DEF Decouples
    <2>4. plan[w].row.auth = "SYSTEM" /\ ~AllowDestructive(w)
      BY <1>0, <2>1, Zenon DEF PlanMade, AllowDestructive
    <2>5. View(w)[old'[w]].auth # "PERSON"
      BY <2>1, <2>3, <2>4, Zenon DEF ReplacesPerson
    <2>6. old'[w] \in Decision /\ View(w)[old'[w]] \in Row
      BY <1>0, ViewType, Zenon DEF OldDecided, TypeOK
    <2>7. View(w)' = View(w)
      BY <2>1, Zenon DEF View
    <2> QED BY <2>5, <2>6, <2>7, Zenon DEF Row
  <1>3. CASE plan'[w] = NoPlan
    BY <1>3 DEF NoPlan, NoRow
  <1> QED BY <1>0, <1>1, <1>2, <1>3, PlanMoves, Zenon

-----------------------------------------------------------------------------
\* What every step preserves of authorities, beside IInv.
AuthInv == AuthAgree /\ TaskSystem /\ WorkerWritesSystem /\ OldSystem

\* Workers only write rows of the system, and no decision changes authority.
THEOREM AuthorityInvariance == Spec => [](IInv /\ AuthInv)
  <1>1. Init => AuthInv
    <2>1. ASSUME Init PROVE AuthInv
      <3>1. /\ NoRow.det = "ABSENT"
            /\ \A d \in Decision : decisions[d] = NoRow
            /\ \A w \in Process, d \in Decision : writes[w][d] = NoRow
            /\ \A w \in Process : stage[w] = "idle" /\ old[w] = NoDecision
            /\ \A w \in Process : task[w] = NoTask
            /\ queue = {}
        BY <2>1, Zenon DEF Init, NoRow
      <3>2. NoTask \notin Task
        BY ConstantsAssumption, Zenon DEF NoTask, Task
      <3>3. AuthAgree
        BY <3>1, Zenon DEF AuthAgree, AuthOf, Mapping
      <3>4. Worker \subseteq Process
        BY Zenon DEF Process
      <3> QED BY <3>1, <3>2, <3>3, <3>4, Zenon
              DEF AuthInv, TaskSystem, WorkerWritesSystem, OldSystem
    <2> QED BY <2>1, Zenon
  <1>2. IInv /\ AuthInv /\ [Next]_vars => IInv' /\ AuthInv'
    <2>1. ASSUME IInv, AuthInv, [Next]_vars PROVE IInv' /\ AuthInv'
      <3>1. IInv'
        BY <2>1, IInvStep, Zenon
      <3>2. AuthAgree' /\ TaskSystem'
        BY <2>1, <3>1, AuthAgreeStep, TaskSystemStep, Zenon DEF IInv, AuthInv
      <3>3. WorkerWritesSystem' /\ OldSystem'
        BY <2>1, <3>1, WorkerWritesStep, OldSystemStep, Zenon DEF IInv, AuthInv
      <3> QED BY <3>1, <3>2, <3>3, Zenon DEF AuthInv
    <2> QED BY <2>1, Zenon
  <1>3. Init => IInv
    BY IInvInit, Zenon
  <1> QED BY <1>1, <1>2, <1>3, PTL DEF Spec

\* However workers, retries and redeliveries interleave with manual requests,
\* only a manual request deactivates a decision a person made.
THEOREM PersonKept == Spec => PersonDecisionKept
  <1> DEFINE Kept == \A d \in Decision :
                        decisions[d].active /\ decisions[d].auth = "PERSON"
                            /\ ~decisions'[d].active
                        => \E h \in Handler : stage[h] = "commit" /\ stage'[h] = "idle"
  <1>1. ASSUME IInv, AuthInv, [Next]_vars PROVE Kept
    <2> SUFFICES ASSUME NEW d \in Decision, decisions[d].active,
                        decisions[d].auth = "PERSON", ~decisions'[d].active
                 PROVE  \E h \in Handler : stage[h] = "commit" /\ stage'[h] = "idle"
      BY Zenon
    <2> USE <1>1 DEF IInv, AuthInv
    <2>1. decisions[d].det # "ABSENT"
      BY Zenon DEF RowsSound, Sound
    <2>2. ASSUME NEW r \in Reference, Register(r) PROVE FALSE
      BY <2>1, <2>2, Zenon DEF Register, Unused, TypeOK
    <2>3. ASSUME NEW w \in Process, Commit(w)
          PROVE  \E h \in Handler : stage[h] = "commit" /\ stage'[h] = "idle"
      <3>1. CASE w \in Handler
        BY <2>3, <3>1, Zenon DEF Commit, Release, TypeOK
      <3>2. CASE w \in Worker
        <4>1. decisions'[d] = View(w)[d]
          BY <2>3, Zenon DEF Commit
        <4>2. writes[w][d].det # "ABSENT"
          BY <4>1, Zenon DEF View
        <4>3. writes[w][d].auth = "SYSTEM"
          BY <3>2, <4>2, Zenon DEF WorkerWritesSystem
        <4>4. PICK a : AuthOf(d, a)
          BY Zenon DEF AuthAgree
        <4> QED BY <2>1, <4>2, <4>3, <4>4, Zenon DEF AuthOf
      <3> QED BY <3>1, <3>2, Zenon DEF Process
    <2>4. ASSUME \/ UNCHANGED <<decisions, writes, old>>
                 \/ \E w \in Process : \/ MapDecision(w)
                                       \/ Rollback(w)
                                       \/ WriteDecision(w)
          PROVE  FALSE
      BY <2>4, Zenon DEF MapDecision, Rollback, WriteDecision, sqlVars
    <2> QED BY <2>2, <2>3, <2>4, StepKinds, Zenon
  <1>2. IInv /\ AuthInv /\ [Next]_vars => [Kept]_vars
    BY <1>1, Zenon
  <1> QED BY <1>2, AuthorityInvariance, PTL DEF Spec, PersonDecisionKept

=============================================================================
