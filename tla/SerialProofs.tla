---------------------------- MODULE SerialProofs ----------------------------
(***************************************************************************)
(* What duplicate decisions keep while at most one worker runs a task      *)
(* (OneTask), or while no transactions overlap at all (OneBusy).           *)
(*                                                                         *)
(* One task at a time: a decision is decided once.  No overlap: the        *)
(* duplicate graph is a star, so nothing chains, and canonicals that the   *)
(* system chose share no trusted identifier.                               *)
(***************************************************************************)
EXTENDS DeduplicationProofs

-----------------------------------------------------------------------------
(* The steps, by what they do to a transaction *)

\* A request stores a PENDING row, of a new reference or of a stored one.
Arrive(r) ==
    /\ FreshId \in Unused
    /\ imported' = imported \cup {r}
    /\ decisions' = [decisions EXCEPT ![FreshId] = PendingRow(r)]
    /\ UNCHANGED <<stage, task, txnVars, es>>

\* A transaction that had begun is rolled back.
Abort(w) == stage[w] # "idle" /\ Release(w) /\ UNCHANGED sqlVars

\* Nothing but the queue, the broker locks and the reports.
Still == UNCHANGED <<sqlVars, stage, task, txnVars, es>>

\* A manual decision of a stored reference.
Manual(w) ==
    \E r \in imported, canon \in imported \cup {NoRef},
       det \in {"CANONICAL", "DUPLICATE"} :
        w \in Handler /\ ManualDecision(w, r, det, canon)

\* What a process does within a transaction.
Act(w) ==
    \/ \E t \in queue : w \in Worker /\ Deliver(w, t)
    \/ w \in Worker /\ Shortcut(w)
    \/ w \in Worker /\ CandidateSearch(w)
    \/ w \in Worker /\ GuardUndecided(w)
    \/ w \in Worker /\ MapProxied(w)
    \/ w \in Worker /\ AllMapped(w)
    \/ MapDecision(w)
    \/ WriteDecision(w)
    \/ Project(w)
    \/ Commit(w)
    \/ Manual(w)

\* Every step is one of these.
LEMMA Kinds ==
    ASSUME TypeOK, [Next]_vars
    PROVE  \/ Still
           \/ \E r \in Reference : Arrive(r)
           \/ \E w \in Process : Abort(w)
           \/ \E w \in Process : Act(w)
  <1> USE DEF sqlVars, txnVars, faultVars
  <1>1. ASSUME NEW r \in Reference, Import(r) \/ Invoke(r) \/ InvokeUnqueued(r)
        PROVE  Arrive(r)
    <2>1. FreshId \in Unused
      BY <1>1, FreshIdUnused, Zenon DEF Import, Invoke, InvokeUnqueued
    <2>2. imported' = imported \cup {r}
      BY <1>1, SMT DEF Import, Invoke, InvokeUnqueued
    <2> QED BY <1>1, <2>1, <2>2, Zenon DEF Import, Invoke, InvokeUnqueued, Arrive
  <1>2. ASSUME NEW w \in Process,
               \/ w \in Worker /\ SearchError(w)
               \/ MapRejected(w)
               \/ WriteCollision(w)
               \/ DeadlockVictim(w)
               \/ ProjectionDiverges(w)
               \/ Crash(w)
        PROVE  Abort(w)
    <2>1. /\ Release(w) /\ UNCHANGED sqlVars
      BY <1>2, Zenon DEF SearchError, MapRejected, WriteCollision, DeadlockVictim,
                   ProjectionDiverges, Crash, Raise
    <2>2. stage[w] # "idle"
      BY <1>2, Zenon DEF SearchError, MapRejected, WriteCollision, DeadlockVictim,
                   ProjectionDiverges, Crash, WaitsFor
    <2> QED BY <2>1, <2>2, Zenon DEF Abort
  <1>3. ASSUME \/ \E v \in Worker, t \in queue : SkipProcessed(v, t)
               \/ \E v \in Worker : LoseLock(v)
               \/ UNCHANGED vars
        PROVE  Still
    BY <1>3, Zenon DEF SkipProcessed, LoseLock, vars, Still
  <1>4. Worker \subseteq Process /\ Handler \subseteq Process
    BY Zenon DEF Process
  <1>5. CASE Request
    <2>1. ASSUME NEW h \in Handler, NEW r \in imported,
                 NEW canon \in imported \cup {NoRef},
                 NEW det \in {"CANONICAL", "DUPLICATE"},
                 ManualDecision(h, r, det, canon)
          PROVE  Act(h)
      BY <2>1, Zenon DEF Act, Manual
    <2> QED BY <1>1, <1>4, <1>5, <2>1, Zenon DEF Request
  <1>6. CASE Fault
    BY <1>1, <1>2, <1>3, <1>4, <1>6, Zenon DEF Fault
  <1>7. ASSUME NEW w \in Worker, TaskStep(w) PROVE Still \/ Act(w)
    BY <1>3, <1>7, Zenon DEF TaskStep, Act
  <1>8. ASSUME NEW w \in Process, TxnStep(w) PROVE Abort(w) \/ Act(w)
    BY <1>2, <1>8, Zenon DEF TxnStep, Act
  <1> QED BY <1>3, <1>4, <1>5, <1>6, <1>7, <1>8, Zenon DEF Next

\* A rolled back or committed transaction, process by process.
LEMMA Released ==
    ASSUME TypeOK, NEW w \in Process, Release(w)
    PROVE  /\ stage'[w] = "idle" /\ task'[w] = NoTask /\ plan'[w] = NoPlan
           /\ old'[w] = NoDecision /\ undecided'[w] = {} /\ touched'[w] = {}
           /\ \A d \in Decision : writes'[w][d] = NoRow
           /\ \A v \in Process : v # w =>
                 /\ stage'[v] = stage[v] /\ task'[v] = task[v] /\ plan'[v] = plan[v]
                 /\ old'[v] = old[v] /\ undecided'[v] = undecided[v]
                 /\ touched'[v] = touched[v] /\ writes'[v] = writes[v]
  BY Zenon DEF Release, TypeOK

\* A process acts on its own variables only, and none but a commit on the table.
LEMMA ActsAlone ==
    ASSUME TypeOK, NEW w \in Process, Act(w), NEW v \in Process, v # w
    PROVE  /\ stage'[v] = stage[v] /\ task'[v] = task[v] /\ plan'[v] = plan[v]
           /\ old'[v] = old[v] /\ undecided'[v] = undecided[v]
           /\ touched'[v] = touched[v] /\ writes'[v] = writes[v]
  <1> USE DEF sqlVars, txnVars
  <1>1. CASE Commit(w)
    BY <1>1, Released, Zenon DEF Commit
  <1>2. CASE \E t \in queue : Deliver(w, t)
    BY <1>2, Zenon DEF Deliver, TypeOK
  <1>3. CASE Shortcut(w)
    BY <1>3, Zenon DEF Shortcut, TypeOK
  <1>4. CASE CandidateSearch(w)
    BY <1>4, Zenon DEF CandidateSearch, TypeOK
  <1>5. CASE GuardUndecided(w) \/ MapProxied(w) \/ AllMapped(w)
    BY <1>5, Zenon DEF GuardUndecided, MapProxied, AllMapped, TypeOK
  <1>6. CASE MapDecision(w) \/ WriteDecision(w) \/ Project(w)
    BY <1>6, Zenon DEF MapDecision, WriteDecision, Project, TypeOK
  <1>7. CASE Manual(w)
    BY <1>7, Zenon DEF Manual, ManualDecision, TypeOK
  <1> QED BY <1>1, <1>2, <1>3, <1>4, <1>5, <1>6, <1>7, Zenon DEF Act

\* Only a write changes the uncommitted rows within a transaction.
LEMMA ActsKeepRows ==
    ASSUME TypeOK, NEW w \in Process, Act(w), ~WriteDecision(w), ~Commit(w)
    PROVE  UNCHANGED <<imported, decisions, writes>>
  BY Zenon DEF Act, Deliver, Shortcut, CandidateSearch, GuardUndecided, MapProxied,
               AllMapped, MapDecision, Project, Manual, ManualDecision, sqlVars, txnVars

-----------------------------------------------------------------------------
(* A decision is decided once *)

\* A transaction that has written nothing yet, or has ended.
Quiet ==
    \A w \in Process : stage[w] \in {"idle", "loaded"} =>
        \A d \in Decision : writes[w][d].det = "ABSENT"

\* After a write the transaction goes on.
Ahead ==
    \A w \in Process : Mapping(w) => then[w] \in {"guard", "side", "project"}

\* Row locks: no two transactions have written the same row.
LocksApart ==
    \A v, w \in Process : v # w =>
        \A d \in Decision : writes[v][d].det = "ABSENT" \/ writes[w][d].det = "ABSENT"

\* The decision a worker maps is the one its task is about.
Own(w, d) == w \in Worker /\ d = task[w].decision

\* Who maps a decision has not written it yet; it is the worker's own, or
\* under an id that nobody else uses.
PlanFresh ==
    \A w \in Process : Mapping(w) =>
        /\ writes[w][plan[w].id].det = "ABSENT"
        /\ \/ Own(w, plan[w].id)
           \/ /\ decisions[plan[w].id].det = "ABSENT"
              /\ \A v \in Process \ {w} : /\ writes[v][plan[w].id].det = "ABSENT"
                                          /\ plan[v].id # plan[w].id

\* An uncommitted row is new, or decides the worker's own decision, or leaves
\* what was decided as it was.
WritesFaithful ==
    \A w \in Process, d \in Decision : writes[w][d].det # "ABSENT" =>
        \/ decisions[d].det = "ABSENT"
        \/ Own(w, d)
        \/ /\ decisions[d].det # "PENDING"
           /\ writes[w][d].det = decisions[d].det
           /\ writes[w][d].canon = decisions[d].canon

\* One worker runs a task at a time; request handlers may run beside it.
OneTask ==
    \A v, w \in Worker : stage[v] # "idle" /\ stage[w] # "idle" => v = w

\* The decision of a running task is still PENDING in the table.
TaskPending ==
    \A w \in Worker : stage[w] # "idle" => decisions[task[w].decision].det = "PENDING"

RowsInv == Quiet /\ Ahead /\ LocksApart /\ PlanFresh /\ WritesFaithful

\* What a write makes of the transaction's table.
LEMMA Written ==
    ASSUME IInv, NEW w \in Process, WriteDecision(w), NEW d \in Decision
    PROVE  /\ decisions' = decisions
           /\ d = plan[w].id => writes'[w][d] = plan[w].row
           /\ d \in Deactivated(w) /\ d # plan[w].id =>
                 writes'[w][d] = [View(w)[d] EXCEPT !.active = FALSE]
           /\ d # plan[w].id /\ d \notin Deactivated(w) => writes'[w][d] = writes[w][d]
           /\ d = plan[w].id => View(w)'[d] = plan[w].row
           /\ d \in Deactivated(w) /\ d # plan[w].id =>
                 /\ View(w)'[d] = [View(w)[d] EXCEPT !.active = FALSE]
                 /\ View(w)'[d].det = View(w)[d].det
                 /\ View(w)'[d].canon = View(w)[d].canon
                 /\ View(w)'[d].ref = View(w)[d].ref
                 /\ ~View(w)'[d].active
                 /\ View(w)[d].det \notin {"ABSENT", "PENDING"}
           /\ d # plan[w].id /\ d \notin Deactivated(w) => View(w)'[d] = View(w)[d]
  <1> USE DEF IInv
  <1>1. /\ writes'[w][d] = IF d = plan[w].id THEN plan[w].row
                           ELSE IF d \in Deactivated(w)
                           THEN [View(w)[d] EXCEPT !.active = FALSE]
                           ELSE writes[w][d]
        /\ decisions' = decisions
    BY Zenon DEF WriteDecision, sqlVars, TypeOK
  <1>2. View(w)[d] \in Row
    BY ViewType, Zenon DEF TypeOK
  <1>3. /\ [View(w)[d] EXCEPT !.active = FALSE].det = View(w)[d].det
        /\ [View(w)[d] EXCEPT !.active = FALSE].canon = View(w)[d].canon
        /\ [View(w)[d] EXCEPT !.active = FALSE].ref = View(w)[d].ref
        /\ ~[View(w)[d] EXCEPT !.active = FALSE].active
    BY <1>2, Zenon DEF Row
  <1>4. d \in Deactivated(w) => View(w)[d].det \notin {"ABSENT", "PENDING"}
    BY Zenon DEF Deactivated, OldDecided
  <1>5. plan[w].row.det # "ABSENT"
    BY Zenon DEF WriteDecision, PlanMade
  <1>6. View(w)'[d] = IF writes'[w][d].det = "ABSENT" THEN decisions'[d] ELSE writes'[w][d]
    BY Zenon DEF View
  <1>7. View(w)[d] = IF writes[w][d].det = "ABSENT" THEN decisions[d] ELSE writes[w][d]
    BY Zenon DEF View
  <1>8. CASE d = plan[w].id
    BY <1>1, <1>5, <1>6, <1>8, Zenon
  <1>9. CASE d # plan[w].id /\ d \in Deactivated(w)
    BY <1>1, <1>3, <1>4, <1>6, <1>9, Zenon
  <1>10. CASE d # plan[w].id /\ d \notin Deactivated(w)
    BY <1>1, <1>6, <1>7, <1>10, Zenon
  <1> QED BY <1>1, <1>8, <1>9, <1>10, Zenon

\* Until it writes, a transaction changes nothing; after its end nothing is left.
LEMMA QuietStep ==
    ASSUME IInv, Quiet, Ahead, [Next]_vars
    PROVE  Quiet'
  <1> USE DEF IInv
  <1> SUFFICES ASSUME NEW v \in Process, stage'[v] \in {"idle", "loaded"},
                      NEW d \in Decision
               PROVE  writes'[v][d].det = "ABSENT"
    BY Zenon DEF Quiet
  <1>0. NoRow.det = "ABSENT"
    BY Zenon DEF NoRow
  <1>1. CASE Still \/ \E r \in Reference : Arrive(r)
    BY <1>1, Zenon DEF Still, Arrive, txnVars, Quiet
  <1>2. ASSUME NEW w \in Process, Release(w) PROVE writes'[v][d].det = "ABSENT"
    <2>1. CASE v = w
      <3>1. writes'[w][d] = NoRow
        BY <1>2, Released, Zenon
      <3> QED BY <1>0, <2>1, <3>1, Zenon
    <2>2. CASE v # w
      <3>1. stage'[v] = stage[v] /\ writes'[v] = writes[v]
        BY <1>2, <2>2, Released, Zenon
      <3> QED BY <3>1, Zenon DEF Quiet
    <2> QED BY <2>1, <2>2, Zenon
  <1>3. ASSUME NEW w \in Process, Act(w), ~Commit(w) PROVE writes'[v][d].det = "ABSENT"
    <2>1. CASE v # w
      BY <1>3, <2>1, ActsAlone, Zenon DEF Quiet
    <2>2. CASE v = w /\ WriteDecision(w)
      <3>1. stage[w] = "write" /\ stage'[w] = then[w]
        BY <2>2, Zenon DEF WriteDecision, TypeOK
      <3>2. then[w] \notin {"idle", "loaded"}
        BY <3>1 DEF Ahead, Mapping
      <3> QED BY <2>2, <3>1, <3>2, Zenon
    <2>3. CASE v = w /\ ~WriteDecision(w)
      <3>1. writes' = writes
        BY <1>3, <2>3, ActsKeepRows, Zenon
      <3>2. stage[w] \in {"idle", "loaded"}
        BY <1>3, <2>3, Zenon DEF Act, Deliver, Shortcut, CandidateSearch, GuardUndecided,
             MapProxied, AllMapped, MapDecision, Project, Manual, ManualDecision, TypeOK
      <3> QED BY <2>3, <3>1, <3>2, Zenon DEF Quiet
    <2> QED BY <2>1, <2>2, <2>3, Zenon
  <1> QED BY <1>1, <1>2, <1>3, Kinds, Zenon DEF Abort, Commit

\* Where a write leads is fixed when the decision is proposed.
LEMMA AheadStep ==
    ASSUME IInv, Ahead, [Next]_vars
    PROVE  Ahead'
  <1> USE DEF IInv
  <1> SUFFICES ASSUME NEW v \in Process, Mapping(v)'
               PROVE  then'[v] \in {"guard", "side", "project"}
    BY Zenon DEF Ahead
  <1>1. CASE Still \/ \E r \in Reference : Arrive(r)
    BY <1>1, Zenon DEF Still, Arrive, txnVars, Ahead, Mapping
  <1>2. ASSUME NEW w \in Process, Release(w)
        PROVE  then'[v] \in {"guard", "side", "project"}
    <2>1. v # w /\ stage'[v] = stage[v] /\ then'[v] = then[v]
      BY <1>2, Zenon DEF Release, Mapping, TypeOK
    <2> QED BY <2>1, Zenon DEF Ahead, Mapping
  <1>3. ASSUME NEW w \in Process, Act(w), ~Commit(w)
        PROVE  then'[v] \in {"guard", "side", "project"}
    <2>1. CASE v # w
      <3>1. stage'[v] = stage[v] /\ then'[v] = then[v]
        BY <1>3, <2>1, Zenon DEF Act, Deliver, Shortcut, CandidateSearch,
             GuardUndecided, MapProxied, AllMapped, MapDecision, WriteDecision,
             Project, Manual, ManualDecision, txnVars, TypeOK
      <3> QED BY <3>1, Zenon DEF Ahead, Mapping
    <2>2. CASE v = w /\ (Shortcut(w) \/ CandidateSearch(w) \/ MapProxied(w) \/ Manual(w))
      BY <2>2, Zenon DEF Shortcut, CandidateSearch, MapProxied, Manual, ManualDecision,
           TypeOK
    <2>3. CASE v = w /\ (MapDecision(w) \/ WriteDecision(w))
      BY <2>3, Zenon DEF MapDecision, WriteDecision, Ahead, Mapping, TypeOK
    <2>4. CASE v = w /\ (\/ \E t \in queue : Deliver(w, t)
                         \/ GuardUndecided(w) \/ AllMapped(w) \/ Project(w))
      <3>1. stage'[w] \in {"loaded", "side", "project", "commit"}
        BY <2>4, Zenon DEF Deliver, GuardUndecided, AllMapped, Project, TypeOK
      <3> QED BY <2>4, <3>1 DEF Mapping
    <2> QED BY <1>3, <2>1, <2>2, <2>3, <2>4, Zenon DEF Act
  <1> QED BY <1>1, <1>2, <1>3, Kinds, Zenon DEF Abort, Commit

\* Writing a row waits for whoever has written it.
LEMMA LocksStep ==
    ASSUME IInv, LocksApart, [Next]_vars
    PROVE  LocksApart'
  <1> USE DEF IInv
  <1>0. NoRow.det = "ABSENT"
    BY Zenon DEF NoRow
  <1>1. ASSUME UNCHANGED writes PROVE LocksApart'
    BY <1>1, Zenon DEF LocksApart
  <1>2. ASSUME NEW w \in Process, Release(w) PROVE LocksApart'
    <2>1. \A v \in Process, d \in Decision : writes'[v][d].det = "ABSENT" \/ writes'[v] = writes[v]
      <3> SUFFICES ASSUME NEW v \in Process, NEW d \in Decision
                   PROVE  writes'[v][d].det = "ABSENT" \/ writes'[v] = writes[v]
        BY Zenon
      <3>1. CASE v = w
        <4>1. writes'[w][d] = NoRow
          BY <1>2, Released, Zenon
        <4> QED BY <1>0, <3>1, <4>1, Zenon
      <3>2. CASE v # w
        <4>1. writes'[v] = writes[v]
          BY <1>2, <3>2, Released, Zenon
        <4> QED BY <4>1, Zenon
      <3> QED BY <3>1, <3>2, Zenon
    <2>2. ASSUME NEW u \in Process, NEW v \in Process, u # v, NEW d \in Decision
          PROVE  writes'[u][d].det = "ABSENT" \/ writes'[v][d].det = "ABSENT"
      <3>1. writes[u][d].det = "ABSENT" \/ writes[v][d].det = "ABSENT"
        BY <2>2, Zenon DEF LocksApart
      <3> QED BY <2>1, <2>2, <3>1, Zenon
    <2> QED BY <2>2, Zenon DEF LocksApart
  <1>3. ASSUME NEW w \in Process, WriteDecision(w) PROVE LocksApart'
    <2>1. \A v \in Process : v # w => writes'[v] = writes[v]
      BY <1>3, Zenon DEF WriteDecision, TypeOK
    <2>2. ASSUME NEW v \in Process, v # w, NEW d \in Decision
          PROVE  writes[v][d].det = "ABSENT" \/ writes'[w][d].det = "ABSENT"
      <3>1. CASE d \in RowsWritten(w)
        BY <1>3, <2>2, <3>1, Zenon DEF WriteDecision, Blocked, WaitsFor
      <3>2. CASE d \notin RowsWritten(w)
        <4>1. d # plan[w].id /\ d \notin Deactivated(w)
          BY <3>2 DEF RowsWritten
        <4>2. writes'[w][d] = writes[w][d]
          BY <1>3, <4>1, Written, Zenon
        <4> QED BY <2>2, <4>2, Zenon DEF LocksApart
      <3> QED BY <3>1, <3>2, Zenon
    <2>3. ASSUME NEW u \in Process, NEW v \in Process, u # v, NEW d \in Decision
          PROVE  writes'[u][d].det = "ABSENT" \/ writes'[v][d].det = "ABSENT"
      <3>1. CASE u = w
        BY <2>1, <2>2, <2>3, <3>1, Zenon
      <3>2. CASE v = w
        BY <2>1, <2>2, <2>3, <3>2, Zenon
      <3>3. CASE u # w /\ v # w
        BY <2>1, <2>3, <3>3, ZenonT(30) DEF LocksApart
      <3> QED BY <3>1, <3>2, <3>3, Zenon
    <2> QED BY <2>3, Zenon DEF LocksApart
  <1>4. ASSUME NEW w \in Process, Act(w), ~WriteDecision(w), ~Commit(w)
        PROVE  UNCHANGED writes
    BY <1>4, ActsKeepRows, Zenon
  <1> QED BY <1>1, <1>2, <1>3, <1>4, Kinds, Zenon
          DEF Still, Arrive, txnVars, Abort, Commit

\* Decisions that are made up on the way have an id of their own.
LEMMA FreshPlan ==
    ASSUME TypeOK, NEW w \in Process, MapProxied(w) \/ Manual(w)
    PROVE  FreshId \in Unused /\ plan'[w].id = FreshId
  <1>1. FreshId \in Unused
    BY FreshIdUnused, Zenon DEF MapProxied, Manual, ManualDecision
  <1>2. \E p : plan' = [plan EXCEPT ![w] = [id |-> FreshId, row |-> p]]
    BY Zenon DEF MapProxied, Manual, ManualDecision
  <1>3. PICK p : plan'[w] = [id |-> FreshId, row |-> p]
    BY <1>2, Zenon DEF TypeOK
  <1> QED BY <1>1, <1>3

\* A plan gets the id of the worker's task or one that nothing uses.
LEMMA PlanIds ==
    ASSUME IInv, NEW w \in Process, Act(w), ~WriteDecision(w), ~Commit(w)
    PROVE  \/ plan'[w].id = plan[w].id
           \/ plan'[w].id \in Unused
           \/ decisions[plan'[w].id].det # "ABSENT"
  <1> USE DEF IInv
  <1>1. CASE w \in Worker /\ (Shortcut(w) \/ CandidateSearch(w))
    <2>1. \E det, canon : plan' = [plan EXCEPT ![w] = Proposal(w, det, canon)]
      <3>1. CASE Shortcut(w)
        BY <3>1, Zenon DEF Shortcut
      <3>2. CASE CandidateSearch(w)
        BY <3>2, Zenon DEF CandidateSearch
      <3> QED BY <1>1, <3>1, <3>2, Zenon
    <2>2. plan'[w].id = task[w].decision
      <3>1. PICK det, canon : plan' = [plan EXCEPT ![w] = Proposal(w, det, canon)]
        BY <2>1, Zenon
      <3>2. plan'[w] = Proposal(w, det, canon)
        BY <3>1, Zenon DEF TypeOK
      <3> QED BY <3>2 DEF Proposal
    <2>3. task[w] \in Task
      BY <1>1, Zenon DEF Shortcut, CandidateSearch, TaskHeld
    <2> QED BY <2>2, <2>3, Zenon DEF TasksStored
  <1>2. CASE MapProxied(w) \/ Manual(w)
    BY <1>2, FreshPlan, Zenon
  <1>3. CASE MapDecision(w)
    BY <1>3, Zenon DEF MapDecision, TypeOK
  <1>4. CASE \/ \E t \in queue : Deliver(w, t)
             \/ GuardUndecided(w) \/ AllMapped(w) \/ Project(w)
    BY <1>4, Zenon DEF Deliver, GuardUndecided, AllMapped, Project, txnVars
  <1> QED BY <1>1, <1>2, <1>3, <1>4, Zenon DEF Act

\* Ids in use stay apart.
LEMMA PlanFreshStep ==
    ASSUME IInv, IInv', Quiet, Ahead, PlanFresh, [Next]_vars
    PROVE  PlanFresh'
  <1> USE DEF IInv
  <1> DEFINE Fresh(v, i) ==
               /\ decisions[i].det = "ABSENT"
               /\ \A u \in Process \ {v} : writes[u][i].det = "ABSENT" /\ plan[u].id # i
  <1> SUFFICES ASSUME NEW v \in Process, Mapping(v)'
               PROVE  /\ writes'[v][plan'[v].id].det = "ABSENT"
                      /\ Own(v, plan[v].id)' \/ Fresh(v, plan[v].id)'
    BY Zenon DEF PlanFresh
  <1> DEFINE Goal == /\ writes'[v][plan'[v].id].det = "ABSENT"
                     /\ Own(v, plan[v].id)' \/ Fresh(v, plan[v].id)'
  <1>0. NoRow.det = "ABSENT" /\ NoPlan.id = NoDecision
    BY Zenon DEF NoRow, NoPlan
  <1>1. plan'[v].id \in Decision /\ plan'[v].id # NoDecision
    BY ConstantsAssumption, Zenon DEF PlanMade, Mapping
  <1>2. ASSUME Mapping(v), plan'[v].id = plan[v].id, task'[v] = task[v],
               writes'[v] = writes[v],
               Fresh(v, plan[v].id) => Fresh(v, plan[v].id)'
        PROVE  Goal
    BY <1>2, Zenon DEF PlanFresh, Own
  <1>3. CASE Still
    BY <1>2, <1>3, Zenon DEF Still, sqlVars, txnVars, Mapping
  <1>4. ASSUME NEW r \in Reference, Arrive(r) PROVE Goal
    <2>1. UNCHANGED <<stage, task, plan, writes>>
      BY <1>4, Zenon DEF Arrive, txnVars
    <2>2. FreshId # plan[v].id /\ plan[v].id \in Decision
      BY <1>1, <1>4, <2>1, Zenon DEF Arrive, Unused
    <2>3. decisions'[plan[v].id] = decisions[plan[v].id]
      BY <1>4, <2>2, Zenon DEF Arrive, TypeOK
    <2> QED BY <1>2, <2>1, <2>3, Zenon DEF Mapping
  <1>5. ASSUME NEW w \in Process, Release(w), w # v,
               decisions'[plan[v].id] = decisions[plan[v].id]
               \/ decisions' = View(w)
        PROVE  Goal
    <2>1. Mapping(v) /\ plan'[v] = plan[v] /\ task'[v] = task[v] /\ writes'[v] = writes[v]
      BY <1>5, Released, Zenon DEF Mapping
    <2>2. plan[v].id \in Decision
      BY <1>1, <2>1, Zenon
    <2>3. Fresh(v, plan[v].id) => decisions'[plan[v].id].det = "ABSENT"
      BY <1>5, <2>2, Zenon DEF View
    <2>4. \A u \in Process : \/ writes'[u] = writes[u] /\ plan'[u] = plan[u]
                             \/ /\ writes'[u][plan[v].id].det = "ABSENT"
                                /\ plan'[u].id = NoDecision
      BY <1>0, <1>5, <2>2, Released, Zenon
    <2>5. Fresh(v, plan[v].id) => Fresh(v, plan[v].id)'
      BY <1>1, <2>1, <2>3, <2>4, Zenon
    <2> QED BY <1>2, <2>1, <2>5, Zenon
  <1>6. ASSUME NEW w \in Process, Release(w) PROVE w # v
    BY <1>6, Released, Zenon DEF Mapping
  <1>7. ASSUME NEW w \in Process, WriteDecision(w) PROVE Goal
    <2>1. v # w
      <3>1. stage'[w] = then[w] /\ then[w] \in {"guard", "side", "project"}
        BY <1>7, Zenon DEF WriteDecision, Ahead, Mapping, TypeOK
      <3> QED BY <3>1 DEF Mapping
    <2>2. /\ Mapping(v) /\ plan' = plan /\ task' = task /\ writes'[v] = writes[v]
          /\ decisions' = decisions
      BY <1>7, <2>1, Zenon DEF WriteDecision, sqlVars, Mapping, TypeOK
    <2>3. ASSUME Fresh(v, plan[v].id) PROVE writes'[w][plan[v].id].det = "ABSENT"
      <3>1. plan[w].id # plan[v].id /\ plan[v].id \in Decision
        BY <1>1, <2>1, <2>2, <2>3, Zenon
      <3>2. View(w)[plan[v].id].det = "ABSENT"
        BY <2>1, <2>3, <3>1, Zenon DEF View
      <3>3. plan[v].id \notin Deactivated(w)
        BY <3>2, Zenon DEF Deactivated, OldDecided
      <3>4. writes'[w][plan[v].id] = writes[w][plan[v].id]
        BY <1>7, <3>1, <3>3, Written, Zenon
      <3> QED BY <2>1, <2>3, <3>4, Zenon
    <2>4. \A u \in Process : u # w => writes'[u] = writes[u]
      BY <1>7, Zenon DEF WriteDecision, TypeOK
    <2>5. Fresh(v, plan[v].id) => Fresh(v, plan[v].id)'
      BY <2>2, <2>3, <2>4, Zenon
    <2> QED BY <1>2, <2>2, <2>5, Zenon
  <1>8. ASSUME NEW w \in Process, Act(w), ~WriteDecision(w), ~Commit(w) PROVE Goal
    <2>1. UNCHANGED <<decisions, writes>>
      BY <1>8, ActsKeepRows, Zenon
    <2>2. CASE v = w /\ (Shortcut(w) \/ CandidateSearch(w)) /\ w \in Worker
      <3>1. \E det, canon : plan' = [plan EXCEPT ![v] = Proposal(v, det, canon)]
        <4>1. CASE Shortcut(w)
          BY <2>2, <4>1, Zenon DEF Shortcut
        <4>2. CASE CandidateSearch(w)
          BY <2>2, <4>2, Zenon DEF CandidateSearch
        <4> QED BY <2>2, <4>1, <4>2, Zenon
      <3>2. plan'[v].id = task[v].decision
        <4>1. PICK det, canon : plan' = [plan EXCEPT ![v] = Proposal(v, det, canon)]
          BY <3>1, Zenon
        <4>2. plan'[v] = Proposal(v, det, canon)
          BY <4>1, Zenon DEF TypeOK
        <4> QED BY <4>2 DEF Proposal
      <3>3. stage[v] = "loaded" /\ task' = task
        BY <2>2, Zenon DEF Shortcut, CandidateSearch
      <3>4. writes[v][plan'[v].id].det = "ABSENT"
        BY <1>1, <3>3, Zenon DEF Quiet
      <3> QED BY <2>1, <2>2, <3>2, <3>3, <3>4, Zenon DEF Own
    <2>3. CASE v = w /\ (MapProxied(w) \/ Manual(w))
      <3>1. FreshId \in Unused /\ plan'[v].id = FreshId
        BY <2>3, FreshPlan, Zenon
      <3>2. \A u \in Process : u # v => plan'[u] = plan[u]
        BY <1>8, <2>3, ActsAlone, Zenon
      <3> QED BY <2>1, <3>1, <3>2, Zenon DEF Unused
    <2>4. CASE v = w /\ MapDecision(w)
      <3>1. /\ Mapping(v) /\ plan'[v].id = plan[v].id /\ task' = task
            /\ \A u \in Process : u # v => plan'[u] = plan[u]
        BY <2>4, Zenon DEF MapDecision, Mapping, TypeOK
      <3> QED BY <1>2, <2>1, <3>1, Zenon
    <2>5. CASE v = w /\ (\/ \E t \in queue : Deliver(w, t)
                         \/ GuardUndecided(w) \/ AllMapped(w) \/ Project(w))
      <3>1. stage'[w] \in {"loaded", "side", "project", "commit"}
        BY <2>5, Zenon DEF Deliver, GuardUndecided, AllMapped, Project, TypeOK
      <3> QED BY <2>5, <3>1 DEF Mapping
    <2>6. CASE v # w
      <3>1. Mapping(v) /\ plan'[v] = plan[v] /\ task'[v] = task[v]
        BY <1>8, <2>6, ActsAlone, Zenon DEF Mapping
      <3>2. ASSUME Fresh(v, plan[v].id) PROVE plan'[w].id # plan[v].id
        <4>1. plan[w].id # plan[v].id
          BY <2>6, <3>2, Zenon
        <4>2. ASSUME NEW i, plan'[w].id = i, i \in Unused \/ decisions[i].det # "ABSENT"
              PROVE  plan'[w].id # plan[v].id
          BY <3>2, <4>2, Zenon DEF Unused
        <4> QED BY <1>8, <4>1, <4>2, PlanIds, Zenon
      <3>3. \A u \in Process : u # w => plan'[u] = plan[u]
        BY <1>8, ActsAlone, Zenon
      <3>4. Fresh(v, plan[v].id) => Fresh(v, plan[v].id)'
        BY <2>1, <3>1, <3>2, <3>3, Zenon
      <3> QED BY <1>2, <2>1, <3>1, <3>4, Zenon
    <2> QED BY <1>8, <2>2, <2>3, <2>4, <2>5, <2>6, Zenon DEF Act
  <1>9. ASSUME NEW w \in Process, Abort(w) \/ Commit(w) PROVE Goal
    <2>1. Release(w) /\ w # v
      BY <1>6, <1>9, Zenon DEF Abort, Commit
    <2>2. decisions' = decisions \/ decisions' = View(w)
      BY <1>9, Zenon DEF Abort, Commit, sqlVars
    <2> QED BY <1>5, <2>1, <2>2, Zenon
  <1> QED BY <1>3, <1>4, <1>7, <1>8, <1>9, Kinds, Zenon

\* A transaction goes on to leave what was decided as it was.
LEMMA FaithfulStep ==
    ASSUME IInv, Quiet, LocksApart, PlanFresh, WritesFaithful, [Next]_vars
    PROVE  WritesFaithful'
  <1> USE DEF IInv
  <1>0. NoRow.det = "ABSENT"
    BY Zenon DEF NoRow
  <1> SUFFICES ASSUME NEW v \in Process, NEW d \in Decision, writes'[v][d].det # "ABSENT"
               PROVE  \/ decisions'[d].det = "ABSENT"
                      \/ Own(v, d)'
                      \/ /\ decisions'[d].det # "PENDING"
                         /\ writes'[v][d].det = decisions'[d].det
                         /\ writes'[v][d].canon = decisions'[d].canon
    BY Zenon DEF WritesFaithful
  <1> DEFINE Goal == \/ decisions'[d].det = "ABSENT"
                     \/ Own(v, d)'
                     \/ /\ decisions'[d].det # "PENDING"
                        /\ writes'[v][d].det = decisions'[d].det
                        /\ writes'[v][d].canon = decisions'[d].canon
  <1>1. ASSUME writes'[v][d] = writes[v][d], decisions'[d] = decisions[d],
               task'[v] = task[v]
        PROVE  Goal
    BY <1>1, Zenon DEF WritesFaithful, Own
  <1>2. CASE Still
    BY <1>1, <1>2, Zenon DEF Still, sqlVars, txnVars
  <1>3. ASSUME NEW r \in Reference, Arrive(r) PROVE Goal
    <2>1. UNCHANGED <<writes, task>>
      BY <1>3, Zenon DEF Arrive, txnVars
    <2>2. d # FreshId
      BY <1>3, <2>1, Zenon DEF Arrive, Unused
    <2>3. decisions'[d] = decisions[d]
      BY <1>3, <2>2, Zenon DEF Arrive, TypeOK
    <2> QED BY <1>1, <2>1, <2>3, Zenon
  <1>4. ASSUME NEW w \in Process, Release(w), decisions' = decisions \/ decisions' = View(w)
        PROVE  Goal
    <2>1. v # w
      BY <1>0, <1>4, Released, Zenon
    <2>2. writes'[v] = writes[v] /\ task'[v] = task[v]
      BY <1>4, <2>1, Released, Zenon
    <2>3. writes[w][d].det = "ABSENT"
      BY <2>1, <2>2, Zenon DEF LocksApart
    <2>4. decisions'[d] = decisions[d]
      BY <1>4, <2>3, Zenon DEF View
    <2> QED BY <1>1, <2>2, <2>4, Zenon
  <1>5. ASSUME NEW w \in Process, WriteDecision(w) PROVE Goal
    <2>1. UNCHANGED <<decisions, task>>
      BY <1>5, Zenon DEF WriteDecision, sqlVars
    <2>2. CASE v # w
      <3>1. writes'[v] = writes[v]
        BY <1>5, <2>2, Zenon DEF WriteDecision, TypeOK
      <3> QED BY <1>1, <2>1, <3>1, Zenon
    <2>3. CASE v = w /\ d = plan[w].id
      <3>1. Own(w, d) \/ decisions[d].det = "ABSENT"
        BY <1>5, <2>3, Zenon DEF WriteDecision, PlanFresh, Mapping
      <3> QED BY <2>1, <2>3, <3>1, Zenon DEF Own
    <2>4. CASE v = w /\ d # plan[w].id /\ d \in Deactivated(w)
      <3>1. /\ writes'[w][d].det = View(w)[d].det
            /\ writes'[w][d].canon = View(w)[d].canon
            /\ View(w)[d].det \notin {"ABSENT", "PENDING"}
        <4>1. /\ writes'[w][d] = [View(w)[d] EXCEPT !.active = FALSE]
              /\ View(w)'[d] = [View(w)[d] EXCEPT !.active = FALSE]
              /\ View(w)'[d].det = View(w)[d].det
              /\ View(w)'[d].canon = View(w)[d].canon
              /\ View(w)[d].det \notin {"ABSENT", "PENDING"}
          BY <1>5, <2>4, Written, Zenon
        <4> QED BY <4>1, Zenon
      <3>2. CASE writes[w][d].det = "ABSENT"
        <4>1. View(w)[d] = decisions[d]
          BY <3>2, Zenon DEF View
        <4> QED BY <2>1, <2>4, <3>1, <4>1, Zenon
      <3>3. CASE writes[w][d].det # "ABSENT"
        <4>1. View(w)[d] = writes[w][d]
          BY <3>3, Zenon DEF View
        <4>2. \/ decisions[d].det = "ABSENT"
              \/ Own(w, d)
              \/ /\ decisions[d].det # "PENDING"
                 /\ writes[w][d].det = decisions[d].det
                 /\ writes[w][d].canon = decisions[d].canon
          BY <3>3, Zenon DEF WritesFaithful
        <4> QED BY <2>1, <2>4, <3>1, <4>1, <4>2, Zenon DEF Own
      <3> QED BY <3>2, <3>3, Zenon
    <2>5. CASE v = w /\ d # plan[w].id /\ d \notin Deactivated(w)
      <3>1. writes'[v][d] = writes[v][d]
        BY <1>5, <2>5, Written, Zenon
      <3> QED BY <1>1, <2>1, <3>1, Zenon
    <2> QED BY <2>2, <2>3, <2>4, <2>5, Zenon
  <1>6. ASSUME NEW w \in Process, Act(w), ~WriteDecision(w), ~Commit(w) PROVE Goal
    <2>1. UNCHANGED <<decisions, writes>>
      BY <1>6, ActsKeepRows, Zenon
    <2>2. CASE v # w
      <3>1. task'[v] = task[v]
        BY <1>6, <2>2, ActsAlone, Zenon
      <3> QED BY <1>1, <2>1, <3>1, Zenon
    <2>3. CASE v = w /\ \E t \in queue : Deliver(w, t)
      BY <2>1, <2>3, Zenon DEF Deliver, Quiet
    <2>4. CASE v = w /\ ~(\E t \in queue : Deliver(w, t))
      <3>1. task' = task
        BY <1>6, <2>4, Zenon DEF Act, Shortcut, CandidateSearch, GuardUndecided,
             MapProxied, AllMapped, MapDecision, Project, Manual, ManualDecision
      <3> QED BY <1>1, <2>1, <3>1, Zenon
    <2> QED BY <2>2, <2>3, <2>4, Zenon
  <1>7. ASSUME NEW w \in Process, Abort(w) \/ Commit(w) PROVE Goal
    <2>1. Release(w) /\ (decisions' = decisions \/ decisions' = View(w))
      BY <1>7, Zenon DEF Abort, Commit, sqlVars
    <2> QED BY <1>4, <2>1, Zenon
  <1> QED BY <1>2, <1>3, <1>5, <1>6, <1>7, Kinds, Zenon

\* With one task at a time, nobody but its worker decides a task's decision.
LEMMA PendingStep ==
    ASSUME IInv, WritesFaithful, TaskPending, OneTask, [Next]_vars
    PROVE  TaskPending'
  <1> USE DEF IInv
  <1> SUFFICES ASSUME NEW v \in Worker, stage'[v] # "idle"
               PROVE  decisions'[task'[v].decision].det = "PENDING"
    BY Zenon DEF TaskPending
  <1> DEFINE Goal == decisions'[task'[v].decision].det = "PENDING"
  <1>0. v \in Process
    BY Zenon DEF Process
  <1>1. ASSUME stage[v] # "idle", task'[v] = task[v],
               decisions'[task[v].decision] = decisions[task[v].decision]
        PROVE  Goal
    BY <1>1, Zenon DEF TaskPending
  <1>2. CASE Still
    BY <1>1, <1>2, Zenon DEF Still, sqlVars
  <1>3. ASSUME stage[v] # "idle" PROVE task[v].decision \in Decision
    BY <1>3, Zenon DEF TaskHeld, Task
  <1>4. ASSUME NEW r \in Reference, Arrive(r) PROVE Goal
    <2>1. UNCHANGED <<stage, task>>
      BY <1>4, Zenon DEF Arrive
    <2>2. decisions[task[v].decision].det = "PENDING" /\ task[v].decision \in Decision
      BY <1>3, <2>1, Zenon DEF TaskPending
    <2>3. task[v].decision # FreshId
      BY <1>4, <2>2, Zenon DEF Arrive, Unused
    <2>4. decisions'[task[v].decision] = decisions[task[v].decision]
      BY <1>4, <2>2, <2>3, Zenon DEF Arrive, TypeOK
    <2> QED BY <1>1, <2>1, <2>4, Zenon
  <1>5. ASSUME NEW w \in Process, Abort(w) \/ Commit(w) PROVE Goal
    <2>1. Release(w) /\ stage[w] # "idle"
      BY <1>5, Zenon DEF Abort, Commit
    <2>2. v # w
      BY <2>1, Released, Zenon
    <2>3. stage[v] # "idle" /\ task'[v] = task[v]
      BY <1>0, <2>1, <2>2, Released, Zenon
    <2>4. w \notin Worker
      BY <2>1, <2>2, <2>3, Zenon DEF OneTask
    <2>5. decisions[task[v].decision].det = "PENDING" /\ task[v].decision \in Decision
      BY <1>3, <2>3, Zenon DEF TaskPending
    <2>6. writes[w][task[v].decision].det = "ABSENT"
      BY <2>4, <2>5, Zenon DEF WritesFaithful, Own
    <2>7. decisions'[task[v].decision] = decisions[task[v].decision]
      BY <1>5, <2>5, <2>6, Zenon DEF Abort, Commit, View, sqlVars
    <2> QED BY <1>1, <2>3, <2>7, Zenon
  <1>6. ASSUME NEW w \in Process, Act(w), ~Commit(w) PROVE Goal
    <2>1. UNCHANGED decisions
      BY <1>6, ActsKeepRows, Zenon DEF WriteDecision, sqlVars
    <2>2. CASE v # w
      <3>1. task'[v] = task[v] /\ stage'[v] = stage[v]
        BY <1>0, <1>6, <2>2, ActsAlone, Zenon
      <3> QED BY <1>1, <2>1, <3>1, Zenon
    <2>3. CASE v = w /\ \E t \in queue : Deliver(w, t)
      BY <1>0, <2>1, <2>3, Zenon DEF Deliver, TypeOK
    <2>4. CASE v = w /\ ~(\E t \in queue : Deliver(w, t))
      <3>1. task' = task
        BY <1>6, <2>4, Zenon DEF Act, Shortcut, CandidateSearch, GuardUndecided,
             MapProxied, AllMapped, MapDecision, WriteDecision, Project, Manual,
             ManualDecision
      <3>2. v \notin Handler
        BY ConstantsAssumption, Zenon
      <3>3. stage[v] # "idle"
        BY <1>6, <2>4, <3>2, Zenon DEF Act, Shortcut, CandidateSearch, GuardUndecided,
             MapProxied, AllMapped, MapDecision, WriteDecision, Project, Manual
      <3> QED BY <1>1, <2>1, <3>1, <3>3, Zenon
    <2> QED BY <2>2, <2>3, <2>4, Zenon
  <1> QED BY <1>2, <1>4, <1>5, <1>6, Kinds, Zenon

\* Locks, ids and rows of transactions, whatever overlaps.
THEOREM RowsInvariance == Spec => []RowsInv
  <1>1. Init => RowsInv
    <2>1. ASSUME Init PROVE RowsInv
      <3>1. /\ NoRow.det = "ABSENT"
            /\ \A w \in Process, d \in Decision : writes[w][d] = NoRow
            /\ \A w \in Process : stage[w] = "idle"
        BY <2>1, Zenon DEF Init, NoRow
      <3> QED BY <3>1, Zenon DEF RowsInv, Quiet, Ahead, LocksApart, PlanFresh,
                   WritesFaithful, Mapping
    <2> QED BY <2>1, Zenon
  <1>2. IInv /\ IInv' /\ RowsInv /\ [Next]_vars => RowsInv'
    <2>1. ASSUME IInv, IInv', RowsInv, [Next]_vars PROVE RowsInv'
      <3>1. Quiet' /\ Ahead'
        BY <2>1, QuietStep, AheadStep, Zenon DEF RowsInv
      <3>2. LocksApart' /\ PlanFresh'
        BY <2>1, LocksStep, PlanFreshStep, Zenon DEF RowsInv
      <3>3. WritesFaithful'
        BY <2>1, FaithfulStep, Zenon DEF RowsInv
      <3> QED BY <3>1, <3>2, <3>3, Zenon DEF RowsInv
    <2> QED BY <2>1, Zenon
  <1> QED BY <1>1, <1>2, Invariance, PTL DEF Spec

\* While one task runs at a time, its decision stays PENDING until it commits.
THEOREM PendingInvariance == Spec /\ []OneTask => []TaskPending
  <1>1. Init => TaskPending
    <2>1. ASSUME Init PROVE TaskPending
      <3>1. \A w \in Worker : stage[w] = "idle"
        BY <2>1, Zenon DEF Init, Process
      <3> QED BY <3>1, Zenon DEF TaskPending
    <2> QED BY <2>1, Zenon
  <1>2. IInv /\ RowsInv /\ OneTask /\ TaskPending /\ [Next]_vars => TaskPending'
    BY PendingStep, Zenon DEF RowsInv
  <1> QED BY <1>1, <1>2, Invariance, RowsInvariance, PTL DEF Spec

\* While one task runs at a time, with request handlers beside it, crashes,
\* lost locks and redeliveries, a decided row is never decided again.
THEOREM TasksDecideOnce == Spec /\ []OneTask => DecidedOnce
  <1> DEFINE Kept == \A d \in Decision :
                        decisions[d].det \notin {"ABSENT", "PENDING"} =>
                            /\ decisions'[d].det = decisions[d].det
                            /\ decisions'[d].canon = decisions[d].canon
  <1>1. ASSUME IInv, RowsInv, TaskPending, [Next]_vars PROVE Kept
    <2> USE <1>1 DEF IInv, RowsInv
    <2> SUFFICES ASSUME NEW d \in Decision, decisions[d].det \notin {"ABSENT", "PENDING"}
                 PROVE  /\ decisions'[d].det = decisions[d].det
                        /\ decisions'[d].canon = decisions[d].canon
      BY Zenon
    <2>1. CASE decisions'[d] = decisions[d]
      BY <2>1, Zenon
    <2>2. ASSUME NEW r \in Reference, Arrive(r) PROVE decisions'[d] = decisions[d]
      <3>1. d # FreshId
        BY <2>2, Zenon DEF Arrive, Unused
      <3> QED BY <2>2, <3>1, Zenon DEF Arrive, TypeOK
    <2>3. ASSUME NEW w \in Process, Commit(w), decisions'[d] # decisions[d]
          PROVE  /\ decisions'[d].det = decisions[d].det
                 /\ decisions'[d].canon = decisions[d].canon
      <3>1. decisions'[d] = View(w)[d] /\ stage[w] = "commit"
        BY <2>3, Zenon DEF Commit
      <3>2. writes[w][d].det # "ABSENT" /\ decisions'[d] = writes[w][d]
        BY <2>3, <3>1, Zenon DEF View
      <3>3. ~Own(w, d)
        BY <3>1, Zenon DEF Own, TaskPending
      <3> QED BY <3>2, <3>3, Zenon DEF WritesFaithful
    <2>4. CASE Still \/ \E w \in Process : Abort(w)
      BY <2>4, Zenon DEF Still, Abort, sqlVars
    <2>5. ASSUME NEW w \in Process, Act(w), ~Commit(w) PROVE decisions' = decisions
      BY <2>5, ActsKeepRows, Zenon DEF WriteDecision, sqlVars
    <2> QED BY <2>1, <2>2, <2>3, <2>4, <2>5, Kinds, Zenon
  <1>2. IInv /\ RowsInv /\ TaskPending /\ [Next]_vars => [Kept]_vars
    BY <1>1, Zenon
  <1> QED BY <1>2, Invariance, RowsInvariance, PendingInvariance, PTL DEF Spec, DecidedOnce

\* In particular with one worker: redelivered tasks find their decision made.
THEOREM OneWorkerDecidesOnce ==
    ASSUME \A v, w \in Worker : v = w
    PROVE  Spec => DecidedOnce
  <1>1. OneTask
    BY Zenon DEF OneTask
  <1> QED BY <1>1, TasksDecideOnce, PTL

-----------------------------------------------------------------------------
(* Reading a table *)

\* The active row of a reference is what its relationships show.
LEMMA ActiveReads ==
    ASSUME NEW T \in [Decision -> Row], AtMostOne(T), NEW d \in Decision, T[d].active
    PROVE  /\ ActiveRows(T, T[d].ref) # {}
           /\ ActiveDecision(T, T[d].ref) = d
           /\ ActiveDet(T, T[d].ref) = T[d].det
           /\ ActiveCanon(T, T[d].ref) = T[d].canon
  <1>1. d \in ActiveRows(T, T[d].ref)
    BY Zenon DEF ActiveRows
  <1>2. \A e \in ActiveRows(T, T[d].ref) : e = d
    BY Zenon DEF ActiveRows, AtMostOne
  <1>3. ActiveRows(T, T[d].ref) # {}
    BY <1>1, Zenon
  <1>4. ActiveDecision(T, T[d].ref) = d
    BY <1>1, <1>2, <1>3, Zenon DEF ActiveDecision
  <1> QED BY <1>3, <1>4, Zenon DEF ActiveDet, ActiveCanon

\* A reference with a determination has an active row with it.
LEMMA ActiveRow ==
    ASSUME NEW T \in [Decision -> Row], NEW r
    PROVE  \/ /\ ActiveRows(T, r) = {} /\ ActiveDecision(T, r) = NoDecision
              /\ ActiveDet(T, r) = "ABSENT" /\ ActiveCanon(T, r) = NoRef
              /\ \A d \in Decision : ~(T[d].active /\ T[d].ref = r)
           \/ \E d \in Decision : /\ T[d].active /\ T[d].ref = r
                                  /\ ActiveDecision(T, r) = d
                                  /\ ActiveDet(T, r) = T[d].det
                                  /\ ActiveCanon(T, r) = T[d].canon
  <1>1. CASE ActiveRows(T, r) = {}
    <2>1. \A d \in Decision : ~(T[d].active /\ T[d].ref = r)
      BY <1>1, Zenon DEF ActiveRows
    <2> QED BY <1>1, <2>1, Zenon DEF ActiveDecision, ActiveDet, ActiveCanon
  <1>2. CASE ActiveRows(T, r) # {}
    <2>1. PICK d \in Decision : d \in ActiveRows(T, r) /\ ActiveDecision(T, r) = d
      BY <1>2, Zenon DEF ActiveDecision, ActiveRows
    <2>2. T[d].active /\ T[d].ref = r
      BY <2>1, Zenon DEF ActiveRows
    <2> QED BY <1>2, <2>1, <2>2, Zenon DEF ActiveDet, ActiveCanon
  <1> QED BY <1>1, <1>2, Zenon

\* Two tables with the same active rows.
SameActive(T, U) ==
    \A d \in Decision : T[d].active \/ U[d].active => U[d] = T[d]

\* They show the same relationships.
LEMMA SameReads ==
    ASSUME NEW T \in [Decision -> Row], NEW U \in [Decision -> Row], SameActive(T, U)
    PROVE  /\ \A r : /\ ActiveDecision(U, r) = ActiveDecision(T, r)
                     /\ ActiveDet(U, r) = ActiveDet(T, r)
                     /\ ActiveCanon(U, r) = ActiveCanon(T, r)
                     /\ IsCanonical(U, r) <=> IsCanonical(T, r)
                     /\ DuplicatesOf(U, r) = DuplicatesOf(T, r)
                     /\ ExpectedDoc(U, r) = ExpectedDoc(T, r)
  <1>1. \A r : ActiveRows(U, r) = ActiveRows(T, r)
    BY DEF ActiveRows, SameActive
  <1>2. ASSUME NEW r PROVE ActiveDecision(U, r) = ActiveDecision(T, r)
    <2>1. ActiveRows(U, r) = ActiveRows(T, r)
      BY <1>1, Zenon
    <2> QED BY <2>1 DEF ActiveDecision
  <1>3. ASSUME NEW r, ActiveRows(T, r) # {}
        PROVE  U[ActiveDecision(T, r)] = T[ActiveDecision(T, r)]
    <2>1. ActiveDecision(T, r) \in ActiveRows(T, r) /\ ActiveDecision(T, r) \in Decision
      BY <1>3, Zenon DEF ActiveDecision, ActiveRows
    <2> QED BY <2>1, Zenon DEF ActiveRows, SameActive
  <1>4. ASSUME NEW r PROVE /\ ActiveDet(U, r) = ActiveDet(T, r)
                           /\ ActiveCanon(U, r) = ActiveCanon(T, r)
    <2>1. CASE ActiveRows(T, r) = {}
      BY <1>1, <2>1, Zenon DEF ActiveDet, ActiveCanon
    <2>2. CASE ActiveRows(T, r) # {}
      BY <1>1, <1>2, <1>3, <2>2, Zenon DEF ActiveDet, ActiveCanon
    <2> QED BY <2>1, <2>2, Zenon
  <1>5. ASSUME NEW r PROVE DuplicatesOf(U, r) = DuplicatesOf(T, r)
    BY <1>4, Zenon DEF DuplicatesOf
  <1> QED BY <1>2, <1>4, <1>5, Zenon DEF IsCanonical, ExpectedDoc

-----------------------------------------------------------------------------
(* The duplicate graph is a star *)

\* An active decision is terminal, and it is a duplicate that has a canonical.
Terminal(row) ==
    /\ row.det \in {"DUPLICATE", "CANONICAL", "UNSEARCHABLE"}
    /\ row.det = "DUPLICATE" <=> row.canon # NoRef

\* Active duplicates of table T point at references that are active and not
\* duplicates themselves.
Star(T) ==
    \A d \in Decision : T[d].active /\ T[d].det = "DUPLICATE" =>
        \E e \in Decision : /\ T[e].active
                            /\ T[e].ref = T[d].canon
                            /\ T[e].det \in {"CANONICAL", "UNSEARCHABLE"}

AllTerminal(T) == \A d \in Decision : T[d].active => Terminal(T[d])

\* The plan of whoever maps: terminal until it is decoupled.
PlanTerminal ==
    \A w \in Process :
        /\ stage[w] = "map" => Terminal(plan[w].row)
        /\ stage[w] = "write" /\ plan[w].row.active => Terminal(plan[w].row)
        /\ stage[w] \in {"map", "write", "guard", "side"} => plan[w].row.ref \in Reference

\* What a process read before it wrote is what its transaction still sees.
PlanRead ==
    \A w \in Process : stage[w] = "write" /\ plan[w].row.active =>
        /\ old[w] = ActiveDecision(View(w), plan[w].row.ref)
        /\ plan[w].row.det = "DUPLICATE" =>
              /\ plan[w].row.canon # plan[w].row.ref
              /\ IsCanonical(View(w), plan[w].row.canon)
              /\ DuplicatesOf(View(w), plan[w].row.ref) = {}

TerminalInv ==
    /\ AllTerminal(decisions)
    /\ \A w \in Process : AllTerminal(writes[w])
    /\ PlanTerminal

StarInv ==
    /\ PlanRead
    /\ Star(decisions)
    /\ \A w \in Process : Star(View(w))

\* Tables with the same active rows have the same graph.
LEMMA SameGraph ==
    ASSUME NEW T \in [Decision -> Row], NEW U \in [Decision -> Row], SameActive(T, U)
    PROVE  /\ AllTerminal(T) => AllTerminal(U)
           /\ Star(T) => Star(U)
  <1>1. AllTerminal(T) => AllTerminal(U)
    BY Zenon DEF SameActive, AllTerminal
  <1>2. ASSUME Star(T) PROVE Star(U)
    <2> SUFFICES ASSUME NEW d \in Decision, U[d].active, U[d].det = "DUPLICATE"
                 PROVE  \E e \in Decision : /\ U[e].active /\ U[e].ref = U[d].canon
                                            /\ U[e].det \in {"CANONICAL", "UNSEARCHABLE"}
      BY Zenon DEF Star
    <2>1. U[d] = T[d]
      BY Zenon DEF SameActive
    <2>2. PICK e \in Decision : /\ T[e].active /\ T[e].ref = T[d].canon
                                /\ T[e].det \in {"CANONICAL", "UNSEARCHABLE"}
      BY <1>2, <2>1, Zenon DEF Star
    <2>3. U[e] = T[e]
      BY <2>2, Zenon DEF SameActive
    <2> QED BY <2>1, <2>2, <2>3, Zenon
  <1> QED BY <1>1, <1>2, Zenon

\* A request adds a row that is not active, to every table.
LEMMA ArriveReads ==
    ASSUME IInv, IInv', NEW r \in Reference, Arrive(r)
    PROVE  /\ SameActive(decisions, decisions')
           /\ \A w \in Process : SameActive(View(w), View(w)')
  <1> USE DEF IInv
  <1>1. /\ ~PendingRow(r).active
        /\ FreshId \in Decision /\ decisions[FreshId].det = "ABSENT"
        /\ \A d \in Decision :
              decisions'[d] = IF d = FreshId THEN PendingRow(r) ELSE decisions[d]
        /\ writes' = writes
    BY Zenon DEF Arrive, Unused, PendingRow, NoRow, txnVars, TypeOK
  <1>2. ~decisions[FreshId].active
    BY <1>1, Zenon DEF RowsSound, Sound
  <1>3. SameActive(decisions, decisions')
    BY <1>1, <1>2, Zenon DEF SameActive
  <1>4. ASSUME NEW w \in Process, NEW d \in Decision
        PROVE  \/ View(w)'[d] = View(w)[d]
               \/ View(w)'[d] = decisions'[d] /\ View(w)[d] = decisions[d]
    BY <1>1, Zenon DEF View
  <1>5. \A w \in Process : SameActive(View(w), View(w)')
    BY <1>3, <1>4, Zenon DEF SameActive
  <1> QED BY <1>3, <1>5, Zenon

\* A transaction that has written nothing reads the committed table.
LEMMA QuietView ==
    ASSUME TypeOK, NEW w \in Process, \A d \in Decision : writes[w][d].det = "ABSENT"
    PROVE  View(w) = decisions
  <1>1. View(w) = [d \in Decision |-> decisions[d]]
    BY Zenon DEF View
  <1>2. decisions = [d \in Decision |-> decisions[d]]
    BY DEF TypeOK
  <1> QED BY <1>1, <1>2, Zenon

\* Where processes take turns, everyone else reads the committed table.
LEMMA OthersIdle ==
    ASSUME IInv, Quiet, OneBusy, NEW w \in Process, stage[w] # "idle",
           NEW v \in Process, v # w
    PROVE  stage[v] = "idle" /\ View(v) = decisions
  <1>1. stage[v] = "idle"
    BY Zenon DEF OneBusy
  <1>2. \A d \in Decision : writes[v][d].det = "ABSENT"
    BY <1>1, Zenon DEF Quiet
  <1> QED BY <1>1, <1>2, QuietView, Zenon DEF IInv

\* The table of a process whose transaction ended.
LEMMA EndedView ==
    ASSUME TypeOK, TypeOK', NEW w \in Process, Release(w)
    PROVE  View(w)' = decisions'
  <1>1. \A d \in Decision : writes'[w][d] = NoRow
    BY Released, Zenon
  <1>2. \A d \in Decision : writes'[w][d].det = "ABSENT"
    <2>1. NoRow.det = "ABSENT"
      BY Zenon DEF NoRow
    <2> QED BY <1>1, <2>1, Zenon
  <1>3. View(w)' = [d \in Decision |-> decisions'[d]]
    BY <1>2, Zenon DEF View
  <1>4. decisions' = [d \in Decision |-> decisions'[d]]
    BY DEF TypeOK
  <1> QED BY <1>3, <1>4, Zenon

\* The tables from step to step: the same active rows, what a commit publishes,
\* or what the process wrote.
LEMMA Tables ==
    ASSUME IInv, IInv', Quiet, Quiet', OneBusy, [Next]_vars
    PROVE  /\ \/ SameActive(decisions, decisions')
              \/ \E w \in Process : Commit(w) /\ decisions' = View(w)
           /\ \A v \in Process : \/ SameActive(View(v), View(v)')
                                 \/ View(v)' = decisions'
                                 \/ WriteDecision(v)
  <1> USE DEF IInv
  <1> DEFINE Table == \/ SameActive(decisions, decisions')
                      \/ \E w \in Process : Commit(w) /\ decisions' = View(w)
             Views == \A v \in Process : \/ SameActive(View(v), View(v)')
                                         \/ View(v)' = decisions'
                                         \/ WriteDecision(v)
  <1>1. ASSUME UNCHANGED decisions PROVE Table
    BY <1>1, Zenon DEF SameActive
  <1>2. ASSUME UNCHANGED decisions, NEW v \in Process, writes'[v] = writes[v]
        PROVE  SameActive(View(v), View(v)')
    <2>1. View(v)' = View(v)
      BY <1>2, Zenon DEF View
    <2> QED BY <2>1, Zenon DEF SameActive
  <1>3. ASSUME UNCHANGED <<decisions, writes>> PROVE Table /\ Views
    BY <1>1, <1>2, <1>3, Zenon
  <1>4. CASE \E r \in Reference : Arrive(r)
    BY <1>4, ArriveReads, Zenon
  <1>5. ASSUME NEW w \in Process, Abort(w) PROVE Table /\ Views
    <2>1. UNCHANGED decisions /\ Release(w)
      BY <1>5, Zenon DEF Abort, sqlVars
    <2>2. View(w)' = decisions'
      BY <2>1, EndedView, Zenon
    <2>3. \A v \in Process : v # w => writes'[v] = writes[v]
      BY <2>1, Released, Zenon
    <2> QED BY <1>1, <1>2, <2>1, <2>2, <2>3, Zenon
  <1>6. ASSUME NEW w \in Process, Commit(w) PROVE Table /\ Views
    <2>1. decisions' = View(w) /\ Release(w) /\ stage[w] # "idle"
      BY <1>6, Zenon DEF Commit
    <2>2. View(w)' = decisions'
      BY <2>1, EndedView, Zenon
    <2>3. ASSUME NEW v \in Process, v # w PROVE View(v)' = decisions'
      <3>1. stage[v] = "idle"
        BY <2>1, <2>3, Zenon DEF OneBusy
      <3>2. stage'[v] = "idle"
        BY <2>1, <2>3, <3>1, Released, Zenon
      <3>3. \A d \in Decision : writes'[v][d].det = "ABSENT"
        BY <3>2, Zenon DEF Quiet
      <3>4. View(v)' = [d \in Decision |-> decisions'[d]]
        BY <3>3, Zenon DEF View
      <3>5. decisions' = [d \in Decision |-> decisions'[d]]
        BY DEF TypeOK
      <3> QED BY <3>4, <3>5, Zenon
    <2> QED BY <1>6, <2>1, <2>2, <2>3, Zenon
  <1>7. ASSUME NEW w \in Process, WriteDecision(w) PROVE Table /\ Views
    <2>1. /\ UNCHANGED decisions
          /\ \A v \in Process : v # w => writes'[v] = writes[v]
      BY <1>7, Zenon DEF WriteDecision, sqlVars, TypeOK
    <2> QED BY <1>1, <1>2, <1>7, <2>1, Zenon
  <1>8. ASSUME NEW w \in Process, Act(w), ~WriteDecision(w), ~Commit(w)
        PROVE  UNCHANGED <<decisions, writes>>
    BY <1>8, ActsKeepRows, Zenon
  <1>9. CASE Still
    BY <1>3, <1>9, Zenon DEF Still, sqlVars, txnVars
  <1> QED BY <1>3, <1>4, <1>5, <1>6, <1>7, <1>8, <1>9, Kinds, Zenon

\* Where processes take turns, a process goes on to read what it has read.
LEMMA ViewKept ==
    ASSUME IInv, IInv', OneBusy, [Next]_vars, NEW w \in Process, stage[w] # "idle",
           ~WriteDecision(w), ~Release(w)
    PROVE  SameActive(View(w), View(w)')
  <1> USE DEF IInv
  <1>1. ASSUME UNCHANGED <<decisions, writes>> PROVE SameActive(View(w), View(w)')
    BY <1>1, Zenon DEF SameActive, View
  <1>2. CASE Still
    BY <1>1, <1>2, Zenon DEF Still, sqlVars, txnVars
  <1>3. CASE \E r \in Reference : Arrive(r)
    BY <1>3, ArriveReads, Zenon
  <1>4. ASSUME NEW v \in Process, v # w PROVE stage[v] = "idle"
    BY <1>4, Zenon DEF OneBusy
  <1>5. ASSUME NEW v \in Process, Abort(v) PROVE FALSE
    BY <1>4, <1>5, Zenon DEF Abort
  <1>6. ASSUME NEW v \in Process, Act(v) PROVE UNCHANGED <<decisions, writes>>
    <2>1. ~WriteDecision(v) /\ ~Commit(v)
      BY <1>4, Zenon DEF WriteDecision, Commit
    <2> QED BY <1>6, <2>1, ActsKeepRows, Zenon
  <1> QED BY <1>1, <1>2, <1>3, <1>5, <1>6, Kinds, Zenon

\* Where a plan comes from.
LEMMA PlanOrigin ==
    ASSUME IInv, Ahead, [Next]_vars, NEW w \in Process, Mapping(w)'
    PROVE  \/ /\ stage'[w] = stage[w] /\ plan'[w] = plan[w] /\ old'[w] = old[w]
              /\ Mapping(w) /\ ~WriteDecision(w) /\ ~Release(w)
           \/ MapDecision(w)
           \/ w \in Worker /\ Shortcut(w)
           \/ w \in Worker /\ CandidateSearch(w)
           \/ w \in Worker /\ MapProxied(w)
           \/ Manual(w)
  <1> USE DEF IInv
  <1>1. ~Release(w)
    BY Zenon DEF Release, Mapping, TypeOK
  <1>2. ~WriteDecision(w)
    <2>1. ASSUME WriteDecision(w) PROVE FALSE
      <3>1. stage'[w] = then[w] /\ then[w] \in {"guard", "side", "project"}
        BY <2>1, Zenon DEF WriteDecision, Ahead, Mapping, TypeOK
      <3> QED BY <3>1 DEF Mapping
    <2> QED BY <2>1, Zenon
  <1>3. CASE Still \/ \E r \in Reference : Arrive(r)
    <2>1. UNCHANGED <<stage, plan, old>>
      BY <1>3, Zenon DEF Still, Arrive, txnVars
    <2> QED BY <1>1, <1>2, <2>1, Zenon DEF Mapping
  <1>4. ASSUME NEW v \in Process, v # w, Abort(v) \/ Act(v)
        PROVE  /\ stage'[w] = stage[w] /\ plan'[w] = plan[w] /\ old'[w] = old[w]
               /\ Mapping(w)
    <2>1. /\ stage'[w] = stage[w] /\ plan'[w] = plan[w] /\ old'[w] = old[w]
      BY <1>4, Released, ActsAlone, Zenon DEF Abort
    <2> QED BY <2>1, Zenon DEF Mapping
  <1>5. ASSUME \/ \E t \in queue : Deliver(w, t)
               \/ GuardUndecided(w) \/ AllMapped(w) \/ Project(w)
        PROVE  FALSE
    <2>1. stage'[w] \in {"loaded", "side", "project", "commit"}
      BY <1>5, Zenon DEF Deliver, GuardUndecided, AllMapped, Project, TypeOK
    <2> QED BY <2>1 DEF Mapping
  <1>6. ~Abort(w) /\ ~Commit(w)
    BY <1>1, Zenon DEF Abort, Commit
  <1>7. CASE Abort(w) \/ Act(w)
    BY <1>2, <1>5, <1>6, <1>7, Zenon DEF Act
  <1>8. CASE \E v \in Process : v # w /\ (Abort(v) \/ Act(v))
    BY <1>1, <1>2, <1>4, <1>8, Zenon
  <1> QED BY <1>3, <1>7, <1>8, Kinds, Zenon

\* The row a process is about to write is not active yet.
LEMMA PlanInactive ==
    ASSUME IInv, RowsInv, TaskPending, NEW w \in Process, Mapping(w)
    PROVE  /\ plan[w].id \in Decision
           /\ ~View(w)[plan[w].id].active
           /\ View(w)[plan[w].id] = decisions[plan[w].id]
  <1> USE DEF IInv, RowsInv
  <1>1. plan[w].id \in Decision /\ writes[w][plan[w].id].det = "ABSENT"
    BY Zenon DEF PlanMade, PlanFresh, Mapping
  <1>2. View(w)[plan[w].id] = decisions[plan[w].id]
    BY <1>1, Zenon DEF View
  <1>3. decisions[plan[w].id].det \in {"ABSENT", "PENDING"}
    <2>1. CASE Own(w, plan[w].id)
      <3>1. stage[w] # "idle"
        BY DEF Mapping
      <3> QED BY <2>1, <3>1, Zenon DEF Own, TaskPending
    <2>2. CASE decisions[plan[w].id].det = "ABSENT"
      BY <2>2, Zenon
    <2> QED BY <2>1, <2>2, Zenon DEF PlanFresh
  <1>4. ~decisions[plan[w].id].active
    BY <1>1, <1>3 DEF RowsSound, Sound
  <1> QED BY <1>1, <1>2, <1>4, Zenon

\* A decoupled or retained proposal changes no active row; one that activates
\* takes the place of the reference's active row and of no other.
LEMMA WriteReads ==
    ASSUME IInv, RowsInv, TaskPending, PlanRead, NEW w \in Process, WriteDecision(w)
    PROVE  /\ ~plan[w].row.active => SameActive(View(w), View(w)')
           /\ plan[w].row.active =>
                 /\ View(w)'[plan[w].id] = plan[w].row
                 /\ \A d \in Decision : View(w)'[d].active => 
                       \/ d = plan[w].id
                       \/ /\ View(w)'[d] = View(w)[d]
                          /\ View(w)[d].ref # plan[w].row.ref
                 /\ \A d \in Decision :
                       View(w)[d].active /\ View(w)[d].ref # plan[w].row.ref
                           => View(w)'[d] = View(w)[d]
  <1> USE DEF IInv, RowsInv
  <1>1. Mapping(w) /\ stage[w] = "write"
    BY Zenon DEF WriteDecision, Mapping
  <1>2. plan[w].id \in Decision /\ ~View(w)[plan[w].id].active
    BY <1>1, PlanInactive, Zenon
  <1>3. ASSUME ~plan[w].row.active PROVE SameActive(View(w), View(w)')
    <2>1. Deactivated(w) = {}
      BY <1>3, Zenon DEF Deactivated
    <2>2. ASSUME NEW d \in Decision PROVE \/ View(w)'[d] = View(w)[d]
                                          \/ ~View(w)[d].active /\ ~View(w)'[d].active
      <3>1. CASE d = plan[w].id
        <4>1. View(w)'[d] = plan[w].row
          BY <3>1, Written, Zenon
        <4> QED BY <1>2, <1>3, <3>1, <4>1, Zenon
      <3>2. CASE d # plan[w].id
        <4>1. d \notin Deactivated(w)
          BY <2>1, Zenon
        <4> QED BY <3>2, <4>1, Written, Zenon
      <3> QED BY <3>1, <3>2, Zenon
    <2> QED BY <2>2, Zenon DEF SameActive
  <1>4. ASSUME plan[w].row.active
        PROVE  /\ View(w)'[plan[w].id] = plan[w].row
               /\ \A d \in Decision : View(w)'[d].active => 
                     \/ d = plan[w].id
                     \/ /\ View(w)'[d] = View(w)[d]
                        /\ View(w)[d].ref # plan[w].row.ref
               /\ \A d \in Decision :
                     View(w)[d].active /\ View(w)[d].ref # plan[w].row.ref
                         => View(w)'[d] = View(w)[d]
    <2>1. View(w)'[plan[w].id] = plan[w].row
      BY <1>2, Written, Zenon
    <2>2. old[w] = ActiveDecision(View(w), plan[w].row.ref)
      BY <1>1, <1>4, Zenon DEF PlanRead
    <2>3. View(w) \in [Decision -> Row] /\ AtMostOne(View(w))
      BY ViewType, Zenon DEF TypeOK, ViewsHaveOne
    <2>4. ASSUME NEW d \in Decision, View(w)[d].active, View(w)[d].ref = plan[w].row.ref
          PROVE  d \in Deactivated(w)
      <3>1. old[w] = d
        BY <2>2, <2>3, <2>4, ActiveReads, Zenon
      <3>2. d # plan[w].id /\ d # NoDecision
        BY <1>2, <2>4, ConstantsAssumption, Zenon
      <3> QED BY <1>4, <3>1, <3>2 DEF Deactivated
    <2>5. ASSUME NEW d \in Decision, d \in Deactivated(w)
          PROVE  View(w)[d].ref = plan[w].row.ref
      <3>1. d = old[w] /\ d # NoDecision
        BY <2>5 DEF Deactivated
      <3>2. ActiveDecision(View(w), plan[w].row.ref) # NoDecision =>
               View(w)[ActiveDecision(View(w), plan[w].row.ref)].ref = plan[w].row.ref
        BY <2>3, ActiveTypes
      <3> QED BY <2>2, <3>1, <3>2, Zenon
    <2>6. ASSUME NEW d \in Decision, View(w)'[d].active, d # plan[w].id
          PROVE  View(w)'[d] = View(w)[d] /\ View(w)[d].ref # plan[w].row.ref
      <3>1. d \notin Deactivated(w)
        BY <2>6, Written, Zenon
      <3>2. View(w)'[d] = View(w)[d]
        BY <2>6, <3>1, Written, Zenon
      <3> QED BY <2>4, <2>6, <3>1, <3>2, Zenon
    <2>7. ASSUME NEW d \in Decision, View(w)[d].active, View(w)[d].ref # plan[w].row.ref
          PROVE  View(w)'[d] = View(w)[d]
      <3>1. d # plan[w].id /\ d \notin Deactivated(w)
        BY <1>2, <2>5, <2>7, Zenon
      <3> QED BY <3>1, Written, Zenon
    <2> QED BY <2>1, <2>6, <2>7, Zenon
  <1> QED BY <1>3, <1>4, Zenon

\* Every row a process may write as active is terminal.
LEMMA TerminalRows ==
    ASSUME IInv, TerminalInv, [Next]_vars
    PROVE  AllTerminal(decisions)' /\ \A w \in Process : AllTerminal(writes[w])'
  <1> USE DEF IInv, TerminalInv
  <1> DEFINE Goal == AllTerminal(decisions)' /\ \A w \in Process : AllTerminal(writes[w])'
  <1>0. ~NoRow.active
    BY Zenon DEF NoRow
  <1>1. ASSUME UNCHANGED <<decisions, writes>> PROVE Goal
    BY <1>1, Zenon DEF AllTerminal
  <1>2. ASSUME NEW w \in Process PROVE AllTerminal(View(w))
    BY Zenon DEF View, AllTerminal
  <1>3. ASSUME NEW r \in Reference, Arrive(r) PROVE Goal
    <2>1. ~PendingRow(r).active /\ writes' = writes
      BY <1>3, Zenon DEF PendingRow, NoRow, Arrive, txnVars
    <2>2. \A d \in Decision : decisions'[d] = PendingRow(r) \/ decisions'[d] = decisions[d]
      BY <1>3, Zenon DEF Arrive, TypeOK
    <2> QED BY <2>1, <2>2, Zenon DEF AllTerminal
  <1>4. ASSUME NEW w \in Process, Release(w), decisions' = decisions \/ decisions' = View(w)
        PROVE  Goal
    <2>1. \A v \in Process, d \in Decision :
             writes'[v][d] = NoRow \/ writes'[v][d] = writes[v][d]
      BY <1>4, Released, Zenon
    <2> QED BY <1>0, <1>2, <1>4, <2>1, Zenon DEF AllTerminal
  <1>5. ASSUME NEW w \in Process, WriteDecision(w) PROVE Goal
    <2>1. /\ decisions' = decisions
          /\ \A v \in Process : v # w => writes'[v] = writes[v]
      BY <1>5, Zenon DEF WriteDecision, sqlVars, TypeOK
    <2>2. ASSUME NEW d \in Decision, writes'[w][d].active PROVE Terminal(writes'[w][d])
      <3>1. CASE d = plan[w].id
        <4>1. writes'[w][d] = plan[w].row /\ stage[w] = "write"
          BY <1>5, <3>1, Written, Zenon DEF WriteDecision
        <4> QED BY <2>2, <4>1, Zenon DEF PlanTerminal
      <3>2. CASE d # plan[w].id /\ d \in Deactivated(w)
        <4>1. /\ writes'[w][d] = [View(w)[d] EXCEPT !.active = FALSE]
              /\ View(w)'[d] = [View(w)[d] EXCEPT !.active = FALSE]
              /\ ~View(w)'[d].active
          BY <1>5, <3>2, Written, Zenon
        <4> QED BY <2>2, <4>1, Zenon
      <3>3. CASE d # plan[w].id /\ d \notin Deactivated(w)
        <4>1. writes'[w][d] = writes[w][d]
          BY <1>5, <3>3, Written, Zenon
        <4> QED BY <2>2, <4>1, Zenon DEF AllTerminal
      <3> QED BY <3>1, <3>2, <3>3, Zenon
    <2> QED BY <2>1, <2>2, Zenon DEF AllTerminal
  <1>6. ASSUME NEW w \in Process, Act(w), ~WriteDecision(w), ~Commit(w) PROVE Goal
    BY <1>1, <1>6, ActsKeepRows, Zenon
  <1>7. CASE Still
    BY <1>1, <1>7, Zenon DEF Still, sqlVars, txnVars
  <1>8. ASSUME NEW w \in Process, Abort(w) \/ Commit(w) PROVE Goal
    <2>1. Release(w) /\ (decisions' = decisions \/ decisions' = View(w))
      BY <1>8, Zenon DEF Abort, Commit, sqlVars
    <2> QED BY <1>4, <2>1, Zenon
  <1> QED BY <1>3, <1>5, <1>6, <1>7, <1>8, Kinds, Zenon

\* The canonical of a duplicate is a reference.
LEMMA DuplicateHasCanon ==
    ASSUME IInv, NEW T \in [Decision -> Row], AllTerminal(T), NEW r,
           ActiveDet(T, r) = "DUPLICATE"
    PROVE  ActiveCanon(T, r) \in Reference
  <1>1. PICK d \in Decision : /\ T[d].active /\ ActiveDet(T, r) = T[d].det
                              /\ ActiveCanon(T, r) = T[d].canon
    BY ActiveRow
  <1>2. T[d].canon # NoRef
    BY <1>1, Zenon DEF AllTerminal, Terminal
  <1>3. T[d].canon \in RefOrNone
    BY Zenon DEF Row
  <1> QED BY <1>1, <1>2, <1>3, Zenon DEF RefOrNone

\* What the shortcut collects as canonicals are references.
LEMMA CanonicalIdsType ==
    ASSUME IInv, AllTerminal(decisions), NEW C \in SUBSET Reference
    PROVE  CanonicalIds(C) \subseteq Reference
  <1> SUFFICES ASSUME NEW k \in CanonicalIds(C) PROVE k \in Reference
    BY Zenon
  <1>1. \/ k \in C
        \/ \E c \in C : ActiveDet(decisions, c) = "DUPLICATE" /\ k = ActiveCanon(decisions, c)
    BY DEF CanonicalIds
  <1>2. decisions \in [Decision -> Row]
    BY Zenon DEF IInv, TypeOK
  <1> QED BY <1>1, <1>2, DuplicateHasCanon, Zenon

\* A worker's subject is a stored reference.
LEMMA SubjectType ==
    ASSUME IInv, NEW w \in Worker, stage[w] # "idle"
    PROVE  Subject(w) \in Reference /\ task[w].decision \in Decision
  <1>1. task[w] \in Task /\ w \in Process
    BY Zenon DEF IInv, TaskHeld, Process
  <1>2. task[w].decision \in Decision
    BY <1>1, Zenon DEF Task
  <1>3. decisions[task[w].decision].det # "ABSENT"
    BY <1>1, Zenon DEF IInv, TasksStored
  <1> QED BY <1>2, <1>3, Zenon DEF IInv, RowsSound, Sound, Subject

\* The proposals of a worker about its own subject.
LEMMA OwnProposal ==
    ASSUME IInv, AllTerminal(decisions), NEW w \in Worker, Shortcut(w) \/ CandidateSearch(w)
    PROVE  \E det, canon :
              /\ plan'[w] = Proposal(w, det, canon)
              /\ stage[w] = "loaded"
              /\ \/ stage'[w] = "map" /\ det = "DUPLICATE" /\ canon \in Reference
                 \/ stage'[w] = "map" /\ det \in {"CANONICAL", "UNSEARCHABLE"} /\ canon = NoRef
                 \/ stage'[w] = "write" /\ det = "DECOUPLED"
              /\ det = "CANONICAL" =>
                    \/ TrustedIds[Subject(w)] = {}
                    \/ CanonicalIds(MatchesOf(Subject(w), TrustedIds)) = {}
              /\ det = "UNSEARCHABLE" => TrustedIds[Subject(w)] = {}
              /\ det = "DUPLICATE" => TestEnv \/ TrustedIds[Subject(w)] # {}
  <1> USE DEF IInv
  <1>0. w \in Process /\ imported \subseteq Reference
    BY Zenon DEF Process, TypeOK
  <1> DEFINE K == CanonicalIds(MatchesOf(Subject(w), TrustedIds))
             Goal(det, canon) ==
              /\ plan'[w] = Proposal(w, det, canon)
              /\ stage[w] = "loaded"
              /\ \/ stage'[w] = "map" /\ det = "DUPLICATE" /\ canon \in Reference
                 \/ stage'[w] = "map" /\ det \in {"CANONICAL", "UNSEARCHABLE"} /\ canon = NoRef
                 \/ stage'[w] = "write" /\ det = "DECOUPLED"
              /\ det = "CANONICAL" =>
                    \/ TrustedIds[Subject(w)] = {}
                    \/ K = {}
              /\ det = "UNSEARCHABLE" => TrustedIds[Subject(w)] = {}
              /\ det = "DUPLICATE" => TestEnv \/ TrustedIds[Subject(w)] # {}
  <1>1. ASSUME NEW det, NEW canon, NEW s,
               plan' = [plan EXCEPT ![w] = Proposal(w, det, canon)],
               stage' = [stage EXCEPT ![w] = s]
        PROVE  plan'[w] = Proposal(w, det, canon) /\ stage'[w] = s
    BY <1>0, <1>1, Zenon DEF TypeOK
  <1>2. CASE Shortcut(w)
    <2>0. stage[w] = "loaded" /\ TrustedIds[Subject(w)] # {}
      BY <1>2, Zenon DEF Shortcut
    <2>1. MatchesOf(Subject(w), TrustedIds) \in SUBSET Reference
      BY <1>0 DEF MatchesOf
    <2>2. K \subseteq Reference
      BY <2>1, CanonicalIdsType, Zenon
    <2>3. \/ /\ K = {} /\ plan' = [plan EXCEPT ![w] = Proposal(w, "CANONICAL", NoRef)]
             /\ stage' = [stage EXCEPT ![w] = "map"]
          \/ \E k \in K : /\ plan' = [plan EXCEPT ![w] = Proposal(w, "DUPLICATE", k)]
                          /\ stage' = [stage EXCEPT ![w] = "map"]
          \/ /\ plan' = [plan EXCEPT ![w] = Proposal(w, "DECOUPLED", NoRef)]
             /\ stage' = [stage EXCEPT ![w] = "write"]
      BY <1>2, Zenon DEF Shortcut
    <2>4. CASE /\ K = {} /\ plan' = [plan EXCEPT ![w] = Proposal(w, "CANONICAL", NoRef)]
               /\ stage' = [stage EXCEPT ![w] = "map"]
      <3>1. Goal("CANONICAL", NoRef)
        BY <1>1, <2>0, <2>4
      <3> QED BY <3>1, Zenon
    <2>5. ASSUME NEW k \in K, plan' = [plan EXCEPT ![w] = Proposal(w, "DUPLICATE", k)],
                 stage' = [stage EXCEPT ![w] = "map"]
          PROVE  Goal("DUPLICATE", k)
      BY <1>1, <2>0, <2>2, <2>5
    <2>6. CASE /\ plan' = [plan EXCEPT ![w] = Proposal(w, "DECOUPLED", NoRef)]
               /\ stage' = [stage EXCEPT ![w] = "write"]
      <3>1. Goal("DECOUPLED", NoRef)
        BY <1>1, <2>0, <2>6
      <3> QED BY <3>1, Zenon
    <2> QED BY <2>3, <2>4, <2>5, <2>6, Zenon
  <1>3. CASE CandidateSearch(w)
    <2>0. /\ stage[w] = "loaded" /\ TrustedIds[Subject(w)] = {}
          /\ stage' = [stage EXCEPT ![w] = "map"]
      BY <1>3, Zenon DEF CandidateSearch
    <2>1. ASSUME NEW c \in FirstCandidates(Subject(w)) PROVE c \in Reference
      <3>1. c \in IdentifierMatches(Subject(w)) \/ c \in SearchHits(Subject(w))
        BY <2>1 DEF FirstCandidates
      <3>2. CASE c \in SearchHits(Subject(w))
        BY <3>2 DEF SearchHits
      <3>3. CASE c \in IdentifierMatches(Subject(w))
        <4>1. PICK m \in imported : c = IF ActiveDet(decisions, m) = "DUPLICATE"
                                        THEN ActiveCanon(decisions, m) ELSE m
          BY <3>3 DEF IdentifierMatches, MatchesOf
        <4>2. decisions \in [Decision -> Row]
          BY Zenon DEF TypeOK
        <4>3. CASE ActiveDet(decisions, m) = "DUPLICATE"
          BY <4>1, <4>2, <4>3, DuplicateHasCanon, Zenon
        <4>4. CASE ActiveDet(decisions, m) # "DUPLICATE"
          BY <1>0, <4>1, <4>4, Zenon
        <4> QED BY <4>3, <4>4, Zenon
      <3> QED BY <3>1, <3>2, <3>3, Zenon
    <2>2. \/ /\ TestEnv
             /\ \E c \in FirstCandidates(Subject(w)) :
                   plan' = [plan EXCEPT ![w] = Proposal(w, "DUPLICATE", c)]
          \/ plan' = [plan EXCEPT ![w] = Proposal(w, "CANONICAL", NoRef)]
          \/ plan' = [plan EXCEPT ![w] = Proposal(w, "UNSEARCHABLE", NoRef)]
      BY <1>3, Zenon DEF CandidateSearch
    <2>3. ASSUME TestEnv, NEW c \in FirstCandidates(Subject(w)),
                 plan' = [plan EXCEPT ![w] = Proposal(w, "DUPLICATE", c)]
          PROVE  Goal("DUPLICATE", c)
      BY <1>1, <2>0, <2>1, <2>3
    <2>4. ASSUME NEW det \in {"CANONICAL", "UNSEARCHABLE"},
                 plan' = [plan EXCEPT ![w] = Proposal(w, det, NoRef)]
          PROVE  Goal(det, NoRef)
      BY <1>1, <2>0, <2>4
    <2> QED BY <2>2, <2>3, <2>4, Zenon
  <1> QED BY <1>2, <1>3, Zenon

\* After a write the plan stays as it was while the other matches are mapped.
LEMMA PlanKept ==
    ASSUME IInv, [Next]_vars, NEW w \in Process, stage'[w] \in {"guard", "side"}
    PROVE  stage[w] \in {"write", "guard", "side"} /\ plan'[w] = plan[w]
  <1> USE DEF IInv
  <1>1. CASE Still \/ \E r \in Reference : Arrive(r)
    <2>1. stage' = stage /\ plan' = plan
      BY <1>1, Zenon DEF Still, Arrive, txnVars
    <2> QED BY <2>1
  <1>2. ASSUME NEW v \in Process, v # w, Abort(v) \/ Act(v)
        PROVE  stage'[w] = stage[w] /\ plan'[w] = plan[w]
    BY <1>2, Released, ActsAlone, Zenon DEF Abort
  <1>3. ~Abort(w) /\ ~Commit(w)
    <2>1. stage'[w] # "idle"
      OBVIOUS
    <2> QED BY <2>1, Released, Zenon DEF Abort, Commit
  <1>4. CASE Act(w)
    <2>1. CASE GuardUndecided(w) \/ WriteDecision(w)
      BY <2>1, Zenon DEF GuardUndecided, WriteDecision
    <2>2. CASE ~(GuardUndecided(w) \/ WriteDecision(w))
      <3>1. stage'[w] \in {"loaded", "map", "write", "project", "commit"}
        BY <1>3, <1>4, <2>2, Zenon DEF Act, Deliver, Shortcut, CandidateSearch, MapProxied,
             AllMapped, MapDecision, Project, Manual, ManualDecision, TypeOK
      <3> QED BY <3>1
    <2> QED BY <2>1, <2>2, Zenon
  <1>5. CASE \E v \in Process : v # w /\ (Abort(v) \/ Act(v))
    <2>1. stage'[w] = stage[w] /\ plan'[w] = plan[w]
      BY <1>2, <1>5, Zenon
    <2> QED BY <2>1
  <1> QED BY <1>1, <1>3, <1>4, <1>5, Kinds, Zenon

\* Proposals stay terminal until they are decoupled.
LEMMA PlanTerminalStep ==
    ASSUME IInv, IInv', Ahead, TerminalInv, [Next]_vars
    PROVE  PlanTerminal'
  <1> USE DEF IInv, TerminalInv
  <1> SUFFICES ASSUME NEW w \in Process
               PROVE  /\ stage'[w] = "map" => Terminal(plan'[w].row)
                      /\ stage'[w] = "write" /\ plan'[w].row.active => Terminal(plan'[w].row)
                      /\ stage'[w] \in {"map", "write", "guard", "side"}
                            => plan'[w].row.ref \in Reference
    BY Zenon DEF PlanTerminal
  <1>1. Mapping(w)' => plan'[w].row.ref \in Reference
    BY Zenon DEF PlanMade, Mapping
  <1>2. ASSUME Mapping(w)'
        PROVE  /\ stage'[w] = "map" => Terminal(plan'[w].row)
               /\ stage'[w] = "write" /\ plan'[w].row.active => Terminal(plan'[w].row)
    <2>1. CASE stage'[w] = stage[w] /\ plan'[w] = plan[w]
      BY <2>1, Zenon DEF PlanTerminal
    <2>2. CASE MapDecision(w)
      <3>1. /\ stage[w] = "map" /\ stage'[w] = "write"
            /\ plan'[w] = [id |-> plan[w].id, row |-> Outcome(w)]
        BY <2>2, Zenon DEF MapDecision, TypeOK
      <3>2. Terminal(plan[w].row) /\ plan[w].row \in Row
        BY <3>1, Zenon DEF PlanTerminal, TypeOK, Plan
      <3>3. Outcome(w).active => /\ Outcome(w).det = plan[w].row.det
                                 /\ Outcome(w).canon = plan[w].row.canon
        BY <3>2 DEF Outcome, Row
      <3>4. plan'[w].row = Outcome(w)
        BY <3>1
      <3> QED BY <3>1, <3>2, <3>3, <3>4 DEF Terminal
    <2>3. CASE w \in Worker /\ (Shortcut(w) \/ CandidateSearch(w))
      <3>1. PICK det, canon :
              /\ plan'[w] = Proposal(w, det, canon)
              /\ \/ stage'[w] = "map" /\ det = "DUPLICATE" /\ canon \in Reference
                 \/ stage'[w] = "map" /\ det \in {"CANONICAL", "UNSEARCHABLE"} /\ canon = NoRef
                 \/ stage'[w] = "write" /\ det = "DECOUPLED"
        BY <2>3, OwnProposal, Zenon
      <3>2. plan'[w].row.det = det /\ plan'[w].row.canon = canon /\ ~plan'[w].row.active
        BY <3>1 DEF Proposal
      <3> QED BY <3>1, <3>2, ConstantsAssumption DEF Terminal
    <2>4. CASE MapProxied(w)
      <3>1. PICK c \in undecided[w] :
              plan' = [plan EXCEPT ![w] =
                        [id |-> FreshId,
                         row |-> [ref |-> c, det |-> "DUPLICATE",
                                  canon |-> TreeCanonical(w),
                                  auth |-> "SYSTEM", active |-> FALSE]]]
        BY <2>4, Zenon DEF MapProxied
      <3>2. plan'[w].row = [ref |-> c, det |-> "DUPLICATE", canon |-> TreeCanonical(w),
                            auth |-> "SYSTEM", active |-> FALSE]
        BY <3>1, SMT DEF TypeOK
      <3>3. stage[w] = "side" /\ plan[w].row.ref \in Reference
        BY <2>4, Zenon DEF MapProxied, PlanTerminal
      <3>4. TreeCanonical(w) # NoRef
        BY <3>3, ConstantsAssumption DEF TreeCanonical
      <3> QED BY <3>2, <3>4 DEF Terminal
    <2>5. CASE Manual(w)
      <3>1. PICK r \in imported, canon \in imported \cup {NoRef},
                 det \in {"CANONICAL", "DUPLICATE"} : ManualDecision(w, r, det, canon)
        BY <2>5, Zenon DEF Manual
      <3>2. /\ (canon # NoRef) <=> (det = "DUPLICATE")
            /\ plan' = [plan EXCEPT ![w] =
                   [id |-> FreshId,
                    row |-> [ref |-> r, det |-> det, canon |-> canon,
                             auth |-> "PERSON", active |-> FALSE]]]
        BY <3>1, Zenon DEF ManualDecision
      <3>3. plan'[w].row = [ref |-> r, det |-> det, canon |-> canon,
                            auth |-> "PERSON", active |-> FALSE]
        BY <3>2, SMT DEF TypeOK
      <3> QED BY <3>1, <3>2, <3>3 DEF Terminal
    <2> QED BY <1>2, <2>1, <2>2, <2>3, <2>4, <2>5, PlanOrigin, Zenon
  <1>3. ASSUME stage'[w] \in {"guard", "side"} PROVE plan'[w].row.ref \in Reference
    <2>1. stage[w] \in {"write", "guard", "side"} /\ plan'[w] = plan[w]
      BY <1>3, PlanKept, Zenon
    <2> QED BY <2>1, Zenon DEF PlanTerminal
  <1> QED BY <1>1, <1>2, <1>3 DEF Mapping

\* What a process has read goes on to hold in its transaction, where processes
\* take turns.
LEMMA ReadStep ==
    ASSUME IInv, IInv', RowsInv, TerminalInv, PlanRead, OneBusy, [Next]_vars
    PROVE  PlanRead'
  <1> USE DEF IInv, RowsInv
  <1> SUFFICES ASSUME NEW w \in Process, stage'[w] = "write", plan'[w].row.active
               PROVE  /\ old'[w] = ActiveDecision(View(w)', plan'[w].row.ref)
                      /\ plan'[w].row.det = "DUPLICATE" =>
                            /\ plan'[w].row.canon # plan'[w].row.ref
                            /\ IsCanonical(View(w)', plan'[w].row.canon)
                            /\ DuplicatesOf(View(w)', plan'[w].row.ref) = {}
    BY Zenon DEF PlanRead
  <1>0. View(w) \in [Decision -> Row] /\ View(w)' \in [Decision -> Row]
    BY ViewType, Zenon DEF TypeOK, View
  <1>1. CASE /\ stage'[w] = stage[w] /\ plan'[w] = plan[w] /\ old'[w] = old[w]
             /\ ~WriteDecision(w) /\ ~Release(w)
    <2>1. stage[w] # "idle" /\ stage[w] = "write"
      BY <1>1
    <2>2. SameActive(View(w), View(w)')
      BY <1>1, <2>1, ViewKept, Zenon
    <2>3. \A r : /\ ActiveDecision(View(w)', r) = ActiveDecision(View(w), r)
                 /\ IsCanonical(View(w)', r) <=> IsCanonical(View(w), r)
                 /\ DuplicatesOf(View(w)', r) = DuplicatesOf(View(w), r)
      BY <1>0, <2>2, SameReads
    <2> QED BY <1>1, <2>1, <2>3, Zenon DEF PlanRead
  <1>2. CASE MapDecision(w)
    <2>1. /\ stage[w] = "map" /\ ~NamesNonCanonical(w)
          /\ plan'[w] = [id |-> plan[w].id, row |-> Outcome(w)]
          /\ old'[w] = ActiveDecision(View(w), plan[w].row.ref)
          /\ UNCHANGED <<decisions, writes>>
      BY <1>2, Zenon DEF MapDecision, sqlVars, TypeOK
    <2>2. Terminal(plan[w].row) /\ plan[w].row \in Row
      BY <2>1, Zenon DEF TerminalInv, PlanTerminal, TypeOK, Plan
    <2>3. plan'[w].row = Outcome(w)
      BY <2>1
    <2>4. /\ ~Decouples(w) /\ Outcome(w).det = plan[w].row.det
          /\ Outcome(w).canon = plan[w].row.canon /\ Outcome(w).ref = plan[w].row.ref
      BY <2>2, <2>3 DEF Outcome, Row
    <2>5. View(w)' = View(w)
      BY <2>1, Zenon DEF View
    <2>6. plan[w].row.det = "DUPLICATE" =>
             /\ plan[w].row.canon # plan[w].row.ref
             /\ IsCanonical(View(w), plan[w].row.canon)
             /\ DuplicatesOf(View(w), plan[w].row.ref) = {}
      BY <2>1, <2>2, <2>4, Zenon DEF NamesNonCanonical, Decouples, WouldChain, Terminal
    <2> QED BY <2>1, <2>3, <2>4, <2>5, <2>6, Zenon
  <1>3. CASE w \in Worker /\ (Shortcut(w) \/ CandidateSearch(w))
    <2>1. PICK det, canon : plan'[w] = Proposal(w, det, canon)
      BY <1>3, OwnProposal, Zenon DEF TerminalInv
    <2> QED BY <2>1 DEF Proposal
  <1>4. CASE MapProxied(w) \/ Manual(w)
    <2>1. stage'[w] = "map"
      BY <1>4, Zenon DEF MapProxied, Manual, ManualDecision, TypeOK
    <2> QED BY <2>1
  <1>5. Mapping(w)'
    BY Zenon DEF Mapping
  <1> QED BY <1>1, <1>2, <1>3, <1>4, <1>5, PlanOrigin, Zenon

\* A write keeps the graph of the transaction's table a star.
LEMMA WriteStar ==
    ASSUME IInv, RowsInv, TaskPending, PlanRead, NEW w \in Process, WriteDecision(w),
           Star(View(w)), TerminalInv, View(w)' \in [Decision -> Row]
    PROVE  Star(View(w)')
  <1> USE DEF IInv, RowsInv
  <1>1. CASE ~plan[w].row.active
    <2>1. SameActive(View(w), View(w)')
      BY <1>1, WriteReads, Zenon
    <2> QED BY <2>1, SameGraph, ViewType, Zenon DEF TypeOK
  <1>2. CASE plan[w].row.active
    <2> DEFINE p == plan[w].row
               T == View(w)
               U == View(w)'
    <2>0. stage[w] = "write" /\ plan[w].id \in Decision
      BY Zenon DEF WriteDecision, PlanMade
    <2>1. /\ U[plan[w].id] = p
          /\ \A d \in Decision : U[d].active =>
                \/ d = plan[w].id
                \/ U[d] = T[d] /\ T[d].ref # p.ref
          /\ \A d \in Decision : T[d].active /\ T[d].ref # p.ref => U[d] = T[d]
      BY <1>2, WriteReads, Zenon
    <2>2. p.det = "DUPLICATE" => /\ p.canon # p.ref /\ IsCanonical(T, p.canon)
                                 /\ DuplicatesOf(T, p.ref) = {}
      BY <1>2, <2>0, Zenon DEF PlanRead
    <2>3. Terminal(p)
      BY <1>2, <2>0, Zenon DEF TerminalInv, PlanTerminal
    <2>4. T \in [Decision -> Row] /\ AtMostOne(T)
      BY ViewType, Zenon DEF TypeOK, ViewsHaveOne
    <2> SUFFICES ASSUME NEW d \in Decision, U[d].active, U[d].det = "DUPLICATE"
                 PROVE  \E e \in Decision : /\ U[e].active /\ U[e].ref = U[d].canon
                                            /\ U[e].det \in {"CANONICAL", "UNSEARCHABLE"}
      BY Zenon DEF Star
    <2>5. CASE d = plan[w].id
      <3>1. ActiveDet(T, p.canon) = "CANONICAL" /\ p.canon # p.ref /\ U[d] = p
        BY <2>1, <2>2, <2>5, Zenon DEF IsCanonical
      <3>2. PICK e \in Decision : T[e].active /\ T[e].ref = p.canon /\ T[e].det = "CANONICAL"
        BY <2>4, <3>1, ActiveRow
      <3>3. U[e] = T[e]
        BY <2>1, <3>1, <3>2, Zenon
      <3> QED BY <3>1, <3>2, <3>3, Zenon
    <2>6. CASE d # plan[w].id
      <3>1. U[d] = T[d] /\ T[d].ref # p.ref
        BY <2>1, <2>6, Zenon
      <3>2. PICK e \in Decision : /\ T[e].active /\ T[e].ref = T[d].canon
                                  /\ T[e].det \in {"CANONICAL", "UNSEARCHABLE"}
        BY <3>1, Zenon DEF Star
      <3>3. CASE T[e].ref # p.ref
        BY <2>1, <3>1, <3>2, <3>3, Zenon
      <3>4. CASE T[e].ref = p.ref
        <4>1. ActiveCanon(T, T[d].ref) = p.ref
          BY <2>4, <3>1, <3>2, <3>4, ActiveReads, Zenon
        <4>2. T[d].ref \in Reference
          <5>1. T[d] = decisions[d] \/ T[d] = writes[w][d]
            BY Zenon DEF View
          <5>2. T[d].det # "ABSENT"
            BY <3>1
          <5> QED BY <5>1, <5>2, Zenon DEF RowsSound, Sound
        <4>3. p.det # "DUPLICATE"
          BY <2>2, <4>1, <4>2 DEF DuplicatesOf
        <4>4. p.det \in {"CANONICAL", "UNSEARCHABLE"}
          BY <2>3, <4>3 DEF Terminal
        <4> QED BY <1>2, <2>0, <2>1, <3>1, <3>2, <3>4, <4>4, Zenon
      <3> QED BY <3>3, <3>4, Zenon
    <2> QED BY <2>5, <2>6, Zenon
  <1> QED BY <1>1, <1>2, Zenon

\* Every step keeps the graph a star, where processes take turns.
LEMMA StarStep ==
    ASSUME IInv, IInv', RowsInv, RowsInv', TaskPending, TerminalInv, StarInv, OneBusy,
           [Next]_vars
    PROVE  StarInv'
  <1> USE DEF IInv, RowsInv, StarInv
  <1>0. /\ decisions \in [Decision -> Row] /\ decisions' \in [Decision -> Row]
        /\ \A v \in Process : View(v) \in [Decision -> Row]
        /\ \A v \in Process : View(v)' \in [Decision -> Row]
    BY ViewType, Zenon DEF TypeOK, View
  <1>1. PlanRead'
    BY ReadStep, Zenon
  <1>2. Star(decisions')
    BY <1>0, Tables, SameGraph, Zenon
  <1>3. ASSUME NEW v \in Process PROVE Star(View(v)')
    <2>1. CASE SameActive(View(v), View(v)')
      BY <1>0, <2>1, SameGraph, Zenon
    <2>2. CASE View(v)' = decisions'
      BY <1>2, <2>2, Zenon
    <2>3. CASE WriteDecision(v)
      BY <1>0, <2>3, WriteStar, Zenon
    <2> QED BY <2>1, <2>2, <2>3, Tables, Zenon
  <1> QED BY <1>1, <1>2, <1>3, Zenon

\* Active decisions are terminal, whatever overlaps.
THEOREM TerminalInvariance == Spec => []TerminalInv
  <1>1. Init => TerminalInv
    <2>1. ASSUME Init PROVE TerminalInv
      <3>1. /\ ~NoRow.active
            /\ \A d \in Decision : decisions[d] = NoRow
            /\ \A w \in Process, d \in Decision : writes[w][d] = NoRow
            /\ \A w \in Process : stage[w] = "idle"
        BY <2>1, Zenon DEF Init, NoRow
      <3>2. PlanTerminal
        BY <3>1 DEF PlanTerminal
      <3> QED BY <3>1, <3>2, Zenon DEF TerminalInv, AllTerminal
    <2> QED BY <2>1, Zenon
  <1>2. IInv /\ IInv' /\ RowsInv /\ TerminalInv /\ [Next]_vars => TerminalInv'
    <2>1. ASSUME IInv, IInv', RowsInv, TerminalInv, [Next]_vars PROVE TerminalInv'
      BY <2>1, TerminalRows, PlanTerminalStep, Zenon DEF TerminalInv, RowsInv
    <2> QED BY <2>1, Zenon
  <1> QED BY <1>1, <1>2, Invariance, RowsInvariance, PTL DEF Spec

\* Processes that take turns run one task at a time.
LEMMA OneBusyOneTask == OneBusy => OneTask
  BY Zenon DEF OneBusy, OneTask, Process

\* Where processes take turns, the graph is a star, in every transaction.
THEOREM StarInvariance == Spec /\ []OneBusy => []StarInv
  <1>1. Init => StarInv
    <2>1. ASSUME Init PROVE StarInv
      <3>1. /\ ~NoRow.active
            /\ \A d \in Decision : decisions[d] = NoRow
            /\ \A w \in Process, d \in Decision : writes[w][d] = NoRow
            /\ \A w \in Process : stage[w] = "idle"
        BY <2>1, Zenon DEF Init, NoRow
      <3>2. PlanRead
        BY <3>1 DEF PlanRead
      <3>3. \A w \in Process, d \in Decision : View(w)[d] = NoRow
        BY <3>1, Zenon DEF View
      <3> QED BY <3>1, <3>2, <3>3, Zenon DEF StarInv, Star
    <2> QED BY <2>1, Zenon
  <1>2. IInv /\ IInv' /\ RowsInv /\ RowsInv' /\ TaskPending /\ TerminalInv /\ OneBusy
          /\ StarInv /\ [Next]_vars
        => StarInv'
    BY StarStep, Zenon
  <1> QED BY <1>1, <1>2, OneBusyOneTask, Invariance, RowsInvariance, PendingInvariance,
             TerminalInvariance, PTL DEF Spec

\* While the transactions of workers and request handlers do not overlap,
\* duplicates never point to other duplicates.
THEOREM SerialNoChaining == Spec /\ []OneBusy => []NoChaining
  <1>1. IInv /\ StarInv => NoChaining
    <2>1. ASSUME IInv, StarInv, NEW r \in Reference, ActiveDet(decisions, r) = "DUPLICATE"
          PROVE  ActiveDet(decisions, ActiveCanon(decisions, r))
                    \in {"CANONICAL", "UNSEARCHABLE"}
      <3>1. decisions \in [Decision -> Row] /\ AtMostOne(decisions)
        BY <2>1, Zenon DEF IInv, TypeOK, OneActiveDecision, AtMostOne
      <3>2. PICK d \in Decision : /\ decisions[d].active /\ decisions[d].det = "DUPLICATE"
                                  /\ ActiveCanon(decisions, r) = decisions[d].canon
        BY <2>1, <3>1, ActiveRow
      <3>3. PICK e \in Decision : /\ decisions[e].active
                                  /\ decisions[e].ref = decisions[d].canon
                                  /\ decisions[e].det \in {"CANONICAL", "UNSEARCHABLE"}
        BY <2>1, <3>2, Zenon DEF StarInv, Star
      <3>4. ActiveDet(decisions, decisions[e].ref) = decisions[e].det
        BY <3>1, <3>3, ActiveReads, Zenon
      <3> QED BY <3>2, <3>3, <3>4, Zenon
    <2> QED BY <2>1, Zenon DEF NoChaining
  <1> QED BY <1>1, Invariance, StarInvariance, PTL

-----------------------------------------------------------------------------
(* One tree per identifier *)

\* Rows, plans and collected matches are of stored references.
AllImported ==
    /\ \A d \in Decision : decisions[d].det # "ABSENT" => decisions[d].ref \in imported
    /\ \A w \in Process, d \in Decision :
          writes[w][d].det # "ABSENT" => writes[w][d].ref \in imported
    /\ \A w \in Process :
          stage[w] \in {"map", "write", "guard", "side"} => plan[w].row.ref \in imported
    /\ \A w \in Process : undecided[w] \subseteq imported

\* A canonical by the system's own decision.
SystemCanonical(row) == row.active /\ row.det = "CANONICAL" /\ row.auth = "SYSTEM"

Share(x, y) == TrustedIds[x] \cap TrustedIds[y] # {}

\* No two such canonicals of table T share a trusted identifier.
OneTree(T) ==
    \A d, e \in Decision :
        SystemCanonical(T[d]) /\ SystemCanonical(T[e]) /\ T[d].ref # T[e].ref
            => ~Share(T[d].ref, T[e].ref)

\* A worker that makes a reference canonical has seen no canonical match.
PlanAlone ==
    \A w \in Process : Mapping(w) /\ plan[w].row.det = "CANONICAL"
                           /\ plan[w].row.auth = "SYSTEM" =>
        \A d \in Decision :
            /\ View(w)[d].active /\ View(w)[d].det = "CANONICAL"
            /\ View(w)[d].ref # plan[w].row.ref
            => ~Share(plan[w].row.ref, View(w)[d].ref)

TreeInv ==
    /\ AllImported
    /\ PlanAlone
    /\ OneTree(decisions)
    /\ \A w \in Process : OneTree(View(w))

\* Everything a process works on is of a stored reference, and stays stored.
LEMMA ImportedRows ==
    ASSUME IInv, AllImported, [Next]_vars
    PROVE  /\ imported \subseteq imported'
           /\ \A d \in Decision :
                 decisions'[d].det # "ABSENT" => decisions'[d].ref \in imported'
           /\ \A w \in Process, d \in Decision :
                 writes'[w][d].det # "ABSENT" => writes'[w][d].ref \in imported'
  <1> USE DEF IInv
  <1> DEFINE Goal ==
           /\ imported \subseteq imported'
           /\ \A d \in Decision :
                 decisions'[d].det # "ABSENT" => decisions'[d].ref \in imported'
           /\ \A w \in Process, d \in Decision :
                 writes'[w][d].det # "ABSENT" => writes'[w][d].ref \in imported'
  <1>0. NoRow.det = "ABSENT"
    BY Zenon DEF NoRow
  <1>1. ASSUME UNCHANGED <<imported, decisions, writes>> PROVE Goal
    BY <1>1, Zenon DEF AllImported
  <1>2. ASSUME NEW r \in Reference, Arrive(r) PROVE Goal
    <2>1. writes' = writes /\ imported \subseteq imported' /\ r \in imported'
      BY <1>2 DEF Arrive, txnVars
    <2>2. \A d \in Decision : decisions'[d] = PendingRow(r) \/ decisions'[d] = decisions[d]
      BY <1>2, Zenon DEF Arrive, TypeOK
    <2>3. PendingRow(r).ref = r
      BY Zenon DEF PendingRow, NoRow
    <2> QED BY <2>1, <2>2, <2>3, Zenon DEF AllImported
  <1>3. ASSUME NEW w \in Process, Release(w), UNCHANGED imported,
               decisions' = decisions \/ decisions' = View(w)
        PROVE  Goal
    <2>1. \A v \in Process, d \in Decision :
             writes'[v][d] = NoRow \/ writes'[v][d] = writes[v][d]
      BY <1>3, Released, Zenon
    <2>2. \A d \in Decision : decisions'[d] = decisions[d] \/ decisions'[d] = writes[w][d]
      BY <1>3, Zenon DEF View
    <2> QED BY <1>0, <1>3, <2>1, <2>2, Zenon DEF AllImported
  <1>4. ASSUME NEW w \in Process, WriteDecision(w) PROVE Goal
    <2>1. /\ UNCHANGED <<imported, decisions>>
          /\ \A v \in Process : v # w => writes'[v] = writes[v]
      BY <1>4, Zenon DEF WriteDecision, sqlVars, TypeOK
    <2>2. ASSUME NEW d \in Decision, writes'[w][d].det # "ABSENT"
          PROVE  writes'[w][d].ref \in imported
      <3>1. CASE d = plan[w].id
        <4>1. writes'[w][d] = plan[w].row /\ stage[w] = "write"
          BY <1>4, <3>1, Written, Zenon DEF WriteDecision
        <4> QED BY <4>1 DEF AllImported
      <3>2. CASE d # plan[w].id /\ d \in Deactivated(w)
        <4>1. /\ writes'[w][d] = [View(w)[d] EXCEPT !.active = FALSE]
              /\ View(w)'[d] = [View(w)[d] EXCEPT !.active = FALSE]
              /\ View(w)'[d].ref = View(w)[d].ref
              /\ View(w)[d].det \notin {"ABSENT", "PENDING"}
          BY <1>4, <3>2, Written, Zenon
        <4>2. View(w)[d] = decisions[d] \/ View(w)[d] = writes[w][d]
          BY Zenon DEF View
        <4>3. View(w)[d].ref \in imported
          BY <4>1, <4>2 DEF AllImported
        <4> QED BY <4>1, <4>3, Zenon
      <3>3. CASE d # plan[w].id /\ d \notin Deactivated(w)
        <4>1. writes'[w][d] = writes[w][d]
          BY <1>4, <3>3, Written, Zenon
        <4> QED BY <2>2, <4>1, Zenon DEF AllImported
      <3> QED BY <3>1, <3>2, <3>3, Zenon
    <2> QED BY <2>1, <2>2, Zenon DEF AllImported
  <1>5. ASSUME NEW w \in Process, Act(w), ~WriteDecision(w), ~Commit(w) PROVE Goal
    BY <1>1, <1>5, ActsKeepRows, Zenon
  <1>6. CASE Still
    BY <1>1, <1>6, Zenon DEF Still, sqlVars, txnVars
  <1>7. ASSUME NEW w \in Process, Abort(w) \/ Commit(w) PROVE Goal
    <2>1. /\ Release(w) /\ UNCHANGED imported
          /\ decisions' = decisions \/ decisions' = View(w)
      BY <1>7, Zenon DEF Abort, Commit, sqlVars
    <2> QED BY <1>3, <2>1, Zenon
  <1> QED BY <1>2, <1>4, <1>5, <1>6, <1>7, Kinds, Zenon

\* The matches still to be mapped: collected by the shortcut, and fewer since.
LEMMA UndecidedMoves ==
    ASSUME IInv, [Next]_vars, NEW w \in Process
    PROVE  \/ undecided'[w] \subseteq undecided[w]
           \/ /\ w \in Worker /\ Shortcut(w)
              /\ undecided'[w] \subseteq MatchesOf(Subject(w), TrustedIds)
              /\ UNCHANGED imported
  <1> USE DEF IInv
  <1> DEFINE Fewer == undecided'[w] \subseteq undecided[w]
  <1>1. ASSUME undecided'[w] = undecided[w] PROVE Fewer
    BY <1>1
  <1>2. CASE Still \/ \E r \in Reference : Arrive(r)
    BY <1>1, <1>2, Zenon DEF Still, Arrive, txnVars
  <1>3. ASSUME NEW v \in Process, Release(v) PROVE Fewer
    <2>1. undecided'[w] = {} \/ undecided'[w] = undecided[w]
      BY <1>3, Released, Zenon
    <2> QED BY <2>1
  <1>4. ASSUME NEW v \in Process, Act(v), v # w PROVE Fewer
    BY <1>1, <1>4, ActsAlone, Zenon
  <1>5. CASE GuardUndecided(w) \/ MapProxied(w)
    <2>1. CASE GuardUndecided(w)
      <3>1. undecided'[w] = {c \in undecided[w] : IsUndecided(View(w), c)}
        BY <2>1, Zenon DEF GuardUndecided, TypeOK
      <3> QED BY <3>1, Zenon
    <2>2. CASE MapProxied(w)
      <3>1. PICK c \in undecided[w] : undecided' = [undecided EXCEPT ![w] = @ \ {c}]
        BY <2>2, Zenon DEF MapProxied
      <3>2. undecided'[w] = undecided[w] \ {c}
        BY <3>1, Zenon DEF TypeOK
      <3> QED BY <3>2, Zenon
    <2> QED BY <1>5, <2>1, <2>2, Zenon
  <1>6. CASE w \in Worker /\ Shortcut(w)
    <2>1. /\ undecided'[w] = {c \in MatchesOf(Subject(w), TrustedIds) :
                                 IsUndecided(decisions, c)}
          /\ UNCHANGED imported
      BY <1>6, Zenon DEF Shortcut, TypeOK, sqlVars
    <2> QED BY <1>6, <2>1, Zenon
  <1>7. CASE \/ \E t \in queue : Deliver(w, t)
             \/ CandidateSearch(w) \/ AllMapped(w) \/ MapDecision(w) \/ WriteDecision(w)
             \/ Project(w) \/ Manual(w)
    <2>1. undecided' = undecided
      BY <1>7, Zenon DEF Deliver, CandidateSearch, AllMapped, MapDecision, WriteDecision,
           Project, Manual, ManualDecision, txnVars
    <2> QED BY <1>1, <2>1, Zenon
  <1>8. CASE Act(w)
    BY <1>3, <1>5, <1>6, <1>7, <1>8, Zenon DEF Act, Commit
  <1>9. CASE \E v \in Process : Abort(v) \/ Act(v)
    BY <1>3, <1>4, <1>8, <1>9, Zenon DEF Abort
  <1> QED BY <1>2, <1>9, Kinds, Zenon

\* The reference of a plan: as it was, the task's subject, a collected match or
\* the reference of a manual decision.
LEMMA PlanRefs ==
    ASSUME IInv, Ahead, AllTerminal(decisions), [Next]_vars, NEW w \in Process, Mapping(w)'
    PROVE  \/ Mapping(w) /\ plan'[w].row.ref = plan[w].row.ref
           \/ /\ w \in Worker /\ stage[w] # "idle" /\ plan'[w].row.ref = Subject(w)
           \/ plan'[w].row.ref \in undecided[w]
           \/ plan'[w].row.ref \in imported
  <1> USE DEF IInv
  <1>1. CASE plan'[w] = plan[w] /\ Mapping(w)
    BY <1>1, Zenon
  <1>2. CASE MapDecision(w)
    <2>1. plan'[w] = [id |-> plan[w].id, row |-> Outcome(w)] /\ Mapping(w)
      BY <1>2, Zenon DEF MapDecision, Mapping, TypeOK
    <2>2. plan[w].row \in Row
      BY Zenon DEF TypeOK, Plan
    <2>3. Outcome(w).ref = plan[w].row.ref
      BY <2>2, Zenon DEF Outcome, Row
    <2> QED BY <2>1, <2>3
  <1>3. CASE w \in Worker /\ (Shortcut(w) \/ CandidateSearch(w))
    <2>1. PICK det, canon : plan'[w] = Proposal(w, det, canon)
      BY <1>3, OwnProposal
    <2>2. stage[w] # "idle"
      BY <1>3 DEF Shortcut, CandidateSearch
    <2>3. plan'[w].row.ref = Subject(w)
      BY <2>1 DEF Proposal
    <2> QED BY <1>3, <2>2, <2>3, Zenon
  <1>4. CASE MapProxied(w)
    <2>1. PICK c \in undecided[w] :
            plan' = [plan EXCEPT ![w] =
                      [id |-> FreshId,
                       row |-> [ref |-> c, det |-> "DUPLICATE",
                                canon |-> TreeCanonical(w),
                                auth |-> "SYSTEM", active |-> FALSE]]]
      BY <1>4, Zenon DEF MapProxied
    <2>2. plan'[w].row.ref = c
      BY <2>1, SMT DEF TypeOK
    <2> QED BY <2>2, Zenon
  <1>5. CASE Manual(w)
    <2>1. PICK r \in imported : \E canon, det :
             plan' = [plan EXCEPT ![w] =
                 [id |-> FreshId,
                  row |-> [ref |-> r, det |-> det, canon |-> canon,
                           auth |-> "PERSON", active |-> FALSE]]]
      BY <1>5, Zenon DEF Manual, ManualDecision
    <2>2. plan'[w].row.ref = r
      BY <2>1, SMT DEF TypeOK
    <2> QED BY <2>2, Zenon
  <1> QED BY <1>1, <1>2, <1>3, <1>4, <1>5, PlanOrigin, Zenon

\* Everything goes on to be of stored references.
LEMMA ImportedStep ==
    ASSUME IInv, Ahead, AllTerminal(decisions), AllImported, [Next]_vars
    PROVE  AllImported'
  <1> USE DEF IInv
  <1>1. /\ imported \subseteq imported'
        /\ \A d \in Decision :
              decisions'[d].det # "ABSENT" => decisions'[d].ref \in imported'
        /\ \A w \in Process, d \in Decision :
              writes'[w][d].det # "ABSENT" => writes'[w][d].ref \in imported'
    BY ImportedRows, Zenon
  <1>2. ASSUME NEW w \in Process PROVE undecided'[w] \subseteq imported'
    <2>1. undecided[w] \subseteq imported
      BY Zenon DEF AllImported
    <2>2. MatchesOf(Subject(w), TrustedIds) \subseteq imported
      BY DEF MatchesOf
    <2> QED BY <1>1, <2>1, <2>2, UndecidedMoves, Zenon
  <1>3. ASSUME NEW w \in Worker, stage[w] # "idle" PROVE Subject(w) \in imported
    <2>1. task[w] \in Task /\ w \in Process
      BY <1>3, Zenon DEF TaskHeld, Process
    <2>2. task[w].decision \in Decision
      BY <2>1, Zenon DEF Task
    <2>3. decisions[task[w].decision].det # "ABSENT"
      BY <2>1, Zenon DEF TasksStored
    <2> QED BY <2>2, <2>3, Zenon DEF AllImported, Subject
  <1>4. ASSUME NEW w \in Process, Mapping(w) PROVE plan[w].row.ref \in imported
    BY <1>4 DEF AllImported, Mapping
  <1>5. ASSUME NEW w \in Process, Mapping(w)' PROVE plan'[w].row.ref \in imported'
    <2>1. undecided[w] \subseteq imported
      BY Zenon DEF AllImported
    <2>2. \/ Mapping(w) /\ plan'[w].row.ref = plan[w].row.ref
          \/ /\ w \in Worker /\ stage[w] # "idle" /\ plan'[w].row.ref = Subject(w)
          \/ plan'[w].row.ref \in undecided[w]
          \/ plan'[w].row.ref \in imported
      BY <1>5, PlanRefs, Zenon
    <2> QED BY <1>1, <1>3, <1>4, <2>1, <2>2, Zenon
  <1>6. ASSUME NEW w \in Process, stage'[w] \in {"guard", "side"}
        PROVE  plan'[w].row.ref \in imported'
    <2>1. stage[w] \in {"write", "guard", "side"} /\ plan'[w] = plan[w]
      BY <1>6, PlanKept, Zenon
    <2>2. plan[w].row.ref \in imported
      BY <2>1 DEF AllImported
    <2> QED BY <1>1, <2>1, <2>2, Zenon
  <1>7. ASSUME NEW w \in Process, stage'[w] \in {"map", "write", "guard", "side"}
        PROVE  plan'[w].row.ref \in imported'
    BY <1>5, <1>6, <1>7 DEF Mapping
  <1> QED BY <1>1, <1>2, <1>7, Zenon DEF AllImported

\* A plan made to map a proxied decision makes a duplicate.
LEMMA ProxyPlanned ==
    ASSUME NEW w \in Process, plan \in [Process -> Plan], NEW d, NEW r, NEW c,
           plan' = [plan EXCEPT ![w] =
                     [id |-> d,
                      row |-> [ref |-> r, det |-> "DUPLICATE", canon |-> c,
                               auth |-> "SYSTEM", active |-> FALSE]]]
    PROVE  plan'[w].row.det = "DUPLICATE"
  OBVIOUS

\* A plan made for the manual endpoint is a person's.
LEMMA PersonPlanned ==
    ASSUME NEW w \in Process, plan \in [Process -> Plan], NEW d, NEW r, NEW det,
           NEW c,
           plan' = [plan EXCEPT ![w] =
                     [id |-> d,
                      row |-> [ref |-> r, det |-> det, canon |-> c,
                               auth |-> "PERSON", active |-> FALSE]]]
    PROVE  plan'[w].row.auth = "PERSON"
  OBVIOUS

\* Who makes a reference canonical goes on to see no canonical match of it.
LEMMA AloneStep ==
    ASSUME IInv, IInv', RowsInv, TerminalInv, AllImported, PlanAlone, OneBusy, [Next]_vars
    PROVE  PlanAlone'
  <1> USE DEF IInv, RowsInv
  <1> SUFFICES ASSUME NEW w \in Process, Mapping(w)', plan'[w].row.det = "CANONICAL",
                      plan'[w].row.auth = "SYSTEM", NEW d \in Decision,
                      View(w)'[d].active, View(w)'[d].det = "CANONICAL",
                      View(w)'[d].ref # plan'[w].row.ref
               PROVE  ~Share(plan'[w].row.ref, View(w)'[d].ref)
    BY Zenon DEF PlanAlone
  <1>1. CASE /\ plan'[w] = plan[w] /\ Mapping(w) /\ ~WriteDecision(w) /\ ~Release(w)
    <2>1. stage[w] # "idle"
      BY <1>1 DEF Mapping
    <2>2. SameActive(View(w), View(w)')
      BY <1>1, <2>1, ViewKept, Zenon
    <2>3. View(w)'[d] = View(w)[d]
      BY <2>2, Zenon DEF SameActive
    <2> QED BY <1>1, <2>3, Zenon DEF PlanAlone
  <1>2. CASE MapDecision(w)
    <2>1. /\ stage[w] = "map"
          /\ plan'[w] = [id |-> plan[w].id, row |-> Outcome(w)]
          /\ UNCHANGED <<decisions, writes>>
      BY <1>2, Zenon DEF MapDecision, sqlVars, TypeOK
    <2>2. plan[w].row \in Row
      BY Zenon DEF TypeOK, Plan
    <2>3. plan'[w].row = Outcome(w)
      BY <2>1
    <2>4. /\ plan[w].row.det = "CANONICAL" /\ plan[w].row.auth = "SYSTEM"
          /\ plan'[w].row.ref = plan[w].row.ref
      BY <2>2, <2>3 DEF Outcome, Row
    <2>5. View(w)' = View(w) /\ Mapping(w)
      BY <2>1, Zenon DEF View, Mapping
    <2> QED BY <2>4, <2>5, Zenon DEF PlanAlone
  <1>3. CASE w \in Worker /\ (Shortcut(w) \/ CandidateSearch(w))
    <2>1. PICK det, canon :
            /\ plan'[w] = Proposal(w, det, canon)
            /\ det = "CANONICAL" =>
                  \/ TrustedIds[Subject(w)] = {}
                  \/ CanonicalIds(MatchesOf(Subject(w), TrustedIds)) = {}
      BY <1>3, OwnProposal DEF TerminalInv
    <2>2. plan'[w].row.ref = Subject(w) /\ det = "CANONICAL"
      BY <2>1 DEF Proposal
    <2>3. stage[w] = "loaded" /\ UNCHANGED <<decisions, writes>>
      BY <1>3, Zenon DEF Shortcut, CandidateSearch, sqlVars
    <2>4. View(w)' = decisions
      <3>1. \A e \in Decision : writes[w][e].det = "ABSENT"
        BY <2>3 DEF Quiet
      <3>2. View(w) = decisions
        BY <3>1, QuietView, Zenon
      <3> QED BY <2>3, <3>2, Zenon DEF View
    <2>5. CASE TrustedIds[Subject(w)] = {}
      BY <2>2, <2>5 DEF Share
    <2>6. CASE CanonicalIds(MatchesOf(Subject(w), TrustedIds)) = {}
      <3> DEFINE c == decisions[d].ref
      <3>1. decisions[d].active /\ decisions[d].det = "CANONICAL" /\ c # Subject(w)
        BY <2>2, <2>4, Zenon
      <3>2. c \in imported
        BY <3>1 DEF AllImported
      <3>3. IsCanonical(decisions, c)
        <4>1. decisions \in [Decision -> Row] /\ AtMostOne(decisions)
          BY Zenon DEF TypeOK, OneActiveDecision, AtMostOne
        <4> QED BY <3>1, <4>1, ActiveReads, Zenon DEF IsCanonical
      <3>4. c \notin MatchesOf(Subject(w), TrustedIds)
        BY <2>6, <3>3, Zenon DEF CanonicalIds
      <3>5. TrustedIds[c] \cap TrustedIds[Subject(w)] = {}
        BY <3>1, <3>2, <3>4, Zenon DEF MatchesOf
      <3> QED BY <2>2, <2>4, <3>5 DEF Share
    <2> QED BY <2>1, <2>2, <2>5, <2>6, Zenon
  <1>4. CASE MapProxied(w)
    <2>1. PICK c \in undecided[w] :
            plan' = [plan EXCEPT ![w] =
                      [id |-> FreshId,
                       row |-> [ref |-> c, det |-> "DUPLICATE",
                                canon |-> TreeCanonical(w),
                                auth |-> "SYSTEM", active |-> FALSE]]]
      BY <1>4, Zenon DEF MapProxied
    <2>2. plan'[w].row.det = "DUPLICATE"
      BY <2>1, ProxyPlanned, Zenon DEF TypeOK
    <2> QED BY <2>2
  <1>5. CASE Manual(w)
    <2>1. PICK r \in imported, canon \in imported \cup {NoRef},
               det \in {"CANONICAL", "DUPLICATE"} : ManualDecision(w, r, det, canon)
      BY <1>5, Zenon DEF Manual
    <2>2. plan' = [plan EXCEPT ![w] =
                 [id |-> FreshId,
                  row |-> [ref |-> r, det |-> det, canon |-> canon,
                           auth |-> "PERSON", active |-> FALSE]]]
      BY <2>1, Zenon DEF ManualDecision
    <2>3. plan'[w].row.auth = "PERSON"
      BY <2>2, PersonPlanned, Zenon DEF TypeOK
    <2> QED BY <2>3
  <1> QED BY <1>1, <1>2, <1>3, <1>4, <1>5, PlanOrigin, Zenon

\* Tables with the same active rows have the same trees.
LEMMA SameTrees ==
    ASSUME NEW T, NEW U, SameActive(T, U), OneTree(T)
    PROVE  OneTree(U)
  BY Zenon DEF SameActive, OneTree, SystemCanonical

\* A write keeps the trees of the transaction's table apart.
LEMMA WriteTree ==
    ASSUME IInv, RowsInv, TaskPending, PlanRead, PlanAlone, NEW w \in Process,
           WriteDecision(w), OneTree(View(w))
    PROVE  OneTree(View(w)')
  <1>1. CASE ~plan[w].row.active
    BY <1>1, WriteReads, SameTrees, Zenon
  <1>2. CASE plan[w].row.active
    <2> DEFINE p == plan[w].row
               T == View(w)
               U == View(w)'
    <2>1. /\ U[plan[w].id] = p
          /\ \A d \in Decision : U[d].active =>
                d = plan[w].id \/ U[d] = T[d]
      BY <1>2, WriteReads, Zenon
    <2>2. Mapping(w)
      BY DEF WriteDecision, Mapping
    <2>3. ASSUME NEW d \in Decision, SystemCanonical(p), U[d] = T[d], SystemCanonical(U[d]),
                 U[d].ref # p.ref
          PROVE  ~Share(p.ref, U[d].ref) /\ ~Share(U[d].ref, p.ref)
      <3>1. ~Share(p.ref, U[d].ref)
        BY <2>2, <2>3, Zenon DEF PlanAlone, SystemCanonical
      <3>2. Share(U[d].ref, p.ref) => Share(p.ref, U[d].ref)
        BY Zenon DEF Share
      <3> QED BY <3>1, <3>2, Zenon
    <2> SUFFICES ASSUME NEW d \in Decision, NEW e \in Decision, SystemCanonical(U[d]),
                        SystemCanonical(U[e]), U[d].ref # U[e].ref
                 PROVE  ~Share(U[d].ref, U[e].ref)
      BY Zenon DEF OneTree
    <2>4. (d = plan[w].id \/ U[d] = T[d]) /\ (e = plan[w].id \/ U[e] = T[e])
      BY <2>1, Zenon DEF SystemCanonical
    <2>5. CASE d = plan[w].id /\ e = plan[w].id
      BY <2>5, Zenon
    <2>6. CASE U[d] = T[d] /\ U[e] = T[e]
      BY <2>6, Zenon DEF OneTree
    <2>7. CASE d = plan[w].id /\ U[e] = T[e]
      BY <2>1, <2>3, <2>7, Zenon
    <2>8. CASE U[d] = T[d] /\ e = plan[w].id
      BY <2>1, <2>3, <2>8, Zenon
    <2> QED BY <2>4, <2>5, <2>6, <2>7, <2>8, Zenon
  <1> QED BY <1>1, <1>2, Zenon

\* Every step keeps the trees apart, where processes take turns.
LEMMA TreeStep ==
    ASSUME IInv, IInv', RowsInv, RowsInv', TaskPending, TerminalInv, PlanRead, TreeInv,
           OneBusy, [Next]_vars
    PROVE  TreeInv'
  <1> USE DEF RowsInv, TreeInv
  <1>1. AllImported'
    BY ImportedStep, Zenon DEF TerminalInv
  <1>2. PlanAlone'
    BY AloneStep, Zenon
  <1>3. OneTree(decisions')
    BY Tables, SameTrees, Zenon
  <1>4. ASSUME NEW v \in Process PROVE OneTree(View(v)')
    <2>1. CASE SameActive(View(v), View(v)')
      BY <2>1, SameTrees, Zenon
    <2>2. CASE View(v)' = decisions'
      BY <1>3, <2>2, Zenon
    <2>3. CASE WriteDecision(v)
      BY <2>3, WriteTree, Zenon
    <2> QED BY <2>1, <2>2, <2>3, Tables, Zenon
  <1> QED BY <1>1, <1>2, <1>3, <1>4, Zenon

\* Where processes take turns, canonicals by the system share no identifier.
THEOREM TreeInvariance == Spec /\ []OneBusy => []TreeInv
  <1>1. Init => TreeInv
    <2>1. ASSUME Init PROVE TreeInv
      <3>1. /\ ~NoRow.active /\ NoRow.det = "ABSENT"
            /\ \A d \in Decision : decisions[d] = NoRow
            /\ \A w \in Process, d \in Decision : writes[w][d] = NoRow
            /\ \A w \in Process : stage[w] = "idle" /\ undecided[w] = {}
        BY <2>1, Zenon DEF Init, NoRow
      <3>2. AllImported
        <4>1. \A w \in Process : stage[w] \notin {"map", "write", "guard", "side"}
          BY <3>1
        <4>2. \A w \in Process : undecided[w] \subseteq imported
          BY <3>1
        <4> QED BY <3>1, <4>1, <4>2, Zenon DEF AllImported
      <3>3. PlanAlone
        BY <3>1 DEF PlanAlone, Mapping
      <3>4. \A w \in Process, d \in Decision : View(w)[d] = NoRow
        BY <3>1, Zenon DEF View
      <3> QED BY <3>1, <3>2, <3>3, <3>4, Zenon DEF TreeInv, OneTree, SystemCanonical
    <2> QED BY <2>1, Zenon
  <1>2. IInv /\ IInv' /\ RowsInv /\ RowsInv' /\ TaskPending /\ TerminalInv /\ StarInv
          /\ TreeInv /\ OneBusy /\ [Next]_vars
        => TreeInv'
    BY TreeStep, Zenon DEF StarInv
  <1> QED BY <1>1, <1>2, OneBusyOneTask, Invariance, RowsInvariance, PendingInvariance,
             TerminalInvariance, StarInvariance, PTL DEF Spec

\* While the transactions of workers and request handlers do not overlap, two
\* references that the system itself made canonical never share a trusted
\* identifier: the shortcut puts every match in the tree it finds.
THEOREM SerialOneTree == Spec /\ []OneBusy => []OneTreePerIdentifier
  <1>1. IInv /\ TreeInv => OneTreePerIdentifier
    <2>1. ASSUME IInv, TreeInv, NEW x \in Reference, NEW y \in Reference, x # y,
                 IsCanonical(decisions, x), IsCanonical(decisions, y),
                 decisions[ActiveDecision(decisions, x)].auth = "SYSTEM",
                 decisions[ActiveDecision(decisions, y)].auth = "SYSTEM"
          PROVE  TrustedIds[x] \cap TrustedIds[y] = {}
      <3>1. decisions \in [Decision -> Row]
        BY <2>1, Zenon DEF IInv, TypeOK
      <3>2. ASSUME NEW r, IsCanonical(decisions, r),
                   decisions[ActiveDecision(decisions, r)].auth = "SYSTEM"
            PROVE  \E d \in Decision : SystemCanonical(decisions[d]) /\ decisions[d].ref = r
        <4>1. ActiveDet(decisions, r) = "CANONICAL" /\ ActiveDet(decisions, r) # "ABSENT"
          BY <3>2 DEF IsCanonical
        <4>2. PICK d \in Decision : /\ decisions[d].active /\ decisions[d].ref = r
                                    /\ ActiveDecision(decisions, r) = d
                                    /\ ActiveDet(decisions, r) = decisions[d].det
          BY <3>1, <4>1, ActiveRow
        <4> QED BY <3>2, <4>1, <4>2, Zenon DEF SystemCanonical
      <3>3. PICK d \in Decision : SystemCanonical(decisions[d]) /\ decisions[d].ref = x
        BY <2>1, <3>2, Zenon
      <3>4. PICK e \in Decision : SystemCanonical(decisions[e]) /\ decisions[e].ref = y
        BY <2>1, <3>2, Zenon
      <3>5. ~Share(x, y)
        BY <2>1, <3>3, <3>4, Zenon DEF TreeInv, OneTree
      <3> QED BY <3>5, Zenon DEF Share
    <2> QED BY <2>1, Zenon DEF OneTreePerIdentifier
  <1> QED BY <1>1, Invariance, TreeInvariance, PTL

=============================================================================
