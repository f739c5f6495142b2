---------------------------- MODULE Automations -----------------------------
(***************************************************************************)
(* Robot automations: queries registered with the repository and stored in *)
(* a percolator index, matched against every change of a reference to ask  *)
(* robots for enhancements of it, whose answers are changes again.         *)
(*                                                                         *)
(* A change is an active duplicate decision or an imported batch of        *)
(* answers.  A query is abstracted to the kinds of enhancement it wants in *)
(* the changeset and in the reference, and whether it wants the reference  *)
(* to be canonical.  Leases, retries and statuses of the rows asked for    *)
(* are PendingEnhancements'.                                               *)
(***************************************************************************)
EXTENDS Naturals, FiniteSetsExt, Sequences, SequencesExt

CONSTANTS
    Reference, Robot, Automation,
    Makes,          \* [Robot -> the kind of enhancement it makes]
    Version,        \* the answers a robot may give that differ in content
    Criteria,       \* the automations that may be registered
    Registrations,  \* those there may be at first: [Automation -> row]
    Malformed,      \* the criteria the index does not take
    Imported,       \* [Reference -> the enhancements it is imported with]
    NoReference,
    ChunkSize,      \* default_es_percolation_chunk_size
    MaxHits,        \* hits of a search that states no size
    BatchSize,      \* bound on the answers of a batch
    MaxDecisions,   \* bound on duplicate decisions
    MaxAnswers,     \* bound on batches of answers
    MaxEdits,       \* bound on registrations and updates
    MaxRepairs,     \* bound on repairs of the percolator index
    MaxEvents       \* bound on all of these together

AutomationsAssumption ==
    /\ NoReference \notin Reference
    /\ ChunkSize \in Nat \ {0} /\ BatchSize \in Nat \ {0}
    /\ Cardinality(Automation) <= MaxHits
    /\ Malformed \subseteq Criteria

VARIABLES
    rows,       \* the robot_automation table
    docs,       \* the percolator index
    seen,       \* the index as searches see it
    edit,       \* the transaction that adds or updates an automation
    repair,     \* the repair of the percolator index
    touched,    \* automations edited since the beginning
    canon,      \* [reference -> the canonical of its active decision]
    enh,        \* [reference -> its enhancements]
    asked,      \* [robot, reference, change -> rows created]
    unanswered, \* those not answered yet
    batch,      \* the batch whose answers are being automated
    decisions, answers, edits, repairs

tableVars == <<rows, docs, seen, edit, repair, touched, edits, repairs>>
workVars == <<canon, enh, asked, unanswered, batch, decisions, answers>>
vars == <<tableVars, workVars>>

-----------------------------------------------------------------------------
(* Data *)

\* RobotAutomation.
Criterion(robot, wants, has, canonical) ==
    [robot |-> robot, wants |-> wants, has |-> has, canonical |-> canonical]
NoRow == Criterion("none", {}, {}, FALSE)

Enhancement(kind, by, v) == [kind |-> kind, by |-> by, version |-> v]

\* EXCLUDED_ENHANCEMENT_TYPES, which ReferenceDomainMixin leaves out.
Excluded == {"raw", "reference_association", "linked_data"}
Kinds(E) == {e.kind : e \in E} \ Excluded

Idle == [at |-> "idle"]

\* Changes are numbered: a decision changes at most two references' views.
Change == 1..(2 * MaxDecisions + MaxAnswers)
Ask == [robot : Robot, ref : Reference, change : Change]
Changes == 2 * decisions + answers

Bounded == decisions + answers + edits + repairs < MaxEvents

Init ==
    /\ rows \in Registrations
    /\ docs = rows /\ seen = rows
    /\ edit = Idle /\ repair = Idle /\ touched = {}
    /\ canon = [r \in Reference |-> NoReference]
    /\ enh = [r \in Reference |-> {}]
    /\ asked = [k \in Ask |-> 0]
    /\ unanswered = {}
    /\ batch = Idle
    /\ decisions = 0 /\ answers = 0 /\ edits = 0 /\ repairs = 0

-----------------------------------------------------------------------------
(* Percolation *)

\* DeduplicatedReferenceProjection: with the enhancements of its duplicates.
View(r, under, held) ==
    UNION {held[s] : s \in {x \in Reference : x = r \/ under[x] = r}}

\* ReferenceWithChangeset.
Document(r, under, held, changeset) ==
    [ref |-> r, view |-> Kinds(View(r, under, held)), changeset |-> Kinds(changeset),
     canonical |-> under[r] = r]

\* A percolator query of the index against one document.
Hit(c, d) ==
    /\ c # NoRow
    /\ c.wants \cap d.changeset # {}
    /\ c.has \subseteq d.view
    /\ c.canonical => d.canonical

\* percolate: a result for each automation found, with the references of the
\* documents in its slots.
Percolated(D) ==
    LET hits == {a \in Automation : \E d \in D : Hit(seen[a], d)}
    IN  {[automation |-> a, robot |-> seen[a].robot,
          refs |-> {d.ref : d \in {x \in D : Hit(seen[a], x)}}] : a \in hits}

\* Results are merged by robot before rows are created.
CopiesUnmerged(R, robot, r) == Cardinality({x \in R : x.robot = robot /\ r \in x.refs})
Copies(R, robot, r) == IF \E x \in R : x.robot = robot /\ r \in x.refs THEN 1 ELSE 0

\* _create_pending_enhancements of the results of numbered changes.
Create(S) ==
    LET created(k) == MapThenSumSet(LAMBDA s : Copies(s.results, k.robot, k.ref),
                                    {s \in S : s.change = k.change})
    IN  /\ asked' = [k \in Ask |-> asked[k] + created(k)]
        /\ unanswered' = unanswered \cup {k \in Ask : created(k) > 0}

-----------------------------------------------------------------------------
(* Duplicate decisions *)

\* _get_canonical_reference_with_implied_changeset: the reference itself as a
\* change of its canonical.
Implied(r, under, held) == Document(under[r], under, held, held[r])

\* A decision becomes active, its reference imported or decided before: its
\* side effects, and those of the canonical it leaves (make_duplicate_decisions).
Decide(r, c) ==
    LET under == [canon EXCEPT ![r] = c]
        held == IF canon[r] = NoReference THEN [enh EXCEPT ![r] = Imported[r]] ELSE enh
        left == IF canon[r] \in Reference \ {r} THEN {canon[r]} ELSE {}
    IN  /\ Bounded /\ decisions < MaxDecisions
        /\ canon[r] # c
        /\ c = r \/ canon[c] = c
        /\ decisions' = decisions + 1
        /\ canon' = under
        /\ enh' = held
        /\ Create({[change |-> Changes + 1,
                    results |-> Percolated({Implied(r, under, held)})]}
                  \cup {[change |-> Changes + 2,
                         results |-> Percolated({Implied(s, under, held)})] : s \in left})
        /\ UNCHANGED <<tableVars, batch, answers>>

-----------------------------------------------------------------------------
(* Answers of robots *)

\* validate_and_import_robot_enhancement_batch_result: an answer its reference
\* already has is discarded; the others are committed.
ImportBatch(robot) ==
    /\ batch = Idle
    /\ Bounded /\ answers < MaxAnswers
    /\ \E S \in SUBSET {k \in unanswered : k.robot = robot} :
          /\ Cardinality(S) \in 1..BatchSize
          /\ \A k, l \in S : k.ref = l.ref => k = l
          /\ \E v \in [{k.ref : k \in S} -> Version] :
                LET answer(r) == Enhancement(Makes[robot], robot, v[r])
                    new == {r \in DOMAIN v : answer(r) \notin enh[r]}
                IN  /\ enh' = [r \in Reference |->
                                  IF r \in new THEN enh[r] \cup {answer(r)} ELSE enh[r]]
                    /\ batch' = [at |-> "percolate", robot |-> robot, found |-> {},
                                 change |-> Changes + 1,
                                 todo |-> SetToSeq({[ref |-> r, enh |-> answer(r)] :
                                                    r \in new})]
          /\ unanswered' = unanswered \ S
    /\ answers' = answers + 1
    /\ UNCHANGED <<tableVars, canon, asked, decisions>>

\* The enhancements of a chunk, each as a change of the reference it is on.
Chunk(todo) == SubSeq(todo, 1, Min({ChunkSize, Len(todo)}))

PercolateChunk ==
    /\ batch.at = "percolate" /\ batch.todo # <<>>
    /\ batch' = [batch EXCEPT
          !.todo = SubSeq(@, Min({ChunkSize, Len(@)}) + 1, Len(@)),
          !.found = @ \cup Percolated({Document(x.ref, canon, enh, {x.enh}) :
                                       x \in Range(Chunk(batch.todo))})]
    /\ UNCHANGED <<tableVars, canon, enh, asked, unanswered, decisions, answers>>

\* _detect_and_dispatch_robot_automations: but not to the robot that answered.
Dispatch ==
    /\ batch.at = "percolate" /\ batch.todo = <<>>
    /\ Create({[change |-> batch.change,
                results |-> {x \in batch.found : x.robot # batch.robot}]})
    /\ batch' = Idle
    /\ UNCHANGED <<tableVars, canon, enh, decisions, answers>>

-----------------------------------------------------------------------------
(* Registration *)

\* add_robot_automation, update_robot_automation: the row is flushed, which
\* holds its lock and checks that it is unique, and then indexed.  A malformed
\* query is refused by the index, and nothing is committed.
Edit(a, c) ==
    /\ edit = Idle
    /\ Bounded /\ edits < MaxEdits
    /\ edits' = edits + 1
    /\ \A b \in Automation \ {a} : rows[b] # c
    /\ c \notin Malformed
    /\ docs' = [docs EXCEPT ![a] = c]
    /\ edit' = [at |-> "indexed", automation |-> a, row |-> c]
    /\ touched' = touched \cup {a}
    /\ UNCHANGED <<rows, seen, repair, repairs, workVars>>

EditCommits ==
    /\ edit # Idle
    /\ rows' = [rows EXCEPT ![edit.automation] = edit.row]
    /\ edit' = Idle
    /\ UNCHANGED <<docs, seen, repair, touched, edits, repairs, workVars>>

\* The commit fails; the index keeps what it was given.
EditFails ==
    /\ edit # Idle
    /\ edit' = Idle
    /\ UNCHANGED <<rows, docs, seen, repair, touched, edits, repairs, workVars>>

\* repopulate_robot_automation_percolation_index: every row, one at a time,
\* read and then written.
StartRepair ==
    /\ repair = Idle
    /\ Bounded /\ repairs < MaxRepairs
    /\ repairs' = repairs + 1
    /\ repair' = [at |-> "read", todo |-> {a \in Automation : rows[a] # NoRow},
                  automation |-> {}, row |-> NoRow]
    /\ UNCHANGED <<rows, docs, seen, edit, touched, edits, workVars>>

RepairRead ==
    /\ repair.at = "read"
    /\ \E a \in repair.todo :
          repair' = [repair EXCEPT !.at = "write", !.automation = {a}, !.row = rows[a]]
    /\ UNCHANGED <<rows, docs, seen, edit, touched, edits, repairs, workVars>>

RepairWrite ==
    /\ repair.at = "write"
    /\ docs' = [a \in Automation |-> IF a \in repair.automation THEN repair.row ELSE docs[a]]
    /\ repair' = [repair EXCEPT !.at = "read", !.todo = @ \ repair.automation]
    /\ UNCHANGED <<rows, seen, edit, touched, edits, repairs, workVars>>

EndRepair ==
    /\ repair.at = "read" /\ repair.todo = {}
    /\ repair' = Idle
    /\ UNCHANGED <<rows, docs, seen, edit, touched, edits, repairs, workVars>>

\* The index is refreshed.
Refresh ==
    /\ seen # docs
    /\ seen' = docs
    /\ UNCHANGED <<rows, docs, edit, repair, touched, edits, repairs, workVars>>

Next ==
    \/ \E r, c \in Reference : Decide(r, c)
    \/ \E b \in Robot : ImportBatch(b)
    \/ PercolateChunk \/ Dispatch
    \/ \E a \in Automation, c \in Criteria : Edit(a, c)
    \/ EditCommits \/ EditFails
    \/ StartRepair \/ RepairRead \/ RepairWrite \/ EndRepair \/ Refresh

Spec == Init /\ [][Next]_vars

-----------------------------------------------------------------------------
(* Properties *)

\* A robot is asked for every change it is registered for, and once.  An
\* enhancement of an indexed kind that a steady automation wants, on a reference with a
\* decision, has led to a request of its robot for that reference or for its
\* canonical, whichever way it came and however decisions moved the reference
\* (docs/procedures/robot-automation.rst, [B]); and one change leads to one
\* request for a reference, however many of the robot's automations match and
\* whichever chunks they match in.
AskedExactlyOnce ==
    /\ \A k \in Ask : asked[k] <= 1
    /\ \A a \in Automation \ touched, r \in Reference : \A e \in enh[r] :
          (/\ rows[a] # NoRow /\ rows[a].has = {} /\ ~rows[a].canonical
           /\ e.kind \in rows[a].wants \ Excluded /\ e.by # rows[a].robot
           /\ batch = Idle)
          => \E k \in Ask : /\ k.robot = rows[a].robot /\ k.ref \in {r, canon[r]}
                            /\ asked[k] > 0

=============================================================================
