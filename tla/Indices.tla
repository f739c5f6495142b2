------------------------------ MODULE Indices ------------------------------
(***************************************************************************)
(* The search indices behind one alias: migrations to a new version,       *)
(* rollbacks, deletions and rebuilds by operators, while the application   *)
(* keeps writing through the alias and the repair tasks index everything   *)
(* again from SQL.                                                         *)
(*                                                                         *)
(* An index is named by its version; version 0 is an index whose name      *)
(* carries none.  A document is the pair of Elasticsearch's version number *)
(* of it and the revision of the SQL row it was made from; revision 0 is   *)
(* no document.  Searches, and so count and reindex, see an index as it    *)
(* was when it was last refreshed.                                         *)
(***************************************************************************)
EXTENDS Integers, Sequences, FiniteSets, FiniteSetsExt, SequencesExt

CONSTANTS
    Ref,            \* reference ids, a set of numbers
    Canonical,      \* [Ref -> the canonical reference of each]
    First,          \* the versions that may exist to begin with
    Indexed,        \* the references that may have documents to begin with
    Lists,          \* the lists of ids that a repair may be asked for
    Operator,       \* operators, each running one command at a time
    Writer,         \* what writes single references to the index
    Worker,         \* queue workers
    NoTask,         \* no task
    MaxVersion,     \* bound on index versions
    PartitionSize,  \* settings.es_reference_repair_max_batch_size
    MaxCommands,    \* bound on operator commands
    MaxCommits,     \* bound on changes of SQL rows
    MaxFaults       \* bound on crashes, lost locks and failed sends

ASSUME IndicesAssumption ==
    /\ Ref \subseteq Nat \ {0}
    /\ IsFiniteSet(Ref)
    /\ Canonical \in [Ref -> Ref]
    /\ \A r \in Ref : Canonical[Canonical[r]] = Canonical[r]
    /\ First \subseteq {0, 1}
    /\ Indexed \subseteq Ref
    /\ Lists \subseteq SUBSET Ref
    /\ MaxVersion \in Nat \ {0}
    /\ PartitionSize \in Nat \ {0}
    /\ {MaxCommands, MaxCommits, MaxFaults} \subseteq Nat

VARIABLES
    sql,        \* the revision of each row
    index,      \* the indices by version
    alias,      \* the indices the alias names
    squatter,   \* whether an index has the alias's own name
    copies,     \* the documents that running reindex jobs have yet to copy
    op,         \* what each operator's command is doing
    writes,     \* what each writer is about to write
    queue, task, locked,    \* the task queue, as in TaskQueue
    todo,       \* what each worker has yet to do of its task
    due,        \* history: what the migration under way must carry over
    owed,       \* history: what the last repair has promised to index
    rolledBack, \* history: whether the alias was last moved by a rollback
    failed,     \* history: whether a repair task has failed
    commands, commits, faults

esVars == <<index, alias, squatter, copies>>
taskVars == <<queue, task, locked, todo>>
history == <<due, owed, rolledBack, failed>>
counters == <<commands, commits, faults>>
vars == <<sql, esVars, op, writes, taskVars, history, counters>>

Tasks == INSTANCE TaskQueue WITH dead <- {}

-----------------------------------------------------------------------------
(* Data *)

Version == 0..MaxVersion

NoDoc == [ver |-> 0, rev |-> 0]
NoDocs == [r \in Ref |-> NoDoc]
NoIndex == [exists |-> FALSE, blocked |-> FALSE, docs |-> NoDocs, seen |-> NoDocs]

Idle == [at |-> "idle", src |-> 0, dst |-> 0]
NoWrite == [ref |-> 0, rev |-> 0]
NoJob == [at |-> "idle", chunks |-> <<>>, ids |-> {}, read |-> [r \in Ref |-> 0]]

Canonicals == {r \in Ref : Canonical[r] = r}

\* Messages of the queue: the tasks that repair an index.
RepairAll == [kind |-> "repair", lo |-> 0, hi |-> 0, ids |-> {}]
Subset(S) == [kind |-> "subset", lo |-> 0, hi |-> 0, ids |-> S]
Chunk(c) == [kind |-> "chunk", lo |-> c[1], hi |-> c[2], ids |-> {}]

\* A document is written: Elasticsearch counts its versions.
Put(docs, r, rev) == [docs EXCEPT ![r] = [ver |-> @.ver + 1, rev |-> rev]]

\* delete_by_pk: nothing is deleted where there is no document.
Drop(docs, r) == IF docs[r].rev = 0 THEN docs ELSE Put(docs, r, 0)

\* Several documents are written by one bulk call.
PutAll(docs, S, rev) == FoldSet(LAMBDA r, d : Put(d, r, rev[r]), docs, S)

\* Mutant: the rows that do not divide evenly are forgotten.
TilesEven(S, size) ==
    LET n == Cardinality(S)
        k == (n + size - 1) \div size
        s == SetToSortSeq(S, <)
    IN  IF n = 0 THEN <<>>
        ELSE [t \in 1..k |-> <<s[(t - 1) * (n \div k) + 1], s[t * (n \div k)]>>]

\* get_partition_boundaries: ntile(ceil(total / size)) over the ids in order,
\* the least and the greatest id of each tile.
Tiles(S, size) ==
    LET n == Cardinality(S)
        k == (n + size - 1) \div size
        s == SetToSortSeq(S, <)
        big == n % k
        Start(t) == (t - 1) * (n \div k) + (IF t - 1 < big THEN t - 1 ELSE big)
    IN  IF n = 0 THEN <<>>
        ELSE [t \in 1..k |-> <<s[Start(t) + 1], s[Start(t + 1)]>>]

\* get_all_pks(min_id, max_id)
Between(S, lo, hi) == {r \in S : lo <= r /\ r <= hi}

Fault == faults < MaxFaults /\ faults' = faults + 1

-----------------------------------------------------------------------------
(* Elasticsearch *)

\* A search sees what was written before: the index is refreshed, now and
\* then; it matters when a command is about to search it.
Refresh(v) ==
    /\ index[v].seen # index[v].docs
    /\ \E o \in Operator : op[o].src = v /\ op[o].at \in {"reindex", "block", "topup"}
    /\ index' = [index EXCEPT ![v].seen = index[v].docs]
    /\ UNCHANGED <<sql, alias, squatter, copies, op, writes, taskVars, history,
                   counters>>

\* One document of a reindex job: version_type external keeps the higher
\* version, conflicts=proceed goes on.  The job outlives the command.
Copy(c) ==
    /\ c \in copies
    /\ copies' = copies \ {c}
    /\ index' = IF c.ver > index[c.dst].docs[c.ref].ver /\ ~index[c.dst].blocked
                THEN [index EXCEPT ![c.dst].exists = TRUE,
                                   ![c.dst].docs[c.ref] = [ver |-> c.ver, rev |-> c.rev]]
                ELSE index
    /\ UNCHANGED <<sql, alias, squatter, op, writes, taskVars, history, counters>>

Init ==
    /\ sql = [r \in Ref |-> 1]
    /\ \E F \in {{}} \cup {{v} : v \in First}, D \in {{}, Indexed} :
          LET docs == [r \in Ref |-> IF r \in D THEN [ver |-> 1, rev |-> 1] ELSE NoDoc]
          IN  /\ F = {} => D = {}
              /\ alias = F
              /\ index = [v \in Version |->
                            IF v \in F THEN [exists |-> TRUE, blocked |-> FALSE,
                                             docs |-> docs, seen |-> docs]
                            ELSE NoIndex]
    /\ squatter = FALSE
    /\ copies = {}
    /\ op = [o \in Operator |-> Idle]
    /\ writes = [x \in Writer |-> NoWrite]
    /\ Tasks!Init
    /\ todo = [w \in Worker |-> NoJob]
    /\ due = NoDocs
    /\ owed = {}
    /\ rolledBack = FALSE
    /\ failed = FALSE
    /\ commands = 0
    /\ commits = 0
    /\ faults = 0

-----------------------------------------------------------------------------
(* Operator commands *)

\* What a command's steps leave alone.
Rest == <<sql, writes, task, locked, todo, commits, faults>>

\* A command begins, or is refused at once and changes nothing.
Begin(o, to) ==
    /\ op[o] = Idle
    /\ commands < MaxCommands
    /\ commands' = IF to = Idle THEN commands ELSE commands + 1
    /\ op' = [op EXCEPT ![o] = to]
    /\ UNCHANGED <<esVars, history, queue, Rest>>

\* The command goes on to the given step; "idle" ends it.
Goto(o, at) == op' = [op EXCEPT ![o] = IF at = "idle" THEN Idle ELSE [@ EXCEPT !.at = at]]

\* migrate: the version of the current index, or none, gives the new one.
\* The reindex script is compiled first, and a bad one ends the command.
Migrate(o) ==
    \/ Begin(o, Idle)
    \/ alias = {} /\ Begin(o, [at |-> "initialize", src |-> 0, dst |-> 1])
    \/ \E v \in alias :
          /\ v < MaxVersion
          /\ Begin(o, [at |-> "create", src |-> v, dst |-> v + 1])

\* rollback: to the previous version, or to the index that is named (t).  An
\* index without a version cannot be rolled back from, and version 1 only to
\* an index that is named.
Rollback(o, t) ==
    \E cur \in alias :
        LET named == t # {}
            to == IF named THEN CHOOSE v \in t : TRUE ELSE cur - 1
            allowed == cur # 0 /\ (cur = 1 => named)
        IN  Begin(o, IF allowed /\ index[to].exists
                     THEN [at |-> "rollback", src |-> cur, dst |-> to]
                     ELSE Idle)

\* delete_old_index: an index that the alias names is left alone.
DeleteOld(o, v) ==
    Begin(o, IF v \in alias \/ ~index[v].exists THEN Idle
             ELSE [at |-> "delete", src |-> v, dst |-> v])

\* rebuild_index
Rebuild(o) ==
    \E v \in alias : Begin(o, [at |-> "unalias", src |-> v, dst |-> v])

\* repair_index, by the route: all documents, or some.
Repair(o, m) ==
    /\ op[o] = Idle
    /\ commands < MaxCommands
    /\ commands' = commands + 1
    /\ queue' = queue \cup {m}
    /\ Tasks!Send
    /\ UNCHANGED <<sql, esVars, op, writes, todo, history, commits, faults>>

\* _create_index_with_mapping: with the settings of the source that can be
\* used again, which its blocks are not.
Created(v) == [index EXCEPT ![v] = [NoIndex EXCEPT !.exists = TRUE]]

Create(o) ==
    LET next == [create |-> "reindex", initialize |-> "putalias", recreate |-> "realias"]
    IN  /\ op[o].at \in DOMAIN next
        /\ IF index[op[o].dst].exists
           THEN Goto(o, "idle") /\ UNCHANGED index
           ELSE Goto(o, next[op[o].at]) /\ index' = Created(op[o].dst)
        /\ UNCHANGED <<alias, squatter, copies, history, commands, queue, Rest>>

\* _reindex_data: nothing to do, or a job that copies what a search sees.
StartReindex(o) ==
    LET next == [reindex |-> "copying", topup |-> "topping"]
        skip == [reindex |-> "switch", topup |-> "idle"]
        src == op[o].src
        found == {r \in Ref : index[src].seen[r].rev # 0}
    IN  /\ op[o].at \in DOMAIN next
        /\ IF ~index[src].exists THEN Goto(o, "idle") /\ UNCHANGED copies
           ELSE IF found = {} THEN Goto(o, skip[op[o].at]) /\ UNCHANGED copies
           ELSE /\ Goto(o, next[op[o].at])
                /\ copies' = copies \cup
                     {[src |-> src, dst |-> op[o].dst, ref |-> r,
                       ver |-> index[src].seen[r].ver, rev |-> index[src].seen[r].rev] : r \in found}
        /\ UNCHANGED <<index, alias, squatter, history, commands, queue, Rest>>

\* Mutant: the command does not wait for the job.
ReindexNotAwaited(o) ==
    LET next == [copying |-> "switch", topping |-> "idle"]
    IN  /\ op[o].at \in DOMAIN next
        /\ Goto(o, next[op[o].at])
        /\ UNCHANGED <<index, alias, squatter, copies, history, commands, queue, Rest>>

\* The loop that polls the job sees it completed; the job refreshes the
\* index it has written to.
ReindexDone(o) ==
    LET next == [copying |-> "switch", topping |-> "idle"]
        dst == op[o].dst
    IN  /\ op[o].at \in DOMAIN next
        /\ ~\E c \in copies : c.src = op[o].src /\ c.dst = dst
        /\ Goto(o, next[op[o].at])
        /\ index' = [index EXCEPT ![dst].seen = index[dst].docs]
        /\ UNCHANGED <<alias, squatter, copies, history, commands, queue, Rest>>

\* Mutant: the alias is taken off the old index by one call and put on the new
\* one by the next.
SwitchAliasInTwo(o) ==
    /\ op[o].at \in {"switch", "rollback"}
    /\ IF op[o].src \in alias /\ index[op[o].dst].exists
       THEN /\ alias' = alias \ {op[o].src}
            /\ rolledBack' = (op[o].at = "rollback")
            /\ owed' = {}
            /\ Goto(o, "putalias")
       ELSE Goto(o, "idle") /\ UNCHANGED <<alias, rolledBack, owed>>
    /\ UNCHANGED <<index, squatter, copies, due, failed, commands, queue, Rest>>

\* _switch_alias: one atomic update, refused when the alias is elsewhere.
SwitchAlias(o) ==
    LET next == [switch |-> "block", rollback |-> "idle"]
    IN  /\ op[o].at \in DOMAIN next
        /\ IF op[o].src \in alias /\ index[op[o].dst].exists
           THEN /\ alias' = (alias \ {op[o].src}) \cup {op[o].dst}
                /\ rolledBack' = (op[o].at = "rollback")
                /\ owed' = {}
                /\ Goto(o, next[op[o].at])
           ELSE Goto(o, "idle") /\ UNCHANGED <<alias, rolledBack, owed>>
        /\ UNCHANGED <<index, squatter, copies, due, failed, commands, queue, Rest>>

\* indices.add_block on the old index
BlockWrites(o) ==
    /\ op[o].at = "block"
    /\ IF index[op[o].src].exists
       THEN /\ index' = [index EXCEPT ![op[o].src].blocked = TRUE]
            /\ due' = index[op[o].src].seen
            /\ Goto(o, "topup")
       ELSE Goto(o, "idle") /\ UNCHANGED <<index, due>>
    /\ UNCHANGED <<alias, squatter, copies, owed, rolledBack, failed, commands,
                   queue, Rest>>

\* Deletion of an index takes its place in the alias along.
Deleted(v) ==
    /\ index' = [index EXCEPT ![v] = NoIndex]
    /\ alias' = alias \ {v}

Delete(o) ==
    /\ op[o].at = "delete"
    /\ Deleted(op[o].src)
    /\ Goto(o, "idle")
    /\ UNCHANGED <<squatter, copies, history, commands, queue, Rest>>

\* rebuild_index: indices.delete_alias
RemoveAlias(o) ==
    /\ op[o].at = "unalias"
    /\ alias' = alias \ {op[o].src}
    /\ owed' = {}
    /\ Goto(o, "destroy")
    /\ UNCHANGED <<index, squatter, copies, due, rolledBack, failed, commands,
                   queue, Rest>>

\* _delete_index_safely
Destroy(o) ==
    /\ op[o].at = "destroy"
    /\ IF op[o].src \in alias THEN UNCHANGED <<index, alias>> ELSE Deleted(op[o].src)
    /\ Goto(o, "recreate")
    /\ UNCHANGED <<squatter, copies, history, commands, queue, Rest>>

\* indices.put_alias: refused when an index has the alias's name.  A rebuild
\* goes on to queue the repair.
PutAlias(o) ==
    /\ op[o].at \in {"putalias", "realias"}
    /\ IF squatter THEN Goto(o, "idle") /\ UNCHANGED <<alias, rolledBack>>
       ELSE /\ alias' = alias \cup {op[o].dst}
            /\ rolledBack' = FALSE
            /\ Goto(o, IF op[o].at = "realias" THEN "repair" ELSE "idle")
    /\ UNCHANGED <<index, squatter, copies, due, owed, failed, commands, queue, Rest>>

QueueRepair(o) ==
    /\ op[o].at = "repair"
    /\ queue' = queue \cup {RepairAll}
    /\ Tasks!Send
    /\ Goto(o, "idle")
    /\ UNCHANGED <<sql, esVars, writes, todo, history, counters>>

\* The process that runs a command stops, or a call of it fails.
CommandFails(o) ==
    /\ op[o] # Idle
    /\ Fault
    /\ Goto(o, "idle")
    /\ UNCHANGED <<sql, esVars, writes, taskVars, history, commands, commits>>

-----------------------------------------------------------------------------
(* Writes of single references *)

\* A row changes; the change is indexed by the process that made it.
Commit(x, r) ==
    /\ writes[x] = NoWrite
    /\ commits < MaxCommits
    /\ commits' = commits + 1
    /\ sql' = [sql EXCEPT ![Canonical[r]] = @ + 1]
    /\ writes' = [writes EXCEPT ![x].ref = r]
    /\ UNCHANGED <<esVars, op, taskVars, history, commands, faults>>

\* sql_to_es: a duplicate's own document is deleted, and its canonical
\* reference is next.
DropDuplicate(x) ==
    LET r == writes[x].ref
    IN  /\ writes[x] # NoWrite
        /\ Canonical[r] # r
        /\ IF \E v \in alias : index[v].blocked /\ index[v].docs[r].rev # 0
           THEN writes' = [writes EXCEPT ![x] = NoWrite] /\ UNCHANGED index
           ELSE /\ writes' = [writes EXCEPT ![x].ref = Canonical[r]]
                /\ index' = [v \in Version |->
                               IF v \in alias THEN [index[v] EXCEPT !.docs = Drop(@, r)]
                               ELSE index[v]]
        /\ UNCHANGED <<sql, alias, squatter, copies, op, taskVars, history, counters>>

\* A canonical reference is read from SQL.
ReadRow(x) ==
    /\ writes[x] # NoWrite
    /\ writes[x].rev = 0
    /\ writes[x].ref \in Canonicals
    /\ writes' = [writes EXCEPT ![x].rev = sql[writes[x].ref]]
    /\ UNCHANGED <<sql, esVars, op, taskVars, history, counters>>

\* What was read is written to the index the alias names; a blocked index
\* refuses it, and without an alias an index of that name comes to be.
WriteDocument(x) ==
    /\ writes[x].rev # 0
    /\ writes' = [writes EXCEPT ![x] = NoWrite]
    /\ \/ /\ alias = {}
          /\ squatter' = TRUE
          /\ UNCHANGED index
       \/ \E v \in alias :
             /\ index' = IF index[v].blocked THEN index
                         ELSE [index EXCEPT ![v].docs = Put(@, writes[x].ref, writes[x].rev)]
             /\ UNCHANGED squatter
    /\ UNCHANGED <<sql, alias, copies, op, taskVars, history, counters>>

-----------------------------------------------------------------------------
(* The repair tasks *)

\* A worker takes a task.
StartTask(w, m) ==
    /\ Tasks!Take(w, m)
    /\ todo' = [todo EXCEPT ![w] = [NoJob EXCEPT !.at = m.kind]]
    /\ UNCHANGED <<sql, esVars, op, writes, history, counters>>

\* repair_reference_index: the partitions of the ids in SQL ...
Partition(w) ==
    /\ todo[w].at = "repair"
    /\ todo' = [todo EXCEPT ![w].at = "queueing", ![w].chunks = Tiles(Ref, PartitionSize)]
    /\ owed' = Canonicals
    /\ failed' = FALSE
    /\ UNCHANGED <<sql, esVars, op, writes, queue, task, locked, due, rolledBack,
                   counters>>

\* ... and a task for each of them.
QueueChunk(w) ==
    /\ todo[w].at = "queueing"
    /\ todo[w].chunks # <<>>
    /\ queue' = queue \cup {Chunk(Head(todo[w].chunks))}
    /\ Tasks!Send
    /\ todo' = [todo EXCEPT ![w].chunks = Tail(@)]
    /\ UNCHANGED <<sql, esVars, op, writes, history, counters>>

\* The rows to index are read: those in the range of the chunk, or those of
\* the list.  bulk_sql_to_es goes from duplicates to their canonicals.
ReadRows(w) ==
    LET ids == IF todo[w].at = "chunk" THEN Between(Ref, task[w].lo, task[w].hi)
               ELSE task[w].ids
        rows == {Canonical[r] : r \in ids}
    IN  /\ todo[w].at \in {"chunk", "subset"}
        /\ todo' = [todo EXCEPT ![w].at = "bulk",
                              ![w].ids = rows,
                              ![w].read = [r \in Ref |-> IF r \in rows THEN sql[r] ELSE 0]]
        /\ UNCHANGED <<sql, esVars, op, writes, queue, task, locked, history, counters>>

\* The task is over; its message is completed.
EndTask(w) ==
    /\ UNCHANGED queue
    /\ Tasks!Finish(w)
    /\ todo' = [todo EXCEPT ![w] = NoJob]

\* add_bulk: an index that is blocked makes the task fail.
WriteRows(w) ==
    /\ todo[w].at = "bulk"
    /\ \/ /\ alias = {}
          /\ squatter' = TRUE
          /\ failed' = TRUE
          /\ UNCHANGED index
       \/ \E v \in alias :
             /\ index' = IF index[v].blocked THEN index
                         ELSE [index EXCEPT ![v].docs = PutAll(@, todo[w].ids, todo[w].read)]
             /\ failed' = (failed \/ index[v].blocked)
             /\ UNCHANGED squatter
    /\ EndTask(w)
    /\ UNCHANGED <<sql, alias, copies, op, writes, due, owed, rolledBack, counters>>

\* All chunks are queued.
Distributed(w) ==
    /\ todo[w].at = "queueing"
    /\ todo[w].chunks = <<>>
    /\ EndTask(w)
    /\ UNCHANGED <<sql, esVars, op, writes, history, counters>>

\* A call fails: the task raises, and is not run again.
TaskFails(w) ==
    /\ task[w] # NoTask
    /\ Fault
    /\ failed' = TRUE
    /\ EndTask(w)
    /\ UNCHANGED <<sql, esVars, op, writes, due, owed, rolledBack, commands, commits>>

LoseLock(w) ==
    /\ Fault
    /\ Tasks!LoseLock(w)
    /\ UNCHANGED <<sql, esVars, op, writes, todo, history, commands, commits>>

\* The worker process stops.
Crash(w) ==
    /\ task[w] # NoTask
    /\ Fault
    /\ Tasks!Stop({w})
    /\ todo' = [todo EXCEPT ![w] = NoJob]
    /\ UNCHANGED <<sql, esVars, op, writes, history, commands, commits>>

-----------------------------------------------------------------------------
Command(o) ==
    \/ Migrate(o)
    \/ Rollback(o, {})
    \/ \E v \in Version : Rollback(o, {v}) \/ DeleteOld(o, v)
    \/ Rebuild(o)
    \/ Repair(o, RepairAll)
    \/ \E S \in Lists : Repair(o, Subset(S))

Step(o) ==
    \/ Create(o)
    \/ StartReindex(o)
    \/ ReindexDone(o)
    \/ SwitchAlias(o)
    \/ BlockWrites(o)
    \/ Delete(o)
    \/ RemoveAlias(o)
    \/ Destroy(o)
    \/ PutAlias(o)
    \/ QueueRepair(o)

Write(x) ==
    \/ \E r \in Ref : Commit(x, r)
    \/ DropDuplicate(x)
    \/ ReadRow(x)
    \/ WriteDocument(x)

Run(w) ==
    \/ \E m \in queue : StartTask(w, m)
    \/ Partition(w)
    \/ QueueChunk(w)
    \/ Distributed(w)
    \/ ReadRows(w)
    \/ WriteRows(w)

Next ==
    \/ \E v \in Version : Refresh(v)
    \/ \E c \in copies : Copy(c)
    \/ \E o \in Operator : Command(o) \/ Step(o) \/ CommandFails(o)
    \/ \E x \in Writer : Write(x)
    \/ \E w \in Worker : Run(w) \/ TaskFails(w) \/ LoseLock(w) \/ Crash(w)

Spec == Init /\ [][Next]_vars

-----------------------------------------------------------------------------
(* Properties *)

\* The alias names no two indices, and the one it names exists and accepts
\* writes.  A rollback leads back to the index whose writes were blocked.
NamesOneIndex ==
    /\ Cardinality(alias) <= 1
    /\ \A v \in alias : index[v].exists /\ (index[v].blocked => rolledBack)

\* Only a rebuild takes the alias away.
KeepsAlias ==
    alias # {} /\ alias' = {} => \E o \in Operator : op[o].at = "unalias"

\* Zero downtime, when operators take turns: once there is an alias it names
\* exactly one index, and that index exists and accepts writes, whatever point
\* of a migration, a rollback or a deletion a command has reached or stopped
\* at; only a rebuild, which takes the alias away first, leaves it without one
\* (IndexManager.migrate, rollback, delete_old_index, rebuild_index).
AliasServes == [][NamesOneIndex' /\ KeepsAlias]_vars

\* The migration carries over: when it ends after its top-up, the new index
\* has every document that a search of the old one found when writes to it
\* were blocked, in that version or a later one.
CarriesOver ==
    \A o \in Operator :
        op[o].at = "topping" /\ op'[o] = Idle /\ faults' = faults =>
            \A r \in Ref : due[r].rev # 0 =>
                index'[op[o].dst].docs[r].ver >= due[r].ver

MigrationCarriesOver == [][CarriesOver]_vars

\* Repair indexes everything: when no repair task waits or runs and none has
\* failed, every canonical reference has a document in the index that the
\* alias named all the while.
RepairCovers ==
    \A r \in owed :
        (queue = {} /\ (\A w \in Worker : task[w] = NoTask) /\ ~failed) =>
            \A v \in alias : index[v].docs[r].rev # 0

=============================================================================
