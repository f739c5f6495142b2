------------------------------ MODULE Exports ------------------------------
(***************************************************************************)
(* Export jobs: a request stores a PENDING row and queues a task; a worker *)
(* claims the row, resolves the references (an explicit list, or one       *)
(* search over the full result window), streams them in chunks to a file   *)
(* in blob storage, and completes the row.                                 *)
(*                                                                         *)
(* The tasks wait in a queue that delivers at least once: the steps of     *)
(* workers are steps of TaskQueue as well.                                 *)
(***************************************************************************)
EXTENDS Integers, Sequences, FiniteSets, Functions

CONSTANTS
    Export,         \* export jobs, each requested once
    Kind,           \* [Export -> "reference" or "search"]
    Requested,      \* [Export -> the ids listed by a reference export]
    Entitled,       \* exports asked for with the full-text entitlement
    Ref,            \* reference ids
    Match,          \* the references the searches match
    FullText,       \* the references with a full-text enhancement
    Worker,         \* queue workers
    NoExport,       \* no export
    ChunkSize,      \* settings.upload_file_chunk_size_override
    Window,         \* SearchService.MAX_RESULT_WINDOW
    MaxFaults       \* bound on failed calls, lost locks and crashes

ASSUME ExportsAssumption ==
    /\ Kind \in [Export -> {"reference", "search"}]
    /\ Requested \in [Export -> Seq(Ref)]
    /\ Entitled \subseteq Export
    /\ IsFiniteSet(Ref)
    /\ Match \subseteq Ref
    /\ FullText \subseteq Ref
    /\ NoExport \notin Export
    /\ ChunkSize \in Nat \ {0}
    /\ Window \in Nat
    /\ MaxFaults \in Nat

VARIABLES
    stored,     \* the references in the repository
    api,        \* where the request for each export is
    row,        \* the committed export rows
    blob,       \* the files in blob storage
    queue,      \* tasks that wait
    task,       \* the task each worker runs
    locked,     \* whether it holds the lock of its task
    stage,      \* where each worker is
    ids,        \* the references it exports
    truncated,  \* whether its search was cut off
    pos,        \* how many of them it has streamed
    upload,     \* the lines it has sent to blob storage
    matched,    \* what each search export's search matched
    abandoned,  \* exports whose process stopped or failed half-way
    faults      \* how many faults of each kind have happened

jobVars == <<ids, truncated, pos, upload>>
vars == <<stored, api, row, blob, queue, task, locked, stage, ids, truncated,
          pos, upload, matched, abandoned, faults>>

Tasks == INSTANCE TaskQueue WITH NoTask <- NoExport, dead <- {}

-----------------------------------------------------------------------------
(* Data *)

NoRow == [status |-> "ABSENT", file |-> FALSE, n |-> 0, error |-> FALSE,
          truncated |-> FALSE]

Terminal == {"COMPLETED", "FAILED"}

NoFile == [exists |-> FALSE, lines |-> <<>>]

\* list(dict.fromkeys(reference_ids)): each id once, in the given order.
Unique(s) ==
    LET first == {i \in DOMAIN s : \A j \in 1..(i - 1) : s[j] # s[i]}
        rank(i) == Cardinality({j \in first : j <= i})
    IN  [n \in 1..Cardinality(first) |-> s[CHOOSE i \in first : rank(i) = n]]

\* redact_reference: full text is kept for entitled principals only.
Redacted(e, r) == [ref |-> r, full |-> r \in FullText /\ e \in Entitled]

\* list_chunker: the end of the chunk that begins after position n.
ChunkEnd(s, n) == IF n + ChunkSize < Len(s) THEN n + ChunkSize ELSE Len(s)

FaultKind == {"send", "call", "lock", "crash"}

Fault(kind) ==
    /\ faults["send"] + faults["call"] + faults["lock"] + faults["crash"]
          < MaxFaults
    /\ faults' = [faults EXCEPT ![kind] = @ + 1]

Init ==
    /\ stored \in SUBSET Ref
    /\ api = [e \in Export |-> "new"]
    /\ row = [e \in Export |-> NoRow]
    /\ blob = [e \in Export |-> NoFile]
    /\ Tasks!Init
    /\ stage = [w \in Worker |-> "idle"]
    /\ ids = [w \in Worker |-> <<>>]
    /\ truncated = [w \in Worker |-> FALSE]
    /\ pos = [w \in Worker |-> 0]
    /\ upload = [w \in Worker |-> <<>>]
    /\ matched = [e \in Export |-> {}]
    /\ abandoned = {}
    /\ faults = [k \in FaultKind |-> 0]

\* A reference is imported meanwhile.
AddReference(r) ==
    /\ r \notin stored
    /\ stored' = stored \cup {r}
    /\ UNCHANGED <<api, row, blob, queue, task, locked, stage, jobVars,
                   matched, abandoned, faults>>

-----------------------------------------------------------------------------
(* The routes *)

\* request_reference_export and request_search_export: ids that name no
\* reference are refused; the row is committed before its task is queued.
Request(e) ==
    LET known == Kind[e] = "search" \/ Range(Unique(Requested[e])) \subseteq stored
    IN  /\ api[e] = "new"
        /\ api' = [api EXCEPT ![e] = IF known THEN "requested" ELSE "refused"]
        /\ row' = IF known THEN [row EXCEPT ![e].status = "PENDING"] ELSE row
        /\ UNCHANGED <<stored, blob, queue, task, locked, stage, jobVars,
                       matched, abandoned, faults>>

\* _enqueue_export_task
Enqueue(e) ==
    /\ api[e] = "requested"
    /\ api' = [api EXCEPT ![e] = "accepted"]
    /\ queue' = queue \cup {e}
    /\ Tasks!Send
    /\ UNCHANGED <<stored, row, blob, stage, jobVars, matched, abandoned,
                   faults>>

\* The broker raises; the task may have been queued all the same.
EnqueueFails(e) ==
    /\ api[e] = "requested"
    /\ Fault("send")
    /\ api' = [api EXCEPT ![e] = "failing"]
    /\ queue' \in {queue, queue \cup {e}}
    /\ Tasks!Send
    /\ UNCHANGED <<stored, row, blob, stage, jobVars, matched, abandoned>>

\* ExportServiceBase.fail: the status is overwritten, whatever it is.
Failed(e) == row' = [row EXCEPT ![e].status = "FAILED", ![e].error = TRUE]

\* fail, then 503.
MarkUnqueued(e) ==
    /\ api[e] = "failing"
    /\ api' = [api EXCEPT ![e] = "unavailable"]
    /\ Failed(e)
    /\ UNCHANGED <<stored, blob, queue, task, locked, stage, jobVars, matched,
                   abandoned, faults>>

\* The API process stops, or its call to fail raises.
RequestLost(e) ==
    /\ api[e] \in {"requested", "failing"}
    /\ Fault("call")
    /\ api' = [api EXCEPT ![e] = "lost"]
    /\ abandoned' = abandoned \cup {e}
    /\ UNCHANGED <<stored, row, blob, queue, task, locked, stage, jobVars,
                   matched>>

-----------------------------------------------------------------------------
(* ExportServiceBase.run *)

StartTask(w, e) ==
    /\ stage[w] = "idle"
    /\ Tasks!Take(w, e)
    /\ stage' = [stage EXCEPT ![w] = "taken"]
    /\ UNCHANGED <<stored, api, row, blob, jobVars, matched, abandoned, faults>>

\* _claim: one UPDATE ... WHERE status = PENDING; otherwise nothing is done.
Claim(w) ==
    LET pending == row[task[w]].status = "PENDING"
    IN  /\ stage[w] = "taken"
        /\ row' = IF pending THEN [row EXCEPT ![task[w]].status = "RUNNING"]
                  ELSE row
        /\ stage' = [stage EXCEPT ![w] = IF pending THEN "claimed" ELSE "ended"]
        /\ UNCHANGED <<stored, api, blob, queue, task, locked, jobVars,
                       matched, abandoned, faults>>

\* The hits of one page of Window, and ESSearchTotal.
Hits == stored \cap Match
Page ==
    LET n == Cardinality(Hits)
        sorted == CHOOSE s \in Bijection(1..n, Hits) : TRUE
    IN  SubSeq(sorted, 1, IF n <= Window THEN n ELSE Window)

\* Mutant: a full page is not taken for a truncated one.
ResolveUntruncated(w) ==
    LET e == task[w]
    IN  /\ stage[w] = "claimed"
        /\ IF Kind[e] = "reference"
           THEN /\ ids' = [ids EXCEPT ![w] = Unique(Requested[e])]
                /\ UNCHANGED <<truncated, matched>>
           ELSE /\ ids' = [ids EXCEPT ![w] = Page]
                /\ truncated' = [truncated EXCEPT
                                    ![w] = Cardinality(Hits) > Window + 1]
                /\ matched' = [matched EXCEPT ![e] = Hits]
        /\ stage' = [stage EXCEPT ![w] = "streaming"]
        /\ UNCHANGED <<stored, api, row, blob, queue, task, locked, pos,
                       upload, abandoned, faults>>

\* _resolve_reference_ids, _collect_search_export_ids
Resolve(w) ==
    LET e == task[w]
    IN  /\ stage[w] = "claimed"
        /\ IF Kind[e] = "reference"
           THEN /\ ids' = [ids EXCEPT ![w] = Unique(Requested[e])]
                /\ UNCHANGED <<truncated, matched>>
           ELSE /\ ids' = [ids EXCEPT ![w] = Page]
                /\ truncated' = [truncated EXCEPT
                                    ![w] = Cardinality(Hits) > Window]
                /\ matched' = [matched EXCEPT ![e] = Hits]
        /\ stage' = [stage EXCEPT ![w] = "streaming"]
        /\ UNCHANGED <<stored, api, row, blob, queue, task, locked, pos,
                       upload, abandoned, faults>>

\* FileStream: fetch, redact and serialize one chunk.
StreamChunk(w) ==
    LET end == ChunkEnd(ids[w], pos[w])
    IN  /\ stage[w] = "streaming"
        /\ pos[w] < Len(ids[w])
        /\ upload' = [upload EXCEPT
                         ![w] = @ \o [i \in 1..(end - pos[w]) |->
                                         Redacted(task[w], ids[w][pos[w] + i])]]
        /\ pos' = [pos EXCEPT ![w] = end]
        /\ UNCHANGED <<stored, api, row, blob, queue, task, locked, stage,
                       ids, truncated, matched, abandoned, faults>>

\* upload_blob commits the file when the stream has ended.
FinishUpload(w) ==
    /\ stage[w] = "streaming"
    /\ pos[w] = Len(ids[w])
    /\ blob' = [blob EXCEPT ![task[w]] = [exists |-> TRUE, lines |-> upload[w]]]
    /\ stage' = [stage EXCEPT ![w] = "uploaded"]
    /\ UNCHANGED <<stored, api, row, queue, task, locked, jobVars, matched,
                   abandoned, faults>>

\* _complete
Complete(w) ==
    /\ stage[w] = "uploaded"
    /\ row' = [row EXCEPT ![task[w]].status = "COMPLETED",
                          ![task[w]].file = TRUE,
                          ![task[w]].n = Len(ids[w]),
                          ![task[w]].truncated = truncated[w]]
    /\ stage' = [stage EXCEPT ![w] = "ended"]
    /\ UNCHANGED <<stored, api, blob, queue, task, locked, jobVars, matched,
                   abandoned, faults>>

\* Mutant: the failure is only logged.
MarkFailedNot(w) ==
    /\ stage[w] = "failing"
    /\ stage' = [stage EXCEPT ![w] = "ended"]
    /\ UNCHANGED <<stored, api, row, blob, queue, task, locked, jobVars,
                   matched, abandoned, faults>>

\* Any exception while the job runs is caught ...
RunFails(w) ==
    /\ stage[w] \in {"claimed", "streaming", "uploaded"}
    /\ Fault("call")
    /\ stage' = [stage EXCEPT ![w] = "failing"]
    /\ UNCHANGED <<stored, api, row, blob, queue, task, locked, jobVars,
                   matched, abandoned>>

\* ... and the job is marked as failed.
MarkFailed(w) ==
    /\ stage[w] = "failing"
    /\ Failed(task[w])
    /\ stage' = [stage EXCEPT ![w] = "ended"]
    /\ UNCHANGED <<stored, api, blob, queue, task, locked, jobVars, matched,
                   abandoned, faults>>

Reset(w) ==
    /\ stage' = [stage EXCEPT ![w] = "idle"]
    /\ ids' = [ids EXCEPT ![w] = <<>>]
    /\ truncated' = [truncated EXCEPT ![w] = FALSE]
    /\ pos' = [pos EXCEPT ![w] = 0]
    /\ upload' = [upload EXCEPT ![w] = <<>>]

\* The task returns and its message is acknowledged.
EndTask(w) ==
    /\ stage[w] = "ended"
    /\ UNCHANGED queue
    /\ Tasks!Finish(w)
    /\ Reset(w)
    /\ UNCHANGED <<stored, api, row, blob, matched, abandoned, faults>>

\* _claim or fail raises: the exception leaves the task, which is
\* acknowledged all the same.
Raise(w) ==
    /\ stage[w] \in {"taken", "failing"}
    /\ Fault("call")
    /\ UNCHANGED queue
    /\ Tasks!Finish(w)
    /\ Reset(w)
    /\ abandoned' = abandoned \cup {task[w]}
    /\ UNCHANGED <<stored, api, row, blob, matched>>

LoseLock(w) ==
    /\ Fault("lock")
    /\ queue' = queue \cup {task[w]}
    /\ Tasks!LoseLock(w)
    /\ UNCHANGED <<stored, api, row, blob, stage, jobVars, matched, abandoned>>

\* The process stops: the task is delivered again, but a claimed row stays
\* RUNNING.
Crash(w) ==
    /\ stage[w] # "idle"
    /\ Fault("crash")
    /\ Tasks!Stop({w})
    /\ Reset(w)
    /\ abandoned' = IF stage[w] \in {"taken", "ended"} THEN abandoned
                    ELSE abandoned \cup {task[w]}
    /\ UNCHANGED <<stored, api, row, blob, matched>>

-----------------------------------------------------------------------------
RouteStep(e) == Request(e) \/ Enqueue(e) \/ MarkUnqueued(e)

RunStep(w) ==
    \/ \E e \in queue : StartTask(w, e)
    \/ Claim(w)
    \/ Resolve(w)
    \/ StreamChunk(w)
    \/ FinishUpload(w)
    \/ Complete(w)
    \/ MarkFailed(w)
    \/ EndTask(w)

FaultStep ==
    \/ \E e \in Export : EnqueueFails(e) \/ RequestLost(e)
    \/ \E w \in Worker : RunFails(w) \/ Raise(w) \/ LoseLock(w) \/ Crash(w)

Next ==
    \/ \E r \in Ref : AddReference(r)
    \/ \E e \in Export : RouteStep(e)
    \/ \E w \in Worker : RunStep(w)
    \/ FaultStep

Spec == Init /\ [][Next]_vars

\* The API finishes the requests it handles, and workers run what is queued.
FairSpec ==
    /\ Spec
    /\ \A e \in Export : WF_vars(Enqueue(e) \/ MarkUnqueued(e))
    /\ \A w \in Worker : WF_vars(RunStep(w))

-----------------------------------------------------------------------------
(* Properties *)

\* Every variable that steers the exports keeps its type.
TypeOK ==
    /\ stored \subseteq Ref
    /\ api \in [Export -> {"new", "refused", "requested", "accepted",
                           "failing", "unavailable", "lost"}]
    /\ DOMAIN row = Export
    /\ \A e \in Export :
          /\ DOMAIN row[e] = DOMAIN NoRow
          /\ row[e].status \in {"ABSENT", "PENDING", "RUNNING"} \cup Terminal
    /\ queue \subseteq Export
    /\ task \in [Worker -> Export \cup {NoExport}]
    /\ locked \in [Worker -> BOOLEAN]
    /\ stage \in [Worker -> {"idle", "taken", "claimed", "streaming",
                             "uploaded", "failing", "ended"}]
    /\ abandoned \subseteq Export
    /\ faults \in [FaultKind -> Nat]

\* A completed export has its file, and the file is what was asked for: as
\* many lines as n_references says, no reference twice, every listed id of a
\* reference export and, unless it is marked as truncated, every match of a
\* search export, with full text for entitled principals and no one else.
CompletedIsWhole ==
    \A e \in Export : row[e].status = "COMPLETED" =>
        LET file == blob[e].lines
            refs == {file[i].ref : i \in DOMAIN file}
        IN  /\ blob[e].exists
            /\ row[e].file
            /\ Len(file) = row[e].n
            /\ Cardinality(refs) = Len(file)
            /\ Kind[e] = "reference" => refs = Range(Requested[e])
            /\ Kind[e] = "search" /\ ~row[e].truncated => refs = matched[e]
            /\ \A i \in DOMAIN file : file[i] = Redacted(e, file[i].ref)

Running(w, e) ==
    task[w] = e /\ stage[w] \in {"claimed", "streaming", "uploaded", "failing"}

\* An export is run by one worker at a time, and by one only, though its
\* task may be delivered to several (_claim).
OneRunner ==
    \A e \in Export : \A v, w \in Worker :
        Running(v, e) /\ Running(w, e) => v = w

\* A completed or failed export stays as it is, unless the broker raised an
\* error for a task that it had queued (fail checks no status).
TerminalKept ==
    \A e \in Export :
        row[e].status \in Terminal /\ faults["send"] = 0 => row'[e] = row[e]
SettledStays == [][TerminalKept]_vars

\* An export is not forgotten while it is PENDING or RUNNING: a request, a
\* queued task or a worker will take it on, unless the one that should have
\* stopped or failed half-way (_enqueue_export_task and run).
NotForgotten ==
    \A e \in Export : row[e].status \in {"PENDING", "RUNNING"} =>
        \/ e \in abandoned
        \/ api[e] \in {"requested", "failing"}
        \/ row[e].status = "PENDING" /\ e \in queue
        \/ \E w \in Worker : task[w] = e /\ locked[w] /\ stage[w] = "taken"
        \/ \E w \in Worker : Running(w, e)

\* Every export completes or fails, unless it was abandoned: "poll ... until
\* the job completes" ends.
EveryExportSettles ==
    \A e \in Export :
        row[e].status = "PENDING"
            ~> row[e].status \in Terminal \/ e \in abandoned

=============================================================================
