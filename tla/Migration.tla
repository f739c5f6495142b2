----------------------------- MODULE Migration ------------------------------
(***************************************************************************)
(* The utility that copies references from one deployment to another: it   *)
(* exports them from the source in chunks and passes the URL of each       *)
(* export's file on to the destination, as a batch of one import record.   *)
(*                                                                         *)
(* A URL is signed each time the export is read, and good for UrlLife;     *)
(* an export takes up to ExportTime.  What the export contains and how it  *)
(* is imported are Exports' and Imports'.                                  *)
(***************************************************************************)
EXTENDS Naturals, Sequences, SequencesExt, FiniteSetsExt

CONSTANTS
    IdFiles,        \* the files of ids the utility may be given
    ChunkSize,      \* export_chunk_size
    MaxPolls,       \* --max-polls
    BatchPolls,     \* polls of poll_and_summarise
    UrlLife,        \* presigned_url_expiry_seconds
    ExportTime,     \* bound on the time an export takes
    MaxFaults       \* bound on calls that fail

VARIABLES
    idFile,     \* the file, for good
    tool,       \* where the utility is and what it holds
    exports,    \* exports of the source, in order
    record,     \* the import record of the destination
    batches,    \* its batches, in order
    faults

vars == <<idFile, tool, exports, record, batches, faults>>

-----------------------------------------------------------------------------
(* Data *)

\* dict.fromkeys: the first occurrences, in order.
DistinctKept(s) == s
Distinct(s) ==
    LET first == {k \in DOMAIN s : \A j \in 1..(k - 1) : s[j] # s[k]}
        order == SetToSortSeq(first, <)
    IN  [k \in DOMAIN order |-> s[order[k]]]

\* list_chunker
Chunks(s) ==
    [k \in 1..((Len(s) + ChunkSize - 1) \div ChunkSize) |->
        SubSeq(s, (k - 1) * ChunkSize + 1, Min({k * ChunkSize, Len(s)}))]

\* A url is the export it leads to and how long it is good for.
NoUrl == [export |-> 0, life |-> 0]

NewTool == [at |-> "start", chunks |-> <<>>, polls |-> 0, url |-> NoUrl, summed |-> 0]

Init ==
    /\ idFile \in IdFiles
    /\ tool = NewTool
    /\ exports = <<>>
    /\ record = "none"
    /\ batches = <<>>
    /\ faults = 0

Go(at) == tool' = [tool EXCEPT !.at = at]

-----------------------------------------------------------------------------
(* The utility *)

\* register_import_record; a file without ids is refused, a dry run ends.
Start ==
    /\ tool.at = "start"
    /\ \/ idFile = <<>> /\ Go("failed") /\ UNCHANGED record
       \/ Go("dry") /\ UNCHANGED record
       \/ /\ idFile # <<>>
          /\ record' = "created"
          /\ tool' = [tool EXCEPT !.at = "chunk", !.chunks = Chunks(Distinct(idFile))]
    /\ UNCHANGED <<idFile, exports, batches, faults>>

\* request_export
RequestExport ==
    /\ tool.at = "chunk" /\ tool.chunks # <<>>
    /\ exports' = Append(exports, [refs |-> Head(tool.chunks), status |-> "PENDING", age |-> 0])
    /\ tool' = [tool EXCEPT !.at = "poll", !.chunks = Tail(@), !.polls = 0]
    /\ UNCHANGED <<idFile, record, batches, faults>>

\* The export is read again, and its file's URL signed.  What the last of the
\* polls finds is not looked at.
PollExport ==
    LET e == exports[Len(exports)]
    IN  /\ tool.at = "poll"
        /\ tool' = [tool EXCEPT
              !.polls = @ + 1,
              !.url = IF e.status = "COMPLETED" /\ tool.polls + 1 < MaxPolls
                      THEN [export |-> Len(exports), life |-> UrlLife] ELSE NoUrl,
              !.at = CASE tool.polls + 1 = MaxPolls \/ e.status = "FAILED" -> "failed"
                       [] e.status = "COMPLETED" -> "register"
                       [] OTHER -> "poll"]
        /\ UNCHANGED <<idFile, exports, record, batches, faults>>

\* register_import_batch, of the export just read; another chunk is next.
RegisterBatch ==
    /\ tool.at = "register"
    /\ batches' = Append(batches, [url |-> tool.url, good |-> tool.url.life > 0,
                                   refs |-> exports[tool.url.export].refs,
                                   status |-> "CREATED"])
    /\ tool' = [tool EXCEPT !.at = "chunk", !.url = NoUrl]
    /\ UNCHANGED <<idFile, exports, record, faults>>

\* finalise_import_record
Finalise ==
    /\ tool.at = "chunk" /\ tool.chunks = <<>>
    /\ record' = "completed"
    /\ tool' = [tool EXCEPT !.at = "summarise", !.polls = 0]
    /\ UNCHANGED <<idFile, exports, batches, faults>>

\* poll_and_summarise, batch after batch: one that is not done in time is
\* summarised as it is.
PollBatch ==
    /\ tool.at = "summarise" /\ tool.summed < Len(batches)
    /\ tool' = IF batches[tool.summed + 1].status = "COMPLETED" \/ tool.polls + 1 = BatchPolls
               THEN [tool EXCEPT !.summed = @ + 1, !.polls = 0]
               ELSE [tool EXCEPT !.polls = @ + 1]
    /\ UNCHANGED <<idFile, exports, record, batches, faults>>

Complete ==
    /\ tool.at = "summarise" /\ tool.summed = Len(batches)
    /\ Go("complete")
    /\ UNCHANGED <<idFile, exports, record, batches, faults>>

\* A call fails: whatever was registered stays.
CallFails ==
    /\ tool.at \in {"chunk", "poll", "register", "summarise"}
    /\ faults < MaxFaults
    /\ faults' = faults + 1
    /\ Go("failed")
    /\ UNCHANGED <<idFile, exports, record, batches>>

-----------------------------------------------------------------------------
(* The deployments *)

ExportEnds(e, status) ==
    /\ exports[e].status = "PENDING"
    /\ exports' = [exports EXCEPT ![e].status = status]
    /\ UNCHANGED <<idFile, tool, record, batches, faults>>

\* The batch is fetched: its URL may have expired meanwhile.
Fetch(b) ==
    /\ batches[b].status = "CREATED" /\ batches[b].url.life > 0
    /\ batches' = [batches EXCEPT ![b].status = "COMPLETED"]
    /\ UNCHANGED <<idFile, tool, exports, record, faults>>

\* Time passes: but a call is answered before more than one unit does.
Tick ==
    LET older(u) == [u EXCEPT !.life = IF @ > 0 THEN @ - 1 ELSE 0]
    IN  /\ \A e \in DOMAIN exports : exports[e].status = "PENDING" => exports[e].age < ExportTime
        /\ tool.at = "register" => tool.url.life = UrlLife
        /\ exports' = [e \in DOMAIN exports |->
               IF exports[e].status = "PENDING" THEN [exports[e] EXCEPT !.age = @ + 1]
               ELSE exports[e]]
        /\ tool' = [tool EXCEPT !.url = older(@)]
        /\ batches' = [b \in DOMAIN batches |-> [batches[b] EXCEPT !.url = older(@)]]
        /\ UNCHANGED <<idFile, record, faults>>

Next ==
    \/ Start \/ RequestExport \/ PollExport \/ RegisterBatch \/ Finalise
    \/ PollBatch \/ Complete \/ CallFails
    \/ \E e \in DOMAIN exports, s \in {"COMPLETED", "FAILED"} : ExportEnds(e, s)
    \/ \E b \in DOMAIN batches : Fetch(b)
    \/ Tick

Spec == Init /\ [][Next]_vars

-----------------------------------------------------------------------------
(* Properties *)

\* What is handed over is whole and good: each URL is still good when it is
\* registered ("the signed URLs in each export are short lived"), no reference
\* is in two batches, and a migration that is complete has handed over every
\* reference of its file before the record was finalised (migrate_references).
HandedOver ==
    /\ \A b \in DOMAIN batches : batches[b].good
    /\ \A b, c \in DOMAIN batches : b # c => Range(batches[b].refs) \cap Range(batches[c].refs) = {}
    /\ record = "completed" =>
          UNION {Range(batches[b].refs) : b \in DOMAIN batches} = Range(idFile)

=============================================================================
