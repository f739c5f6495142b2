----------------------------- MODULE ResultFile -----------------------------
(***************************************************************************)
(* The reading of a robot's result file, which PendingEnhancements takes   *)
(* as one step: EnhancementService.process_robot_enhancement_batch_result, *)
(* the validation of a line (EnhancementResultValidator.from_raw), the     *)
(* addition of an enhancement to its reference                             *)
(* (ReferenceService.handle_enhancement_result_entry) and the sorting of   *)
(* the batch's pending enhancements by what became of them.                *)
(*                                                                         *)
(* Lines are read one by one, in one transaction.  Between two lines other *)
(* transactions commit enhancements and duplicate decisions.  A crash      *)
(* rolls the transaction back and the task is delivered again.             *)
(***************************************************************************)
EXTENDS Integers, Sequences, FiniteSets

CONSTANTS
    Row,            \* pending enhancements of the batch
    RefOf,          \* the reference each is for
    Reference,      \* references that exist
    Files,          \* result files, each a sequence of lines
    Parent,         \* for each enhancement that may be derived from: its reference
    MayRaw,         \* whether the robot may write raw enhancements
    MaxCommits,     \* commits of other transactions
    MaxCrashes      \* crashes of the worker

VARIABLES
    file,           \* the result file
    pos,            \* lines read
    processed,      \* processed_reference_ids
    attempted,      \* attempted_reference_ids
    successful,     \* successful_reference_ids
    discarded,      \* discarded_enhancement_reference_ids
    added,          \* enhancements this transaction added
    held,           \* enhancements committed: reference and content
    duplicates,     \* duplicate_references of each reference, committed
    report,         \* the entries of the validation result file
    sorted,         \* ProcessedResults: the status of each row, once known
    others,         \* commits of other transactions, so far
    crashes

fileVars == <<file, pos, processed, attempted, successful, discarded, added, held,
              duplicates, report, sorted, others, crashes>>

----------------------------------------------------------------------------
(* Lines and entries *)

NoReference == "none"

\* A blank line, one that does not parse, an error the robot reports, and an
\* enhancement with its content and the enhancements it is derived from.
Blank == [is |-> "blank"]
Unparsable == [is |-> "unparsable"]
RobotError(r) == [is |-> "error", ref |-> r]
Enhancement(r, type, content, parents) ==
    [is |-> "enhancement", ref |-> r, type |-> type, content |-> content,
     parents |-> parents]

\* The enhancement as it is stored.  Two are the same when reference and content
\* are (hash_data leaves out identity and timestamps).
Stored(line) == [ref |-> line.ref, content |-> line.content]

Entry(r, ok) == [ref |-> r, ok |-> ok]

expected == {RefOf[i] : i \in Row}
Unsorted == "unsorted"

Init ==
    /\ file \in Files
    /\ pos = 0
    /\ processed = {} /\ attempted = {} /\ successful = {} /\ discarded = {}
    /\ added = {} /\ report = <<>>
    /\ sorted = [i \in Row |-> Unsorted]
    /\ held = {} /\ duplicates = [r \in Reference |-> {}]
    /\ others = 0 /\ crashes = 0

----------------------------------------------------------------------------
(* A line *)

\* EnhancementResultValidator.from_raw: a line that names no reference cannot
\* be parsed; one that names a reference outside the batch, or one already
\* processed, or brings raw content without the right to, is a robot error.
RefusedUnlessRepeated(line) ==
    \/ line.ref \notin expected
    \/ line.is = "enhancement" /\ line.type = "raw" /\ ~MayRaw

Refused(line) ==
    \/ line.ref \notin expected
    \/ line.ref \in processed
    \/ line.is = "enhancement" /\ line.type = "raw" /\ ~MayRaw

Verdict(line) ==
    IF line.is \in {"blank", "unparsable"} THEN line.is
    ELSE IF Refused(line) THEN "error" ELSE line.is

\* _process_robot_error_line.
ReportError(r) ==
    /\ attempted' = attempted \cup {r}
    /\ report' = Append(report, Entry(r, FALSE))

\* _add_enhancement: what adding comes to, on what has been committed and what
\* this transaction added itself.
Tree(r) == duplicates[r] \cup {r}

Addition(line) ==
    CASE line.ref \notin Reference -> "FAILED"
      [] line.ref \in Reference /\ Stored(line) \in held \cup added -> "DISCARDED"
      [] OTHER -> IF \A e \in line.parents : e \in DOMAIN Parent /\ Parent[e] \in Tree(line.ref)
                  THEN "COMPLETED" ELSE "FAILED"

Reading(line) == pos < Len(file) /\ line = file[pos + 1] /\ pos' = pos + 1

Unchanged == UNCHANGED <<file, held, duplicates, sorted, others, crashes>>

SkipLine ==
    /\ Reading(Blank)
    /\ UNCHANGED <<processed, attempted, successful, discarded, added, report>>
    /\ Unchanged

ParseFailure ==
    /\ Reading(Unparsable)
    /\ report' = Append(report, Entry(NoReference, FALSE))
    /\ UNCHANGED <<processed, attempted, successful, discarded, added>>
    /\ Unchanged

ErrorLine ==
    \E line \in {file[i] : i \in DOMAIN file} :
        /\ Reading(line) /\ Verdict(line) = "error"
        /\ processed' = processed \cup ({line.ref} \cap expected)
        /\ ReportError(line.ref)
        /\ UNCHANGED <<successful, discarded, added>>
        /\ Unchanged

\* An enhancement that never reaches its reference: linked data that does not
\* conform or whose vocabulary cannot be had, or a full text that cannot be
\* stored.
UnfitLine ==
    \E line \in {file[i] : i \in DOMAIN file} :
        /\ Reading(line) /\ Verdict(line) = "enhancement"
        /\ line.type \in {"linked_data", "full_text"}
        /\ processed' = processed \cup {line.ref}
        /\ ReportError(line.ref)
        /\ UNCHANGED <<successful, discarded, added>>
        /\ Unchanged

EnhancementLine ==
    \E line \in {file[i] : i \in DOMAIN file} :
        /\ Reading(line) /\ Verdict(line) = "enhancement"
        /\ processed' = processed \cup {line.ref}
        /\ attempted' = attempted \cup {line.ref}
        /\ report' = Append(report, Entry(line.ref, Addition(line) = "COMPLETED"))
        /\ successful' = successful
                         \cup (IF Addition(line) = "COMPLETED" THEN {line.ref} ELSE {})
        /\ discarded' = discarded
                        \cup (IF Addition(line) = "DISCARDED" THEN {line.ref} ELSE {})
        /\ added' = added \cup (IF Addition(line) = "COMPLETED"
                                THEN {Stored(line)} ELSE {})
        /\ Unchanged

\* The file is at its end: an entry for every reference no line attempted, in
\* any order, and _categorize_pending_enhancements.
Missing == expected \ attempted

Categorised ==
    [i \in Row |-> IF RefOf[i] \in successful THEN "COMPLETED"
                   ELSE IF RefOf[i] \in discarded THEN "DISCARDED" ELSE "FAILED"]

FileEnds ==
    /\ pos = Len(file) /\ sorted = [i \in Row |-> Unsorted]
    /\ \E order \in [1..Cardinality(Missing) -> Missing] :
           /\ {order[k] : k \in DOMAIN order} = Missing
           /\ report' = report \o [k \in DOMAIN order |-> Entry(order[k], FALSE)]
    /\ sorted' = Categorised
    /\ held' = held \cup added
    /\ UNCHANGED <<file, pos, processed, attempted, successful, discarded, added,
                   duplicates, others, crashes>>

----------------------------------------------------------------------------
(* Around it *)

\* Another transaction commits an enhancement, or makes one reference the
\* duplicate of another.
OtherCommits ==
    /\ others < MaxCommits
    /\ others' = others + 1
    /\ \/ \E line \in {file[i] : i \in DOMAIN file} :
              /\ line.is = "enhancement" /\ line.ref \in Reference
              /\ held' = held \cup {Stored(line)}
              /\ UNCHANGED duplicates
       \/ \E r, d \in Reference :
              /\ r # d
              /\ duplicates' = [duplicates EXCEPT ![r] = @ \cup {d}]
              /\ UNCHANGED held
    /\ UNCHANGED <<file, pos, processed, attempted, successful, discarded, added,
                   report, sorted, crashes>>

\* The transaction is rolled back and the task delivered again.
Crash ==
    /\ crashes < MaxCrashes /\ sorted = [i \in Row |-> Unsorted]
    /\ crashes' = crashes + 1
    /\ pos' = 0
    /\ processed' = {} /\ attempted' = {} /\ successful' = {} /\ discarded' = {}
    /\ added' = {} /\ report' = <<>>
    /\ UNCHANGED <<file, held, duplicates, sorted, others>>

Next ==
    \/ SkipLine \/ ParseFailure \/ ErrorLine \/ UnfitLine \/ EnhancementLine
    \/ FileEnds \/ OtherCommits \/ Crash

Spec == Init /\ [][Next]_fileVars

----------------------------------------------------------------------------
(* Properties *)

\* Lines of the file that speak for a reference.
Naming(r) ==
    {n \in DOMAIN file : file[n].is \in {"error", "enhancement"} /\ file[n].ref = r}

Entries(r) == {k \in DOMAIN report : report[k].ref = r}

\* The first line that names a reference settles what the batch says of it,
\* whatever follows: a row is COMPLETED exactly when that line is an
\* enhancement this reading added and reported, it is the only one added and
\* the only entry without an error, and a reference with no line has one entry
\* of its own (process_robot_enhancement_batch_result).
FirstLineSettles ==
    sorted # [i \in Row |-> Unsorted] =>
        \A i \in Row :
            LET r == RefOf[i]
                first == CHOOSE n \in Naming(r) : \A m \in Naming(r) : n <= m
                mine == {e \in added : e.ref = r}
                praised == {k \in Entries(r) : report[k].ok}
            IN  /\ sorted[i] = "COMPLETED" <=> mine # {}
                /\ Cardinality(praised) = Cardinality(mine)
                /\ mine # {} => /\ file[first].is = "enhancement"
                                /\ mine = {[ref |-> r, content |-> file[first].content]}
                                /\ \A k \in Entries(r) : \E p \in praised : p <= k
                /\ Cardinality(Entries(r)) =
                       IF Naming(r) = {} THEN 1 ELSE Cardinality(Naming(r))
=============================================================================
