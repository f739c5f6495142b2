---------------------------- MODULE Assessments -----------------------------
(***************************************************************************)
(* Assessing a reference as a possible duplicate and recording what was    *)
(* found: the incoming reference is read, candidates come from shared      *)
(* identifiers in Postgres and from a search in Elasticsearch, they are    *)
(* read and scored in pairs, and the outcome is recorded once for each     *)
(* delivery, with its evidence in blob storage.                            *)
(*                                                                         *)
(* Every read of a store is a step of its own, so decisions and imports    *)
(* change the corpus in between, and a delivery may be processed twice, at *)
(* once or after a crash.  Texts are abstracted to classes that compare    *)
(* equal; the scorer is a parameter.                                       *)
(***************************************************************************)
EXTENDS Integers, FiniteSets, Functions

CONSTANTS
    Reference, Worker, Key,
    KeyOf,          \* the delivery each worker processes
    Incoming,       \* the reference each delivery asks to assess
    Corpora,        \* the rows of the references, and what is indexed of them
    Policies,       \* retrieval policies
    Score(_, _),    \* the probability the scorer gives a pair of rows
    Threshold, K, MaxChanges, MaxFaults,
    Sampled,        \* the references of the evidence sample
    NoReference

VARIABLES
    corpus,         \* the row of each reference in Postgres
    idx,            \* its document in Elasticsearch: a row as it was, or Absent
    policy,
    task,           \* the assessment each worker is making
    records,        \* the committed record of each delivery
    blobs,          \* payloads: their name and the delivery they were written for
    changes, faults

vars == <<corpus, idx, policy, task, records, blobs, changes, faults>>

----------------------------------------------------------------------------
(* Rows.  canonical: "canonical", "pending" (no decision yet) or           *)
(* "duplicate", and then of names its canonical reference.                 *)

Absent == [stored |-> FALSE, title |-> "", authors |-> FALSE, year |-> 0,
           ids |-> {}, other |-> FALSE, canonical |-> "pending", of |-> NoReference]

\* is_canonical_like: everything but a determined duplicate.
CanonicalLike(row) == row.canonical # "duplicate"

\* DeduplicationPaperProjection: a row with nothing to compare has no paper.
Projectable(row) == row.title # "" \/ row.authors \/ row.year # 0 \/ row.ids # {}

\* CandidateSelectionInput: at least one field to search on.
InputValid(row) == Projectable(row) \/ row.other

\* RetrievalPolicy.is_input_searchable
Searchable(p, row) ==
    /\ row.title # "" /\ row.authors
    /\ row.year # 0 \/ ~p.requires_year

SharesIdentifier(rows, row, self) ==
    {r \in Reference \ {self} : rows[r].stored /\ rows[r].ids \cap row.ids # {}}

\* Mutant: a duplicate of the reference itself is not skipped.
MatchesSelf(rows, row, self) ==
    {IF CanonicalLike(rows[r]) THEN r ELSE rows[r].of :
        r \in SharesIdentifier(rows, row, self)}

\* _union_identifier_matches: every stored reference with one of the
\* identifiers, a duplicate standing for its canonical reference, neither of
\* them the reference itself.
IdentifierMatches(rows, row, self) ==
    {IF CanonicalLike(rows[r]) THEN r ELSE rows[r].of :
        r \in SharesIdentifier(rows, row, self)} \ {self}

\* The candidate query: the title matches, the document is canonical, the year
\* is within the policy's window, and the reference itself is excluded.
InWindow(p, row, doc) ==
    p.year = "hard_window" /\ row.year # 0 =>
        doc.year # 0 /\ doc.year \in (row.year - 1)..(row.year + 1)

SearchMatches(docs, p, row, self) ==
    {r \in Reference \ {self} :
        /\ docs[r].stored /\ docs[r].canonical = "canonical"
        /\ docs[r].title = row.title
        /\ InWindow(p, row, docs[r])}

\* search_for_candidate_canonicals returns the K best; their order is
\* Elasticsearch's.
Best(S) == {B \in SUBSET S : Cardinality(B) = IF Cardinality(S) < K
                                              THEN Cardinality(S) ELSE K}

----------------------------------------------------------------------------
(* Assessments.                                                            *)

Unscorable == -1
NoRecord == [outcome |-> "none", proposed |-> NoReference, scores |-> [r \in {} |-> 0],
             searched |-> FALSE, payload |-> "NOT_RETAINED"]

NewTask == [pc |-> "hydrate", row |-> Absent, matched |-> {}, hits |-> {},
            scores |-> [r \in {} |-> 0], assessed |-> NoRecord, error |-> "none"]

Init ==
    /\ \E c \in Corpora : corpus = c.rows /\ idx = c.docs
    /\ policy \in Policies
    /\ task = [w \in Worker |-> NewTask]
    /\ records = [k \in Key |-> NoRecord]
    /\ blobs = {}
    /\ changes = 0
    /\ faults = 0

Fault ==
    /\ faults < MaxFaults
    /\ faults' = faults + 1

Self(w) == Incoming[KeyOf[w]]
Candidates(t) == t.matched \cup t.hits

Go(w, t) == task' = [task EXCEPT ![w] = t]
Raise(w, why) == Go(w, [task[w] EXCEPT !.pc = "raised", !.error = why])

\* Decisions, imports and the indexing that follows them.
Decide ==
    /\ changes < MaxChanges
    /\ \E r, c \in Reference :
          /\ corpus[r].stored /\ corpus[c].stored /\ corpus[c].canonical = "canonical"
          /\ \/ /\ r # c
                /\ corpus[r].canonical # "duplicate"
                /\ \A s \in Reference : corpus[s].of # r
                /\ corpus' = [corpus EXCEPT ![r].canonical = "duplicate", ![r].of = c]
             \/ /\ r = c /\ \E s \in Reference :
                     /\ corpus[s].canonical = "pending" /\ corpus[s].stored
                     /\ corpus' = [corpus EXCEPT ![s].canonical = "canonical"]
    /\ changes' = changes + 1
    /\ UNCHANGED <<idx, policy, task, records, blobs, faults>>

IndexReference ==
    /\ \E r \in Reference :
          /\ corpus[r].stored /\ idx[r] # corpus[r]
          /\ changes > 0
          /\ idx' = [idx EXCEPT ![r] = corpus[r]]
    /\ UNCHANGED <<corpus, policy, task, records, blobs, changes, faults>>

----------------------------------------------------------------------------
(* The steps of an assessment.                                             *)

\* evaluate: the incoming reference is read once; everything later uses this
\* snapshot of it.
Hydrate(w) ==
    LET row == corpus[Self(w)] IN
    /\ task[w].pc = "hydrate"
    /\ IF ~row.stored THEN Raise(w, "not_found")
       ELSE IF ~(InputValid(row) /\ Projectable(row)) THEN Raise(w, "unprojectable")
       ELSE Go(w, [task[w] EXCEPT !.row = row, !.pc = "match"])
    /\ UNCHANGED <<corpus, idx, policy, records, blobs, changes, faults>>

\* get_deduplication_candidates: first the identifiers, in Postgres ...
Match(w) ==
    /\ task[w].pc = "match"
    /\ Go(w, [task[w] EXCEPT
                !.matched = IdentifierMatches(corpus, task[w].row, Self(w)),
                !.pc = IF Searchable(policy, task[w].row) THEN "search" ELSE "read"])
    /\ UNCHANGED <<corpus, idx, policy, records, blobs, changes, faults>>

\* ... then the search, when the policy's fields are there.
SearchCandidates(w) ==
    LET row == task[w].row IN
    /\ task[w].pc = "search"
    /\ \/ /\ \E hits \in Best(SearchMatches(idx, policy, row, Self(w))) :
                Go(w, [task[w] EXCEPT !.hits = hits, !.pc = "read"])
          /\ UNCHANGED faults
       \/ Fault /\ Raise(w, "retrieval")
    /\ UNCHANGED <<corpus, idx, policy, records, blobs, changes>>

\* get_hydrated returns the rows there are.
Missing(C) == {r \in C : ~corpus[r].stored}

\* The candidates are read; all of them must be there.
ReadCandidates(w) ==
    LET C == Candidates(task[w]) IN
    /\ task[w].pc = "read"
    /\ \/ /\ UNCHANGED faults
          /\ IF Self(w) \in C THEN Raise(w, "itself")
             ELSE IF Missing(C) # {} THEN Raise(w, "missing")
             ELSE Go(w, [task[w] EXCEPT
                           !.scores = [r \in C |->
                               IF Projectable(corpus[r])
                               THEN Score(task[w].row, corpus[r]) ELSE Unscorable],
                           !.pc = "score"])
       \/ C # {} /\ Fault /\ Raise(w, "retrieval")
    /\ UNCHANGED <<corpus, idx, policy, records, blobs, changes>>

Clearing(scores) == {r \in DOMAIN scores : scores[r] >= Threshold}
Unscored(scores) == {r \in DOMAIN scores : scores[r] = Unscorable}

\* _summarise
Summarise(scores, searchable) ==
    LET clearing == Clearing(scores) IN
    IF Unscored(scores) # {} \/ Cardinality(clearing) > 1
    THEN <<"NO_PROPOSAL", NoReference>>
    ELSE IF clearing # {}
         THEN <<"PROPOSE_DUPLICATE", CHOOSE r \in clearing : TRUE>>
    ELSE IF ~searchable THEN <<"NO_PROPOSAL", NoReference>>
    ELSE <<"PROPOSE_CANONICAL", NoReference>>

\* Every pair is scored; the scorer may raise on one of them, which makes that
\* pair unscorable and nothing worse.
ScorePairs(w) ==
    LET row == task[w].row
        Assessed(scores) ==
            LET s == Summarise(scores, Searchable(policy, row)) IN
            [task[w] EXCEPT
                !.scores = scores, !.pc = "find",
                !.assessed = [outcome |-> s[1], proposed |-> s[2], scores |-> scores,
                              searched |-> Searchable(policy, row),
                              payload |-> "NOT_RETAINED"]]
    IN
    /\ task[w].pc = "score"
    /\ \/ Go(w, Assessed(task[w].scores)) /\ UNCHANGED faults
       \/ /\ Fault
          /\ \E r \in DOMAIN task[w].scores :
                /\ task[w].scores[r] # Unscorable
                /\ Go(w, Assessed([task[w].scores EXCEPT ![r] = Unscorable]))
    /\ UNCHANGED <<corpus, idx, policy, records, blobs, changes>>

----------------------------------------------------------------------------
(* Recording it.                                                           *)

\* record: the row of an earlier delivery is returned as it is.
Find(w) ==
    LET k == KeyOf[w] IN
    /\ task[w].pc = "find"
    /\ Go(w, IF records[k] # NoRecord
             THEN [task[w] EXCEPT !.assessed = records[k], !.pc = "done"]
             ELSE [task[w] EXCEPT !.pc = "store"])
    /\ UNCHANGED <<corpus, idx, policy, records, blobs, changes, faults>>

\* _is_interesting, and the evidence sample.
Retained(w) ==
    LET scores == task[w].assessed.scores IN
    \/ Clearing(scores) # {} \/ Unscored(scores) # {}
    \/ Self(w) \in Sampled

\* Mutant: the payload is named for the record about to be written.
PayloadNameFresh(w) == <<"record", Cardinality(blobs)>>
\* The payload is named for the delivery.
PayloadName(w) == <<"delivery", KeyOf[w]>>

\* _store_payload: a write replaces what had the name; a failure is noted in
\* the record.
StorePayload(w) ==
    LET Stored(state) == [task[w] EXCEPT !.assessed.payload = state, !.pc = "insert"] IN
    /\ task[w].pc = "store"
    /\ \/ /\ ~Retained(w)
          /\ Go(w, Stored("NOT_RETAINED"))
          /\ UNCHANGED <<blobs, faults>>
       \/ /\ Retained(w)
          /\ blobs' = {b \in blobs : b.name # PayloadName(w)} \cup
                        {[name |-> PayloadName(w), key |-> KeyOf[w],
                          scores |-> task[w].assessed.scores]}
          /\ Go(w, Stored("STORED"))
          /\ UNCHANGED faults
       \/ /\ Retained(w)
          /\ Fault
          /\ Go(w, Stored("FAILED"))
          /\ UNCHANGED blobs
    /\ UNCHANGED <<corpus, idx, policy, records, changes>>

\* add_or_find_by_idempotency_key: an insert of a key another transaction has
\* inserted waits for it; a key already committed returns that row.
Insert(w) ==
    LET k == KeyOf[w] IN
    /\ task[w].pc = "insert"
    /\ \A v \in Worker : KeyOf[v] = k => task[v].pc # "inserted"
    /\ Go(w, IF records[k] # NoRecord
             THEN [task[w] EXCEPT !.assessed = records[k], !.pc = "done"]
             ELSE [task[w] EXCEPT !.pc = "inserted"])
    /\ UNCHANGED <<corpus, idx, policy, records, blobs, changes, faults>>

Commit(w) ==
    /\ task[w].pc = "inserted"
    /\ records' = [records EXCEPT ![KeyOf[w]] = task[w].assessed]
    /\ Go(w, [task[w] EXCEPT !.pc = "done"])
    /\ UNCHANGED <<corpus, idx, policy, blobs, changes, faults>>

\* A worker that dies or fails to commit loses what it had not committed; the
\* delivery comes again.  So does one whose assessment raised.
Redeliver(w) ==
    /\ task[w].pc # "done"
    /\ Fault
    /\ Go(w, NewTask)
    /\ UNCHANGED <<corpus, idx, policy, records, blobs, changes>>

Step(w) ==
    \/ Hydrate(w) \/ Match(w) \/ SearchCandidates(w) \/ ReadCandidates(w)
    \/ ScorePairs(w) \/ Find(w) \/ StorePayload(w) \/ Insert(w) \/ Commit(w)

Ended ==
    /\ \A w \in Worker : task[w].pc \in {"done", "raised"}
    /\ UNCHANGED vars

Next ==
    \/ \E w \in Worker : Step(w) \/ Redeliver(w)
    \/ Decide
    \/ IndexReference
    \/ Ended

Spec == Init /\ [][Next]_vars

----------------------------------------------------------------------------
(* Properties.                                                             *)

\* The canonical references that share an identifier with the one assessed.
Related(self) ==
    {IF CanonicalLike(corpus[r]) THEN r ELSE corpus[r].of :
        r \in SharesIdentifier(corpus, corpus[self], self)} \ {self}

\* A recorded proposal is one a reviewer can act on.  No reference is proposed
\* as a duplicate of itself, nor does an assessment fail because it met itself
\* through a reference already merged into it.  While the corpus stands still,
\* a proposed canonical has no identifier relative that would have cleared the
\* threshold, and a proposed duplicate has exactly the one.
ProposalIsSound ==
    /\ \A w \in Worker : task[w].error # "itself"
    /\ \A k \in Key :
         LET self == Incoming[k]
             clears == {r \in Related(self) :
                          /\ Projectable(corpus[r])
                          /\ Score(corpus[self], corpus[r]) >= Threshold}
         IN
         /\ records[k].proposed # self
         /\ changes = 0 =>
              CASE records[k].outcome = "PROPOSE_CANONICAL" ->
                     clears = {}
                [] records[k].outcome = "PROPOSE_DUPLICATE" ->
                     clears \subseteq {records[k].proposed}
                [] OTHER -> TRUE

\* A delivery is recorded once, whoever raced or retried it: every worker that
\* finished it returned the one committed row, a row that says its evidence is
\* stored has it, and the attempts at a delivery leave one payload between them,
\* never a second copy.
RecordedOnce ==
    /\ \A w \in Worker : task[w].pc = "done" => task[w].assessed = records[KeyOf[w]]
    /\ \A k \in Key :
         LET kept == {b \in blobs : b.key = k} IN
         /\ Cardinality(kept) <= 1
         /\ records[k].payload = "STORED" => kept # {}

=============================================================================
