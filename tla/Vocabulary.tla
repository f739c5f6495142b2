----------------------------- MODULE Vocabulary -----------------------------
(***************************************************************************)
(* The vocabulary client: two bounded caches of fetched artifacts, maps    *)
(* derived from a vocabulary and remembered, and the three kinds of task   *)
(* that share the one client of a process: validating a linked-data        *)
(* enhancement, projecting one for the index, and reading the schemes of   *)
(* a vocabulary for facets.                                                *)
(*                                                                         *)
(* A task is suspended only while it fetches or waits for another's        *)
(* computation; letting others in between two cached reads only adds       *)
(* behaviours.  Fetches fail with a transport error (retried), a status    *)
(* error or an unreadable body.                                            *)
(***************************************************************************)
EXTENDS Integers, Sequences, FiniteSets, SequencesExt

CONSTANTS
    Task, Kind,     \* the tasks, and what each does
    VocabularyOf,   \* the vocabulary each task names
    ContextOf,      \* the context each task names
    Concept,
    Loads,          \* the tasks of a run, and the SKOS graphs they may meet
    CacheSize, MaxAttempts, MaxFaults

VARIABLES
    graph,          \* what the vocabularies say
    vocabularies,   \* _vocabulary_cache: URIs, least recently used first
    contexts,       \* _context_cache
    memo,           \* the maps derived from a vocabulary that are remembered
    computing,      \* the tasks whose computing of a map others may wait for
    task, faults

vars == <<graph, vocabularies, contexts, memo, computing, task, faults>>

----------------------------------------------------------------------------
(* LRUCache: membership does not touch an entry, reading does, and storing *)
(* one more than fits drops the least recently used.                       *)

Touch(cache, uri) == Append(SelectSeq(cache, LAMBDA u : u # uri), uri)

Store(cache, uri) ==
    LET stored == Touch(cache, uri) IN
    IF Len(stored) > CacheSize THEN Tail(stored) ELSE stored

Holds(cache, uri) == uri \in ToSet(cache)

----------------------------------------------------------------------------
(* _build_scheme_members.  g.explicit[c]: the schemes c declares, by       *)
(* inScheme, topConceptOf or hasTopConcept; g.broader[c]: its parents.     *)

\* schemes_for, with the set of concepts seen handed from call to call.
RECURSIVE SchemesFor(_, _, _)
SchemesFor(g, c, seen) ==
    IF g.explicit[c] # {} THEN [schemes |-> g.explicit[c], seen |-> seen]
    ELSE IF c \in seen THEN [schemes |-> {}, seen |-> seen]
    ELSE FoldSet(LAMBDA parent, acc :
                    LET up == SchemesFor(g, parent, acc.seen) IN
                    [schemes |-> acc.schemes \cup up.schemes, seen |-> up.seen],
                 [schemes |-> {}, seen |-> seen \cup {c}], g.broader[c])

Declaring(g) == {c \in Concept : g.explicit[c] # {} \/ g.broader[c] # {}}

\* Mutant: one set of seen concepts serves every concept.
SchemesOfAll(g) ==
    FoldSet(LAMBDA c, acc :
               LET up == SchemesFor(g, c, acc.seen) IN
               [of |-> [acc.of EXCEPT ![c] = up.schemes], seen |-> up.seen],
            [of |-> [c \in Concept |-> {}], seen |-> {}], Declaring(g)).of

\* The schemes of each concept, from a fresh set of seen concepts.
SchemesOf(g) ==
    [c \in Concept |-> IF c \in Declaring(g) THEN SchemesFor(g, c, {}).schemes ELSE {}]

\* _build_scheme_members
SchemeMembers(g) ==
    LET of == SchemesOf(g) IN
    [s \in UNION {of[c] : c \in Concept} |-> {c \in Concept : s \in of[c]}]

\* _build_concept_scheme_members
ConceptSchemeMembers(g) ==
    LET members == SchemeMembers(g) IN
    [c \in UNION {members[s] : s \in DOMAIN members} |->
        UNION {members[s] : s \in {s \in DOMAIN members : c \in members[s]}}]

----------------------------------------------------------------------------
(* Tasks.  A task obtains its artifacts and maps in order.                 *)

\* Mutant: the context is fetched before the vocabulary.
StepsContextFirst(kind) ==
    CASE kind = "validate" -> <<"context", "vocabulary">>
      [] kind = "project" -> <<"vocabulary", "labels", "schemes",
                               "scheme_to_property", "unwrapped", "context">>
      [] kind = "facets" -> <<"members">>

\* LinkedDataValidationService.validate, LinkedDataProjectionService.project
\* and the facets' reading of scheme members.
Steps(kind) ==
    CASE kind = "validate" -> <<"vocabulary", "context">>
      [] kind = "project" -> <<"vocabulary", "labels", "schemes",
                               "scheme_to_property", "unwrapped", "context">>
      [] kind = "facets" -> <<"members">>

\* Maps remembered by alru_cache, whose computation callers share, and by the
\* projection service, whose callers each compute.
Shared == {"labels", "schemes", "members"}
Derived == Shared \cup {"scheme_to_property", "unwrapped"}

NewTask == [at |-> 1, waits |-> "no", attempt |-> 0, result |-> "unborn"]

Init ==
    /\ \E load \in Loads :
          /\ graph \in load.graphs
          /\ task = [t \in Task |->
                      [NewTask EXCEPT !.result = IF t \in load.tasks THEN @ ELSE "none"]]
    /\ vocabularies = <<>> /\ contexts = <<>>
    /\ memo = {}
    /\ computing = {}
    /\ faults = 0

Doing(t) == Steps(Kind[t])[task[t].at]
Running(t) == task[t].result = "running"
Ready(t) == Running(t) /\ task[t].waits = "no"
MapOf(t) == <<Doing(t), VocabularyOf[t]>>
ComputedByOther(t) == \E s \in computing : MapOf(s) = MapOf(t)

Uri(t) == IF Doing(t) = "context" THEN ContextOf[t] ELSE VocabularyOf[t]
Cache(t) == IF Doing(t) = "context" THEN contexts ELSE vocabularies

\* document_loader serves what the context cache holds: expansion follows the
\* last artifact without an await.
Expanded(t, cached) ==
    IF Kind[t] = "validate" /\ ~Holds(cached, ContextOf[t])
    THEN "not_prefetched" ELSE "ok"

\* On to the next step, or to the end.
Onward(t, cached) ==
    IF task[t].at = Len(Steps(Kind[t]))
    THEN [task[t] EXCEPT !.result = Expanded(t, cached), !.waits = "no"]
    ELSE [task[t] EXCEPT !.at = @ + 1, !.waits = "no", !.attempt = 0]

Begin(t) ==
    /\ task[t].result = "unborn"
    /\ task' = [task EXCEPT ![t].result = "running"]
    /\ UNCHANGED <<graph, vocabularies, contexts, memo, computing, faults>>

\* A remembered map is returned.
Recall(t) ==
    /\ Ready(t)
    /\ MapOf(t) \in memo
    /\ task' = [task EXCEPT ![t] = Onward(t, contexts)]
    /\ UNCHANGED <<graph, vocabularies, contexts, memo, computing, faults>>

\* A map being computed by another task is waited for.
Join(t) ==
    /\ Ready(t)
    /\ Doing(t) \in Shared /\ MapOf(t) \notin memo
    /\ ComputedByOther(t)
    /\ task' = [task EXCEPT ![t].waits = "memo"]
    /\ UNCHANGED <<graph, vocabularies, contexts, memo, computing, faults>>

\* The tasks that go on when t has its artifact: t, and those waiting for the
\* map it computes.
Waiting(t) ==
    {t} \cup {s \in Task : /\ t \in computing
                           /\ Running(s) /\ task[s].waits = "memo"
                           /\ MapOf(s) = MapOf(t)}

\* What t does with its artifact: cache it, remember the map derived from it.
Obtain(t, cache) ==
    /\ IF Doing(t) = "context"
       THEN contexts' = cache /\ UNCHANGED vocabularies
       ELSE vocabularies' = cache /\ UNCHANGED contexts
    /\ memo' = memo \cup IF Doing(t) \in Derived THEN {MapOf(t)} ELSE {}
    /\ computing' = computing \ {t}
    /\ task' = [s \in Task |->
                  IF s \in Waiting(t) THEN Onward(s, contexts') ELSE task[s]]

\* get_vocabulary and get_context: a cached artifact is returned at once ...
Hit(t) ==
    /\ Ready(t)
    /\ MapOf(t) \notin memo /\ ~ComputedByOther(t)
    /\ Holds(Cache(t), Uri(t))
    /\ Obtain(t, Touch(Cache(t), Uri(t)))
    /\ UNCHANGED <<graph, faults>>

\* ... and any other is fetched.
Miss(t) ==
    /\ Ready(t)
    /\ MapOf(t) \notin memo /\ ~ComputedByOther(t)
    /\ ~Holds(Cache(t), Uri(t))
    /\ task' = [task EXCEPT ![t].waits = "fetch", ![t].attempt = 1]
    /\ computing' = computing \cup IF Doing(t) \in Shared THEN {t} ELSE {}
    /\ UNCHANGED <<graph, vocabularies, contexts, memo, faults>>

Fetched(t) ==
    /\ Running(t) /\ task[t].waits = "fetch"
    /\ Obtain(t, Store(Cache(t), Uri(t)))
    /\ UNCHANGED <<graph, faults>>

Fault ==
    /\ faults < MaxFaults
    /\ faults' = faults + 1

Fail(S) == task' = [s \in Task |-> IF s \in S
                                   THEN [task[s] EXCEPT !.result = "unavailable", !.waits = "no"]
                                   ELSE task[s]]

\* The fetch has failed: so does everyone waiting for it, and nothing is
\* remembered.
GivesUp(t) ==
    /\ Fail(Waiting(t))
    /\ computing' = computing \ {t}

\* _fetch retries a transport error, and gives up after the last attempt; a
\* status error, or a body that does not parse, is not retried.
FetchFails(t) ==
    /\ Running(t) /\ task[t].waits = "fetch"
    /\ Fault
    /\ \/ /\ task[t].attempt < MaxAttempts
          /\ task' = [task EXCEPT ![t].attempt = @ + 1]
          /\ UNCHANGED computing
       \/ GivesUp(t)
    /\ UNCHANGED <<graph, vocabularies, contexts, memo>>

Ended ==
    /\ \A t \in Task : task[t].result \notin {"unborn", "running"}
    /\ UNCHANGED vars

Next ==
    \/ \E t \in Task :
         \/ Begin(t) \/ Recall(t) \/ Join(t)
         \/ Hit(t) \/ Miss(t) \/ Fetched(t) \/ FetchFails(t)
    \/ Ended

Spec == Init /\ [][Next]_vars

----------------------------------------------------------------------------
(* Properties.                                                             *)

\* Expansion never asks the synchronous document loader for a context that is
\* not there: whatever other tasks fetched and evicted while a validation
\* waited, its own context is cached when it expands its data.
LoaderFindsContext ==
    \A t \in Task : task[t].result # "not_prefetched"

\* A chain of broader links from c to a declaring concept d, through concepts
\* that declare nothing.
InheritsFrom(c, d) ==
    \E n \in 1..Cardinality(Concept) : \E path \in [1..n -> Concept] :
        /\ path[1] = c /\ path[n] = d
        /\ \A i \in 1..(n - 1) : /\ graph.explicit[path[i]] = {}
                                 /\ path[i + 1] \in graph.broader[path[i]]

\* The depth-first walk with its shared set of seen concepts computes what
\* _build_scheme_members promises, on cyclic graphs too: a concept belongs to
\* the schemes it declares, or else to those of the nearest declaring ancestors
\* on every path; and a concept's siblings are all members of its schemes.
SchemesInherited ==
    LET Promised(c) == UNION {graph.explicit[d] : d \in {d \in Concept : InheritsFrom(c, d)}}
        members == SchemeMembers(graph)
        siblings == ConceptSchemeMembers(graph)
    IN \A c \in Concept :
         /\ {s \in DOMAIN members : c \in members[s]} = Promised(c)
         /\ (c \in DOMAIN siblings) = (Promised(c) # {})
         /\ c \in DOMAIN siblings =>
              siblings[c] = {d \in Concept : Promised(c) \cap Promised(d) # {}}

=============================================================================
