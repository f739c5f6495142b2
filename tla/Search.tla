------------------------------- MODULE Search -------------------------------
(***************************************************************************)
(* Reading the reference index: the scan behind a search-driven            *)
(* enhancement request (a point in time, a prefetching producer and its    *)
(* consumer), walking the pages of a search, facet counts that stay aware  *)
(* of a selection's siblings, and the cross-tabulation of two axes.        *)
(*                                                                         *)
(* One behaviour serves one request while documents are written.  A        *)
(* document is what its fields hold; every clause of a query is a field    *)
(* and the values it accepts.  One search request to Elasticsearch is one  *)
(* step and sees the index at that moment, or the point in time it names.  *)
(***************************************************************************)
EXTENDS Integers, Sequences, FiniteSets, SequencesExt, FiniteSetsExt

CONSTANTS
    Reference,      \* documents, by the number Elasticsearch knows them by
    DocOf,          \* the position of a document in its shard (_doc)
    Profile,        \* what a document may hold
    Indexes,        \* the indexes a behaviour may start with
    Query,          \* the searches asked for, as written
    UpperOf,        \* the trimmed upper case of what is not written so
    CountryCode,    \* what has the shape of a country code
    Requests,       \* the requests made
    Members,        \* the concepts of each concept scheme of the vocabulary
    RegionOf,       \* the World Bank region of each country that has one
    PageSize, Window, MaxBuckets, MaxCells, CountryAxisSize,
    MaxWrites, MaxFaults

\* The literal axes hold every value their fields can have.
AxisHolds ==
    /\ Cardinality(UNION {p.countries : p \in Profile}) <= CountryAxisSize
    /\ PageSize >= 1 /\ Window >= PageSize

VARIABLES
    index,          \* the document of each reference, or NoDoc
    query, request, \* what is asked
    pit,            \* the point in time: its state and the index it keeps
    producer,       \* the scanning task of prefetch()
    queue,          \* the queue of prefetch(), of one item
    consumer,       \* the coroutine that collects the pages
    collected,      \* the references collected or shown, in order
    answer,         \* the counts returned so far
    writes, faults

vars == <<index, query, request, pit, producer, queue, consumer, collected,
          answer, writes, faults>>

----------------------------------------------------------------------------
(* Documents, queries and clauses.                                         *)

NoDoc == [text |-> FALSE, score |-> 0, year |-> 0, concepts |-> {},
          countries |-> {}, annotations |-> {}, scores |-> {}]

Facet == {"concepts", "countries", "country_wb_regions"}

\* regions_for: a country without a region has none.
Regions(countries) ==
    {RegionOf[c] : c \in countries \cap DOMAIN RegionOf}

\* The values of a field of a document.
Field(d, f) ==
    CASE f = "concepts" -> d.concepts
      [] f = "countries" -> d.countries
      [] f = "country_wb_regions" -> Regions(d.countries)
      [] f = "annotations" -> d.annotations
      [] f = "scores" -> d.scores
      [] f = "year" -> IF d.year = 0 THEN {} ELSE {d.year}

\* A terms, term, prefix or range clause: one of the field's values is accepted.
Clause(f, values) == [field |-> f, any |-> values]
Accepts(c, d) == Field(d, c.field) \cap c.any # {}

\* parse_publication_year_range: a bound that is absent is 0.
Year == {p.year : p \in Profile} \ {0}
YearClause(range) ==
    IF range = <<0, 0>> THEN {}
    ELSE {Clause("year", {y \in Year : /\ range[1] # 0 => y >= range[1]
                                       /\ range[2] # 0 => y <= range[2]})}

\* An annotation filter with a score is a range on the score field of its
\* scheme and label; without one it asks for that annotation or, when it has
\* no label, for any annotation of the scheme.
Annotation == UNION {p.annotations : p \in Profile}
Score == UNION {p.scores : p \in Profile}
AnnotationClause(a) ==
    IF a.score >= 0
    THEN Clause("scores", {b \in Score : /\ b.scheme = a.scheme
                                         /\ b.label = a.label
                                         /\ b.score >= a.score})
    ELSE Clause("annotations", {b \in Annotation :
                                    /\ b.scheme = a.scheme
                                    /\ a.label # "" => b.label = a.label})

\* The filters of a query on a facet's field: a sequence of OR-sets.
FiltersOn(q, f) ==
    CASE f = "concepts" -> q.concepts
      [] f = "countries" -> q.countries
      [] f = "country_wb_regions" -> q.regions

\* _build_filter_clauses, without the filters of the facets excluded.
FilterClauses(q, excluded) ==
    YearClause(q.years)
    \cup {AnnotationClause(a) : a \in q.annotations}
    \cup UNION {{Clause(f, FiltersOn(q, f)[i]) : i \in DOMAIN FiltersOn(q, f)} :
                    f \in Facet \ excluded}

\* The references of an index a set of clauses accepts, the query string included.
Matches(idx, clauses) ==
    {r \in Reference : /\ idx[r].text
                       /\ \A c \in clauses : Accepts(c, idx[r])}

Hits(idx, q) == Matches(idx, FilterClauses(q, {}))

----------------------------------------------------------------------------
(* Ordering.  Elasticsearch orders by the sort keys and leaves ties in any *)
(* order, so a search may answer with any sequence its keys allow.         *)

Before(a, b) == a[1] < b[1] \/ (a[1] = b[1] /\ a[2] < b[2])

Orders(S, key) ==
    {s \in SetToSeqs(S) :
        \A i, j \in DOMAIN s : i < j => ~Before(key[s[j]], key[s[i]])}

\* Mutant: _doc alone.
ScanKeyDocOnly(r) == <<DocOf[r], 0>>
\* _scan_sort_keys: _doc leads and _shard_doc, unique, breaks its ties.
ScanKey(r) == <<DocOf[r], r>>

\* search: relevance, best first, then the document's id.
PageKey(idx, r) == <<-idx[r].score, -r>>

Take(s, from, size) == SubSeq(s, from + 1, IF from + size < Len(s)
                                           THEN from + size ELSE Len(s))

----------------------------------------------------------------------------
(* The state of a request.                                                 *)

NoPit == [state |-> "none", docs |-> [r \in Reference |-> NoDoc]]

\* A page of a scan: its hits and the total counted for its first page.
Page(hits, total) == [kind |-> "page", hits |-> hits, total |-> total]
Done == [kind |-> "done", hits |-> <<>>, total |-> 0]
Broken == [kind |-> "error", hits |-> <<>>, total |-> 0]

NoAnswer == [f \in {} |-> {}]

Fault ==
    /\ faults < MaxFaults
    /\ faults' = faults + 1

Init ==
    /\ index \in Indexes
    /\ query \in Query
    /\ request \in Requests
    /\ pit = NoPit
    /\ producer = [pc |-> "off", after |-> <<>>, emitted |-> 0, size |-> 0,
                   total |-> -1, page |-> Done, cancelled |-> FALSE]
    /\ queue = <<>>
    /\ consumer = [pc |-> "parse", page |-> Done, n |-> 1, total |-> -1,
                   mapped |-> 0, outcome |-> "none"]
    /\ collected = <<>>
    /\ answer = NoAnswer
    /\ writes = 0
    /\ faults = 0

\* Imports, results and decisions write documents while a request is served.
WriteDocument ==
    /\ writes < MaxWrites
    /\ consumer.pc # "ended"
    /\ \E r \in Reference, d \in Profile \cup {NoDoc} :
          /\ d # index[r]
          /\ index' = [index EXCEPT ![r] = d]
    /\ writes' = writes + 1
    /\ UNCHANGED <<query, request, pit, producer, queue, consumer, collected,
                   answer, faults>>

----------------------------------------------------------------------------
(* Parsing the parameters of a search.                                     *)

\* parse_publication_year_range: both bounds given, the end is not before.
YearsMalformed(range) == range[1] # 0 /\ range[2] # 0 /\ range[2] < range[1]

\* parse_annotation_filters: a score, in tenths, is at most one.
AnnotationsMalformed(as) == \E a \in as : a.score > 10

\* parse_linked_data_concept_filters: no empty piece between commas.
ConceptsMalformed(filters) == \E f \in Range(filters) : "" \in f

\* Codes are trimmed and put in upper case before they are judged.
Upper(filters) ==
    [i \in DOMAIN filters |->
        {IF v \in DOMAIN UpperOf THEN UpperOf[v] ELSE v : v \in filters[i]}]

\* parse_linked_data_country_filters: two capital letters.
CountriesMalformed(filters) == ~(UNION Range(Upper(filters)) \subseteq CountryCode)

\* parse_linked_data_country_wb_region_filters: a region of the World Bank.
RegionsMalformed(filters) ==
    ~(UNION Range(Upper(filters)) \subseteq Range(RegionOf))

\* parse_search_query
Parse ==
    /\ consumer.pc = "parse"
    /\ IF \/ YearsMalformed(query.years) \/ AnnotationsMalformed(query.annotations)
          \/ ConceptsMalformed(query.concepts)
          \/ CountriesMalformed(query.countries) \/ RegionsMalformed(query.regions)
       THEN /\ consumer' = [consumer EXCEPT !.pc = "ended", !.outcome = "refused"]
            /\ UNCHANGED <<query, producer>>
       ELSE /\ query' = [query EXCEPT !.countries = Upper(@), !.regions = Upper(@)]
            /\ consumer' = [consumer EXCEPT !.pc = request.kind]
            /\ producer' = IF request.kind = "scan"
                           THEN [producer EXCEPT !.pc = "start"] ELSE producer
    /\ UNCHANGED <<index, request, pit, queue, collected, answer, writes, faults>>

----------------------------------------------------------------------------
(* The scan: collect_pending_enhancements_from_search over prefetch() over *)
(* scan_with_query_string.                                                 *)

\* open_point_in_time: the index as it is now is kept for every page.
OpenPit ==
    /\ producer.pc = "start" /\ ~producer.cancelled
    /\ pit' = [state |-> "open", docs |-> index]
    /\ producer' = [producer EXCEPT !.pc = "search"]
    /\ UNCHANGED <<index, query, request, queue, consumer, collected, answer,
                   writes, faults>>

\* The next page: what follows the last hit of the page before, no more than
\* the page size or what the limit leaves.
Remaining ==
    IF request.limit = 0 \/ request.limit - producer.emitted > PageSize
    THEN PageSize
    ELSE request.limit - producer.emitted

Following(idx) ==
    {r \in Hits(idx, query) :
        producer.after = <<>> \/ Before(producer.after, ScanKey(r))}

SearchPage ==
    /\ producer.pc = "search" /\ ~producer.cancelled
    /\ \E order \in Orders(Following(pit.docs), [r \in Reference |-> ScanKey(r)]) :
          LET hits == Take(order, 0, Remaining)
              total == IF producer.total >= 0 THEN producer.total
                       ELSE Cardinality(Hits(pit.docs, query))
          IN  producer' =
                 IF hits = <<>> THEN [producer EXCEPT !.pc = "close"]
                 ELSE [producer EXCEPT !.pc = "put", !.total = total,
                          !.page = Page(hits, total), !.size = Remaining]
    /\ UNCHANGED <<index, query, request, pit, queue, consumer, collected,
                   answer, writes, faults>>

\* The search is refused, or the point in time is gone.
SearchFails ==
    /\ producer.pc \in {"start", "search"} /\ ~producer.cancelled
    /\ Fault
    /\ producer' = [producer EXCEPT
          !.pc = IF producer.pc = "start" THEN "end" ELSE "close",
          !.page = Broken]
    /\ UNCHANGED <<index, query, request, pit, queue, consumer, collected,
                   answer, writes>>

\* The page is queued once the queue is empty; only then does the generator
\* go on, to the next page or out of its loop.
LastPage(p) ==
    \/ request.limit # 0 /\ p.emitted + Len(p.page.hits) >= request.limit
    \/ Len(p.page.hits) < p.size

Put ==
    /\ producer.pc = "put" /\ ~producer.cancelled
    /\ queue = <<>>
    /\ queue' = <<producer.page>>
    /\ producer' = [producer EXCEPT
          !.pc = IF LastPage(producer) THEN "close" ELSE "search",
          !.emitted = @ + Len(producer.page.hits),
          !.after = ScanKey(Last(producer.page.hits)), !.page = Done]
    /\ UNCHANGED <<index, query, request, pit, consumer, collected, answer,
                   writes, faults>>

\* close_point_in_time, on every way out of the scan.
ClosePit ==
    /\ producer.pc = "close" /\ ~producer.cancelled
    /\ pit' = [pit EXCEPT !.state = "closed"]
    /\ producer' = [producer EXCEPT !.pc = "end"]
    /\ UNCHANGED <<index, query, request, queue, consumer, collected, answer,
                   writes, faults>>

\* The closing is refused: the scan ends with that error, and the point in
\* time lapses when it is not renewed.
CloseFails ==
    /\ producer.pc = "close" /\ ~producer.cancelled
    /\ Fault
    /\ pit' = [pit EXCEPT !.state = "lapsing"]
    /\ producer' = [producer EXCEPT !.pc = "end", !.page = Broken]
    /\ UNCHANGED <<index, query, request, queue, consumer, collected, answer,
                   writes>>

\* The end of the stream, or the error it ended with, is queued.
PutEnd ==
    /\ producer.pc = "end" /\ ~producer.cancelled
    /\ queue = <<>>
    /\ queue' = <<producer.page>>
    /\ producer' = [producer EXCEPT !.pc = "stopped"]
    /\ UNCHANGED <<index, query, request, pit, consumer, collected, answer,
                   writes, faults>>

\* producer.cancel() reaches the task at its await.  An open point in time is
\* closed on the way out; when the closing is interrupted or fails, it lapses
\* by itself.
Cancelled ==
    /\ producer.cancelled /\ producer.pc \notin {"stopped", "off"}
    /\ \E left \in {"closed", "lapsing"} :
          pit' = IF pit.state = "open" THEN [pit EXCEPT !.state = left] ELSE pit
    /\ producer' = [producer EXCEPT !.pc = "stopped"]
    /\ UNCHANGED <<index, query, request, queue, consumer, collected, answer,
                   writes, faults>>

\* The consumer takes an item; the end or an error leaves the loop.
Get ==
    /\ consumer.pc = "scan"
    /\ queue # <<>>
    /\ queue' = <<>>
    /\ LET item == Head(queue)
       IN  /\ consumer' = [consumer EXCEPT
                  !.pc = CASE item.kind = "done" -> "finish"
                           [] item.kind = "error" -> "failing"
                           [] item.kind = "page" /\ consumer.total < 0 -> "record"
                           [] OTHER -> "create",
                  !.page = item]
           /\ producer' = IF item.kind = "page" THEN producer
                          ELSE [producer EXCEPT !.cancelled = TRUE]
    /\ UNCHANGED <<index, query, request, pit, collected, answer, writes, faults>>

\* record_search_match_total, once, in a transaction of its own.
RecordTotal ==
    /\ consumer.pc = "record"
    /\ consumer' = [consumer EXCEPT !.pc = "create", !.total = consumer.page.total]
    /\ UNCHANGED <<index, query, request, pit, producer, queue, collected,
                   answer, writes, faults>>

\* create_pending_enhancements for the page, in a transaction of its own.
CreatePending ==
    /\ consumer.pc = "create"
    /\ collected' = collected \o consumer.page.hits
    /\ consumer' = [consumer EXCEPT !.pc = "scan"]
    /\ UNCHANGED <<index, query, request, pit, producer, queue, answer, writes,
                   faults>>

\* A transaction fails: leaving the loop cancels the producer.
StoreFails ==
    /\ \/ consumer.pc \in {"record", "create"}
       \/ consumer.pc = "finish" /\ consumer.total < 0
    /\ Fault
    /\ consumer' = [consumer EXCEPT !.pc = "failing"]
    /\ producer' = [producer EXCEPT !.cancelled = TRUE]
    /\ UNCHANGED <<index, query, request, pit, queue, collected, answer, writes>>

\* aclosing() waits for the producer before the request is settled.
ProducerGone == producer.pc = "stopped"

Settle ==
    /\ consumer.pc \in {"finish", "failing"}
    /\ ProducerGone
    /\ consumer' = IF consumer.pc = "failing"
                   THEN [consumer EXCEPT !.pc = "ended", !.outcome = "failed"]
                   ELSE [consumer EXCEPT !.pc = "ended", !.outcome = "completed",
                            !.total = IF @ < 0 THEN 0 ELSE @]
    /\ UNCHANGED <<index, query, request, pit, producer, queue, collected,
                   answer, writes, faults>>

ScanStep ==
    \/ OpenPit \/ SearchPage \/ SearchFails \/ Put \/ ClosePit \/ CloseFails
    \/ PutEnd \/ Cancelled \/ Get \/ RecordTotal \/ CreatePending \/ StoreFails \/ Settle

----------------------------------------------------------------------------
(* The pages of a search, one request each, until one is empty or the      *)
(* window ends.  search_reference_ids asks for the window as one page.     *)

ShowPage ==
    /\ consumer.pc = "walk"
    /\ \E order \in Orders(Hits(index, query), [r \in Reference |-> PageKey(index, r)]) :
          LET hits == Take(order, (consumer.n - 1) * request.size, request.size)
              last == hits = <<>> \/ consumer.n = Window \div request.size
          IN  /\ collected' = collected \o hits
              /\ consumer' = IF last
                     THEN [consumer EXCEPT !.pc = "ended", !.outcome = "completed",
                              !.total = Cardinality(Hits(index, query))]
                     ELSE [consumer EXCEPT !.n = @ + 1]
    /\ UNCHANGED <<index, query, request, pit, producer, queue, answer, writes,
                   faults>>

----------------------------------------------------------------------------
(* Axes: a literal field, or a concept scheme and its members.             *)

Values(f) == UNION {Field(p, f) : p \in Profile}

Literal(token) == token \in {"countries", "country_wb_regions"}

MembersOf(s) == IF s \in DOMAIN Members THEN Members[s] ELSE {}

\* _resolve_cross_facet_axis
Axis(token) ==
    IF Literal(token)
    THEN [facet |-> token, include |-> {},
          size |-> IF token = "countries" THEN CountryAxisSize
                   ELSE Cardinality({RegionOf[c] : c \in DOMAIN RegionOf})]
    ELSE [facet |-> "concepts", include |-> MembersOf(token),
          size |-> Cardinality(MembersOf(token))]

Axes(r) == [i \in DOMAIN r.axes |-> Axis(r.axes[i])]

AxisRefused(r) ==
    \E i \in DOMAIN r.axes :
        /\ ~Literal(r.axes[i])
        /\ ~r.vocabulary \/ MembersOf(r.axes[i]) = {}

\* _validate_cross_facet_cell_count: the buckets of both levels.
CellsRefused(axes) ==
    axes[1].size + axes[1].size * axes[2].size > MaxCells

\* _axis_presence_clause
AxisPresence(axis) ==
    Clause(axis.facet, IF axis.include # {} THEN axis.include
                       ELSE Values(axis.facet))

\* The values a terms aggregation over an axis counts.
AxisValues(axis) ==
    IF axis.include # {} THEN axis.include ELSE Values(axis.facet)

\* _resolve_axes and _resolve_concept_sibling_groups fetch the vocabulary.
NeedsVocabulary(r) ==
    /\ r.vocabulary
    /\ \/ \E i \in DOMAIN r.axes : ~Literal(r.axes[i])
       \/ "concepts" \in r.facets /\ query.concepts # <<>>

VocabularyFails ==
    /\ consumer.pc \in {"facets", "cells"} /\ answer = NoAnswer
    /\ NeedsVocabulary(request)
    /\ Fault
    /\ consumer' = [consumer EXCEPT !.pc = "ended", !.outcome = "failed"]
    /\ UNCHANGED <<index, query, request, pit, producer, queue, collected,
                   answer, writes>>

----------------------------------------------------------------------------
(* Facets.  A filter on a facet's own field makes a group: what is         *)
(* selected and the siblings it could be replaced by.                      *)

\* _build_concept_scheme_members: the members of every scheme of a concept.
Siblings(c) == UNION {Members[s] : s \in {s \in DOMAIN Members : c \in Members[s]}}

Groups(q, f) ==
    [i \in DOMAIN FiltersOn(q, f) |->
        [selected |-> FiltersOn(q, f)[i],
         siblings |-> IF f = "concepts"
                      THEN UNION {Siblings(c) : c \in FiltersOn(q, f)[i]}
                      ELSE Values(f)]]

\* The rules of _resolve_concept_sibling_groups: every concept is known, a
\* filter's concepts share their siblings, two filters share none; and
\* _validate_groups_against_max_buckets.
ConceptsRefused(groups) ==
    \/ \E i \in DOMAIN groups : \E c, d \in groups[i].selected :
          Siblings(c) = {} \/ Siblings(c) # Siblings(d)
    \/ \E i, j \in DOMAIN groups :
          i < j /\ groups[i].siblings \cap groups[j].siblings # {}
    \/ \E i \in DOMAIN groups : Cardinality(groups[i].siblings) > MaxBuckets

\* aggregate_facets refuses before it searches.
FacetsRefused(q, r) ==
    \/ /\ "concepts" \in r.facets /\ q.concepts # <<>>
       /\ ~r.vocabulary \/ ConceptsRefused(Groups(q, "concepts"))
    \/ \E f \in r.facets \ {"concepts"} : Len(FiltersOn(q, f)) > 1
    \/ AxisRefused(r)

\* A terms aggregation: the values counted at least min times among docs, the
\* most frequent first and no more than size.  A value no document of the
\* index has is not a term and has no bucket, even when min is 0.
CountIn(idx, docs, f, v) == Cardinality({r \in docs : v \in Field(idx[r], f)})
TermsIn(idx, f) == UNION {Field(idx[r], f) : r \in Reference}

Terms(idx, docs, f, among, min, size, group) ==
    LET counted == {v \in among \cap TermsIn(idx, f) : CountIn(idx, docs, f, v) >= min}
        kept == {K \in SUBSET counted :
                   /\ Cardinality(K) = IF Cardinality(counted) < size
                                       THEN Cardinality(counted) ELSE size
                   /\ \A v \in K, w \in counted \ K :
                        CountIn(idx, docs, f, v) >= CountIn(idx, docs, f, w)}
    IN  {{[key |-> v, count |-> CountIn(idx, docs, f, v), group |-> group] : v \in K} :
            K \in kept}

\* Mutant: a group is counted under its own selection too.
EveryGroup(f, groups, i) == {Clause(f, groups[j].selected) : j \in DOMAIN groups}
\* The clauses of the other groups, _attach_per_group_aggs.
OtherGroups(f, groups, i) ==
    {Clause(f, groups[j].selected) : j \in DOMAIN groups \ {i}}

\* _aggregate_facet_sibling_aware: the facet's own filters are left out of the
\* search; each group is counted under the selections of the others, and the
\* values of no group, when the groups are enumerated, under all of them.
SiblingAware(idx, q, f, groups, axisClauses) ==
    LET base == FilterClauses(q, {f}) \cup axisClauses
        size(i) == IF f = "concepts" THEN Cardinality(groups[i].siblings)
                   ELSE MaxBuckets
        perGroup(i) == Terms(idx, Matches(idx, base \cup OtherGroups(f, groups, i)),
                             f, groups[i].siblings, 0, size(i), i)
        unselected == IF f # "concepts" THEN {{}}
                      ELSE Terms(idx, Matches(idx, base \cup OtherGroups(f, groups, 0)), f,
                                 Values(f) \ UNION {groups[i].siblings :
                                                       i \in DOMAIN groups},
                                 1, MaxBuckets, 0)
        choices == [i \in DOMAIN groups |-> perGroup(i)]
    IN  {UNION (Range(pick) \cup {rest}) :
            rest \in unselected,
            pick \in {p \in [DOMAIN groups -> UNION Range(choices)] :
                       \A i \in DOMAIN groups : p[i] \in choices[i]}}

AxisClauses(r) == {AxisPresence(Axes(r)[i]) : i \in DOMAIN r.axes}

\* Facets without a selection are counted by one search over all filters.
Plain(idx, q, f, axisClauses) ==
    Terms(idx, Matches(idx, FilterClauses(q, {}) \cup axisClauses), f, Values(f),
          1, MaxBuckets, 0)

Grouped(q, r) == {f \in r.facets : FiltersOn(q, f) # <<>>}

Refuse ==
    /\ \/ consumer.pc = "facets" /\ answer = NoAnswer /\ FacetsRefused(query, request)
       \/ /\ consumer.pc = "cells"
          /\ AxisRefused(request) \/ CellsRefused(Axes(request))
    /\ consumer' = [consumer EXCEPT !.pc = "ended", !.outcome = "refused"]
    /\ UNCHANGED <<index, query, request, pit, producer, queue, collected,
                   answer, writes, faults>>

\* The answer is complete when every facet asked for has its buckets.
Answered(counted) ==
    IF DOMAIN counted = request.facets
    THEN [consumer EXCEPT !.pc = "ended", !.outcome = "completed"]
    ELSE consumer

CountPlain ==
    /\ consumer.pc = "facets" /\ answer = NoAnswer
    /\ ~FacetsRefused(query, request)
    /\ LET plain == request.facets \ Grouped(query, request)
           buckets == [f \in plain |-> Plain(index, query, f, AxisClauses(request))]
       IN  /\ plain # {}
           /\ \E counted \in [plain -> UNION Range(buckets)] :
                 /\ \A f \in plain : counted[f] \in buckets[f]
                 /\ answer' = counted
                 /\ consumer' = Answered(counted)
    /\ UNCHANGED <<index, query, request, pit, producer, queue, collected,
                   writes, faults>>

\* One search for each facet with a selection, after the plain ones.
CountGrouped ==
    /\ consumer.pc = "facets"
    /\ ~FacetsRefused(query, request)
    /\ request.facets \ Grouped(query, request) \subseteq DOMAIN answer
    /\ \E f \in Grouped(query, request) \ DOMAIN answer :
         \E buckets \in SiblingAware(index, query, f, Groups(query, f),
                                     AxisClauses(request)) :
           LET counted == [g \in DOMAIN answer \cup {f} |->
                             IF g = f THEN buckets ELSE answer[g]]
           IN  answer' = counted /\ consumer' = Answered(counted)
    /\ UNCHANGED <<index, query, request, pit, producer, queue, collected,
                   writes, faults>>

----------------------------------------------------------------------------
(* Cross facets: aggregate_cross_facet, in one search.                     *)

Cells(idx, docs, axes) ==
    {cell \in {[axes |-> <<v, w>>,
                count |-> Cardinality({r \in docs :
                             /\ v \in Field(idx[r], axes[1].facet)
                             /\ w \in Field(idx[r], axes[2].facet)})] :
                v \in AxisValues(axes[1]), w \in AxisValues(axes[2])} :
        cell.count > 0}

CrossTabulate ==
    /\ consumer.pc = "cells"
    /\ ~AxisRefused(request) /\ ~CellsRefused(Axes(request))
    /\ LET docs == Hits(index, query)
           inMap == {r \in docs : \A c \in AxisClauses(request) : Accepts(c, index[r])}
       IN  /\ answer' = [f \in {"cells"} |-> Cells(index, inMap, Axes(request))]
           /\ consumer' = [consumer EXCEPT !.pc = "ended", !.outcome = "completed",
                              !.total = Cardinality(docs),
                              !.mapped = Cardinality(inMap)]
    /\ UNCHANGED <<index, query, request, pit, producer, queue, collected,
                   writes, faults>>

----------------------------------------------------------------------------

Answer == ShowPage \/ Refuse \/ VocabularyFails \/ CountPlain \/ CountGrouped
          \/ CrossTabulate

\* A request that has been answered stays answered.
Ended == consumer.pc = "ended" /\ UNCHANGED vars

Next == WriteDocument \/ Parse \/ ScanStep \/ Answer \/ Ended

Spec == Init /\ [][Next]_vars

----------------------------------------------------------------------------
(* Properties.                                                             *)

\* However pages, prefetching, writes and failures interleave, a scan that
\* completed delivered each match of its snapshot exactly once, up to its
\* limit, with the exact total recorded; one that failed delivered none twice
\* and nothing else; and a settled scan leaves no point in time open.
ScanIsSnapshot ==
    request.kind = "scan" /\ consumer.outcome # "refused" =>
        LET found == Hits(pit.docs, query)
        IN  /\ IsInjective(collected) /\ Range(collected) \subseteq found
            /\ consumer.pc = "ended" => pit.state # "open"
            /\ consumer.outcome = "completed" =>
                 /\ consumer.total = Cardinality(found)
                 /\ Len(collected) =
                      IF request.limit = 0 \/ request.limit > Cardinality(found)
                      THEN Cardinality(found) ELSE request.limit

\* Walking the pages of a search over an index nobody writes shows every match
\* exactly once, best first, up to the result window.
WalkIsComplete ==
    request.kind = "walk" /\ consumer.outcome = "completed" /\ writes = 0 =>
        LET shown == (Window \div request.size) * request.size
        IN  /\ IsInjective(collected)
            /\ Range(collected) \subseteq Hits(index, query)
            /\ Len(collected) = IF consumer.total < shown THEN consumer.total
                               ELSE shown
            /\ \A i, j \in DOMAIN collected :
                 i < j => index[collected[i]].score >= index[collected[j]].score

\* The search with value v of facet f toggled: in the selection it is a sibling
\* of, v replaces what is selected; elsewhere v is asked for as well.
WithFilters(q, f, filters) ==
    CASE f = "concepts" -> [q EXCEPT !.concepts = filters]
      [] f = "countries" -> [q EXCEPT !.countries = filters]
      [] f = "country_wb_regions" -> [q EXCEPT !.regions = filters]

SiblingOf(q, f, v) ==
    {i \in DOMAIN FiltersOn(q, f) :
        \/ f # "concepts"
        \/ \E s \in DOMAIN Members :
             v \in Members[s] /\ FiltersOn(q, f)[i] \cap Members[s] # {}}

Toggled(q, f, v) ==
    IF SiblingOf(q, f, v) = {}
    THEN WithFilters(q, f, Append(FiltersOn(q, f), {v}))
    ELSE WithFilters(q, f, [i \in DOMAIN FiltersOn(q, f) |->
             IF i \in SiblingOf(q, f, v) THEN {v} ELSE FiltersOn(q, f)[i]])

Plotted(idx, r) ==
    {d \in Reference : \A i \in DOMAIN r.axes :
        IF Literal(r.axes[i]) THEN Field(idx[d], r.axes[i]) # {}
        ELSE idx[d].concepts \cap Members[r.axes[i]] # {}}

\* Each bucket of a facet counts what the search would return with that value
\* toggled, among the references the axes can plot; no value has two buckets,
\* and one is missing only when the search would return nothing or the facet
\* has as many buckets as it may have.
FacetsAnswered ==
    \A f \in DOMAIN answer' \ (DOMAIN answer \cup {"cells"}) :
      LET shown(v) == Cardinality(Hits(index, Toggled(query, f, v))
                                  \cap Plotted(index, request))
          keys == {b.key : b \in answer'[f]}
      IN  /\ \A b \in answer'[f] : b.count = shown(b.key)
          /\ \A b, c \in answer'[f] : b.key = c.key => b = c
          /\ \A v \in Values(f) \ keys :
               shown(v) = 0 \/ Cardinality(keys) >= MaxBuckets

\* Each cell of a cross tabulation counts the search's matches with both its
\* values, only and all such pairs have a cell, and the mapped total counts the
\* references that appear in some cell.
CellsAnswered ==
    consumer'.outcome = "completed" /\ consumer.pc = "cells" =>
      LET in(r, i, v) ==
              /\ v \in Field(index[r], Axis(request.axes[i]).facet)
              /\ ~Literal(request.axes[i]) => v \in Members[request.axes[i]]
          pair(r) == {<<v, w>> \in Values(Axis(request.axes[1]).facet)
                                  \X Values(Axis(request.axes[2]).facet) :
                         in(r, 1, v) /\ in(r, 2, w)}
          found == Hits(index, query)
      IN  /\ {c.axes : c \in answer'["cells"]} = UNION {pair(r) : r \in found}
          /\ \A c \in answer'["cells"] :
               c.count = Cardinality({r \in found : c.axes \in pair(r)})
          /\ consumer'.mapped = Cardinality({r \in found : pair(r) # {}})
          /\ consumer'.total = Cardinality(found)

\* What is counted is what the search returns: the buckets of the facets, and
\* the cells and totals of the map (aggregate_facets, cross_tabulate_facets).
CountsAgree == [][FacetsAnswered /\ CellsAnswered]_vars

=============================================================================
