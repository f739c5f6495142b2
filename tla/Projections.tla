----------------------------- MODULE Projections ----------------------------
(***************************************************************************)
(* What readers see of a reference: the search document in the index and   *)
(* the RIS record of an export, each computed from the enhancements of a   *)
(* canonical reference and of its duplicates while enhancements arrive and *)
(* duplicate decisions move references.                                    *)
(*                                                                         *)
(* Every commit that changes a projection is followed by sql_to_es (that   *)
(* it is, whatever interleaves, is Deduplication's): here a change and its *)
(* indexing are one step.  created_at is taken row by row, so that no two  *)
(* enhancements tie.  Texts are model values; Blank is one of white space. *)
(***************************************************************************)
EXTENDS Integers, FiniteSets, Sequences, SequencesExt

CONSTANTS
    Reference,
    Families,       \* sets of enhancements, one of which arrives in a behaviour
    Identifiers,    \* [Reference -> its sequence of external identifiers]
    Vocabulary,     \* the vocabulary of linked data
    RegionOf,       \* ISO_TO_WB_REGION
    UpperOf,        \* strip().upper(), of the codes it changes
    Blank,          \* a text of white space alone
    Undecided,
    MaxEnhancements, MaxEvents

VARIABLES
    arriving,       \* the enhancements that may arrive
    enhancements,   \* the enhancement table
    decision,       \* [Reference -> the canonical of its active decision]
    propertyOf,     \* _scheme_to_property_cache, of the vocabulary
    document,       \* [Reference -> its document in the index]
    decisions

vars == <<arriving, enhancements, decision, propertyOf, document, decisions>>

-----------------------------------------------------------------------------
(* Enhancements.  None and the empty text are both absent: neither takes   *)
(* the place of a value.                                                   *)

Absent == "absent"
NoYear == 0
NoScore == -1
Or(value, prior, none) == IF value # none THEN value ELSE prior

Author(name, position) == [name |-> name, position |-> position]
NoVenue == [given |-> FALSE, name |-> Absent, type |-> Absent, host |-> Absent]
Venue(name, type, host) == [given |-> TRUE, name |-> name, type |-> type, host |-> host]

\* A date is known by its year.
Bibliographic(title, year, date, authors, venue, publisher) ==
    [type |-> "bibliographic", title |-> title, year |-> year, date |-> date,
     authors |-> authors, venue |-> venue, publisher |-> publisher]

Abstract(text) == [type |-> "abstract", abstract |-> text]

\* Scores count tenths; inclusion is data["inclusion_score"].
ScoreAnnotation(scheme, label, score) ==
    [scheme |-> scheme, label |-> label, boolean |-> FALSE, value |-> FALSE,
     score |-> score, inclusion |-> NoScore]
BooleanAnnotation(scheme, label, value, score, inclusion) ==
    [scheme |-> scheme, label |-> label, boolean |-> TRUE, value |-> value,
     score |-> score, inclusion |-> inclusion]
Annotations(seq) == [type |-> "annotation", annotations |-> seq]

Location(landing, pdf) == [landing |-> landing, pdf |-> pdf]
Locations(seq) == [type |-> "location", locations |-> seq]

\* The triples of the data that are projected: coded values that name a
\* concept, values of properties without an annotation around them, countries.
LinkedData(coded, unwrapped, countries) ==
    [type |-> "linked_data", coded |-> coded, unwrapped |-> unwrapped,
     countries |-> countries]

\* An enhancement as it arrives, from a source; and stored.
From(source, content) == [source |-> source, content |-> content]
Stored(r, e, created) ==
    [ref |-> r, source |-> e.source, content |-> e.content, created |-> created]

OfType(E, type) == {e \in E : e.content.type = type}

-----------------------------------------------------------------------------
(* The deduplicated reference.                                             *)

\* is_canonical_like
CanonicalLike(r, under) == under[r] \in {Undecided, r}

Duplicates(r, under) == {d \in Reference \ {r} : under[d] = r}

\* DeduplicatedReferenceProjection: its enhancements, and its identifiers
\* followed by those of its duplicates, which the table returns in any order.
TreeOf(r, E, under) == {e \in E : e.ref = r \/ under[e.ref] = r}
IdentifiersOf(r, order) ==
    Identifiers[r] \o FlattenSeq([i \in DOMAIN order |-> Identifiers[order[i]]])

\* Mutant: the newest enhancement comes last, on whichever reference.
SortedByTime(r, E) == SetToSortSeq(E, LAMBDA e, f : e.created < f.created)

\* _priority_sorted_enhancements: by whether it is on the canonical reference
\* and then by age, the one to prefer last.
PrioritySorted(r, E) ==
    SetToSortSeq(E, LAMBDA e, f :
        \/ e.ref # r /\ f.ref = r
        \/ (e.ref = r) = (f.ref = r) /\ e.created < f.created)

-----------------------------------------------------------------------------
(* Authors: first, middle, last; ties by name, or as they were stored.     *)

AtPosition(authors, position) == SelectSeq(authors, LAMBDA a : a.position = position)
ByName(authors) == SortSeq(authors, LAMBDA a, b : a.name < b.name)
Names(authors) == [i \in DOMAIN authors |-> authors[i].name]

\* _order_authorship_by_position
OrderAuthorship(authors, alphabetize) ==
    LET at(position) == IF alphabetize THEN ByName(AtPosition(authors, position))
                        ELSE AtPosition(authors, position)
    IN  Names(at("first") \o at("middle") \o at("last"))

-----------------------------------------------------------------------------
(* Search fields.                                                          *)

Stripped(text) == IF text = Blank THEN Absent ELSE text

YearOf(content) == Or(content.year, content.date, NoYear)

InclusionScheme == "inclusion:destiny"

\* The annotations of an enhancement by source and scheme, over those before.
Collect(held, e) ==
    LET schemes == {a.scheme : a \in Range(e.content.annotations)}
        new == [k \in {e.source} \X schemes |->
                    {a \in Range(e.content.annotations) : a.scheme = k[2]}]
    IN  [k \in DOMAIN held \cup DOMAIN new |->
            IF k \in DOMAIN new THEN new[k] ELSE held[k]]

\* The annotations of the scheme that is projected singly, the last one kept.
Single(held, annotations) ==
    LET mine == SelectSeq(annotations, LAMBDA a : a.scheme = InclusionScheme)
    IN  IF mine = <<>> THEN held ELSE <<Last(mine)>>

NoFields ==
    [title |-> Absent, year |-> NoYear, date |-> NoYear, abstract |-> Absent,
     authors |-> <<>>, held |-> <<>>, single |-> <<>>, linked |-> {}]

\* One round of the loop over the enhancements.
Hydrate(fields, e) ==
    LET c == e.content
    IN  CASE c.type = "bibliographic" ->
               [fields EXCEPT !.title = Or(c.title, @, Absent),
                              !.authors = Or(c.authors, @, <<>>),
                              !.year = Or(YearOf(c), @, NoYear),
                              !.date = Or(c.date, @, NoYear)]
          [] c.type = "abstract" -> [fields EXCEPT !.abstract = c.abstract]
          [] c.type = "linked_data" -> [fields EXCEPT !.linked = {c}]
          [] c.type = "annotation" ->
               [fields EXCEPT !.held = Collect(@, e),
                              !.single = Single(@, c.annotations)]
          [] OTHER -> fields

\* __positive_boolean_annotations
PositiveLabels(held) ==
    {<<a.scheme, a.label>> :
        a \in {x \in UNION {held[k] : k \in DOMAIN held} : x.boolean /\ x.value}}

\* __positive_annotation_score
PositiveScore(single) ==
    IF single = <<>> THEN NoScore
    ELSE LET a == single[1]
         IN  CASE a.inclusion # NoScore -> a.inclusion
               [] a.inclusion = NoScore /\ a.boolean /\ a.score # NoScore ->
                    IF a.value THEN a.score ELSE 10 - a.score
               [] a.inclusion = NoScore /\ ~a.boolean -> a.score
               [] OTHER -> NoScore

\* ReferenceSearchFields, with its texts normalised.
ReferenceSearchFields(f) ==
    [title |-> Stripped(f.title), year |-> f.year, date |-> f.date,
     abstract |-> Stripped(f.abstract),
     authors |-> OrderAuthorship(f.authors, TRUE),
     annotations |-> PositiveLabels(f.held),
     evaluated_schemes |-> {k[2] : k \in DOMAIN f.held},
     inclusion_destiny |-> PositiveScore(f.single),
     linked_data_content |-> f.linked]

\* ReferenceSearchFieldsProjection.get_from_reference
SearchFields(r, E) ==
    ReferenceSearchFields(FoldLeft(Hydrate, NoFields, PrioritySorted(r, E)))

-----------------------------------------------------------------------------
(* Linked data.  v.concepts; v.label and v.scheme, of some concepts;       *)
(* v.class[c], the classes of a concept; v.annotated, the properties whose *)
(* annotations take coded values of a class; v.range, of other properties. *)

\* _build_scheme_to_property: the rows of the query, of which the dictionary
\* keeps one to a scheme.
SchemeRows(v) ==
    {<<v.scheme[c], p.property>> :
        <<c, p>> \in {x \in (DOMAIN v.scheme) \X v.annotated : x[2].class \in v.class[x[1]]}}
SchemeToProperty(v) ==
    LET schemes == {row[1] : row \in SchemeRows(v)}
    IN  {f \in [schemes -> {row[2] : row \in SchemeRows(v)}] :
            \A s \in schemes : <<s, f[s]>> \in SchemeRows(v)}

\* _build_unwrapped_concept_properties
UnwrappedProperties(v) ==
    {p \in DOMAIN v.range :
        \/ v.range[p] = "ConceptScheme"
        \/ v.range[p] = "Concept" /\ DOMAIN v.scheme # {}
        \/ \E c \in DOMAIN v.scheme : v.range[p] \in v.class[c]}

\* What is coded, or says nothing of its status, counts.
Counts(node) == node.status \in {"coded", "none"}

\* _extract_countries and regions_for
Countries(data) ==
    {IF n.code \in DOMAIN UpperOf THEN UpperOf[n.code] ELSE n.code :
        n \in {x \in data.countries : Counts(x)}} \ {""}
Regions(countries) == {RegionOf[c] : c \in countries \cap DOMAIN RegionOf}

\* _project_unwrapped_concept_properties
Unwrapped(data) ==
    {u \in data.unwrapped : /\ u.property \in UnwrappedProperties(Vocabulary)
                            /\ u.value \in Vocabulary.concepts}

\* LinkedDataProjectionService.project, of a vocabulary's concepts only.
LinkedDataProjection(data) ==
    LET v == Vocabulary
        coded == {n \in data.coded : n.value \in v.concepts}
        unwrapped == Unwrapped(data)
        concepts == {n.value : n \in {x \in coded : Counts(x)}}
                        \cup {u.value : u \in unwrapped}
        schemes == {v.scheme[c] : c \in {n.value : n \in coded} \cap DOMAIN v.scheme}
    IN  [concepts |-> concepts,
         labels |-> {v.label[c] : c \in concepts \cap DOMAIN v.label},
         evaluated_properties |->
            {propertyOf[s] : s \in schemes \cap DOMAIN propertyOf}
                \cup {u.property : u \in unwrapped},
         countries |-> Countries(data),
         country_wb_regions |-> Regions(Countries(data))]

-----------------------------------------------------------------------------
(* The index.                                                              *)

NoDocument == [indexed |-> FALSE]

\* _to_indexable
ReferenceSearchProjection(r, E, under) ==
    LET fields == SearchFields(r, TreeOf(r, E, under))
    IN  [duplicate_determination |-> IF under[r] = r THEN "canonical" ELSE "none",
         search_fields |-> fields,
         linked_data_projection |->
            {LinkedDataProjection(c) : c \in fields.linked_data_content}]

\* ReferenceSearchFieldsMixin.from_projections: what is absent has no value.
FromProjections(fields, linked) ==
    [title |-> fields.title, abstract |-> fields.abstract, authors |-> fields.authors,
     date |-> fields.date, year |-> fields.year, annotations |-> fields.annotations,
     evaluated_schemes |-> fields.evaluated_schemes,
     inclusion_destiny |-> fields.inclusion_destiny,
     linked_data_concepts |-> UNION {p.concepts : p \in linked},
     linked_data_labels |-> UNION {p.labels : p \in linked},
     linked_data_evaluated_properties |-> UNION {p.evaluated_properties : p \in linked},
     linked_data_countries |-> UNION {p.countries : p \in linked},
     linked_data_country_wb_regions |-> UNION {p.country_wb_regions : p \in linked}]

\* ReferenceDocument.from_domain
Indexable(r, E, under) ==
    LET p == ReferenceSearchProjection(r, E, under)
    IN  [indexed |-> TRUE, duplicate_determination |-> p.duplicate_determination,
         fields |-> FromProjections(p.search_fields, p.linked_data_projection)]

\* sql_to_es of each: a duplicate has no document, and its canonical's is made
\* anew.
Synchronized(S, E, under) ==
    LET changed == {IF CanonicalLike(r, under) THEN r ELSE under[r] : r \in S}
    IN  [r \in Reference |-> CASE r \in changed -> Indexable(r, E, under)
                                [] r \in S \ changed -> NoDocument
                                [] OTHER -> document[r]]

-----------------------------------------------------------------------------
(* Behaviours.                                                             *)

Init ==
    /\ arriving \in Families
    /\ enhancements = {}
    /\ decision = [r \in Reference |-> Undecided]
    /\ propertyOf \in SchemeToProperty(Vocabulary)
    /\ document = [r \in Reference |-> Indexable(r, enhancements, decision)]
    /\ decisions = 0

Bounded == Cardinality(enhancements) + decisions < MaxEvents

\* add_enhancement: an exact duplicate on the same reference is refused.
Add(r, e) ==
    LET stored == enhancements \cup {Stored(r, e, Cardinality(enhancements) + 1)}
    IN  /\ Bounded /\ Cardinality(enhancements) < MaxEnhancements
        /\ \A x \in enhancements :
              x.ref = r => <<x.source, x.content>> # <<e.source, e.content>>
        /\ enhancements' = stored
        /\ document' = Synchronized({r}, stored, decision)
        /\ UNCHANGED <<arriving, decision, propertyOf, decisions>>

\* A duplicate decision becomes active: r is canonical, or a duplicate of c.
\* The canonical it leaves is indexed again.  (That a duplicate has none of its
\* own, and its canonical is none, is Deduplication's.)
Decide(r, c) ==
    LET under == [decision EXCEPT ![r] = c]
    IN  /\ Bounded
        /\ decision[r] # c
        /\ c # r => Duplicates(r, decision) = {} /\ CanonicalLike(c, decision)
        /\ decision' = under
        /\ decisions' = decisions + 1
        /\ document' = Synchronized({r} \cup ({decision[r]} \ {Undecided}),
                                    enhancements, under)
        /\ UNCHANGED <<arriving, enhancements, propertyOf>>

Next ==
    \/ \E r \in Reference, e \in arriving : Add(r, e)
    \/ \E r, c \in Reference : Decide(r, c)

Spec == Init /\ [][Next]_vars

-----------------------------------------------------------------------------
(* RIS records.  Pagination is kept as the venue is, and left out.         *)

NoRecord ==
    [title |-> Absent, year |-> NoYear, date |-> NoYear, authors |-> <<>>,
     publisher |-> Absent, venue |-> NoVenue, abstract |-> Absent, urls |-> <<>>,
     pdf |-> Absent]

Given(seq) == SelectSeq(seq, LAMBDA x : x # Absent)

\* One round of the loop.
HydrateRecord(record, e) ==
    LET c == e.content
        landings == Given([i \in DOMAIN c.locations |-> c.locations[i].landing])
        pdfs == Given([i \in DOMAIN c.locations |-> c.locations[i].pdf])
    IN  CASE c.type = "bibliographic" ->
               [record EXCEPT !.title = Or(c.title, @, Absent),
                              !.authors = Or(c.authors, @, <<>>),
                              !.year = Or(YearOf(c), @, NoYear),
                              !.date = Or(c.date, @, NoYear),
                              !.publisher = Or(c.publisher, @, Absent),
                              !.venue = Or(c.venue, @, NoVenue)]
          [] c.type = "abstract" -> [record EXCEPT !.abstract = c.abstract]
          [] c.type = "location" ->
               [record EXCEPT !.urls = Or(landings, @, <<>>),
                              !.pdf = IF pdfs = <<>> THEN @ ELSE pdfs[1]]
          [] OTHER -> record

\* VENUE_TYPE_TO_RIS_TYPE and _ris_type
RisType(venue) ==
    CASE venue.type = "journal" -> "JOUR"
      [] venue.type = "conference" -> "CONF"
      [] venue.type = "book_series" -> "SER"
      [] venue.type = "ebook_platform" -> "BOOK"
      [] OTHER -> "GEN"

\* _identifier_value: the first of its type.
IdentifierValue(ids, type) ==
    LET mine == SelectSeq(ids, LAMBDA i : i.type = type)
    IN  IF mine = <<>> THEN Absent ELSE mine[1].value

\* IDENTIFIER_URL_TEMPLATES and _identifier_urls
Templates == {"doi", "pm_id", "open_alex", "eric", "pro_quest", "url"}
IdentifierUrls(ids) ==
    LET mine == SelectSeq(ids, LAMBDA i : i.type \in Templates)
    IN  [k \in DOMAIN mine |-> <<mine[k].type, mine[k].value>>]

\* dict.fromkeys: each once, where it comes first.
OnceEach(seq) ==
    FoldLeft(LAMBDA acc, x : IF x \in Range(acc) THEN acc ELSE Append(acc, x), <<>>, seq)

\* ReferenceRisProjection.get_from_reference
RisRecord(r, order) ==
    LET tree == TreeOf(r, enhancements, decision)
        f == FoldLeft(HydrateRecord, NoRecord, PrioritySorted(r, tree))
        ids == IdentifiersOf(r, order)
    IN  [reference_type |-> RisType(f.venue), title |-> f.title,
         authors |-> OrderAuthorship(f.authors, FALSE), year |-> f.year, date |-> f.date,
         journal |-> f.venue.name, publisher |-> Or(f.publisher, f.venue.host, Absent),
         doi |-> IdentifierValue(ids, "doi"), pdf_url |-> f.pdf,
         urls |-> OnceEach([i \in DOMAIN f.urls |-> <<"location", f.urls[i]>>]
                           \o IdentifierUrls(ids)),
         abstract |-> f.abstract]

-----------------------------------------------------------------------------
(* Properties.                                                             *)

\* The first of a set in the order _priority_sorted_enhancements describes: on
\* the canonical reference r, or else on any duplicate; there, the most recent.
Top(r, E) ==
    LET own == {e \in E : e.ref = r}
        best == IF own # {} THEN own ELSE E
    IN  CHOOSE e \in best : \A f \in best : f.created <= e.created
FromTop(r, E, Value(_), none) == IF E = {} THEN none ELSE Value(Top(r, E))

Seen(r) == TreeOf(r, enhancements, decision)
TitleOf(r, bib) == FromTop(r, {e \in bib : e.content.title # Absent},
                           LAMBDA e : e.content.title, Absent)
AuthorsOf(r, bib) == FromTop(r, {e \in bib : e.content.authors # <<>>},
                             LAMBDA e : e.content.authors, <<>>)
PublishedIn(r, bib) == FromTop(r, {e \in bib : YearOf(e.content) # NoYear},
                               LAMBDA e : YearOf(e.content), NoYear)
SchemesOf(e) == {a.scheme : a \in Range(e.content.annotations)}

\* The concepts found are concepts that the data names, among them all that it
\* codes; and one it evaluates counts for a property of its scheme.
CodedAreFound(data, f) ==
    LET known == {n \in data.coded : n.value \in Vocabulary.concepts}
        named == {n.value : n \in known} \cup {u.value : u \in data.unwrapped}
    IN  /\ {n.value : n \in {x \in known : Counts(x)}} \subseteq f.linked_data_concepts
        /\ f.linked_data_concepts \subseteq named
        /\ \A row \in SchemeRows(Vocabulary), n \in known :
              (n.value \in DOMAIN Vocabulary.scheme /\ Vocabulary.scheme[n.value] = row[1])
                => \E p \in f.linked_data_evaluated_properties :
                      <<row[1], p>> \in SchemeRows(Vocabulary)

\* Each list of names has those of the authors, the first before the rest and
\* the last after them.
InPosition(names, authors) ==
    /\ Len(names) = Len(authors)
    /\ Range(names) = {a.name : a \in Range(authors)}
    /\ \A i, j \in DOMAIN names : \A a, b \in Range(authors) :
         (/\ a.name = names[i] /\ b.name = names[j]
          /\ a.position # b.position /\ (a.position = "first" \/ b.position = "last"))
            => i < j

\* What is found by searching is what the canonical reference says, or else the
\* newest of what its duplicates say, field by field: "If there's an abstract on
\* the canonical, use that ... most recent abstract from all duplicates"
\* (_priority_sorted_enhancements).  Of the annotations of a source in a scheme
\* only those of one enhancement count, so that one it no longer makes is gone.
\* Duplicates are not found (sql_to_es).
FoundByPriority ==
    \A r \in Reference :
        LET tree == Seen(r)
            bib == OfType(tree, "bibliographic")
            notes == OfType(tree, "annotation")
            linked == OfType(tree, "linked_data")
            f == document[r].fields
            keys == UNION {{e.source} \X SchemesOf(e) : e \in notes}
            latest(k) == Top(r, {e \in notes : e.source = k[1] /\ k[2] \in SchemesOf(e)})
            kept == UNION {{a \in Range(latest(k).content.annotations) : a.scheme = k[2]} :
                           k \in keys}
        IN  IF ~CanonicalLike(r, decision) THEN document[r] = NoDocument
            ELSE /\ f.title = Stripped(TitleOf(r, bib))
                 /\ f.year = PublishedIn(r, bib)
                 /\ InPosition(f.authors, AuthorsOf(r, bib))
                 /\ f.abstract = FromTop(r, OfType(tree, "abstract"),
                                         LAMBDA e : Stripped(e.content.abstract), Absent)
                 /\ f.annotations =
                       {<<a.scheme, a.label>> : a \in {x \in kept : x.boolean /\ x.value}}
                 /\ f.evaluated_schemes = {k[2] : k \in keys}
                 /\ CodedAreFound(FromTop(r, linked, LAMBDA e : e.content,
                                          LinkedData({}, {}, {})), f)
                 /\ f.inclusion_destiny =
                       FromTop(r, {e \in notes : InclusionScheme \in SchemesOf(e)},
                               LAMBDA e : PositiveScore(Single(<<>>, e.content.annotations)),
                               NoScore)

\* An export tells a reader what the index found the reference by: the same
\* title, year and people, whatever order duplicates are read in; and the DOI of
\* the canonical reference is never replaced by a duplicate's
\* (ReferenceRisProjection, ReferenceSearchFieldsProjection).
ExportAgrees ==
    \A r \in {x \in Reference : CanonicalLike(x, decision)} :
        \A order \in SetToSeqs(Duplicates(r, decision)) :
            LET record == RisRecord(r, order)
                found == document[r].fields
                doi == IdentifierValue(Identifiers[r], "doi")
            IN  /\ Stripped(record.title) = found.title
                /\ Stripped(record.abstract) = found.abstract
                /\ record.year = found.year /\ record.date = found.date
                /\ InPosition(record.authors, AuthorsOf(r, OfType(Seen(r), "bibliographic")))
                /\ doi # Absent => record.doi = doi
                /\ record.doi # Absent => <<"doi", record.doi>> \in Range(record.urls)

\* The two together.
ReadersAgree == FoundByPriority /\ ExportAgrees

=============================================================================
