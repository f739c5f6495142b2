----------------------------- MODULE MCServices -----------------------------
(***************************************************************************)
(* Services side by side, one to a behaviour: files in blob storage        *)
(* (Blobs), requests that read the index (Search), the indices themselves  *)
(* (Indices, as configured in MCIndices), the vocabulary client            *)
(* (Vocabulary), the assessment of possible duplicates (Assessments), and  *)
(* the clients of MCClients.                                               *)
(* A behaviour chooses one; the variables that are not its own stay empty. *)
(* The modules have the names of some variables in common, each with its   *)
(* own meaning.                                                            *)
(***************************************************************************)
EXTENDS MCClients

VARIABLES
    clients, made, open, closer, closing, job, blob, key, keyLock, now, urls,
    query, request, pit, producer, consumer, collected, answer,
    graph, vocabularies, contexts, memo, computing,
    corpus, idx, policy, records, blobs, changes

blobVars == <<clients, made, open, closer, closing, job, blob, key, keyLock, now, urls>>
searchVars == <<query, request, pit, producer, consumer, collected, answer>>
indicesVars == <<sql, alias, squatter, copies, op, locked, todo, history, commands,
                 commits>>
vocabularyVars == <<graph, vocabularies, contexts, memo, computing>>
assessmentVars == <<corpus, idx, policy, records, blobs, changes>>

\* In common.
storeVars == <<index, queue, writes>>

----------------------------------------------------------------------------
(* Blob storage: two coroutines.  Either both store full texts, or one     *)
(* reads a file while the other stores, or both sign URLs.                 *)

\* The constructors of Blobs, which depend on none of its constants.
Data == INSTANCE Blobs WITH
        Job <- {}, Work <- {}, MaxTexts <- 0, MaxBytes <- 0, KeyDuration <- 0,
        UrlExpiry <- 0, MaxLatency <- 0, MaxTime <- 0

\* Full texts whose declared size and checksum are absent, right or wrong, one
\* beyond the cap and one that is not remote.
Plain == Data!FullText(Data!Remote, <<"a", "b">>, Data!NoSize, Data!NoSum)
Declared == Data!FullText(Data!Remote, <<"a">>, 1, <<"a">>)
WrongSize == Data!FullText(Data!Remote, <<"b">>, 2, <<"b">>)
WrongSum == Data!FullText(Data!Remote, <<"a">>, Data!NoSize, <<"b">>)
TooLong == Data!FullText(Data!Remote, <<"a", "b", "a">>, 3, Data!NoSum)
Local == Data!FullText(Data!Owned, <<"a">>, Data!NoSize, Data!NoSum)

\* Files to read: every one of four bytes that is well formed, and one that
\* ends within a character.
Files ==
    {f \in UNION {[1..n -> {"a", Data!Half, Data!Rest, Data!Newline}] : n \in 0..4} :
        \A i \in DOMAIN f :
            /\ (f[i] = Data!Half /\ i < Len(f)) => f[i + 1] = Data!Rest
            /\ f[i] = Data!Rest => i > 1 /\ f[i - 1] = Data!Half}

Jobs == {"j1", "j2"}
Works ==
    {[j \in Jobs |-> IF j = "j1" THEN Data!Storing(<<t, Declared>>)
                     ELSE Data!Storing(<<u>>)] :
        t \in {Plain, WrongSize, TooLong}, u \in {WrongSum, Local}}
    \cup {[j \in Jobs |-> IF j = "j1" THEN Data!Reading(f) ELSE Data!Idle] : f \in Files}
    \cup {[j \in Jobs |-> IF j = "j1" THEN Data!Signing(Data!Owned, TRUE)
                          ELSE Data!Signing(a, m)] : a \in Data!Location, m \in BOOLEAN}

Bl == INSTANCE Blobs WITH
        Job <- Jobs, Work <- Works, MaxTexts <- 2, MaxBytes <- 2, KeyDuration <- 6,
        UrlExpiry <- 2, MaxLatency <- 1, MaxTime <- 6

ASSUME Bl!KeyOutlivesUrl

----------------------------------------------------------------------------
(* Reading the index: three references, two concept schemes, two regions.  *)

Blank == [text |-> FALSE, score |-> 0, year |-> 0, concepts |-> {},
          countries |-> {}, annotations |-> {}, scores |-> {}]

Doc(score, year, concepts, countries, annotations, scores) ==
    [text |-> TRUE, score |-> score, year |-> year, concepts |-> concepts,
     countries |-> countries, annotations |-> annotations, scores |-> scores]

Included == [scheme |-> "inclusion", label |-> "destiny"]
D1 == Doc(2, 2001, {"c1", "c3"}, {"GB"}, {Included},
          {[scheme |-> "inclusion", label |-> "destiny", score |-> 7]})
D2 == Doc(2, 2005, {"c1", "c2"}, {"KE"}, {}, {})
D3 == Doc(1, 2001, {"c2", "c4"}, {"GB", "KE"}, {Included}, {})
D4 == Doc(2, 0, {"c3", "c4"}, {"XX"}, {}, {})

Documents == 1..3
SearchDocOf == [r \in Documents |-> IF r = 1 THEN 1 ELSE 2]
SearchProfile == {D1, D2, D3, D4}
SearchIndexes == {<<D1, D2, D3>>, <<D2, D2, D1>>, <<D4, D1, Blank>>, <<D3, D4, D2>>}

All == [years |-> <<0, 0>>, annotations |-> {}, concepts |-> <<>>,
        countries |-> <<>>, regions |-> <<>>]
SearchQuery ==
    {All,
     [All EXCEPT !.concepts = <<{"c1"}>>],
     [All EXCEPT !.concepts = <<{"c1", "c2"}>>, !.years = <<2001, 2004>>],
     [All EXCEPT !.concepts = <<{"c1"}, {"c3"}>>],
     [All EXCEPT !.concepts = <<{"c2"}, {"c4"}>>],
     [All EXCEPT !.concepts = <<{"c1"}, {"c2"}>>],
     [All EXCEPT !.concepts = <<{"c1", "c3"}>>, !.countries = <<{"GB"}>>],
     [All EXCEPT !.countries = <<{"GB"}, {"KE"}>>],
     [All EXCEPT !.countries = <<{"ke"}>>, !.regions = <<{"ECS"}>>,
                 !.years = <<0, 2003>>],
     [All EXCEPT !.annotations = {[scheme |-> "inclusion", label |-> "",
                                   score |-> -1]},
                 !.regions = <<{"ECS", "SSF"}>>],
     [All EXCEPT !.annotations = {[scheme |-> "inclusion", label |-> "destiny",
                                   score |-> 5]}],
     [All EXCEPT !.annotations = {[scheme |-> "inclusion", label |-> "destiny",
                                   score |-> 15]}],
     [All EXCEPT !.years = <<2005, 2001>>],
     [All EXCEPT !.concepts = <<{"c1", ""}>>],
     [All EXCEPT !.countries = <<{"gb", "GBR"}>>],
     [All EXCEPT !.regions = <<{"XYZ"}>>]}
SearchUpperOf == [gb |-> "GB", ke |-> "KE"]

Asked(kind, size, limit, facets, axes) ==
    [kind |-> kind, size |-> size, limit |-> limit, facets |-> facets,
     axes |-> axes, vocabulary |-> TRUE]
SearchRequests ==
    {Asked("scan", 0, 0, {}, <<>>), Asked("scan", 0, 2, {}, <<>>),
     Asked("walk", 1, 0, {}, <<>>), Asked("walk", 2, 0, {}, <<>>),
     Asked("facets", 0, 0, {"concepts"}, <<>>),
     Asked("facets", 0, 0, {"concepts", "countries"}, <<"s1", "countries">>),
     Asked("facets", 0, 0, {"country_wb_regions", "countries"}, <<>>),
     Asked("cells", 0, 0, {}, <<"s1", "country_wb_regions">>),
     Asked("cells", 0, 0, {}, <<"s1", "s2">>),
     Asked("cells", 0, 0, {}, <<"countries", "s9">>),
     [Asked("facets", 0, 0, {"concepts"}, <<>>) EXCEPT !.vocabulary = FALSE]}

SearchMembers == [s1 |-> {"c1", "c2"}, s2 |-> {"c3"}]
SearchRegionOf == [GB |-> "ECS", KE |-> "SSF"]

Se == INSTANCE Search WITH
        Reference <- Documents, DocOf <- SearchDocOf, Profile <- SearchProfile,
        Indexes <- SearchIndexes, Query <- SearchQuery, UpperOf <- SearchUpperOf,
        CountryCode <- {"GB", "KE", "XX"}, Requests <- SearchRequests,
        Members <- SearchMembers, RegionOf <- SearchRegionOf, PageSize <- 2,
        Window <- 3, MaxBuckets <- 3, MaxCells <- 20, CountryAxisSize <- 4,
        MaxWrites <- 1

ASSUME Se!AxisHolds

----------------------------------------------------------------------------
(* The vocabulary client: loads of three among two validations under       *)
(* different contexts and vocabularies, a projection and two facet         *)
(* requests, with caches of one entry so that every fetch evicts; and,     *)
(* without tasks, every SKOS graph of three concepts, cyclic ones included. *)

LoadTasks == {"va", "vb", "p", "f1", "f2"}
Concepts == {"a", "b", "c"}

TaskKind == [t \in LoadTasks |->
    CASE t \in {"va", "vb"} -> "validate" [] t = "p" -> "project" [] OTHER -> "facets"]
TaskVocabulary == [t \in LoadTasks |-> IF t = "vb" THEN "v2" ELSE "v1"]
TaskContext == [t \in LoadTasks |-> IF t \in {"vb", "p"} THEN "c2" ELSE "c1"]

\* A graph without links, for the loads; every graph, for the derived maps.
Flat == [explicit |-> [c \in Concepts |-> {"s1"}], broader |-> [c \in Concepts |-> {}]]
EveryGraph == [explicit : [Concepts -> {{}, {"s1"}, {"s2"}}], broader : [Concepts -> SUBSET Concepts]]

TaskLoads == {[tasks |-> T, graphs |-> {Flat}] :
              T \in {{"va", "vb", "p"}, {"p", "f1", "f2"}, {"va", "vb", "f1"}}}
           \cup {[tasks |-> {}, graphs |-> EveryGraph]}

Vo == INSTANCE Vocabulary WITH
        Task <- LoadTasks, Kind <- TaskKind, VocabularyOf <- TaskVocabulary,
        ContextOf <- TaskContext, Concept <- Concepts, Loads <- TaskLoads,
        CacheSize <- 1, MaxAttempts <- 2, MaxFaults <- 2

----------------------------------------------------------------------------
(* Assessments: two workers on one delivery.  The corpus is r1 (assessed)  *)
(* and three others, in which r1 has an identifier relative, is itself a   *)
(* canonical reference with a duplicate, or meets a canonical reference    *)
(* whose title is only its duplicate's; the index may be behind, or hold a *)
(* reference that was never committed.                                     *)

Papers == {"r1", "r2", "r3", "r4"}
NotStored == [stored |-> FALSE, title |-> "", authors |-> FALSE, year |-> 0,
              ids |-> {}, other |-> FALSE, canonical |-> "pending", of |-> "none"]

Row(title, authors, year, ids) ==
    [stored |-> TRUE, title |-> title, authors |-> authors, year |-> year,
     ids |-> ids, other |-> TRUE, canonical |-> "canonical", of |-> "none"]

Pending(row) == [row EXCEPT !.canonical = "pending"]
Under(row, c) == [row EXCEPT !.canonical = "duplicate", !.of = c]
Bare == Row("", FALSE, 0, {})

\* r1 has no decision yet, or is canonical with r2 under it, or has little or
\* nothing to go by; r2 shares its identifier, by itself or under r3; r3 has a
\* title of its own or only its duplicate's.
Stored ==
    {<<Pending(Row("a", TRUE, 5, {"d1"})), r2, r3>> :
        r2 \in {Row("b", TRUE, 5, {"d1"}), Pending(Row("a", TRUE, 8, {"d1"})),
                Under(Row("a", TRUE, 5, {"d1"}), "r3")},
        r3 \in {Row("a", TRUE, 6, {"d2"}), Bare}}
    \cup {<<Row("a", TRUE, 5, {"d1"}), Under(Row("a", TRUE, 5, {"d1"}), "r1"),
            Row("a", TRUE, 6, {"d2"})>>}
    \cup {<<r1, Row("b", TRUE, 5, {"d1"}), Row("a", TRUE, 9, {})>> :
            r1 \in {Pending(Row("a", TRUE, 0, {"d1"})), Pending(Row("", FALSE, 0, {"d1"})),
                    Pending(Bare), NotStored}}

\* r4 is under r3, or is known to the index alone.
Rows(s, r4) == [r \in Papers |->
    CASE r = "r1" -> s[1] [] r = "r2" -> s[2] [] r = "r3" -> s[3] [] OTHER -> r4]
Fourth == Under(Row("a", TRUE, 6, {}), "r3")

StoredCorpora ==
    UNION {{[rows |-> Rows(s, Fourth), docs |-> Rows(s, Fourth)],
            [rows |-> Rows(s, Fourth),
             docs |-> [Rows(s, Fourth) EXCEPT !["r3"].title = "a", !["r3"].year = 6]],
            [rows |-> Rows(s, NotStored), docs |-> Rows(s, Row("a", TRUE, 5, {}))]} :
           s \in Stored}

\* A shared identifier scores highest, then title and year together.
PairScore(row, other) ==
    CASE row.ids \cap other.ids # {} -> 9
      [] row.title # "" /\ row.title = other.title /\ row.year = other.year -> 8
      [] row.title # "" /\ row.title = other.title -> 5
      [] OTHER -> 1

RetrievalPolicies == {[year |-> "hard_window", requires_year |-> TRUE],
               [year |-> "no_filter", requires_year |-> FALSE]}

OneDelivery == [w \in {"w1", "w2"} |-> "k1"]
AssessesFirst == [k \in {"k1"} |-> "r1"]

As == INSTANCE Assessments WITH
        Reference <- Papers, Worker <- {"w1", "w2"}, Key <- {"k1"},
        KeyOf <- OneDelivery, Incoming <- AssessesFirst, Corpora <- StoredCorpora,
        Policies <- RetrievalPolicies, Score <- PairScore, Threshold <- 8, K <- 2,
        MaxChanges <- 1, Sampled <- {}, NoReference <- "none"

ASSUME \A c \in StoredCorpora : \A r, s \in Papers : PairScore(c.rows[r], c.rows[s]) \in 0..10

----------------------------------------------------------------------------
(* One service to a behaviour.                                             *)

blobsIdle ==
    /\ clients = 0 /\ made = 0 /\ open = 0 /\ closer = 0 /\ closing = 0
    /\ job = 0 /\ blob = 0 /\ key = 0 /\ keyLock = 0 /\ now = 0 /\ urls = 0
searchIdle ==
    /\ query = 0 /\ request = 0 /\ pit = 0 /\ producer = 0 /\ consumer = 0
    /\ collected = 0 /\ answer = 0
indicesIdle ==
    /\ sql = 0 /\ alias = {} /\ squatter = FALSE /\ copies = {} /\ locked = {}
    /\ op = [o \in Operator |-> Idle] /\ todo = 0 /\ due = 0 /\ owed = {}
    /\ rolledBack = FALSE /\ failed = FALSE /\ commands = 0 /\ commits = 0
vocabularyIdle ==
    graph = 0 /\ vocabularies = 0 /\ contexts = 0 /\ memo = 0 /\ computing = 0
assessmentsIdle ==
    corpus = 0 /\ idx = 0 /\ policy = 0 /\ records = 0 /\ blobs = 0 /\ changes = 0
storeIdle == index = 0 /\ queue = 0 /\ writes = 0

ServicesInit ==
    \/ /\ service = "blobs" /\ Bl!Init /\ searchIdle /\ indicesIdle
       /\ vocabularyIdle /\ assessmentsIdle /\ clientsIdle /\ storeIdle /\ task = 0
    \/ /\ service = "search" /\ Se!Init /\ blobsIdle /\ indicesIdle
       /\ vocabularyIdle /\ assessmentsIdle /\ clientsIdle /\ task = 0
    \/ /\ service = "indices" /\ Init /\ blobsIdle /\ searchIdle
       /\ vocabularyIdle /\ assessmentsIdle /\ clientsIdle
    \/ /\ service = "vocabulary" /\ Vo!Init /\ blobsIdle /\ searchIdle
       /\ indicesIdle /\ assessmentsIdle /\ clientsIdle /\ storeIdle
    \/ /\ service = "assessments" /\ As!Init /\ blobsIdle /\ searchIdle
       /\ indicesIdle /\ vocabularyIdle /\ clientsIdle /\ storeIdle
    \/ /\ ClientsInit /\ blobsIdle /\ searchIdle /\ indicesIdle
       /\ vocabularyIdle /\ assessmentsIdle /\ storeIdle /\ task = 0

\* A process may end with every blob client closed and every job done, and
\* operators, writers and workers of the indices may rest, as may the clients.
Quiet ==
    /\ service \in {"blobs", "indices", "page", "migration"}
    /\ UNCHANGED <<vars, blobVars, searchVars, vocabularyVars, assessmentVars,
                   clientVars>>

ServicesNext ==
    /\ UNCHANGED service
    /\ \/ /\ service = "blobs" /\ Bl!Next
          /\ UNCHANGED <<searchVars, indicesVars, vocabularyVars, assessmentVars,
                         clientVars, storeVars, task>>
       \/ /\ service = "search" /\ Se!Next
          /\ UNCHANGED <<blobVars, indicesVars, vocabularyVars, assessmentVars,
                         clientVars, task>>
       \/ /\ service = "indices" /\ Next
          /\ UNCHANGED <<blobVars, searchVars, vocabularyVars, assessmentVars,
                         clientVars>>
       \/ /\ service = "vocabulary" /\ Vo!Next
          /\ UNCHANGED <<blobVars, searchVars, indicesVars, assessmentVars,
                         clientVars, storeVars>>
       \/ /\ service = "assessments" /\ As!Next
          /\ UNCHANGED <<blobVars, searchVars, indicesVars, vocabularyVars,
                         clientVars, storeVars>>
       \/ /\ ClientsNext
          /\ UNCHANGED <<blobVars, searchVars, indicesVars, vocabularyVars,
                         assessmentVars, storeVars, task>>
       \/ Quiet

serviceVars == <<service, vars, blobVars, searchVars, vocabularyVars,
                 assessmentVars, clientVars>>

ServicesSpec == ServicesInit /\ [][ServicesNext]_serviceVars

----------------------------------------------------------------------------
(* The properties of the services, each while it runs.                     *)

\* A client that is open is registered or about to be closed, however the
\* jobs that ask for one and the shutdown interleave (_BlobClientRegistry).
NoClientLost == service = "blobs" => Bl!NoClientLost

\* A signed URL is good until it expires (get_user_delegation_key).
UrlGoodToTheEnd == service = "blobs" => Bl!UrlGoodToTheEnd

\* A completed scan has collected every match of the index as it was when its
\* point in time was opened, once, up to its limit (scan_with_query_string);
\* and while nothing is written, the pages of a search are together every
\* match, once, best first (search).
ReadsAreComplete == service = "search" => Se!ScanIsSnapshot /\ Se!WalkIsComplete

\* Facet buckets, and the cells and totals of the map, count what the search
\* returns (aggregate_facets, cross_tabulate_facets).
CountsAgree ==
    [][service = "search" => Se!FacetsAnswered /\ Se!CellsAnswered]_serviceVars

\* Expansion finds the validation's own context in the cache (document_loader).
LoaderFindsContext == service = "vocabulary" => Vo!LoaderFindsContext

\* The depth-first walk of broader links computes the schemes of the nearest
\* declaring ancestors, on cyclic graphs too (_build_scheme_members).
SchemesInherited == service = "vocabulary" => Vo!SchemesInherited

\* A recorded proposal is one a reviewer can act on (_assess, _summarise).
ProposalIsSound == service = "assessments" => As!ProposalIsSound

\* A delivery is recorded once, with one payload (record,
\* add_or_find_by_idempotency_key).
RecordedOnce == service = "assessments" => As!RecordedOnce

=============================================================================
