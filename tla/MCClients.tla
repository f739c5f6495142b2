------------------------------ MODULE MCClients ------------------------------
(***************************************************************************)
(* What uses the repository from outside, one to a behaviour: the web page *)
(* (WebPage) and the utility that migrates references (Migration).  The    *)
(* variables that are not a module's own stay 0.                           *)
(***************************************************************************)
EXTENDS MCIndices

VARIABLES
    service,
    provider, session, page, requests, leaving, sent, loads,
    idFile, tool, exports, record, batches

pageVars == <<provider, session, page, requests, leaving, sent, loads>>
migrationVars == <<idFile, tool, exports, record, batches>>
clientVars == <<pageVars, migrationVars>>

----------------------------------------------------------------------------
(* The web page: two queries and one that is malformed, an identifier      *)
(* and one that is unknown.                                                *)

Wp == INSTANCE WebPage WITH
        Providers <- {"local", "azure", "keycloak"},
        Query <- {"qa", "qb", "bad"}, Malformed <- {"bad"},
        Total <- [qa |-> 3, qb |-> 1, bad |-> 0],
        Identifier <- {"i1", "i2"},
        Finds <- [i1 |-> "r1", i2 |-> "none"],
        Names <- [r1 |-> {"i1"}], NoReference <- "none",
        PageSize <- 1, Window <- 2, MaxBulk <- 2, MaxRequests <- 2, MaxLoads <- 2,
        MaxFaults <- 1

ASSUME Wp!WebPageAssumption

----------------------------------------------------------------------------
(* A migration: every file of up to four ids, in chunks of two.            *)

Mi == INSTANCE Migration WITH
        IdFiles <- UNION {[1..n -> 1..3] : n \in 0..4}, ChunkSize <- 2, MaxPolls <- 3,
        BatchPolls <- 2, UrlLife <- 2, ExportTime <- 2, MaxFaults <- 1

----------------------------------------------------------------------------
(* One of them to a behaviour.                                             *)

pageIdle ==
    /\ provider = 0 /\ session = 0 /\ page = 0 /\ requests = 0 /\ leaving = 0
    /\ sent = 0 /\ loads = 0
migrationIdle == idFile = 0 /\ tool = 0 /\ exports = 0 /\ record = 0 /\ batches = 0
clientsIdle == pageIdle /\ migrationIdle

ClientsInit ==
    \/ service = "page" /\ Wp!Init /\ migrationIdle
    \/ service = "migration" /\ Mi!Init /\ pageIdle

ClientsNext ==
    \/ service = "page" /\ Wp!Next /\ UNCHANGED migrationVars
    \/ service = "migration" /\ Mi!Next /\ UNCHANGED pageVars

----------------------------------------------------------------------------
(* Their properties, each while it runs.                                   *)

\* What the page shows answers what was asked last, it spins exactly while an
\* answer is awaited (handleLookup, handleSearch), and the token of what it asks
\* is good when the request arrives (getToken).
PageIsCurrent == service = "page" => Wp!ShownIsAsked /\ Wp!TokenGoodOnArrival

\* What is handed over to the other deployment is whole and its URLs good
\* (migrate_references).
HandedOver == service = "migration" => Mi!HandedOver

==============================================================================
