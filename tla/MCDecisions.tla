---------------------------- MODULE MCDecisions -----------------------------
(***************************************************************************)
(* Two deployments of Deduplication, one to a behaviour, and what readers  *)
(* see of decided references:                                              *)
(*   "serial" one worker and one handler that never overlap, two           *)
(*            references that are apart, and one that shares an identifier *)
(*            with each of them;                                           *)
(*   "manual" a worker and a handler that overlap, a crash, a lost lock,   *)
(*            and a reference without a trusted identifier;                *)
(*   "read"   the projections of references (Projections).                 *)
(* A deployment bounds the steps of Deduplication; what is checked is the  *)
(* module's own.                                                           *)
(***************************************************************************)
EXTENDS Deduplication, Integers, Sequences, TLC

CONSTANTS r1, r2, r3, r4, id1, id2

VARIABLES
    deployment,
    arriving, enhancements, decision, propertyOf, document, decided

\* r2 is the bridge between r1 and r3.
Trusted == (r1 :> {id1}) @@ (r2 :> {id1, id2}) @@ (r3 :> {id2}) @@ (r4 :> {})
Others == (r1 :> {id1}) @@ (r2 :> {}) @@ (r3 :> {}) @@ (r4 :> {id1})

SerialBound ==
    /\ imported \subseteq {r1, r2, r3}
    /\ crashes = 0 /\ lockLosses = 0
    /\ OneBusy
ManualBound ==
    /\ imported \subseteq {r1, r4}
    /\ 4..6 \subseteq Unused

-----------------------------------------------------------------------------
(* Projections: what may arrive is bibliographic, annotations of two       *)
(* sources, or linked data and an abstract.                                *)

\* The constructors of Projections, which depend on none of its constants.
Data == INSTANCE Projections WITH
    Reference <- {}, Families <- {}, Identifiers <- <<>>, Vocabulary <- <<>>,
    RegionOf <- <<>>, UpperOf <- <<>>, Blank <- "blank", Undecided <- 0,
    decisions <- decided, MaxEnhancements <- 0, MaxEvents <- 0

People == <<Data!Author(2, "last"), Data!Author(4, "middle"), Data!Author(3, "middle"),
            Data!Author(5, "first")>>
Journal == Data!Venue("j", "journal", "host")
Texts ==
    {Data!From("s1", Data!Bibliographic("t1", 2001, 0, People, Data!NoVenue, Data!Absent)),
     Data!From("s1", Data!Bibliographic(Data!Absent, 0, 2003, <<>>, Journal, Data!Absent)),
     Data!From("s2", Data!Bibliographic("blank", 2002, 2001, <<Data!Author(1, "middle")>>,
                                        Data!NoVenue, "p")),
     Data!From("s2", Data!Locations(<<Data!Location(Data!Absent, "f1"),
                                      Data!Location("l1", "f2")>>))}

Included(value) == Data!BooleanAnnotation("inclusion:destiny", "in", value, 7, -1)
Notes ==
    {Data!From("s1", Data!Annotations(<<Included(TRUE),
                                        Data!BooleanAnnotation("topic", "a", TRUE, -1, -1)>>)),
     Data!From("s1", Data!Annotations(<<Data!BooleanAnnotation("topic", "b", TRUE, -1, -1)>>)),
     Data!From("s2", Data!Annotations(<<Included(FALSE),
                                        Data!ScoreAnnotation("topic", "c", 4)>>))}

Coded(value, status) == [value |-> value, status |-> status]
Links ==
    {Data!From("s1", Data!LinkedData({Coded("c1", "coded"), Coded("c9", "coded")}, {},
                                     {[code |-> "gb", status |-> "none"]})),
     Data!From("s2", Data!LinkedData({Coded("c1", "not_reported"), Coded("c2", "none")},
                                     {[property |-> "p3", value |-> "c3"]},
                                     {[code |-> "KE", status |-> "not_reported"]})),
     Data!From("s1", Data!Abstract("blank")), Data!From("s2", Data!Abstract("x"))}

\* Two properties take values of one scheme.
Terms == [concepts |-> {"c1", "c2", "c3"}, label |-> [c1 |-> "one", c3 |-> "three"],
          scheme |-> [c1 |-> "k1", c2 |-> "k1"],
          class |-> [c1 |-> {"C"}, c2 |-> {"C"}, c3 |-> {}],
          annotated |-> {[property |-> "p1", class |-> "C"], [property |-> "p2", class |-> "C"]},
          range |-> [p3 |-> "Concept", p4 |-> "D"]]

Ids == <<<<[type |-> "doi", value |-> "d1"], [type |-> "other", value |-> "o1"]>>,
         <<[type |-> "doi", value |-> "d2"], [type |-> "pm_id", value |-> "m2"]>>,
         <<[type |-> "doi", value |-> "d3"]>>>>

Read == INSTANCE Projections WITH
    Reference <- 1..3, Families <- {Texts, Notes, Links}, Identifiers <- Ids,
    Vocabulary <- Terms, RegionOf <- [GB |-> "ECS", KE |-> "SSF"],
    UpperOf <- [gb |-> "GB"], Blank <- "blank", Undecided <- 0,
    decisions <- decided, MaxEnhancements <- 3, MaxEvents <- 4

-----------------------------------------------------------------------------
readVars == <<arriving, enhancements, decision, propertyOf, document, decided>>
readIdle ==
    /\ arriving = 0 /\ enhancements = 0 /\ decision = 0 /\ propertyOf = 0
    /\ document = 0 /\ decided = 0

DeploymentInit ==
    /\ Init
    /\ \/ deployment \in {"serial", "manual"} /\ readIdle
       \/ deployment = "read" /\ Read!Init

DeploymentNext ==
    /\ UNCHANGED deployment
    /\ \/ deployment = "serial" /\ Next /\ SerialBound' /\ UNCHANGED readVars
       \/ deployment = "manual" /\ Next /\ ManualBound' /\ UNCHANGED readVars
       \/ deployment = "read" /\ Read!Next /\ UNCHANGED vars

DeploymentSpec == DeploymentInit /\ [][DeploymentNext]_<<deployment, vars, readVars>>

-----------------------------------------------------------------------------
(* Properties of single deployments                                        *)

\* Where transactions do not overlap, what a commit changes is in the index by
\* then (CommitIsIndexed).
SerialCommitIsIndexed ==
    [][deployment = "serial" /\ decisions' # decisions => ChangesIndexed]_vars

\* The index and an export tell readers the same, by the priority of the
\* enhancements of a reference and of its duplicates
\* (_priority_sorted_enhancements).
ReadersAgree == deployment = "read" => Read!ReadersAgree
=============================================================================
