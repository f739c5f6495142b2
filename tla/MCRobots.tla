------------------------------ MODULE MCRobots ------------------------------
(***************************************************************************)
(* What happens around a robot's pending enhancements, one to a behaviour: *)
(* robot automations (Automations), the utility that adds static           *)
(* enhancements (StaticEnhancements) and the reading of a result file      *)
(* (ResultFile).  The variables that are not a module's own stay 0.  Two   *)
(* modules whose rows are tables of their own keep them in one variable.   *)
(***************************************************************************)
EXTENDS Integers, Sequences, TLC

VARIABLES
    deployment,
    docs, seen, edit, repair, touched, canon, enh, asked, unanswered, batch,
    decisions, answers, edits, repairs,
    input, robot, batches, run, expiries, faults,
    file, pos, processed, attempted, successful, discarded, added, held,
    duplicates, report, sorted, others,
    table, kept, restarts

automationVars == <<docs, seen, edit, repair, touched, canon, enh, asked, unanswered,
                    batch, decisions, answers, edits, repairs>>
staticVars == <<input, robot, batches, run, expiries, faults>>
resultVars == <<file, pos, processed, attempted, successful, discarded, added, held,
                duplicates, report, sorted, others>>
sharedVars == <<table, kept, restarts>>
robotVars == <<automationVars, staticVars, resultVars, sharedVars>>

----------------------------------------------------------------------------
(* Automations: two robots, x and y.  The first two automations are x's,   *)
(* on an abstract and on what y makes; the third is y's, on what either    *)
(* makes and on raw data, which is not indexed.  One may be replaced by an *)
(* automation of y on abstracts of canonical references that have what x   *)
(* makes, or by criteria the index refuses.                                *)

Asks(robotName, wants, has, canonical) ==
    [robot |-> robotName, wants |-> wants, has |-> has, canonical |-> canonical]
Made(kind, by) == [kind |-> kind, by |-> by, version |-> 1]

Refused == Asks("y", {}, {}, FALSE)

Au == INSTANCE Automations WITH
        Reference <- {"r1", "r2"}, Robot <- {"x", "y"}, Automation <- {"a1", "a2", "a3"},
        Makes <- [x |-> "kx", y |-> "ky"], Version <- {1},
        Criteria <- {Asks("y", {"abs"}, {"kx"}, TRUE), Refused}, Malformed <- {Refused},
        Registrations <- {[a1 |-> Asks("x", {"abs"}, {}, FALSE),
                           a2 |-> Asks("x", {"abs", "ky"}, {}, FALSE),
                           a3 |-> Asks("y", {"kx", "ky", "raw"}, {}, FALSE)]},
        Imported <- [r1 |-> {Made("abs", "import"), Made("raw", "import")},
                     r2 |-> {Made("abs", "import"), Made("kx", "x")}],
        NoReference <- "none", ChunkSize <- 1, MaxHits <- 3, BatchSize <- 2,
        MaxDecisions <- 3, MaxAnswers <- 2, MaxEdits <- 1, MaxRepairs <- 1,
        MaxEvents <- 5, rows <- table

ASSUME Au!AutomationsAssumption

----------------------------------------------------------------------------
(* Static enhancements: two runs on three references, as the shared robot  *)
(* or the second as one of its own, with lists that overlap, repeat a      *)
(* reference or hold raw content.                                          *)

Item(r, content) == [ref |-> r, content |-> content]
Given(list, creates) == [list |-> list, creates |-> creates]

St == INSTANCE StaticEnhancements WITH
        Runs <- {"u1", "u2"},
        Inputs <- {[u1 |-> Given(<<Item(1, "a"), Item(2, "a")>>, FALSE), u2 |-> second] :
                   second \in {Given(<<Item(1, "b"), Item(2, "b")>>, FALSE),
                               Given(<<Item(2, "b"), Item(3, "a")>>, FALSE),
                               Given(<<Item(1, "a"), Item(1, "b")>>, FALSE),
                               Given(<<Item(1, "raw")>>, FALSE),
                               Given(<<Item(1, "raw"), Item(2, "a")>>, TRUE)}},
        Owners <- {"cli/add_static_enhancements", "other"}, Raw <- {"raw"},
        Reference <- 1..3, RequestSize <- 1, ClaimSize <- 2, MaxExpiries <- 2,
        MaxFaults <- 2, rows <- table, stored <- kept

----------------------------------------------------------------------------
(* A result file of up to three lines for a batch of four rows on three    *)
(* references, of which r3 does not exist; r9 was not asked for.           *)

Says(r, type, content, parents) ==
    [is |-> "enhancement", ref |-> r, type |-> type, content |-> content,
     parents |-> parents]
Line == {[is |-> "blank"], [is |-> "unparsable"],
         [is |-> "error", ref |-> "r1"], [is |-> "error", ref |-> "r9"],
         Says("r1", "plain", "x", {}), Says("r1", "raw", "x", {}),
         Says("r2", "linked_data", "x", {"e2"}), Says("r2", "plain", "y", {"e1"}),
         Says("r3", "full_text", "x", {})}

Re == INSTANCE ResultFile WITH
        Row <- 1..4, RefOf <- <<"r1", "r2", "r2", "r3">>, Reference <- {"r1", "r2"},
        Files <- UNION {[1..n -> Line] : n \in 0..3}, Parent <- [e1 |-> "r1"],
        MayRaw <- FALSE, MaxCommits <- 1, MaxCrashes <- 1, crashes <- restarts

----------------------------------------------------------------------------
(* One of them to a behaviour.                                             *)

automationsIdle ==
    /\ docs = 0 /\ seen = 0 /\ edit = 0 /\ repair = 0 /\ touched = 0 /\ canon = 0
    /\ enh = 0 /\ asked = 0 /\ unanswered = 0 /\ batch = 0 /\ decisions = 0
    /\ answers = 0 /\ edits = 0 /\ repairs = 0
staticIdle ==
    input = 0 /\ robot = 0 /\ batches = 0 /\ run = 0 /\ expiries = 0 /\ faults = 0
resultIdle ==
    /\ file = 0 /\ pos = 0 /\ processed = 0 /\ attempted = 0 /\ successful = 0
    /\ discarded = 0 /\ added = 0 /\ held = 0 /\ duplicates = 0 /\ report = 0
    /\ sorted = 0 /\ others = 0

sharedIdle == table = 0 /\ kept = 0 /\ restarts = 0

RobotsInit ==
    \/ /\ deployment = "automations" /\ Au!Init /\ staticIdle /\ resultIdle
       /\ kept = 0 /\ restarts = 0
    \/ /\ deployment = "static" /\ St!Init /\ automationsIdle /\ resultIdle
       /\ restarts = 0
    \/ /\ deployment = "result" /\ Re!Init /\ automationsIdle /\ staticIdle
       /\ table = 0 /\ kept = 0

RobotsNext ==
    \/ /\ deployment = "automations" /\ Au!Next
       /\ UNCHANGED <<staticVars, resultVars, kept, restarts>>
    \/ /\ deployment = "static" /\ St!Next
       /\ UNCHANGED <<automationVars, resultVars, restarts>>
    \/ /\ deployment = "result" /\ Re!Next
       /\ UNCHANGED <<automationVars, staticVars, table, kept>>

----------------------------------------------------------------------------
(* Their properties, each while it runs.                                   *)

\* A robot is asked for every change it is registered for, and once
\* (_detect_and_dispatch_robot_automations).
AskedExactlyOnce == deployment = "automations" => Au!AskedExactlyOnce

\* A run that reports a request as completed has its own enhancements stored
\* (resolve_robot).
CompletedIsOwn == deployment = "static" => St!CompletedIsOwn

\* The first line of a result file that names a reference settles its rows
\* (process_robot_enhancement_batch_result).
FirstLineSettles == deployment = "result" => Re!FirstLineSettles

=============================================================================
