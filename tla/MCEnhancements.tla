--------------------------- MODULE MCEnhancements ---------------------------
(***************************************************************************)
(* Two deployments of PendingEnhancements and those of MCRobots, one to a  *)
(* behaviour:                                                              *)
(*   "leases" two API handlers serve one robot's replicas, and leases run  *)
(*            out, without workers;                                        *)
(*   "import" one handler serves two robots that answer, and a worker      *)
(*            scans and imports under a crash or a lost lock.              *)
(* A deployment bounds the steps of PendingEnhancements; what is checked   *)
(* is the module's own.                                                    *)
(***************************************************************************)
EXTENDS PendingEnhancements, MCRobots

\* "leases": no worker, one robot.
LeasesBound ==
    /\ \A w \in Worker : task[w] = NoTask
    /\ \A i, j \in Used : rows[i].robot = rows[j].robot
    /\ crashes = 0

\* "import": one call at a time, two rows and two batches, one fault.
ImportBound ==
    /\ \A c, d \in Caller : call[c] = NoCall \/ call[d] = NoCall \/ c = d
    /\ Used \subseteq 1..2
    /\ BatchesMade \subseteq 1..2
    /\ crashes + lockLosses <= 1

robotsIdle == automationsIdle /\ staticIdle /\ resultIdle /\ sharedIdle

DeploymentInit ==
    /\ Init
    /\ \/ deployment \in {"leases", "import"} /\ robotsIdle
       \/ RobotsInit

DeploymentNext ==
    /\ UNCHANGED deployment
    /\ \/ deployment = "leases" /\ Next /\ LeasesBound' /\ UNCHANGED robotVars
       \/ deployment = "import" /\ Next /\ ImportBound' /\ UNCHANGED robotVars
       \/ RobotsNext /\ UNCHANGED vars

DeploymentSpec == DeploymentInit /\ [][DeploymentNext]_<<deployment, vars, robotVars>>

\* References, robots and API handlers are interchangeable.
AllSymmetry ==
    Permutations(Reference) \cup Permutations(Robot) \cup Permutations(Caller)

=============================================================================
