------------------------- MODULE StaticEnhancements -------------------------
(***************************************************************************)
(* The utility that adds a list of enhancements to references: each run    *)
(* requests them of a robot, acts as that robot until there is no work     *)
(* left for it, and reports on its requests.  Several runs may be made at  *)
(* once, by different people, as one robot.                                *)
(*                                                                         *)
(* A step is a call of the API, the whole of its handler; a lease may end  *)
(* at any time.  Leases, retries and imports in detail are                 *)
(* PendingEnhancements', signatures Sessions'.                             *)
(***************************************************************************)
EXTENDS Naturals, Sequences, FiniteSetsExt, SequencesExt

CONSTANTS
    Runs,           \* runs of the utility
    Inputs,         \* what they may be given: for each run a list of references
                    \* and contents, and whether it creates a robot of its own
    Owners,         \* who the shared robot may belong to
    Raw,            \* contents that need an entitlement
    Reference,
    RequestSize,    \* BATCH_SIZE of a request
    ClaimSize,      \* limit of a poll
    MaxExpiries,    \* bound on leases that end
    MaxFaults       \* bound on runs that are interrupted

VARIABLES
    input,      \* what the runs were given, for good
    robot,      \* [the shared robot and those created -> owner, secret]
    rows,       \* pending enhancements, in order
    batches,    \* robot enhancement batches and their result files, in order
    stored,     \* [reference -> the contents it has]
    run,        \* [run -> where it is and what it holds]
    expiries, faults

vars == <<input, robot, rows, batches, stored, run, expiries, faults>>

-----------------------------------------------------------------------------
(* Data *)

Marker == "cli/add_static_enhancements"
Shared == "shared"
RobotOf(u) == IF input[u].creates THEN u ELSE Shared

\* load_enhancements
Wanted(u) == {x.ref : x \in Range(input[u].list)}
ContentOf(u, r) == (CHOOSE x \in Range(input[u].list) : x.ref = r).content

NewRun == [at |-> "load", secret |-> 0, todo |-> {}, requests |-> 0, batch |-> 0,
           enhanced |-> {}, settled |-> {}]

Init ==
    /\ input \in Inputs
    /\ robot \in {[b \in {Shared} \cup Runs |->
                      [owner |-> IF b = Shared THEN o ELSE Marker,
                       secret |-> IF b = Shared THEN 1 ELSE 0]] : o \in Owners}
    /\ rows = <<>>
    /\ batches = <<>>
    /\ stored = [r \in Reference |-> {}]
    /\ run = [u \in Runs |-> NewRun]
    /\ expiries = 0 /\ faults = 0

Go(u, at) == run' = [run EXCEPT ![u].at = at]

\* HMACSigningAuth: the API knows the robot by its current secret.
Signed(u) == run[u].secret = robot[RobotOf(u)].secret

-----------------------------------------------------------------------------
(* The robot *)

\* load_enhancements: one enhancement for a reference.
Load(u) ==
    /\ run[u].at = "load"
    /\ IF Cardinality(Wanted(u)) < Len(input[u].list) THEN Go(u, "failed")
       ELSE run' = [run EXCEPT ![u].at = "robot", ![u].todo = Wanted(u)]
    /\ UNCHANGED <<input, robot, rows, batches, stored, expiries, faults>>

\* required_entitlements: asked for when the robot is created; the shared
\* robot has none.
Entitled(u) == input[u].creates \/ {x.content : x \in Range(input[u].list)} \cap Raw = {}

\* claim_robot
ClaimRobot(u) ==
    /\ run[u].at = "robot" /\ ~input[u].creates
    /\ Go(u, IF robot[Shared].owner = Marker /\ Entitled(u) THEN "secret" ELSE "failed")
    /\ UNCHANGED <<input, robot, rows, batches, stored, expiries, faults>>

\* Mutant: the secret the robot has is used as it is.
SecretKept(u) ==
    /\ run' = [run EXCEPT ![u].at = "request",
                          ![u].secret = robot[RobotOf(u)].secret]
    /\ UNCHANGED robot
\* A robot is registered with a secret, or given a new one.
NewSecret(u) ==
    LET s == robot[RobotOf(u)].secret + 1
    IN  /\ robot' = [robot EXCEPT ![RobotOf(u)].secret = s]
        /\ run' = [run EXCEPT ![u].at = "request", ![u].secret = s]

\* resolve_robot
ResolveRobot(u) ==
    /\ run[u].at = IF input[u].creates THEN "robot" ELSE "secret"
    /\ NewSecret(u)
    /\ UNCHANGED <<input, rows, batches, stored, expiries, faults>>

-----------------------------------------------------------------------------
(* The requests *)

\* request_enhancements: a request for each chunk.
RequestEnhancements(u) ==
    LET chunk == SubSeq(SetToSortSeq(run[u].todo, <), 1,
                        Min({RequestSize, Cardinality(run[u].todo)}))
    IN  /\ run[u].at = "request" /\ run[u].todo # {}
        /\ rows' = rows \o [k \in DOMAIN chunk |->
               [run |-> u, request |-> run[u].requests + 1, ref |-> chunk[k],
                robot |-> RobotOf(u), status |-> "PENDING", batch |-> 0]]
        /\ run' = [run EXCEPT ![u].todo = @ \ Range(chunk), ![u].requests = @ + 1]
        /\ UNCHANGED <<input, robot, batches, stored, expiries, faults>>

RequestsMade(u) ==
    /\ run[u].at = "request" /\ run[u].todo = {}
    /\ Go(u, "poll")
    /\ UNCHANGED <<input, robot, rows, batches, stored, expiries, faults>>

-----------------------------------------------------------------------------
(* Acting as the robot *)

\* The oldest rows available, one to a reference.
Claimable(b) ==
    LET free == {k \in DOMAIN rows : rows[k].robot = b /\ rows[k].status = "PENDING"}
        oldest == {k \in free : Cardinality({j \in free : j < k}) < ClaimSize}
    IN  {k \in oldest : \A j \in oldest : j < k => rows[j].ref # rows[k].ref}

\* poll_robot_enhancement_batch
Poll(u) ==
    LET mine == Claimable(RobotOf(u))
    IN  /\ run[u].at = "poll" /\ Signed(u) /\ mine # {}
        /\ rows' = [k \in DOMAIN rows |->
               IF k \in mine THEN [rows[k] EXCEPT !.status = "PROCESSING",
                                                  !.batch = Len(batches) + 1]
               ELSE rows[k]]
        /\ batches' = Append(batches, [refs |-> {rows[k].ref : k \in mine}, by |-> {}])
        /\ run' = [run EXCEPT ![u].at = "batch", ![u].batch = Len(batches) + 1]
        /\ UNCHANGED <<input, robot, stored, expiries, faults>>

NoWork(u) ==
    /\ run[u].at = "poll" /\ Signed(u) /\ Claimable(RobotOf(u)) = {}
    /\ Go(u, "await")
    /\ UNCHANGED <<input, robot, rows, batches, stored, expiries, faults>>

\* A batch with references the run has no enhancement for is abandoned;
\* otherwise its result file is written, to the URL that came with it.
FulfilBatch(u) ==
    LET b == run[u].batch
    IN  /\ run[u].at = "batch"
        /\ \/ /\ ~(batches[b].refs \subseteq Wanted(u))
              /\ Go(u, "failed")
              /\ UNCHANGED batches
           \/ /\ batches[b].refs \subseteq Wanted(u)
              /\ Go(u, "send")
              /\ batches' = [batches EXCEPT ![b].by = {u}]
        /\ UNCHANGED <<input, robot, rows, stored, expiries, faults>>

\* send_robot_enhancement_batch_result: refused when a row was given up.
Send(u) ==
    LET mine == {k \in DOMAIN rows : rows[k].batch = run[u].batch}
    IN  /\ run[u].at = "send" /\ Signed(u)
        /\ \/ /\ \A k \in mine : rows[k].status = "PROCESSING"
              /\ rows' = [k \in DOMAIN rows |->
                     IF k \in mine THEN [rows[k] EXCEPT !.status = "IMPORTING"] ELSE rows[k]]
              /\ run' = [run EXCEPT ![u].at = "poll",
                                    ![u].enhanced = @ \cup batches[run[u].batch].refs]
           \/ /\ \E k \in mine : rows[k].status # "PROCESSING"
              /\ Go(u, "failed")
              /\ UNCHANGED rows
        /\ UNCHANGED <<input, robot, batches, stored, expiries, faults>>

\* Another run has taken the robot over.
Refused(u) ==
    /\ run[u].at \in {"poll", "send"} /\ ~Signed(u)
    /\ Go(u, "failed")
    /\ UNCHANGED <<input, robot, rows, batches, stored, expiries, faults>>

-----------------------------------------------------------------------------
(* Reporting *)

\* The statuses of a request's rows, those replaced left out.
Statuses(u, q) ==
    {rows[k].status : k \in {j \in DOMAIN rows : rows[j].run = u /\ rows[j].request = q
                                                 /\ rows[j].status # "EXPIRED"}}

\* poll_until_complete: the requests that have settled are kept with what
\* they settled as.
PollRequest(u, q) ==
    /\ run[u].at = "await"
    /\ \A s \in run[u].settled : s.request # q
    /\ Statuses(u, q) \subseteq {"COMPLETED", "DISCARDED"}
    /\ run' = [run EXCEPT ![u].settled = @ \cup
                  {[request |-> q, completed |-> Statuses(u, q) = {"COMPLETED"}]}]
    /\ UNCHANGED <<input, robot, rows, batches, stored, expiries, faults>>

\* All have settled, or POLL_TIMEOUT has passed.
Report(u) ==
    /\ run[u].at = "await"
    /\ Go(u, "reported")
    /\ UNCHANGED <<input, robot, rows, batches, stored, expiries, faults>>

\* The network fails, or the person stops the run.
Interrupt(u) ==
    /\ run[u].at \notin {"load", "failed", "reported"}
    /\ faults < MaxFaults
    /\ faults' = faults + 1
    /\ Go(u, "failed")
    /\ UNCHANGED <<input, robot, rows, batches, stored, expiries>>

-----------------------------------------------------------------------------
(* The repository *)

\* The result file of a batch is imported and indexed; an enhancement that is
\* there already is discarded.
Import(b) ==
    LET mine == {k \in DOMAIN rows : rows[k].batch = b /\ rows[k].status = "IMPORTING"}
        line(r) == ContentOf(CHOOSE u \in batches[b].by : TRUE, r)
    IN  /\ mine # {}
        /\ rows' = [k \in DOMAIN rows |->
               IF k \notin mine THEN rows[k]
               ELSE [rows[k] EXCEPT !.status =
                        IF line(rows[k].ref) \in stored[rows[k].ref] THEN "DISCARDED"
                        ELSE "COMPLETED"]]
        /\ stored' = [r \in Reference |->
               stored[r] \cup {line(r) : k \in {j \in mine : rows[j].ref = r}}]
        /\ UNCHANGED <<input, robot, batches, run, expiries, faults>>

\* A lease ends: its rows are replaced.
Expire(b) ==
    LET mine == {k \in DOMAIN rows : rows[k].batch = b /\ rows[k].status = "PROCESSING"}
        again == SetToSortSeq(mine, <)
    IN  /\ mine # {} /\ expiries < MaxExpiries
        /\ expiries' = expiries + 1
        /\ rows' = [k \in DOMAIN rows |->
                       IF k \in mine THEN [rows[k] EXCEPT !.status = "EXPIRED"]
                       ELSE rows[k]]
                   \o [k \in DOMAIN again |->
                          [rows[again[k]] EXCEPT !.status = "PENDING", !.batch = 0]]
        /\ UNCHANGED <<input, robot, batches, stored, run, faults>>

Next ==
    \/ \E u \in Runs :
          \/ Load(u) \/ ClaimRobot(u) \/ ResolveRobot(u)
          \/ RequestEnhancements(u) \/ RequestsMade(u)
          \/ Poll(u) \/ NoWork(u) \/ FulfilBatch(u) \/ Send(u) \/ Refused(u)
          \/ \E q \in 1..run[u].requests : PollRequest(u, q)
          \/ Report(u) \/ Interrupt(u)
    \/ \E b \in DOMAIN batches : Import(b) \/ Expire(b)

Spec == Init /\ [][Next]_vars

-----------------------------------------------------------------------------
(* Properties *)

\* A run that reports a request as completed has its own enhancements stored,
\* whatever other runs did as the same robot meanwhile and whichever leases
\* ended: giving the robot a new secret keeps two runs from doing each other's
\* work ("The owner marker makes this safe", resolve_robot).
CompletedIsOwn ==
    \A u \in Runs : \A s \in run[u].settled : s.completed =>
        \A k \in DOMAIN rows :
            (rows[k].run = u /\ rows[k].request = s.request) =>
                ContentOf(u, rows[k].ref) \in stored[rows[k].ref]

=============================================================================
