----------------------------- MODULE MCBatches ------------------------------
(***************************************************************************)
(* Three deployments of PendingEnhancements for its liveness, one to a     *)
(* behaviour, without searches:                                            *)
(*   "replicas" one row, two API handlers and a worker, a crash or a lost  *)
(*              lock;                                                      *)
(*   "twice"    one row and two workers; two handlers or a lost lock, so   *)
(*              that an import that is queued or delivered twice runs      *)
(*              beside the first;                                          *)
(*   "shared"   two rows in a batch, a handler and a worker, a lost lock.  *)
(* A deployment bounds the steps of PendingEnhancements; what is checked   *)
(* is the module's own.                                                    *)
(***************************************************************************)
EXTENDS PendingEnhancements

CONSTANTS r1, c1, w1

VARIABLE deployment

OneWorker == \A w \in Worker \ {w1} : task[w] = NoTask
OneHandler == \A c \in Caller \ {c1} : call[c] = NoCall
OneReference == \A i \in Used : rows[i].ref = r1
NoSearch == \A q \in Request : request[q].search = "NONE"

ReplicasBound == OneWorker /\ OneReference /\ crashes + lockLosses <= 1
TwiceBound ==
    /\ OneReference
    /\ OneHandler \/ lockLosses = 0
    /\ lapsed = {} /\ crashes = 0
SharedBound == OneWorker /\ OneHandler /\ crashes = 0

Within ==
    /\ NoSearch
    /\ \/ deployment = "replicas" /\ ReplicasBound
       \/ deployment = "twice" /\ TwiceBound
       \/ deployment = "shared" /\ SharedBound

liveVars == <<deployment, vars>>

Bounded(A) == UNCHANGED deployment /\ A /\ Within'

LiveInit == Init /\ deployment \in {"replicas", "twice", "shared"}

LiveNext == UNCHANGED deployment /\ Next /\ Within'

\* The fairness of PendingEnhancements, of the steps that a deployment has.
LiveFairness ==
    /\ \A c \in Caller : WF_liveVars(Bounded(CallStep(c)))
    /\ \A w \in Worker : WF_liveVars(Bounded(TaskStep(w)))
    /\ WF_liveVars(Bounded(Expire))

LiveSpec == LiveInit /\ [][LiveNext]_liveVars /\ LiveFairness
=============================================================================
