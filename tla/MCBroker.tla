----------------------------- MODULE MCBroker -----------------------------
(* Messages for Broker: a long-running export of high priority and two     *)
(* tasks of the default queue, one of them large and delayed, the other    *)
(* with a label the broker does not know.                                  *)
EXTENDS Broker, TLC

CONSTANTS m1, m2, m3, p1, s1, s2

Labels == m1 :> "HIGH" @@ m2 :> "NORMAL" @@ m3 :> "unknown"

Sizes == m1 :> "small" @@ m2 :> "large" @@ m3 :> "small"

Homes == s1 :> p1 @@ s2 :> p1

=============================================================================
