---------------------------- MODULE BrokerProofs ----------------------------
(***************************************************************************)
(* The broker keeps its types, serves priority messages first, gives every *)
(* task the body that was sent, runs a renewed task once, and implements   *)
(* TaskQueue, for any messages, processes, slots and number of faults.     *)
(*                                                                         *)
(* None of these is inductive as it stands.  Holding ties the message      *)
(* locks to the slots; Bypassing, Carrying and Renewing say how each       *)
(* property is carried from step to step.                                  *)
(***************************************************************************)
EXTENDS Broker, TLAPS

-----------------------------------------------------------------------------
(* The inductive invariant *)

\* A slot is free when it has no message; a message lock is held by the slot
\* that runs the message; a message that waits has a delivery left.
Holding ==
    /\ \A s \in Slot : stage[s] = "free" <=> task[s] = NoMessage
    /\ \A m \in Message :
          /\ holder[m] # NoSlot => bus[m] = "locked" /\ task[holder[m]] = m
          /\ call[m] = "none" => bus[m] = "absent"
          /\ bus[m] = "absent" => deliveries[m] = 0
          /\ bus[m] \in {"scheduled", "ready"} => deliveries[m] < MaxDeliveries

\* A process that passed a priority message over does not poll the default
\* queue while the message waits.
Bypassing ==
    \A m \in Message, p \in Process :
        \/ bypassed[m][p] = 0
        \/ /\ bypassed[m][p] = 1
           /\ bus[m] = "ready"
           /\ ResolvePriority(m) = "HIGH"
           /\ listener[p] # "default"

\* A message on the bus is encoded as its size asks.
Carrying ==
    /\ \A m \in Message : bus[m] # "absent" => wire[m] = Encode(m)
    /\ BodyAsSent

\* A long-running task holds its lock until its renewal has failed twice.
Renewing ==
    \A s \in Slot : task[s] \in LongRunning =>
        /\ renewal[s] # "none"
        /\ renewal[s] \in {"first", "second"} => holder[task[s]] = s
        /\ renewal[s] = "second" => faults["renew"] >= 1
        /\ renewal[s] = "off" => faults["renew"] >= 2

BrokerInv == TypeOK /\ Holding /\ Bypassing /\ Carrying /\ Renewing

-----------------------------------------------------------------------------
(* Messages *)

\* What a task is given is what was sent, whether it was compressed or not.
LEMMA RoundTrip ==
    ASSUME NEW m \in Message
    PROVE  /\ Decode(Encode(m)) = <<"plain", m>>
           /\ Encode(m) \in [body : Body, compressed : BOOLEAN]
  BY DEF Decode, Encode, Body

\* What a wire message decodes to is a body.
LEMMA DecodedBody ==
    ASSUME NEW x \in [body : Body, compressed : BOOLEAN]
    PROVE  Decode(x) \in Body
  BY DEF Decode, Body

\* The empty wire message is one of the wire messages.
LEMMA NothingSent ==
    /\ NoWire \in [body : Body, compressed : BOOLEAN]
    /\ NoWire.body \in Body
  BY DEF NoWire, Body

\* One more fault of a kind.
LEMMA OneMoreFault ==
    ASSUME faults \in [FaultKind -> Nat], NEW k \in FaultKind, Fault(k)
    PROVE  /\ faults' \in [FaultKind -> Nat]
           /\ faults'["renew"] = IF k = "renew" THEN faults["renew"] + 1
                                 ELSE faults["renew"]
  BY DEF Fault, FaultKind

-----------------------------------------------------------------------------
(* Every step keeps every part *)

\* Every step keeps the types.
LEMMA TypeStep ==
    ASSUME TypeOK, Holding, [Next]_vars
    PROVE  TypeOK'
  <1> USE BrokerAssumption DEF TypeOK, Holding
  <1>1. ASSUME Startup
        PROVE  TypeOK'
    BY <1>1 DEF Startup, sendVars, busVars, slotVars
  <1>2. ASSUME NEW m \in Message, KickRefused(m)
        PROVE  TypeOK'
    BY <1>2 DEF KickRefused, sendVars, busVars, slotVars
  <1>3. ASSUME NEW m \in Message, Kick(m)
        PROVE  TypeOK'
    BY <1>3, RoundTrip DEF Kick, Sent, sendVars, busVars, slotVars
  <1>4. ASSUME NEW m \in Message, Due(m)
        PROVE  TypeOK'
    BY <1>4 DEF Due, sendVars, busVars, slotVars
  <1>5. ASSUME NEW m \in Message, Expire(m)
        PROVE  TypeOK'
    BY <1>5 DEF Expire, Unlocked, sendVars, busVars, slotVars
  <1>6. ASSUME NEW p \in Process, StartListening(p)
        PROVE  TypeOK'
    BY <1>6 DEF StartListening, sendVars, busVars, slotVars
  <1>7. ASSUME NEW p \in Process, Resume(p)
        PROVE  TypeOK'
    BY <1>7 DEF Resume, FreeSlots, sendVars, busVars, slotVars
  <1>8. ASSUME NEW p \in Process, Polls(p)
        PROVE  TypeOK'
    BY <1>8 DEF Polls, sendVars, busVars, slotVars
  <1>9. ASSUME NEW p \in Process, NEW q \in {"HIGH", "NORMAL"},
               NEW s \in Slot, NEW m \in Message, Receive(p, q, s, m)
        PROVE  TypeOK'
    <2>1. Decode(wire[m]) \in Body
      BY DecodedBody
    <2>2. deliveries[m] + 1 \in 0..MaxDeliveries
      BY <1>9 DEF Receive, Received, Ready
    <2>3. /\ deliveries' \in [Message -> 0..MaxDeliveries]
          /\ data' \in [Slot -> Body]
      BY <1>9, <2>1, <2>2 DEF Receive, Received
    <2>4. bypassed' \in [Message -> [Process -> Nat]]
      BY <1>9 DEF Receive, Received
    <2>5. /\ bus' \in [Message -> {"absent", "scheduled", "ready", "locked",
                                  "dead", "done"}]
          /\ holder' \in [Message -> Slot \cup {NoSlot}]
      BY <1>9 DEF Receive, Received
    <2>6. /\ listener' \in [Process -> {"off", "yielded", "priority", "default"}]
          /\ receiveLock' \in [Process -> {"free", "listener", "ack"}]
      BY <1>9 DEF Receive, Received
    <2>7. /\ stage' \in [Slot -> {"free", "running", "ended", "acking"}]
          /\ task' \in [Slot -> Message \cup {NoMessage}]
          /\ renewal' \in [Slot -> {"none", "first", "second", "off"}]
      BY <1>9 DEF Receive, Received
    <2> QED
      BY <1>9, <2>3, <2>4, <2>5, <2>6, <2>7 DEF Receive, Received, sendVars
  <1>10. ASSUME NEW p \in Process, NEW q \in {"HIGH", "NORMAL"}, ReceiveNothing(p, q)
        PROVE  TypeOK'
    BY <1>10 DEF ReceiveNothing, Polling, Ready, sendVars, busVars, slotVars
  <1>11. ASSUME NEW s \in Slot, EndTask(s)
        PROVE  TypeOK'
    BY <1>11 DEF EndTask, sendVars, busVars, slotVars
  <1>12. ASSUME NEW s \in Slot, BeginAck(s)
        PROVE  TypeOK'
    BY <1>12 DEF BeginAck, sendVars, busVars, slotVars
  <1>13. ASSUME NEW s \in Slot, Complete(s)
        PROVE  TypeOK'
    <2>1. task[s] \in Message
      BY <1>13 DEF Complete
    <2>2. NoWire.body \in Body
      BY NothingSent
    <2>3. /\ bus' \in [Message -> {"absent", "scheduled", "ready", "locked",
                                  "dead", "done"}]
          /\ holder' \in [Message -> Slot \cup {NoSlot}]
      <3>1. CASE holder[task[s]] = s
        <4>1. /\ bus' = [bus EXCEPT ![task[s]] = "done"]
              /\ holder' = [holder EXCEPT ![task[s]] = NoSlot]
          BY <1>13, <3>1 DEF Complete
        <4> QED BY <4>1, <2>1
      <3>2. CASE holder[task[s]] # s
        BY <1>13, <3>2 DEF Complete
      <3> QED BY <3>1, <3>2
    <2>4. receiveLock' \in [Process -> {"free", "listener", "ack"}]
      BY <1>13 DEF Complete
    <2> QED
      BY <1>13, <2>2, <2>3, <2>4 DEF Complete, FreeSlot, sendVars
  <1>14. ASSUME NEW m \in Message, KickFails(m)
        PROVE  TypeOK'
    <2>1. Encode(m) \in [body : Body, compressed : BOOLEAN]
      BY RoundTrip
    <2>2. faults' \in [FaultKind -> Nat]
      BY <1>14, OneMoreFault DEF KickFails, FaultKind
    <2>3. /\ bus' \in [Message -> {"absent", "scheduled", "ready", "locked",
                                  "dead", "done"}]
          /\ wire' \in [Message -> [body : Body, compressed : BOOLEAN]]
      <3>1. CASE Sent(m)
        BY <2>1, <3>1 DEF Sent
      <3>2. CASE UNCHANGED <<bus, wire>>
        BY <3>2
      <3> QED
        BY <1>14, <3>1, <3>2 DEF KickFails
    <2> QED
      BY <1>14, <2>2, <2>3 DEF KickFails, slotVars
  <1>15. ASSUME NEW p \in Process, ReceiveFails(p)
        PROVE  TypeOK'
    BY <1>15, OneMoreFault DEF ReceiveFails, sendVars, busVars, slotVars, Fault
  <1>16. ASSUME NEW p \in Process, Stop(p)
        PROVE  TypeOK'
    BY <1>16, OneMoreFault, NothingSent, ZenonT(40) DEF Stop, sendVars, busVars, slotVars, Fault
  <1>17. ASSUME NEW s \in Slot, RenewalFails(s)
        PROVE  TypeOK'
    BY <1>17, OneMoreFault DEF RenewalFails, sendVars, busVars, slotVars, Fault
  <1>18. ASSUME NEW s \in Slot, LoseLock(s)
        PROVE  TypeOK'
    BY <1>18, OneMoreFault DEF LoseLock, Unlocked, sendVars, busVars, slotVars, Fault
  <1>19. CASE UNCHANGED vars
    BY <1>19 DEF vars
  <1> HIDE DEF TypeOK, Holding
  <1> QED
    BY <1>1, <1>2, <1>3, <1>4, <1>5, <1>6, <1>7, <1>8, <1>9,
       <1>10, <1>11, <1>12, <1>13, <1>14, <1>15, <1>16, <1>17, <1>18, <1>19, Zenon
    DEF Next, BusStep, Listen, RunTask, FaultStep

\* Every step keeps a locked message with its only holder.
LEMMA HoldingStep ==
    ASSUME TypeOK, Holding, [Next]_vars
    PROVE  Holding'
  <1> USE BrokerAssumption DEF TypeOK, Holding
  <1>1. ASSUME Startup
        PROVE  Holding'
    BY <1>1 DEF Startup, sendVars, busVars, slotVars
  <1>2. ASSUME NEW m \in Message, KickRefused(m)
        PROVE  Holding'
    BY <1>2 DEF KickRefused, sendVars, busVars, slotVars
  <1>3. ASSUME NEW m \in Message, Kick(m)
        PROVE  Holding'
    BY <1>3 DEF Kick, Sent, sendVars, busVars, slotVars
  <1>4. ASSUME NEW m \in Message, Due(m)
        PROVE  Holding'
    BY <1>4 DEF Due, sendVars, busVars, slotVars
  <1>5. ASSUME NEW m \in Message, Expire(m)
        PROVE  Holding'
    BY <1>5 DEF Expire, Unlocked, sendVars, busVars, slotVars
  <1>6. ASSUME NEW p \in Process, StartListening(p)
        PROVE  Holding'
    BY <1>6 DEF StartListening, sendVars, busVars, slotVars
  <1>7. ASSUME NEW p \in Process, Resume(p)
        PROVE  Holding'
    BY <1>7 DEF Resume, FreeSlots, sendVars, busVars, slotVars
  <1>8. ASSUME NEW p \in Process, Polls(p)
        PROVE  Holding'
    BY <1>8 DEF Polls, sendVars, busVars, slotVars
  <1>9. ASSUME NEW p \in Process, NEW q \in {"HIGH", "NORMAL"},
               NEW s \in Slot, NEW m \in Message, Receive(p, q, s, m)
        PROVE  Holding'
    BY <1>9 DEF Receive, Received, Polling, Ready, FreeSlots, sendVars, busVars, slotVars
  <1>10. ASSUME NEW p \in Process, NEW q \in {"HIGH", "NORMAL"}, ReceiveNothing(p, q)
        PROVE  Holding'
    BY <1>10 DEF ReceiveNothing, Polling, Ready, sendVars, busVars, slotVars
  <1>11. ASSUME NEW s \in Slot, EndTask(s)
        PROVE  Holding'
    BY <1>11 DEF EndTask, sendVars, busVars, slotVars
  <1>12. ASSUME NEW s \in Slot, BeginAck(s)
        PROVE  Holding'
    BY <1>12 DEF BeginAck, sendVars, busVars, slotVars
  <1>13. ASSUME NEW s \in Slot, Complete(s)
        PROVE  Holding'
    BY <1>13 DEF Complete, FreeSlot, sendVars, busVars, slotVars
  <1>14. ASSUME NEW m \in Message, KickFails(m)
        PROVE  Holding'
    BY <1>14 DEF KickFails, Sent, sendVars, busVars, slotVars
  <1>15. ASSUME NEW p \in Process, ReceiveFails(p)
        PROVE  Holding'
    BY <1>15 DEF ReceiveFails, sendVars, busVars, slotVars
  <1>16. ASSUME NEW p \in Process, Stop(p)
        PROVE  Holding'
    BY <1>16 DEF Stop, sendVars, busVars, slotVars
  <1>17. ASSUME NEW s \in Slot, RenewalFails(s)
        PROVE  Holding'
    BY <1>17 DEF RenewalFails, sendVars, busVars, slotVars
  <1>18. ASSUME NEW s \in Slot, LoseLock(s)
        PROVE  Holding'
    BY <1>18 DEF LoseLock, Unlocked, sendVars, busVars, slotVars
  <1>19. CASE UNCHANGED vars
    BY <1>19 DEF vars
  <1> HIDE DEF TypeOK, Holding
  <1> QED
    BY <1>1, <1>2, <1>3, <1>4, <1>5, <1>6, <1>7, <1>8, <1>9,
       <1>10, <1>11, <1>12, <1>13, <1>14, <1>15, <1>16, <1>17, <1>18, <1>19, Zenon
    DEF Next, BusStep, Listen, RunTask, FaultStep

\* Every step keeps a process that passed a priority message over from the
\* default queue.
LEMMA BypassingStep ==
    ASSUME TypeOK, Holding, Bypassing, [Next]_vars
    PROVE  Bypassing'
  <1> USE BrokerAssumption DEF TypeOK, Holding, Bypassing
  <1>1. ASSUME Startup
        PROVE  Bypassing'
    BY <1>1 DEF Startup, sendVars, busVars, slotVars
  <1>2. ASSUME NEW m \in Message, KickRefused(m)
        PROVE  Bypassing'
    BY <1>2 DEF KickRefused, sendVars, busVars, slotVars
  <1>3. ASSUME NEW m \in Message, Kick(m)
        PROVE  Bypassing'
    BY <1>3 DEF Kick, Sent, sendVars, busVars, slotVars
  <1>4. ASSUME NEW m \in Message, Due(m)
        PROVE  Bypassing'
    BY <1>4 DEF Due, sendVars, busVars, slotVars
  <1>5. ASSUME NEW m \in Message, Expire(m)
        PROVE  Bypassing'
    BY <1>5 DEF Expire, Unlocked, sendVars, busVars, slotVars
  <1>6. ASSUME NEW p \in Process, StartListening(p)
        PROVE  Bypassing'
    BY <1>6 DEF StartListening, sendVars, busVars, slotVars
  <1>7. ASSUME NEW p \in Process, Resume(p)
        PROVE  Bypassing'
    BY <1>7 DEF Resume, FreeSlots, sendVars, busVars, slotVars
  <1>8. ASSUME NEW p \in Process, Polls(p)
        PROVE  Bypassing'
    BY <1>8 DEF Polls, sendVars, busVars, slotVars
  <1>9. ASSUME NEW p \in Process, NEW q \in {"HIGH", "NORMAL"},
               NEW s \in Slot, NEW m \in Message, Receive(p, q, s, m)
        PROVE  Bypassing'
    BY <1>9 DEF Receive, Received, Polling, Ready, FreeSlots, sendVars, busVars, slotVars
  <1>10. ASSUME NEW p \in Process, NEW q \in {"HIGH", "NORMAL"}, ReceiveNothing(p, q)
        PROVE  Bypassing'
    BY <1>10 DEF ReceiveNothing, Polling, Ready, sendVars, busVars, slotVars
  <1>11. ASSUME NEW s \in Slot, EndTask(s)
        PROVE  Bypassing'
    BY <1>11 DEF EndTask, sendVars, busVars, slotVars
  <1>12. ASSUME NEW s \in Slot, BeginAck(s)
        PROVE  Bypassing'
    BY <1>12 DEF BeginAck, sendVars, busVars, slotVars
  <1>13. ASSUME NEW s \in Slot, Complete(s)
        PROVE  Bypassing'
    BY <1>13 DEF Complete, FreeSlot, sendVars, busVars, slotVars
  <1>14. ASSUME NEW m \in Message, KickFails(m)
        PROVE  Bypassing'
    BY <1>14 DEF KickFails, Sent, sendVars, busVars, slotVars
  <1>15. ASSUME NEW p \in Process, ReceiveFails(p)
        PROVE  Bypassing'
    BY <1>15 DEF ReceiveFails, sendVars, busVars, slotVars
  <1>16. ASSUME NEW p \in Process, Stop(p)
        PROVE  Bypassing'
    BY <1>16 DEF Stop, sendVars, busVars, slotVars
  <1>17. ASSUME NEW s \in Slot, RenewalFails(s)
        PROVE  Bypassing'
    BY <1>17 DEF RenewalFails, sendVars, busVars, slotVars
  <1>18. ASSUME NEW s \in Slot, LoseLock(s)
        PROVE  Bypassing'
    BY <1>18 DEF LoseLock, Unlocked, sendVars, busVars, slotVars
  <1>19. CASE UNCHANGED vars
    BY <1>19 DEF vars
  <1> HIDE DEF TypeOK, Holding, Bypassing
  <1> QED
    BY <1>1, <1>2, <1>3, <1>4, <1>5, <1>6, <1>7, <1>8, <1>9,
       <1>10, <1>11, <1>12, <1>13, <1>14, <1>15, <1>16, <1>17, <1>18, <1>19, Zenon
    DEF Next, BusStep, Listen, RunTask, FaultStep

\* Every step keeps bodies as they were sent.
LEMMA CarryingStep ==
    ASSUME TypeOK, Holding, Carrying, [Next]_vars
    PROVE  Carrying'
  <1> USE BrokerAssumption DEF TypeOK, Holding, Carrying, BodyAsSent
  <1>1. ASSUME Startup
        PROVE  Carrying'
    BY <1>1 DEF Startup, sendVars, busVars, slotVars
  <1>2. ASSUME NEW m \in Message, KickRefused(m)
        PROVE  Carrying'
    BY <1>2 DEF KickRefused, sendVars, busVars, slotVars
  <1>3. ASSUME NEW m \in Message, Kick(m)
        PROVE  Carrying'
    BY <1>3 DEF Kick, Sent, sendVars, busVars, slotVars
  <1>4. ASSUME NEW m \in Message, Due(m)
        PROVE  Carrying'
    BY <1>4 DEF Due, sendVars, busVars, slotVars
  <1>5. ASSUME NEW m \in Message, Expire(m)
        PROVE  Carrying'
    BY <1>5 DEF Expire, Unlocked, sendVars, busVars, slotVars
  <1>6. ASSUME NEW p \in Process, StartListening(p)
        PROVE  Carrying'
    BY <1>6 DEF StartListening, sendVars, busVars, slotVars
  <1>7. ASSUME NEW p \in Process, Resume(p)
        PROVE  Carrying'
    BY <1>7 DEF Resume, FreeSlots, sendVars, busVars, slotVars
  <1>8. ASSUME NEW p \in Process, Polls(p)
        PROVE  Carrying'
    BY <1>8 DEF Polls, sendVars, busVars, slotVars
  <1>9. ASSUME NEW p \in Process, NEW q \in {"HIGH", "NORMAL"},
               NEW s \in Slot, NEW m \in Message, Receive(p, q, s, m)
        PROVE  Carrying'
    BY <1>9, RoundTrip DEF Receive, Received, Polling, Ready, FreeSlots, sendVars, busVars, slotVars
  <1>10. ASSUME NEW p \in Process, NEW q \in {"HIGH", "NORMAL"}, ReceiveNothing(p, q)
        PROVE  Carrying'
    BY <1>10 DEF ReceiveNothing, Polling, Ready, sendVars, busVars, slotVars
  <1>11. ASSUME NEW s \in Slot, EndTask(s)
        PROVE  Carrying'
    BY <1>11 DEF EndTask, sendVars, busVars, slotVars
  <1>12. ASSUME NEW s \in Slot, BeginAck(s)
        PROVE  Carrying'
    BY <1>12 DEF BeginAck, sendVars, busVars, slotVars
  <1>13. ASSUME NEW s \in Slot, Complete(s)
        PROVE  Carrying'
    BY <1>13 DEF Complete, FreeSlot, sendVars, busVars, slotVars
  <1>14. ASSUME NEW m \in Message, KickFails(m)
        PROVE  Carrying'
    <2>1. CASE Sent(m)
      BY <1>14, <2>1 DEF KickFails, Sent, slotVars
    <2>2. CASE UNCHANGED <<bus, wire>>
      BY <1>14, <2>2 DEF KickFails, slotVars
    <2> QED
      BY <1>14, <2>1, <2>2 DEF KickFails
  <1>15. ASSUME NEW p \in Process, ReceiveFails(p)
        PROVE  Carrying'
    BY <1>15 DEF ReceiveFails, sendVars, busVars, slotVars
  <1>16. ASSUME NEW p \in Process, Stop(p)
        PROVE  Carrying'
    BY <1>16 DEF Stop, sendVars, busVars, slotVars
  <1>17. ASSUME NEW s \in Slot, RenewalFails(s)
        PROVE  Carrying'
    BY <1>17 DEF RenewalFails, sendVars, busVars, slotVars
  <1>18. ASSUME NEW s \in Slot, LoseLock(s)
        PROVE  Carrying'
    <2>1. task[s] \in Message /\ bus[task[s]] = "locked"
      BY <1>18 DEF LoseLock
    <2> QED
      BY <1>18, <2>1 DEF LoseLock, Unlocked, slotVars
  <1>19. CASE UNCHANGED vars
    BY <1>19 DEF vars
  <1> HIDE DEF TypeOK, Holding, Carrying, BodyAsSent
  <1> QED
    BY <1>1, <1>2, <1>3, <1>4, <1>5, <1>6, <1>7, <1>8, <1>9,
       <1>10, <1>11, <1>12, <1>13, <1>14, <1>15, <1>16, <1>17, <1>18, <1>19, Zenon
    DEF Next, BusStep, Listen, RunTask, FaultStep

\* Every step keeps the count of failed renewals of a lost lock.
LEMMA RenewingStep ==
    ASSUME TypeOK, Holding, Renewing, [Next]_vars
    PROVE  Renewing'
  <1> USE BrokerAssumption DEF TypeOK, Holding, Renewing
  <1>1. ASSUME Startup
        PROVE  Renewing'
    BY <1>1 DEF Startup, sendVars, busVars, slotVars
  <1>2. ASSUME NEW m \in Message, KickRefused(m)
        PROVE  Renewing'
    BY <1>2 DEF KickRefused, sendVars, busVars, slotVars
  <1>3. ASSUME NEW m \in Message, Kick(m)
        PROVE  Renewing'
    BY <1>3 DEF Kick, Sent, sendVars, busVars, slotVars
  <1>4. ASSUME NEW m \in Message, Due(m)
        PROVE  Renewing'
    BY <1>4 DEF Due, sendVars, busVars, slotVars
  <1>5. ASSUME NEW m \in Message, Expire(m)
        PROVE  Renewing'
    BY <1>5 DEF Expire, Unlocked, sendVars, busVars, slotVars
  <1>6. ASSUME NEW p \in Process, StartListening(p)
        PROVE  Renewing'
    BY <1>6 DEF StartListening, sendVars, busVars, slotVars
  <1>7. ASSUME NEW p \in Process, Resume(p)
        PROVE  Renewing'
    BY <1>7 DEF Resume, FreeSlots, sendVars, busVars, slotVars
  <1>8. ASSUME NEW p \in Process, Polls(p)
        PROVE  Renewing'
    BY <1>8 DEF Polls, sendVars, busVars, slotVars
  <1>9. ASSUME NEW p \in Process, NEW q \in {"HIGH", "NORMAL"},
               NEW s \in Slot, NEW m \in Message, Receive(p, q, s, m)
        PROVE  Renewing'
    <2>1. holder[m] = NoSlot
      BY <1>9 DEF Receive, Received, Ready
    <2>2. ASSUME NEW t \in Slot, t # s, task[t] = m, m \in LongRunning
          PROVE  renewal[t] = "off"
      BY <2>1, <2>2
    <2>3. /\ task' = [task EXCEPT ![s] = m]
          /\ holder' = [holder EXCEPT ![m] = s]
          /\ renewal' = [renewal EXCEPT
                            ![s] = IF m \in LongRunning THEN "first" ELSE "none"]
          /\ faults' = faults
      BY <1>9 DEF Receive, Received
    <2> QED
      BY <2>2, <2>3
  <1>10. ASSUME NEW p \in Process, NEW q \in {"HIGH", "NORMAL"}, ReceiveNothing(p, q)
        PROVE  Renewing'
    BY <1>10 DEF ReceiveNothing, Polling, Ready, sendVars, busVars, slotVars
  <1>11. ASSUME NEW s \in Slot, EndTask(s)
        PROVE  Renewing'
    BY <1>11 DEF EndTask, sendVars, busVars, slotVars
  <1>12. ASSUME NEW s \in Slot, BeginAck(s)
        PROVE  Renewing'
    BY <1>12 DEF BeginAck, sendVars, busVars, slotVars
  <1>13. ASSUME NEW s \in Slot, Complete(s)
        PROVE  Renewing'
    BY <1>13 DEF Complete, FreeSlot, sendVars, busVars, slotVars
  <1>14. ASSUME NEW m \in Message, KickFails(m)
        PROVE  Renewing'
    BY <1>14, OneMoreFault DEF KickFails, Sent, sendVars, busVars, slotVars, Fault
  <1>15. ASSUME NEW p \in Process, ReceiveFails(p)
        PROVE  Renewing'
    BY <1>15, OneMoreFault DEF ReceiveFails, sendVars, busVars, slotVars, Fault
  <1>16. ASSUME NEW p \in Process, Stop(p)
        PROVE  Renewing'
    BY <1>16, OneMoreFault DEF Stop, sendVars, busVars, slotVars, Fault
  <1>17. ASSUME NEW s \in Slot, RenewalFails(s)
        PROVE  Renewing'
    <2>1. /\ faults' \in [FaultKind -> Nat]
          /\ faults'["renew"] = faults["renew"] + 1
      BY <1>17, OneMoreFault DEF RenewalFails, FaultKind
    <2>2. /\ task' = task /\ holder' = holder
          /\ renewal[s] \in {"first", "second"}
          /\ renewal' = [renewal EXCEPT
                            ![s] = IF @ = "first" THEN "second" ELSE "off"]
      BY <1>17 DEF RenewalFails, busVars
    <2>3. faults["renew"] \in Nat
      BY DEF FaultKind
    <2> QED
      BY <2>1, <2>2, <2>3
  <1>18. ASSUME NEW s \in Slot, LoseLock(s)
        PROVE  Renewing'
    BY <1>18, OneMoreFault DEF LoseLock, Unlocked, sendVars, busVars, slotVars, Fault
  <1>19. CASE UNCHANGED vars
    BY <1>19 DEF vars
  <1> HIDE DEF TypeOK, Holding, Renewing
  <1> QED
    BY <1>1, <1>2, <1>3, <1>4, <1>5, <1>6, <1>7, <1>8, <1>9,
       <1>10, <1>11, <1>12, <1>13, <1>14, <1>15, <1>16, <1>17, <1>18, <1>19, Zenon
    DEF Next, BusStep, Listen, RunTask, FaultStep

-----------------------------------------------------------------------------
(* The invariant, and what follows from it *)

\* The invariant holds at first.
LEMMA BrokerInit == Init => BrokerInv
  <1> SUFFICES ASSUME Init PROVE BrokerInv
    OBVIOUS
  <1>1. TypeOK
    <2>1. /\ wire \in [Message -> [body : Body, compressed : BOOLEAN]]
          /\ data \in [Slot -> Body]
      BY NothingSent DEF Init
    <2>2. /\ deliveries \in [Message -> 0..MaxDeliveries]
          /\ bypassed \in [Message -> [Process -> Nat]]
          /\ faults \in [FaultKind -> Nat]
      BY BrokerAssumption DEF Init
    <2> QED
      BY <2>1, <2>2 DEF Init, TypeOK
  <1>2. Holding /\ Bypassing
    BY BrokerAssumption DEF Init, Holding, Bypassing
  <1>3. Carrying
    BY DEF Init, Carrying, BodyAsSent
  <1>4. Renewing
    BY BrokerAssumption DEF Init, Renewing
  <1> QED BY <1>1, <1>2, <1>3, <1>4, Zenon DEF BrokerInv

\* The locks of messages, the order of the queues, the bodies and the renewals
\* are kept by every step of the bus, the senders and the worker processes.
THEOREM BrokerInvariance == Spec => []BrokerInv
  <1>1. BrokerInv /\ [Next]_vars => BrokerInv'
    BY TypeStep, HoldingStep, BypassingStep, CarryingStep, RenewingStep, Zenon
    DEF BrokerInv
  <1> QED BY <1>1, BrokerInit, PTL DEF Spec

\* Every variable keeps its type, and no message is delivered more than
\* MaxDeliveries times.
THEOREM BrokerTypes == Spec => []TypeOK
  <1>1. BrokerInv => TypeOK
    BY Zenon DEF BrokerInv
  <1> QED BY <1>1, BrokerInvariance, PTL

\* listen() takes at most one default message before a priority message that
\* waits, whatever the number of processes and messages.
THEOREM PriorityIsFirst == Spec => []PriorityFirst
  <1>1. BrokerInv => PriorityFirst
    BY DEF BrokerInv, Bypassing, PriorityFirst
  <1> QED BY <1>1, BrokerInvariance, PTL

\* A task is given the body that was kicked, compressed on the way or not.
THEOREM BodiesAreKept == Spec => []BodyAsSent
  <1>1. BrokerInv => BodyAsSent
    BY Zenon DEF BrokerInv, Carrying
  <1> QED BY <1>1, BrokerInvariance, PTL

\* While lock renewal has not failed twice, no two workers run one
\* long-running task.
THEOREM RenewedRunOnce == Spec => []RenewedRunsOnce
  <1>1. ASSUME BrokerInv
        PROVE  RenewedRunsOnce
    <2> SUFFICES ASSUME NEW s \in Slot, NEW t \in Slot, s # t,
                        task[s] = task[t], task[s] \in LongRunning,
                        ~(faults["renew"] >= 2)
                 PROVE  FALSE
      BY DEF RenewedRunsOnce
    <2>1. renewal[s] \in {"first", "second"} /\ renewal[t] \in {"first", "second"}
      BY <1>1 DEF BrokerInv, TypeOK, Renewing
    <2> QED
      BY <1>1, <2>1 DEF BrokerInv, Renewing
  <1> QED BY <1>1, BrokerInvariance, PTL

-----------------------------------------------------------------------------
(* The broker implements TaskQueue *)

\* The bus, the locks and the slots seen as a queue.
LEMMA SameQueue ==
    ASSUME UNCHANGED <<bus, holder, task>>
    PROVE  UNCHANGED Queue!vars
  BY DEF Queue!vars, Waiting, Locked, Dead

\* Sending, and a scheduled message that becomes ready.
LEMMA SendsRefine ==
    ASSUME TypeOK, Holding, NEW m \in Message, Kick(m) \/ KickFails(m) \/ Due(m)
    PROVE  Queue!Send
  <1>1. /\ bus[m] \in {"absent", "scheduled"}
        /\ holder' = holder /\ task' = task
    BY DEF Kick, KickFails, Due, Holding, slotVars, busVars
  <1>2. \/ bus' = [bus EXCEPT ![m] = "ready"]
        \/ bus' = [bus EXCEPT ![m] = "scheduled"]
        \/ bus' = bus
    BY DEF Kick, KickFails, Due, Sent
  <1>3. Waiting \subseteq Waiting' /\ Dead' = Dead
    BY <1>1, <1>2 DEF Waiting, Dead, TypeOK
  <1>4. Locked' = Locked
    BY <1>1 DEF Locked
  <1> QED BY <1>1, <1>3, <1>4 DEF Queue!Send

\* A slot that receives a message takes it.
LEMMA ReceiveRefines ==
    ASSUME TypeOK, Holding, NEW p \in Process, NEW q \in {"HIGH", "NORMAL"},
           NEW s \in Slot, NEW m \in Message, Receive(p, q, s, m)
    PROVE  Queue!Take(s, m)
  <1>1. /\ bus[m] = "ready" /\ holder[m] = NoSlot
        /\ stage[s] = "free" /\ task[s] = NoMessage
    BY DEF Receive, Received, Ready, FreeSlots, Holding
  <1>2. /\ bus' = [bus EXCEPT ![m] = "locked"]
        /\ holder' = [holder EXCEPT ![m] = s]
        /\ task' = [task EXCEPT ![s] = m]
    BY DEF Receive, Received
  <1>3. m \in Waiting /\ Waiting' = Waiting \ {m} /\ Dead' = Dead
    BY <1>1, <1>2, BrokerAssumption DEF Waiting, Dead, TypeOK
  <1>4. Locked' = [Locked EXCEPT ![s] = TRUE]
    <2>1. task'[s] # NoMessage /\ holder'[task'[s]] = s
      BY <1>1, <1>2, BrokerAssumption DEF TypeOK
    <2>2. ASSUME NEW t \in Slot, t # s
          PROVE  (task'[t] # NoMessage /\ holder'[task'[t]] = t)
                    <=> (task[t] # NoMessage /\ holder[task[t]] = t)
      BY <1>1, <1>2, <2>2, BrokerAssumption DEF TypeOK
    <2> QED BY <2>1, <2>2, Zenon DEF Locked
  <1> QED BY <1>1, <1>2, <1>3, <1>4 DEF Queue!Take

\* A task that is acknowledged is finished, with its lock or without.
LEMMA CompleteRefines ==
    ASSUME TypeOK, Holding, NEW s \in Slot, Complete(s)
    PROVE  Queue!Finish(s)
  <1>1. task[s] \in Message
    BY DEF Complete, TypeOK, Holding
  <1>2. task' = [task EXCEPT ![s] = NoMessage]
    BY DEF Complete, FreeSlot
  <1>3. /\ Waiting \subseteq Waiting'
        /\ Dead' = Dead
        /\ Locked' = [w \in Slot |-> IF w \in {s} THEN FALSE ELSE Locked[w]]
    <2>1. CASE holder[task[s]] = s
      <3>1. /\ bus' = [bus EXCEPT ![task[s]] = "done"]
            /\ holder' = [holder EXCEPT ![task[s]] = NoSlot]
        BY <2>1 DEF Complete
      <3>2. bus[task[s]] = "locked"
        BY <1>1, <2>1, BrokerAssumption DEF Holding
      <3>3. Waiting \subseteq Waiting' /\ Dead' = Dead
        BY <1>1, <2>1, <3>1, <3>2, BrokerAssumption DEF Waiting, Dead, TypeOK
      <3>4. Locked' = [w \in Slot |-> IF w \in {s} THEN FALSE ELSE Locked[w]]
        BY <1>1, <1>2, <2>1, <3>1, BrokerAssumption DEF Locked, TypeOK
      <3> QED BY <3>3, <3>4
    <2>2. CASE holder[task[s]] # s
      <3>1. bus' = bus /\ holder' = holder
        BY <2>2 DEF Complete
      <3>2. Waiting \subseteq Waiting' /\ Dead' = Dead
        BY <3>1 DEF Waiting, Dead
      <3>3. Locked' = [w \in Slot |-> IF w \in {s} THEN FALSE ELSE Locked[w]]
        BY <1>2, <2>2, <3>1 DEF Locked, TypeOK
      <3> QED BY <3>2, <3>3
    <2> QED BY <2>1, <2>2
  <1>4. task' = [w \in Slot |-> IF w \in {s} THEN NoMessage ELSE task[w]]
    BY <1>2 DEF TypeOK
  <1>5. task[s] # NoMessage
    BY <1>1, BrokerAssumption
  <1> QED BY <1>3, <1>4, <1>5 DEF Queue!Finish, Queue!Free

\* The bus takes back a lock: the message waits again or is set aside.
LEMMA UnlockRefines ==
    ASSUME TypeOK, Holding, NEW s \in Slot, LoseLock(s)
    PROVE  Queue!LoseLock(s)
  <1>1. /\ task[s] \in Message /\ holder[task[s]] = s /\ bus[task[s]] = "locked"
        /\ task' = task
    BY BrokerAssumption DEF LoseLock, TypeOK, Holding, slotVars
  <1>2. /\ holder' = [holder EXCEPT ![task[s]] = NoSlot]
        /\ \/ bus' = [bus EXCEPT ![task[s]] = "dead"]
           \/ bus' = [bus EXCEPT ![task[s]] = "ready"]
    BY DEF LoseLock, Unlocked
  <1>3. Locked[s] /\ Locked' = [Locked EXCEPT ![s] = FALSE]
    <2>1. /\ task[s] # NoMessage /\ holder[task[s]] = s
          /\ ~(task'[s] # NoMessage /\ holder'[task'[s]] = s)
      BY <1>1, <1>2, BrokerAssumption DEF TypeOK
    <2>2. ASSUME NEW t \in Slot, t # s
          PROVE  (task'[t] # NoMessage /\ holder'[task'[t]] = t)
                    <=> (task[t] # NoMessage /\ holder[task[t]] = t)
      BY <1>1, <1>2, <2>2, BrokerAssumption DEF TypeOK
    <2> QED BY <2>1, <2>2, Zenon DEF Locked
  <1>4. \/ Waiting' = Waiting \cup {task[s]} /\ Dead' = Dead
        \/ Dead' = Dead \cup {task[s]} /\ Waiting' = Waiting
    BY <1>1, <1>2, BrokerAssumption DEF Waiting, Dead, TypeOK
  <1> QED BY <1>1, <1>3, <1>4 DEF Queue!LoseLock

\* A lock whose process is gone expires: the message waited already.
LEMMA ExpireRefines ==
    ASSUME TypeOK, Holding, NEW m \in Message, Expire(m)
    PROVE  Queue!SetAside(m) \/ UNCHANGED Queue!vars
  <1>1. /\ bus[m] = "locked" /\ holder[m] = NoSlot
        /\ task' = task
        /\ holder' = [holder EXCEPT ![m] = NoSlot]
    BY DEF Expire, Unlocked, slotVars
  <1>2. holder' = holder /\ Locked' = Locked
    BY <1>1 DEF TypeOK, Locked
  <1>3. CASE bus' = [bus EXCEPT ![m] = "dead"]
    <2>1. m \in Waiting /\ Waiting' = Waiting \ {m} /\ Dead' = Dead \cup {m}
      BY <1>1, <1>2, <1>3 DEF Waiting, Dead, TypeOK
    <2> QED BY <1>1, <1>2, <2>1 DEF Queue!SetAside
  <1>4. CASE bus' = [bus EXCEPT ![m] = "ready"]
    <2>1. Waiting' = Waiting /\ Dead' = Dead
      BY <1>1, <1>2, <1>4 DEF Waiting, Dead, TypeOK
    <2> QED BY <1>1, <1>2, <2>1 DEF Queue!vars
  <1> QED BY <1>3, <1>4 DEF Expire, Unlocked

\* A process that stops gives its locks back.
LEMMA StopRefines ==
    ASSUME TypeOK, Holding, NEW p \in Process, Stop(p)
    PROVE  \E W \in SUBSET Slot : Queue!Stop(W)
  <1> DEFINE W == {s \in Slot : Home[s] = p}
  <1>1. /\ bus' = bus
        /\ holder' = [m \in Message |->
                         IF holder[m] # NoSlot /\ Home[holder[m]] = p
                         THEN NoSlot ELSE holder[m]]
        /\ task' = [s \in Slot |-> IF s \in W THEN NoMessage ELSE task[s]]
    BY DEF Stop, TypeOK
  <1>2. Dead' = Dead
    BY <1>1 DEF Dead
  <1>3. Locked' = [w \in Slot |-> IF w \in W THEN FALSE ELSE Locked[w]]
    BY <1>1, BrokerAssumption DEF Locked, TypeOK
  <1>4. Waiting' = Waiting \cup Queue!Held(W)
    <2>1. ASSUME NEW m \in Waiting' PROVE m \in Waiting \cup Queue!Held(W)
      <3>1. CASE holder[m] = holder'[m]
        BY <1>1, <2>1, <3>1 DEF Waiting
      <3>2. CASE holder[m] # holder'[m]
        <4>1. /\ m \in Message /\ holder[m] \in W
              /\ task[holder[m]] = m /\ m # NoMessage
          BY <1>1, <2>1, <3>2, BrokerAssumption DEF Waiting, TypeOK, Holding
        <4>2. holder[m] \in {v \in W : Locked[v]}
          BY <4>1 DEF Locked
        <4> QED BY <4>1, <4>2 DEF Queue!Held
      <3> QED BY <3>1, <3>2
    <2>2. ASSUME NEW m \in Waiting PROVE m \in Waiting'
      BY <1>1, <2>2 DEF Waiting
    <2>3. ASSUME NEW s \in W, Locked[s] PROVE task[s] \in Waiting'
      <3>1. task[s] # NoMessage /\ holder[task[s]] = s
        BY <2>3, Zenon DEF Locked
      <3>2. task[s] \in Message /\ bus[task[s]] = "locked"
        BY <2>3, <3>1, BrokerAssumption DEF TypeOK, Holding
      <3> QED BY <1>1, <2>3, <3>1, <3>2, BrokerAssumption DEF Waiting
    <2> QED BY <2>1, <2>2, <2>3 DEF Queue!Held
  <1>5. Queue!Stop(W)
    BY <1>1, <1>2, <1>3, <1>4 DEF Queue!Stop, Queue!Free
  <1> QED BY <1>5

\* Every step of the broker is a step of the queue, or leaves it as it is.
LEMMA StepRefines ==
    ASSUME TypeOK, Holding, [Next]_vars
    PROVE  [Queue!Next]_(Queue!vars)
  <1>1. ASSUME UNCHANGED <<bus, holder, task>>
        PROVE  [Queue!Next]_(Queue!vars)
    BY <1>1, SameQueue
  <1>2. ASSUME \/ Startup
               \/ \E m \in Message : KickRefused(m)
               \/ \E p \in Process : \/ StartListening(p) \/ Resume(p) \/ Polls(p)
                                     \/ ReceiveFails(p)
               \/ \E p \in Process, q \in {"HIGH", "NORMAL"} : ReceiveNothing(p, q)
               \/ \E s \in Slot : EndTask(s) \/ BeginAck(s) \/ RenewalFails(s)
               \/ UNCHANGED vars
        PROVE  UNCHANGED <<bus, holder, task>>
    BY <1>2 DEF Startup, KickRefused, StartListening, Resume, Polls, ReceiveFails,
                ReceiveNothing, EndTask, BeginAck, RenewalFails, vars, busVars,
                slotVars
  <1>3. ASSUME NEW m \in Message, Kick(m) \/ KickFails(m) \/ Due(m)
        PROVE  Queue!Next
    BY <1>3, SendsRefine DEF Queue!Next
  <1>4. ASSUME NEW p \in Process, NEW q \in {"HIGH", "NORMAL"}, NEW s \in Slot,
               NEW m \in Message, Receive(p, q, s, m)
        PROVE  Queue!Next
    <2>1. Queue!Take(s, m)
      BY <1>4, ReceiveRefines
    <2>2. m \in Waiting
      BY <2>1 DEF Queue!Take
    <2> QED BY <2>1, <2>2 DEF Queue!Next
  <1>5. ASSUME NEW s \in Slot, Complete(s) \/ LoseLock(s)
        PROVE  Queue!Next
    BY <1>5, CompleteRefines, UnlockRefines DEF Queue!Next
  <1>6. ASSUME NEW m \in Message, Expire(m)
        PROVE  [Queue!Next]_(Queue!vars)
    <2>1. CASE Queue!SetAside(m)
      <3>1. m \in Waiting
        BY <2>1 DEF Queue!SetAside
      <3> QED BY <2>1, <3>1 DEF Queue!Next
    <2> QED BY <1>6, <2>1, ExpireRefines
  <1>7. ASSUME NEW p \in Process, Stop(p)
        PROVE  Queue!Next
    BY <1>7, StopRefines DEF Queue!Next
  <1> QED
    BY <1>1, <1>2, <1>3, <1>4, <1>5, <1>6, <1>7, Zenon
    DEF Next, BusStep, Listen, RunTask, FaultStep

\* The broker is a queue that delivers at least once: a message leaves the bus
\* only when a slot that held its lock has run it to its end, or after too many
\* deliveries, whatever calls fail, locks expire and processes stop.
THEOREM BrokerDelivers == Spec => DeliversAtLeastOnce
  <1>1. ASSUME Init PROVE Queue!Init
    <2>1. Waiting = {} /\ Dead = {}
      BY <1>1 DEF Init, Waiting, Dead
    <2>2. \A s \in Slot : task[s] = NoMessage
      BY <1>1 DEF Init
    <2>3. Locked = [s \in Slot |-> FALSE]
      BY <2>2, Zenon DEF Locked
    <2> QED BY <1>1, <2>1, <2>3 DEF Init, Queue!Init
  <1>2. BrokerInv /\ [Next]_vars => [Queue!Next]_(Queue!vars)
    BY StepRefines, Zenon DEF BrokerInv
  <1> QED
    BY <1>1, <1>2, BrokerInvariance, PTL DEF Spec, DeliversAtLeastOnce, Queue!Spec

=============================================================================
