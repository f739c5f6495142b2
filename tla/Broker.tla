------------------------------- MODULE Broker -------------------------------
(***************************************************************************)
(* The Azure Service Bus broker (app/core/azure_service_bus_broker.py): a  *)
(* process that sends tasks, and worker processes that each poll a         *)
(* priority queue and a default queue, run tasks side by side and complete *)
(* them.  Within one process the listener and the acknowledgements of all  *)
(* running tasks share one asyncio lock, _receive_lock.                    *)
(*                                                                         *)
(* The bus itself (message locks, scheduled messages, dead letters) and    *)
(* taskiq's receiver are external: they are modelled from how the broker   *)
(* uses them.  A process takes a message from listen() only when it has a  *)
(* free slot for it, and acknowledges it when the task has ended, whatever *)
(* came of it.                                                             *)
(***************************************************************************)
EXTENDS Naturals, FiniteSets

CONSTANTS
    Message,        \* messages, each kicked at most once
    Label,          \* [Message -> the value of its priority label]
    Size,           \* [Message -> "small", "large" (compressed) or "huge"]
    Delayed,        \* messages with a delay label
    LongRunning,    \* messages with a renew_lock label that is true
    Process,        \* worker processes
    Slot,           \* places for a running task
    Home,           \* [Slot -> Process]
    NoMessage,      \* no message
    NoSlot,         \* no slot
    MaxDeliveries,  \* deliveries after which the bus sets a message aside
    MaxFaults       \* bound on failed calls, lost locks and stops

ASSUME BrokerAssumption ==
    /\ Label \in [Message -> {"absent", "NORMAL", "HIGH", "unknown"}]
    /\ Size \in [Message -> {"small", "large", "huge"}]
    /\ Delayed \subseteq Message
    /\ LongRunning \subseteq Message
    /\ Home \in [Slot -> Process]
    /\ NoMessage \notin Message
    /\ NoSlot \notin Slot
    /\ MaxDeliveries \in Nat \ {0}
    /\ MaxFaults \in Nat

VARIABLES
    started,    \* whether the sending process has run startup()
    call,       \* what became of the kick of each message
    bus,        \* where each message is on the bus
    wire,       \* how its body was sent
    holder,     \* the slot that holds its lock
    deliveries, \* how often it was delivered
    listener,   \* where listen() of each process is
    receiveLock,\* who holds the _receive_lock of each process
    stage,      \* where each slot is
    task,       \* the message in each slot
    data,       \* the body its task was given
    renewal,    \* the state of its lock renewal
    bypassed,   \* default messages received while a priority message waited
    faults      \* how many faults of each kind have happened

sendVars == <<started, call>>
busVars == <<bus, wire, holder, deliveries>>
slotVars == <<stage, task, data, renewal>>
vars == <<started, call, bus, wire, holder, deliveries, listener,
          receiveLock, stage, task, data, renewal, bypassed, faults>>

-----------------------------------------------------------------------------
(* Messages *)

\* _resolve_priority: no label, or one that is not a TaskPriority, is NORMAL.
ResolvePriority(m) == IF Label[m] = "HIGH" THEN "HIGH" ELSE "NORMAL"

\* The messages ready on the queue a receiver reads.
Ready(q) == {m \in Message : bus[m] = "ready" /\ ResolvePriority(m) = q}

Body == {"none", "plain", "gzip"} \X (Message \cup {NoMessage})

\* A body over the threshold is sent compressed, and says so.
Encode(m) ==
    [body |-> <<IF Size[m] = "small" THEN "plain" ELSE "gzip", m>>,
     compressed |-> Size[m] # "small"]

\* The body a received message gives its task (gunzip of a gzip body).
Decode(x) == IF x.compressed THEN <<"plain", x.body[2]>> ELSE x.body

NoWire == [body |-> <<"none", NoMessage>>, compressed |-> FALSE]

FaultKind == {"send", "receive", "renew", "lock", "stop"}

Fault(kind) ==
    /\ faults["send"] + faults["receive"] + faults["renew"] + faults["lock"]
          + faults["stop"] < MaxFaults
    /\ faults' = [faults EXCEPT ![kind] = @ + 1]

-----------------------------------------------------------------------------
Init ==
    /\ started = FALSE
    /\ call = [m \in Message |-> "none"]
    /\ bus = [m \in Message |-> "absent"]
    /\ wire = [m \in Message |-> NoWire]
    /\ holder = [m \in Message |-> NoSlot]
    /\ deliveries = [m \in Message |-> 0]
    /\ listener = [p \in Process |-> "off"]
    /\ receiveLock = [p \in Process |-> "free"]
    /\ stage = [s \in Slot |-> "free"]
    /\ task = [s \in Slot |-> NoMessage]
    /\ data = [s \in Slot |-> NoWire.body]
    /\ renewal = [s \in Slot |-> "none"]
    /\ bypassed = [m \in Message |-> [p \in Process |-> 0]]
    /\ faults = [k \in FaultKind |-> 0]

-----------------------------------------------------------------------------
(* startup and kick *)

Startup ==
    /\ ~started
    /\ started' = TRUE
    /\ UNCHANGED <<call, busVars, listener, receiveLock, slotVars, bypassed,
                   faults>>

\* MessageBrokerError before startup, MessageTooLargeError from the bus.
KickRefused(m) ==
    /\ call[m] = "none"
    /\ ~started \/ Size[m] = "huge"
    /\ call' = [call EXCEPT ![m] = "refused"]
    /\ UNCHANGED <<started, busVars, listener, receiveLock, slotVars,
                   bypassed, faults>>

\* send_messages, or schedule_messages for a message with a delay.
Sent(m) ==
    /\ bus' = [bus EXCEPT ![m] = IF m \in Delayed THEN "scheduled"
                                 ELSE "ready"]
    /\ wire' = [wire EXCEPT ![m] = Encode(m)]

Kick(m) ==
    /\ call[m] = "none"
    /\ started
    /\ Size[m] # "huge"
    /\ Sent(m)
    /\ call' = [call EXCEPT ![m] = "sent"]
    /\ UNCHANGED <<started, holder, deliveries, listener, receiveLock,
                   slotVars, bypassed, faults>>

\* The send raises; whether the bus got the message is not known.
KickFails(m) ==
    /\ call[m] = "none"
    /\ started
    /\ Size[m] # "huge"
    /\ Fault("send")
    /\ Sent(m) \/ UNCHANGED <<bus, wire>>
    /\ call' = [call EXCEPT ![m] = "raised"]
    /\ UNCHANGED <<started, holder, deliveries, listener, receiveLock,
                   slotVars, bypassed>>

\* A scheduled message becomes ready.
Due(m) ==
    /\ bus[m] = "scheduled"
    /\ bus' = [bus EXCEPT ![m] = "ready"]
    /\ UNCHANGED <<sendVars, wire, holder, deliveries, listener, receiveLock,
                   slotVars, bypassed, faults>>

-----------------------------------------------------------------------------
(* listen *)

FreeSlots(p) == {s \in Slot : Home[s] = p /\ stage[s] = "free"}

\* startup() of a worker process opens the receivers; listen() begins.
StartListening(p) ==
    /\ listener[p] = "off"
    /\ listener' = [listener EXCEPT ![p] = "yielded"]
    /\ UNCHANGED <<sendVars, busVars, receiveLock, slotVars, bypassed, faults>>

\* The generator is resumed when the process can run another task.  After a
\* message of either queue the loop begins again with the priority queue.
Resume(p) ==
    /\ listener[p] = "yielded"
    /\ FreeSlots(p) # {}
    /\ listener' = [listener EXCEPT ![p] = "priority"]
    /\ UNCHANGED <<sendVars, busVars, receiveLock, slotVars, bypassed, faults>>

\* async with self._receive_lock: receive_messages(...)
Polls(p) ==
    /\ listener[p] \in {"priority", "default"}
    /\ receiveLock[p] = "free"
    /\ receiveLock' = [receiveLock EXCEPT ![p] = "listener"]
    /\ UNCHANGED <<sendVars, busVars, listener, slotVars, bypassed, faults>>

Polling(p, q) ==
    /\ receiveLock[p] = "listener"
    /\ listener[p] = IF q = "HIGH" THEN "priority" ELSE "default"

\* A message of queue q is locked for slot s; what _build_ackable does to it.
Received(p, q, s, m) ==
    /\ m \in Ready(q)
    /\ s \in FreeSlots(p)
    /\ bus' = [bus EXCEPT ![m] = "locked"]
    /\ holder' = [holder EXCEPT ![m] = s]
    /\ deliveries' = [deliveries EXCEPT ![m] = @ + 1]
    /\ listener' = [listener EXCEPT ![p] = "yielded"]
    /\ stage' = [stage EXCEPT ![s] = "running"]
    /\ task' = [task EXCEPT ![s] = m]
    /\ data' = [data EXCEPT ![s] = Decode(wire[m])]
    /\ renewal' = [renewal EXCEPT
                      ![s] = IF m \in LongRunning THEN "first" ELSE "none"]
    /\ bypassed' = [x \in Message |->
                      IF x = m THEN [r \in Process |-> 0]
                      ELSE IF q = "NORMAL" /\ x \in Ready("HIGH")
                      THEN [bypassed[x] EXCEPT ![p] = @ + 1]
                      ELSE bypassed[x]]

\* Mutant: the message is yielded inside the lock.
ReceiveInLock(p, q, s, m) ==
    /\ Polling(p, q)
    /\ Received(p, q, s, m)
    /\ UNCHANGED <<sendVars, wire, receiveLock, faults>>

\* The lock is released before the message is yielded.
Receive(p, q, s, m) ==
    /\ Polling(p, q)
    /\ Received(p, q, s, m)
    /\ receiveLock' = [receiveLock EXCEPT ![p] = "free"]
    /\ UNCHANGED <<sendVars, wire, faults>>

\* Nothing came within the wait time: on to the default queue, or round.
ReceiveNothing(p, q) ==
    /\ Polling(p, q)
    /\ Ready(q) = {}
    /\ receiveLock' = [receiveLock EXCEPT ![p] = "free"]
    /\ listener' = [listener EXCEPT
                       ![p] = IF q = "HIGH" THEN "default" ELSE "priority"]
    /\ UNCHANGED <<sendVars, busVars, slotVars, bypassed, faults>>

\* An exception is logged and the loop begins again.
ReceiveFails(p) ==
    /\ receiveLock[p] = "listener"
    /\ Fault("receive")
    /\ receiveLock' = [receiveLock EXCEPT ![p] = "free"]
    /\ listener' = [listener EXCEPT ![p] = "priority"]
    /\ UNCHANGED <<sendVars, busVars, slotVars, bypassed>>

-----------------------------------------------------------------------------
(* Tasks and their acknowledgement *)

\* The task of slot s has ended.
EndTask(s) ==
    /\ stage[s] = "running"
    /\ stage' = [stage EXCEPT ![s] = "ended"]
    /\ UNCHANGED <<sendVars, busVars, listener, receiveLock, task, data,
                   renewal, bypassed, faults>>

\* ack_message takes the lock that the listener uses.
BeginAck(s) ==
    /\ stage[s] = "ended"
    /\ receiveLock[Home[s]] = "free"
    /\ receiveLock' = [receiveLock EXCEPT ![Home[s]] = "ack"]
    /\ stage' = [stage EXCEPT ![s] = "acking"]
    /\ UNCHANGED <<sendVars, busVars, listener, task, data, renewal,
                   bypassed, faults>>

FreeSlot(s) ==
    /\ stage' = [stage EXCEPT ![s] = "free"]
    /\ task' = [task EXCEPT ![s] = NoMessage]
    /\ data' = [data EXCEPT ![s] = NoWire.body]
    /\ renewal' = [renewal EXCEPT ![s] = "none"]

\* Mutant: a message is completed although its lock was lost.
CompleteUnlocked(s) ==
    /\ stage[s] = "acking"
    /\ bus' = [bus EXCEPT ![task[s]] = "done"]
    /\ holder' = [holder EXCEPT ![task[s]] = NoSlot]
    /\ receiveLock' = [receiveLock EXCEPT ![Home[s]] = "free"]
    /\ FreeSlot(s)
    /\ UNCHANGED <<sendVars, wire, deliveries, listener, bypassed, faults>>

\* complete_message: the bus refuses it (and the error is logged) if the
\* lock of this delivery was lost.
Complete(s) ==
    /\ stage[s] = "acking"
    /\ IF holder[task[s]] = s
       THEN /\ bus' = [bus EXCEPT ![task[s]] = "done"]
            /\ holder' = [holder EXCEPT ![task[s]] = NoSlot]
       ELSE UNCHANGED <<bus, holder>>
    /\ receiveLock' = [receiveLock EXCEPT ![Home[s]] = "free"]
    /\ FreeSlot(s)
    /\ UNCHANGED <<sendVars, wire, deliveries, listener, bypassed, faults>>

\* Mutant: a failed renewal is not registered again.
RenewalStops(s) ==
    /\ renewal[s] = "first"
    /\ Fault("renew")
    /\ renewal' = [renewal EXCEPT ![s] = "off"]
    /\ UNCHANGED <<sendVars, busVars, listener, receiveLock, stage, task,
                   data, bypassed>>

\* lock_renewal_failure_callback registers the message again, once.
RenewalFails(s) ==
    /\ renewal[s] \in {"first", "second"}
    /\ Fault("renew")
    /\ renewal' = [renewal EXCEPT
                      ![s] = IF @ = "first" THEN "second" ELSE "off"]
    /\ UNCHANGED <<sendVars, busVars, listener, receiveLock, stage, task,
                   data, bypassed>>

\* The bus takes the lock of m back.
Unlocked(m) ==
    /\ bus' = [bus EXCEPT ![m] = IF deliveries[m] >= MaxDeliveries THEN "dead"
                                 ELSE "ready"]
    /\ holder' = [holder EXCEPT ![m] = NoSlot]
    /\ bypassed' = [bypassed EXCEPT ![m] = [p \in Process |-> 0]]

\* The lock of a running task expires: it is not renewed, or no longer.
LoseLock(s) ==
    /\ stage[s] # "free"
    /\ holder[task[s]] = s
    /\ renewal[s] \in {"none", "off"}
    /\ Fault("lock")
    /\ Unlocked(task[s])
    /\ UNCHANGED <<sendVars, wire, deliveries, listener, receiveLock, slotVars>>

\* The lock of a message whose process has stopped expires.
Expire(m) ==
    /\ bus[m] = "locked"
    /\ holder[m] = NoSlot
    /\ Unlocked(m)
    /\ UNCHANGED <<sendVars, wire, deliveries, listener, receiveLock,
                   slotVars, faults>>

\* shutdown() closes the receivers, or the process crashes.
Stop(p) ==
    /\ listener[p] # "off"
    /\ Fault("stop")
    /\ listener' = [listener EXCEPT ![p] = "off"]
    /\ receiveLock' = [receiveLock EXCEPT ![p] = "free"]
    /\ holder' = [m \in Message |->
                     IF holder[m] # NoSlot /\ Home[holder[m]] = p
                     THEN NoSlot ELSE holder[m]]
    /\ stage' = [s \in Slot |-> IF Home[s] = p THEN "free" ELSE stage[s]]
    /\ task' = [s \in Slot |-> IF Home[s] = p THEN NoMessage ELSE task[s]]
    /\ data' = [s \in Slot |-> IF Home[s] = p THEN NoWire.body ELSE data[s]]
    /\ renewal' = [s \in Slot |-> IF Home[s] = p THEN "none" ELSE renewal[s]]
    /\ UNCHANGED <<sendVars, bus, wire, deliveries, bypassed>>

-----------------------------------------------------------------------------
Listen(p) ==
    \/ StartListening(p)
    \/ Resume(p)
    \/ Polls(p)
    \/ \E q \in {"HIGH", "NORMAL"} :
          \/ \E s \in Slot, m \in Message : Receive(p, q, s, m)
          \/ ReceiveNothing(p, q)

RunTask(s) == EndTask(s) \/ BeginAck(s) \/ Complete(s)

BusStep(m) == Due(m) \/ Expire(m)

FaultStep ==
    \/ \E m \in Message : KickFails(m)
    \/ \E p \in Process : ReceiveFails(p) \/ Stop(p)
    \/ \E s \in Slot : RenewalFails(s) \/ LoseLock(s)

Next ==
    \/ Startup
    \/ \E m \in Message : KickRefused(m) \/ Kick(m) \/ BusStep(m)
    \/ \E p \in Process : Listen(p)
    \/ \E s \in Slot : RunTask(s)
    \/ FaultStep

Spec == Init /\ [][Next]_vars

\* Processes and the bus go on; asyncio.Lock serves its waiters in order, so
\* an acknowledgement that can get the lock again and again gets it.
FairSpec ==
    /\ Spec
    /\ \A p \in Process : WF_vars(Listen(p))
    /\ \A s \in Slot : WF_vars(EndTask(s) \/ Complete(s)) /\ SF_vars(BeginAck(s))
    /\ \A m \in Message : WF_vars(BusStep(m))

-----------------------------------------------------------------------------
(* Properties *)

\* Every variable keeps its type, and no message is delivered more often than
\* the bus allows.
TypeOK ==
    /\ started \in BOOLEAN
    /\ call \in [Message -> {"none", "sent", "raised", "refused"}]
    /\ bus \in [Message -> {"absent", "scheduled", "ready", "locked", "dead",
                            "done"}]
    /\ holder \in [Message -> Slot \cup {NoSlot}]
    /\ deliveries \in [Message -> 0..MaxDeliveries]
    /\ listener \in [Process -> {"off", "yielded", "priority", "default"}]
    /\ receiveLock \in [Process -> {"free", "listener", "ack"}]
    /\ stage \in [Slot -> {"free", "running", "ended", "acking"}]
    /\ task \in [Slot -> Message \cup {NoMessage}]
    /\ renewal \in [Slot -> {"none", "first", "second", "off"}]
    /\ bypassed \in [Message -> [Process -> Nat]]
    /\ wire \in [Message -> [body : Body, compressed : BOOLEAN]]
    /\ data \in [Slot -> Body]
    /\ faults \in [FaultKind -> Nat]

\* The broker seen as a queue of tasks: a message waits while it is on the
\* bus and no running slot has its lock.
Waiting ==
    {m \in Message : \/ bus[m] \in {"scheduled", "ready"}
                     \/ bus[m] = "locked" /\ holder[m] = NoSlot}

Locked == [s \in Slot |-> task[s] # NoMessage /\ holder[task[s]] = s]

Dead == {m \in Message : bus[m] = "dead"}

Queue == INSTANCE TaskQueue WITH
            Worker <- Slot, NoTask <- NoMessage, queue <- Waiting,
            locked <- Locked, dead <- Dead

\* The broker delivers at least once: whatever is lost, stopped or late, a
\* message leaves the bus only when a task that held its lock has ended, or
\* after too many deliveries (listen, ack_message and the message locks).
DeliversAtLeastOnce == Queue!Spec

\* A process that finds a priority message waiting takes at most one message
\* of the default queue before it: listen() polls the priority queue until
\* it is empty, every time round.
PriorityFirst ==
    \A m \in Message, p \in Process : bypassed[m][p] <= 1

\* A task is given the body that was sent, compressed on the way or not.
BodyAsSent ==
    \A s \in Slot : task[s] # NoMessage => data[s] = <<"plain", task[s]>>

\* A long-running task is run by one worker at a time while its process
\* lives, unless its lock renewal failed twice.
RenewedRunsOnce ==
    \A s, t \in Slot :
        /\ s # t
        /\ task[s] = task[t]
        /\ task[s] \in LongRunning
        => faults["renew"] >= 2

\* Every message on the bus is completed or set aside: the listener and the
\* acknowledgements, which share _receive_lock, do not block each other, and
\* neither queue starves once no more messages come.
EveryMessageSettles ==
    \A m \in Message :
        bus[m] \in {"scheduled", "ready"} ~> bus[m] \in {"done", "dead"}

=============================================================================
