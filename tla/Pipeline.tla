------------------------------- MODULE Pipeline -------------------------------
(***************************************************************************)
(* The pipeline of docs/architecture.md from end to end: device events on  *)
(* device.events.raw, the queue service, device.events.normalized, the     *)
(* processing service, alarms.dispatch, the dispatcher.                    *)
(*                                                                         *)
(* QueueService, ProcessingService and Dispatcher model one service each.  *)
(* Here a process takes a delivery, emits what it owes for it one output   *)
(* at a time, and acks; queues are bags, since no property is about order. *)
(* Unlike the modules of the services, this one follows every copy of a    *)
(* message: one duplicated by a fault is a message like any other for the  *)
(* service behind.                                                         *)
(*                                                                         *)
(* What the queue service publishes shares a connection with its acks, so  *)
(* a publish is routed before the ack behind it is read.  An alarm travels *)
(* on the processing service's second connection, and may be overtaken.    *)
(*                                                                         *)
(* A process stands for a run of a service with its connections.  Its name *)
(* is used again when it is gone and the broker holds nothing of it; a     *)
(* service that is started again before that is another process.           *)
(***************************************************************************)
EXTENDS Naturals, FiniteSets

CONSTANTS
  Processes,     \* names for runs of the three services, reused when free
  Serves,        \* Serves[p]: the queue that p consumes
  Events,        \* what is published on device.events.raw
  Malformed,     \* the ones that are not a DeviceEvent
  Rules,
  Matching,      \* Matching[e]: the rules that raise an alarm for e
  Undecodable,   \* the alarms that are not an AlarmDecision to the dispatcher
  MaxPublished,  \* bound: events ever published
  MaxFaults,     \* bound: crashes and lost connections
  None           \* no message

Queues == {"raw", "normalized", "alarms"}
Alarms == Events \X Rules
Messages == Events \cup Alarms

ASSUME PipelineAssumption ==
  /\ Serves \in [Processes -> Queues]
  /\ Matching \in [Events -> SUBSET Rules]
  /\ Malformed \subseteq Events
  /\ Undecodable \subseteq Alarms
  /\ None \notin Messages
  /\ MaxPublished \in Nat
  /\ MaxFaults \in Nat
  /\ Events \cap Alarms = {}

VARIABLES
  \* RabbitMQ
  published,  \* the events published so far
  ready,      \* ready[q][m]: copies of m that wait in queue q
  unacked,    \* unacked[p][m]: delivered to p and not settled
  up,         \* up[p]: the broker holds open the connection p consumes from
  acks,       \* acks[p][m]: acks and nacks p has sent that were not read yet
  pubUp,      \* pubUp[p]: the publisher's connection of p is open
  wire,       \* wire[p][m]: alarms p has sent on it that were not read yet
  \* the processes
  running,    \* running[p]
  inbox,      \* inbox[p][m]: deliveries p has yet to take
  hand,       \* hand[p]: the message p is at
  left,       \* left[p]: what p has yet to emit for it
  \* outside
  addressesParse, \* do the dispatchers' e-mail addresses parse?
  notified,   \* notified[m]: how often somebody was notified of alarm m
  faults,     \* faults[q]: faults of the processes of q
  pubFaults   \* lost publisher connections

connection == <<up, acks, unacked>>
publisher  == <<pubUp, wire>>
process    == <<running, inbox, hand, left>>
outside    == <<addressesParse, notified, faults, pubFaults>>
vars == <<published, ready, connection, publisher, process, outside>>

Empty == [m \in Messages |-> 0]

Init ==
  /\ published = {}
  /\ ready = [q \in Queues |-> Empty]
  /\ unacked = [p \in Processes |-> Empty]
  /\ up = [p \in Processes |-> FALSE]
  /\ acks = [p \in Processes |-> Empty]
  /\ pubUp = [p \in Processes |-> FALSE]
  /\ wire = [p \in Processes |-> Empty]
  /\ running = [p \in Processes |-> FALSE]
  /\ inbox = [p \in Processes |-> Empty]
  /\ hand = [p \in Processes |-> None]
  /\ left = [p \in Processes |-> {}]
  /\ addressesParse \in BOOLEAN
  /\ notified = Empty
  /\ faults = [q \in Queues |-> 0]
  /\ pubFaults = 0

\* What a service owes for a message: a queue service the event, unless it does
\* not decode; a processing service an alarm for each rule that matches; a
\* dispatcher its notifications, unless the alarm does not decode: the rules file
\* gives alarm_type and severity as free text, and AlarmDecision knows a few words.
Outputs(q, m) ==
  CASE q = "raw" -> {m} \ Malformed
    [] q = "normalized" -> {a \in Alarms : a[1] = m /\ a[2] \in Matching[m]}
    [] q = "alarms" -> {m} \ Undecodable

-----------------------------------------------------------------------------
(* The broker.                                                             *)

\* A device's event is put on device.events.raw.
Publish(m) ==
  /\ m \in Events \ published
  /\ Cardinality(published) < MaxPublished
  /\ published' = published \cup {m}
  /\ ready' = [ready EXCEPT !["raw"][m] = @ + 1]
  /\ UNCHANGED <<connection, publisher, process, outside>>

\* A consumer that subscribed with no_ack has the broker forget each delivery.
DeliverNoAck(p, m) ==
  /\ up[p]
  /\ ready[Serves[p]][m] > 0
  /\ ready' = [ready EXCEPT ![Serves[p]][m] = @ - 1]
  /\ inbox' = IF running[p] THEN [inbox EXCEPT ![p][m] = @ + 1] ELSE inbox
  /\ UNCHANGED <<published, connection, publisher, running, hand, left, outside>>

\* A message is delivered; a process that has died never sees it.
Deliver(p, m) ==
  /\ up[p]
  /\ ready[Serves[p]][m] > 0
  /\ ready' = [ready EXCEPT ![Serves[p]][m] = @ - 1]
  /\ unacked' = [unacked EXCEPT ![p][m] = @ + 1]
  /\ inbox' = IF running[p] THEN [inbox EXCEPT ![p][m] = @ + 1] ELSE inbox
  /\ UNCHANGED <<published, up, acks, publisher, running, hand, left, outside>>

\* A nack that asks for requeueing, for every message.
ReceiveAckRequeueing(p, m) ==
  /\ acks[p][m] > 0
  /\ acks' = [acks EXCEPT ![p][m] = @ - 1]
  /\ unacked' = [unacked EXCEPT ![p][m] = @ - 1]
  /\ ready' = [ready EXCEPT ![Serves[p]][m] = @ + 1]
  /\ UNCHANGED <<published, up, publisher, process, outside>>

\* The broker reads an ack, or a nack, which does not requeue either.
ReceiveAck(p, m) ==
  /\ acks[p][m] > 0
  /\ acks' = [acks EXCEPT ![p][m] = @ - 1]
  /\ unacked' = [unacked EXCEPT ![p][m] = @ - 1]
  /\ UNCHANGED <<published, ready, up, publisher, process, outside>>

\* An alarm is routed to alarms.dispatch.
ReceiveAlarm(p, m) ==
  /\ wire[p][m] > 0
  /\ wire' = [wire EXCEPT ![p][m] = @ - 1]
  /\ ready' = [ready EXCEPT !["alarms"][m] = @ + 1]
  /\ UNCHANGED <<published, connection, pubUp, process, outside>>

\* The end of p's connection: unread acks are lost and what p had not settled
\* waits in the queue again.
DropConnection(p) ==
  /\ up[p]
  /\ up' = [up EXCEPT ![p] = FALSE]
  /\ acks' = [acks EXCEPT ![p] = Empty]
  /\ unacked' = [unacked EXCEPT ![p] = Empty]
  /\ ready' = [ready EXCEPT ![Serves[p]] = [m \in Messages |-> @[m] + unacked[p][m]]]

\* The broker notices that p has died.
NoticeGone(p) ==
  /\ ~running[p]
  /\ DropConnection(p)
  /\ UNCHANGED <<published, publisher, process, outside>>

-----------------------------------------------------------------------------
(* A process.                                                              *)

\* The start of a service, up to its consumer loop, under a name that is free.
Start(p) ==
  /\ ~running[p] /\ ~up[p]
  /\ running' = [running EXCEPT ![p] = TRUE]
  /\ up' = [up EXCEPT ![p] = TRUE]
  /\ pubUp' = [pubUp EXCEPT ![p] = TRUE]
  /\ UNCHANGED <<published, ready, acks, unacked, wire, inbox, hand, left, outside>>

\* The next delivery of the consumer loop.
Take(p, m) ==
  /\ running[p]
  /\ hand[p] = None
  /\ inbox[p][m] > 0
  /\ inbox' = [inbox EXCEPT ![p][m] = @ - 1]
  /\ hand' = [hand EXCEPT ![p] = m]
  /\ left' = [left EXCEPT ![p] = Outputs(Serves[p], m)]
  /\ UNCHANGED <<published, ready, connection, publisher, running, outside>>

\* forward_event; the publish is lost on a dead connection.
ForwardEvent(p, m) ==
  /\ Serves[p] = "raw"
  /\ m \in left[p]
  /\ left' = [left EXCEPT ![p] = @ \ {m}]
  /\ ready' = IF up[p] THEN [ready EXCEPT !["normalized"][m] = @ + 1] ELSE ready
  /\ UNCHANGED <<published, connection, publisher, running, inbox, hand, outside>>

\* The publish in evaluate: on a dead connection the alarm is lost, or the publish
\* throws and so ends the evaluation.
PublishAlarm(p, m) ==
  /\ Serves[p] = "normalized"
  /\ m \in left[p]
  /\ \/ left' = [left EXCEPT ![p] = @ \ {m}]
     \/ ~pubUp[p] /\ left' = [left EXCEPT ![p] = {}]
  /\ wire' = IF pubUp[p] THEN [wire EXCEPT ![p][m] = @ + 1] ELSE wire
  /\ UNCHANGED <<published, ready, connection, pubUp, running, inbox, hand, outside>>

\* dispatch_alarm, to its end.
DispatchAlarm(p, m) ==
  /\ Serves[p] = "alarms"
  /\ m \in left[p]
  /\ addressesParse
  /\ left' = [left EXCEPT ![p] = @ \ {m}]
  /\ notified' = [notified EXCEPT ![m] = @ + 1]
  /\ UNCHANGED <<published, ready, connection, publisher, running, inbox, hand,
                 addressesParse, faults, pubFaults>>

\* An ack sent before the work is done.
AckEarly(p) ==
  /\ hand[p] # None
  /\ acks' = IF up[p] THEN [acks EXCEPT ![p][hand[p]] = @ + 1] ELSE acks
  /\ hand' = [hand EXCEPT ![p] = None]
  /\ left' = [left EXCEPT ![p] = {}]
  /\ UNCHANGED <<published, ready, up, unacked, publisher, running, inbox, outside>>

\* The ack or nack of the message in hand, which a dead connection swallows.
Ack(p) ==
  /\ hand[p] # None
  /\ left[p] = {}
  /\ acks' = IF up[p] THEN [acks EXCEPT ![p][hand[p]] = @ + 1] ELSE acks
  /\ hand' = [hand EXCEPT ![p] = None]
  /\ UNCHANGED <<published, ready, up, unacked, publisher, running, inbox, left, outside>>

\* A process whose deliveries outlive it.
EndsKeepingInbox(p) ==
  /\ running[p]
  /\ running' = [running EXCEPT ![p] = FALSE]
  /\ hand' = [hand EXCEPT ![p] = None]
  /\ left' = [left EXCEPT ![p] = {}]
  /\ UNCHANGED inbox

\* A process that ends takes with it what it has in hand and in its inbox.
Ends(p) ==
  /\ running[p]
  /\ running' = [running EXCEPT ![p] = FALSE]
  /\ inbox' = [inbox EXCEPT ![p] = Empty]
  /\ hand' = [hand EXCEPT ![p] = None]
  /\ left' = [left EXCEPT ![p] = {}]

\* dispatch_alarm with an address that does not parse: send_email panics, and main
\* with it.  A webhook, if there is one, has been called by then; that is counted
\* once, since it may be repeated without end.
DispatchPanics(p, m) ==
  /\ Serves[p] = "alarms"
  /\ m \in left[p]
  /\ ~addressesParse
  /\ \/ UNCHANGED notified
     \/ notified' = [notified EXCEPT ![m] = IF @ = 0 THEN 1 ELSE @]
  /\ Ends(p)
  /\ UNCHANGED <<published, ready, connection, publisher, addressesParse, faults,
                 pubFaults>>

\* A consumer loop that does not end with its stream.
ExitOnFailedCall(p) ==
  /\ ~up[p]
  /\ hand[p] # None
  /\ Ends(p)
  /\ UNCHANGED <<published, ready, connection, publisher, outside>>

\* main returns when it finds that the consumer's connection is lost: when the
\* stream ends or the consume fails; in the queue service also when the publish or
\* the ack fails, and in the dispatcher when the ack does.
Exit(p) ==
  /\ ~up[p]
  /\ Serves[p] = "normalized" => hand[p] = None
  /\ Serves[p] = "alarms" => left[p] = {}
  /\ Ends(p)
  /\ UNCHANGED <<published, ready, connection, publisher, outside>>

-----------------------------------------------------------------------------
(* Faults.                                                                 *)

MayFail ==
  faults["raw"] + faults["normalized"] + faults["alarms"] + pubFaults < MaxFaults

Fault(p) ==
  /\ running[p] /\ up[p]
  /\ MayFail
  /\ faults' = [faults EXCEPT ![Serves[p]] = @ + 1]

\* A crash or a signal.
Crash(p) ==
  /\ Fault(p)
  /\ Ends(p)
  /\ UNCHANGED <<published, ready, connection, publisher, addressesParse, notified,
                 pubFaults>>

\* A connection breaks under a running process.
LoseConnection(p) ==
  /\ Fault(p)
  /\ DropConnection(p)
  /\ UNCHANGED <<published, publisher, process, addressesParse, notified, pubFaults>>

LosePublisher(p) ==
  /\ Serves[p] = "normalized"
  /\ pubUp[p]
  /\ MayFail
  /\ pubFaults' = pubFaults + 1
  /\ pubUp' = [pubUp EXCEPT ![p] = FALSE]
  /\ wire' = [wire EXCEPT ![p] = Empty]
  /\ UNCHANGED <<published, ready, connection, process, addressesParse, notified, faults>>

\* What a running service does by itself.
OwnStep(p) ==
  \/ \E m \in Messages : \/ Take(p, m) \/ ForwardEvent(p, m) \/ PublishAlarm(p, m)
                         \/ DispatchAlarm(p, m) \/ DispatchPanics(p, m)
  \/ Ack(p)

ServiceStep(p) == OwnStep(p) \/ Exit(p)

BrokerStep(p) ==
  \/ \E m \in Messages : ReceiveAck(p, m) \/ ReceiveAlarm(p, m)
  \/ NoticeGone(p)

Next ==
  \/ \E m \in Messages : Publish(m)
  \/ \E p \in Processes :
       \/ \E m \in Messages : Deliver(p, m)
       \/ BrokerStep(p)
       \/ Start(p)
       \/ ServiceStep(p)
       \/ Crash(p)
       \/ LoseConnection(p)
       \/ LosePublisher(p)

Spec == Init /\ [][Next]_vars

\* What goes on without faults: the broker delivers, reads and notices who has died;
\* running services go on, and whoever a dispatcher calls answers; dead services are
\* started again.  The Rust services notice a dead connection, their client's
\* heartbeats being on.  The processing service need not: it turned them off, and
\* takes each timeout of its consume for a quiet queue.
GoesOn(p) ==
  \/ \E m \in Messages : Deliver(p, m)
  \/ BrokerStep(p)
  \/ Start(p)
  \/ OwnStep(p)
  \/ Serves[p] # "normalized" /\ Exit(p)

\* It is enough that they do not all stop at once: with dispatchers that do not
\* panic, each of them runs out of such steps.
Fairness == WF_vars(\E p \in Processes : GoesOn(p))

FairSpec == Spec /\ Fairness

-----------------------------------------------------------------------------
(* Properties.                                                             *)

Bags(S) == [S -> [Messages -> Nat]]

Types ==
  /\ published \subseteq Events
  /\ ready \in Bags(Queues)
  /\ unacked \in Bags(Processes)
  /\ up \in [Processes -> BOOLEAN]
  /\ acks \in Bags(Processes)
  /\ pubUp \in [Processes -> BOOLEAN]
  /\ wire \in Bags(Processes)
  /\ running \in [Processes -> BOOLEAN]
  /\ inbox \in Bags(Processes)
  /\ hand \in [Processes -> Messages \cup {None}]
  /\ left \in [Processes -> SUBSET Messages]
  /\ addressesParse \in BOOLEAN
  /\ notified \in [Messages -> Nat]
  /\ faults \in [Queues -> Nat]
  /\ pubFaults \in Nat

\* A process that is down holds nothing.
DownHoldsNothing ==
  \A p \in Processes : ~running[p] => inbox[p] = Empty /\ hand[p] = None

InHand(p, m) == IF hand[p] = m THEN 1 ELSE 0

\* What the broker waits for from p covers all that p holds and has acked.
Settlements ==
  \A p \in Processes : \A m \in Messages :
    /\ up[p] => acks[p][m] + inbox[p][m] + InHand(p, m) <= unacked[p][m]
    /\ ~up[p] => acks[p][m] = 0 /\ unacked[p][m] = 0

\* Every variable has its type; no delivery outlives the process it was made to;
\* and no copy of a message is acked that the broker does not hold as unsettled.
TypeOK == Types /\ DownHoldsNothing /\ Settlements

\* A copy of m is the broker's to deliver, or to deliver again: it waits in q or
\* is an unsettled delivery from q.
InQueue(q, m) ==
  \/ ready[q][m] > 0
  \/ \E p \in Processes : Serves[p] = q /\ unacked[p][m] > 0

\* Somebody was, or will be, notified of alarm m, if the dispatcher can decode it.
AlarmSafe(m) ==
  \/ m \in Undecodable
  \/ notified[m] > 0
  \/ InQueue("alarms", m)
  \/ \E p \in Processes : wire[p][m] > 0

\* m is, or has been, evaluated.
EvaluationSafe(m) ==
  InQueue("normalized", m) \/ \A a \in Outputs("normalized", m) : AlarmSafe(a)

\* m waits for a queue service, or one has done what it owes for it.
EventSafe(m) ==
  InQueue("raw", m) \/ \A e \in Outputs("raw", m) : EvaluationSafe(e)

\* "broker ensures no dropped events if a service crashes" (docs/architecture.md):
\* wherever services crash and lose the connections they consume from, an event
\* waits in the pipeline, in a form that a service can still be given again, until
\* every alarm it calls for was dispatched, also if a dispatcher panics at each.
\* There are two exceptions: the loss of a publisher's connection, and an alarm that
\* the dispatcher cannot decode.
NoEventDropped ==
  pubFaults = 0 => \A m \in published : EventSafe(m)

\* Is the output m of a service that consumes q in safe hands?
OutputSafe(q, m) ==
  CASE q = "raw" -> EvaluationSafe(m)
    [] q = "normalized" -> AlarmSafe(m)
    [] q = "alarms" -> notified[m] > 0

\* Why no event is dropped: a running service has a publisher, and, for what it
\* has acked and as far as it has come with what it has in hand, its outputs are
\* in safe hands.
AckedIsDone ==
  pubFaults = 0 =>
    \A p \in Processes :
      /\ running[p] => pubUp[p]
      /\ \A m \in Messages :
           acks[p][m] > 0 =>
             \A o \in Outputs(Serves[p], m) : OutputSafe(Serves[p], o)
      /\ up[p] /\ hand[p] # None =>
           \A o \in Outputs(Serves[p], hand[p]) \ left[p] : OutputSafe(Serves[p], o)

\* How the services' duplicates add up: a notification is repeated at most by the
\* product, over the three stages, of the faults there, unless the dispatcher panics
\* at every alarm.
RepeatsMultiplyAtMost ==
  addressesParse =>
    \A m \in Alarms :
      notified[m] <=
        (1 + faults["raw"]) * (1 + faults["normalized"]) * (1 + faults["alarms"])

\* The alarms that a published event calls for, those that can be notified.
Notifiable(m) == Outputs("normalized", m) \ Undecodable

\* Is there a processing service that is not cut off for good?  One that never
\* learns that its connection is lost waits for ever.
EvaluationGoesOn ==
  \E p \in Processes : Serves[p] = "normalized" /\ []<>up[p]

\* Every decodable alarm that a published event calls for is dispatched in the end,
\* after whatever crashes and lost connections, but for the three that nothing makes
\* good: a publisher's connection lost, a consumer's lost and never noticed, a
\* dispatcher that panics at every alarm.
EventuallyNotified ==
  EvaluationGoesOn =>
    \A m \in Events \ Malformed :
      m \in published ~>
        \/ \A a \in Notifiable(m) : notified[a] > 0
        \/ pubFaults > 0
        \/ ~addressesParse

\* Is a copy of m, or of an alarm that it calls for, still in the pipeline?
InPipeline(m) ==
  \/ InQueue("raw", m)
  \/ InQueue("normalized", m)
  \/ \E a \in Outputs("normalized", m) :
       InQueue("alarms", a) \/ \E p \in Processes : wire[p][a] > 0

\* The pipeline as a whole keeps the promise that each of its services keeps: an
\* event goes in, and nothing of it is left there only after all of its alarms
\* came out.  That is so with one processing service at a time: of two, one that has
\* lost its connection may still raise alarms for an event that the other has acked.
Relay == INSTANCE AtLeastOnceRelay WITH
  Inputs  <- Events,
  Owed    <- [m \in Events |-> IF m \in Malformed THEN {} ELSE Notifiable(m)],
  pending <- {m \in published : InPipeline(m)},
  settled <- {m \in published : ~InPipeline(m)},
  emitted <- {m \in Messages : notified[m] > 0}

ImplementsRelay ==
  Relay!Init /\ [][pubFaults' = 0 => Relay!Next]_(Relay!vars)

\* Why duplicates only multiply.  The total of what each process counts.
Counted(f) == UNION {{p} \X (1..f[p]) : p \in DOMAIN f}
Total(f) == Cardinality(Counted(f))

\* Alarms on their way to alarms.dispatch belong to that queue.
OnItsWay(q, m, p) == IF q = "alarms" THEN wire[p][m] ELSE 0

\* The copies of m from queue q that p has not settled, and the copies for which p
\* is yet to emit o: those that it has not come to, or, if it has died, those that
\* the queue is to have back.
Unsettled(q, m) ==
  [p \in Processes |-> OnItsWay(q, m, p) + IF Serves[p] = q THEN unacked[p][m] ELSE 0]

ToCome(p, m, o) ==
  IF ~running[p] THEN unacked[p][m]
  ELSE inbox[p][m] + IF hand[p] = m /\ o \in left[p] THEN 1 ELSE 0

YetToEmit(q, m, o) ==
  [p \in Processes |-> OnItsWay(q, m, p) + IF Serves[p] = q THEN ToCome(p, m, o) ELSE 0]

There(q, m)   == ready[q][m] + Total(Unsettled(q, m))
ToDo(q, m, o) == ready[q][m] + Total(YetToEmit(q, m, o))

\* Where some copies of m entered queue q, as many at most are there, and for each
\* an o was, or will be, emitted once, and once more for every fault of q's service.
StageFinite(q, m, o) ==
  IsFiniteSet(Counted(Unsettled(q, m))) /\ IsFiniteSet(Counted(YetToEmit(q, m, o)))

StageBounded(q, m, o, entered, emitted) ==
  /\ StageFinite(q, m, o)
  /\ There(q, m) <= entered
  /\ emitted + ToDo(q, m, o) <= entered * (1 + faults[q])

\* What a process has yet to emit it owes for the message in hand.
LeftIsOwed ==
  \A p \in Processes :
    left[p] \subseteq IF hand[p] = None THEN {} ELSE Outputs(Serves[p], hand[p])

\* An event enters the pipeline once, what a stage emits enters the next, and what
\* the last one emits are the notifications.
Entered(m) == IF m \in published THEN 1 ELSE 0

AlarmBounded(a) ==
  \E forwarded \in 0..(1 + faults["raw"]) :
    \E raised \in 0..(forwarded * (1 + faults["normalized"])) :
      /\ StageBounded("raw", a[1], a[1], Entered(a[1]), forwarded)
      /\ StageBounded("normalized", a[1], a, forwarded, raised)
      /\ StageBounded("alarms", a, a, raised, notified[a])

RepeatsInv ==
  /\ TypeOK
  /\ LeftIsOwed
  /\ addressesParse => \A a \in Alarms : AlarmBounded(a)

\* Why the pipeline is a relay.  What may come into queue q: published events, the
\* ones that decode, and the alarms that those call for.
Belongs(q) ==
  CASE q = "raw" -> published
    [] q = "normalized" -> published \ Malformed
    [] q = "alarms" ->
         {a \in Alarms : a[1] \in published \ Malformed /\ a[2] \in Matching[a[1]]}

Holds(p, m) == inbox[p][m] > 0 \/ hand[p] = m

\* Nothing is in the pipeline that does not come from a published event.
FromEvents ==
  \A m \in Messages :
    /\ \A q \in Queues : ready[q][m] > 0 => m \in Belongs(q)
    /\ \A p \in Processes :
         /\ unacked[p][m] > 0 \/ Holds(p, m) => m \in Belongs(Serves[p])
         /\ wire[p][m] > 0 => m \in Belongs("alarms")
    /\ notified[m] > 0 => m \in Belongs("alarms")

\* What a process holds, if its connection is lost, too, is still in the pipeline:
\* the event that a processing service evaluates has not left its queue, if there is
\* only that one to ack it, and the alarm that a dispatcher is at is in safe hands.
HeldIsSafe ==
  \A p \in Processes : \A m \in Messages :
    Holds(p, m) =>
      /\ Serves[p] = "normalized" => InQueue("normalized", m)
      /\ Serves[p] = "alarms" /\ pubFaults = 0 => AlarmSafe(m)
=============================================================================
