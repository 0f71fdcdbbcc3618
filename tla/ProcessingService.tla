------------------------- MODULE ProcessingService --------------------------
(***************************************************************************)
(* The C++ processing service (cpp/processing/src/main.cpp with            *)
(* amqp_publisher.cpp and the rule loop of processing_engine.cpp): it      *)
(* consumes device.events.normalized, evaluates every rule on each event,  *)
(* publishes an alarm on alarms.dispatch for each rule that matches, and   *)
(* acknowledges the event.                                                 *)
(*                                                                         *)
(* The service is one thread with two TCP connections: the consumer's,     *)
(* which carries acks, and the publisher's, which carries alarms.  Nothing *)
(* orders what the broker reads from the one against what it reads from    *)
(* the other, and each is lost on its own.  Neither has heartbeats, so a   *)
(* loss may go unnoticed, and a call that waits for the broker's answer    *)
(* then waits until it shows, if it ever does.  The publisher's connection *)
(* is opened once and never again by the same process.                     *)
(*                                                                         *)
(* An event is its position on the queue.  What a rule says of an event is *)
(* the constant Verdict: it matches, does not, or throws (a non-string     *)
(* device_id, a malformed operator object, ...).                           *)
(***************************************************************************)
EXTENDS Naturals, Sequences, FiniteSets, Functions

CONSTANTS
  MaxPublished,  \* bound: messages ever put on device.events.normalized
  Malformed,     \* the messages that are not JSON
  NumRules,      \* how many rules are loaded
  Verdict,       \* Verdict[m][r]: what rule r says of event m
  Prefetch,      \* the basic.qos limit (16 in the code)
  MaxStops,      \* bound: SIGINT and SIGTERM received
  MaxFaults,     \* bound: crashes and lost consumer connections
  MaxPubFaults,  \* bound: lost publisher connections
  SilentLoss     \* may a lost connection go unnoticed?

Msgs  == 1..MaxPublished
Rules == 1..NumRules

ASSUME ProcessingServiceAssumption ==
  /\ {MaxPublished, NumRules, MaxStops, MaxFaults, MaxPubFaults} \subseteq Nat
  /\ Prefetch \in Nat \ {0}
  /\ Malformed \subseteq Msgs
  /\ Verdict \in [Msgs -> [Rules -> {"match", "nomatch", "throw"}]]
  /\ SilentLoss \in BOOLEAN

VARIABLES
  \* RabbitMQ
  published,  \* how many messages were put on device.events.normalized
  ready,      \* its ready messages
  unacked,    \* delivered to the consumer and not settled
  conUp,      \* the broker holds the consumer's connection open
  conWire,    \* acks and nacks sent and not yet read by the broker
  pubUp,      \* the broker holds the publisher's connection open
  pubWire,    \* alarms sent and not yet read by the broker
  alarms,     \* every alarm routed to alarms.dispatch, in order
  acked,      \* messages the broker was told are done
  dropped,    \* messages the broker was told to drop
  \* the process
  running,    \* g_running
  inbox,      \* deliveries received and not yet consumed
  pc,         \* what main does next
  cur,        \* the envelope in hand
  rule,       \* the rule evaluate is at
  declared,   \* declared_queues has alarms.dispatch
  \* the environment
  stops, faults, pubFaults,
  unseen      \* connections that are lost without the process having been told

queueVars    == <<ready, unacked, acked, dropped>>
consumerVars == <<queueVars, conUp, conWire>>
pubVars      == <<pubUp, pubWire, alarms>>
envVars      == <<published, stops, faults, pubFaults, unseen>>
processVars  == <<running, inbox, pc, cur, rule, declared>>
vars == <<consumerVars, pubVars, envVars, processVars>>

None   == 0
Alarms == Msgs \X Rules

Init ==
  /\ published = 0
  /\ ready = {} /\ unacked = {}
  /\ conUp = FALSE /\ conWire = <<>>
  /\ pubUp = FALSE /\ pubWire = <<>>
  /\ alarms = <<>>
  /\ acked = {} /\ dropped = {}
  /\ running = TRUE
  /\ inbox = <<>>
  /\ pc = "down"
  /\ cur = None /\ rule = 1
  /\ declared = FALSE
  /\ stops = 0 /\ faults = 0 /\ pubFaults = 0
  /\ unseen = {}

-----------------------------------------------------------------------------
(* The broker.                                                             *)

\* The queue service puts a message on device.events.normalized.
Publish ==
  /\ published < MaxPublished
  /\ published' = published + 1
  /\ ready' = ready \cup {published + 1}
  /\ UNCHANGED <<unacked, acked, dropped, conUp, conWire, pubVars,
                 stops, faults, pubFaults, unseen, processVars>>

\* What basic_consume with no_ack=1 would get: delivered means done.
DeliverNoAck ==
  /\ conUp
  /\ \E m \in ready :
       /\ \A n \in ready : m <= n
       /\ ready' = ready \ {m}
       /\ acked' = acked \cup {m}
       /\ inbox' = IF pc = "down" THEN inbox ELSE Append(inbox, m)
  /\ UNCHANGED <<unacked, dropped, conUp, conWire, pubVars, envVars,
                 running, pc, cur, rule, declared>>

\* The broker delivers the head of the queue within the prefetch limit; a
\* process that is gone does not see it.
Deliver ==
  /\ conUp
  /\ Cardinality(unacked) < Prefetch
  /\ \E m \in ready :
       /\ \A n \in ready : m <= n
       /\ ready' = ready \ {m}
       /\ unacked' = unacked \cup {m}
       /\ inbox' = IF pc = "down" THEN inbox ELSE Append(inbox, m)
  /\ UNCHANGED <<acked, dropped, conUp, conWire, pubVars, envVars,
                 running, pc, cur, rule, declared>>

\* The broker reads an ack, or a nack with requeue=0: no queue declares a
\* dead-letter exchange, so a nacked message is gone.
ReceiveSettlement ==
  /\ conUp
  /\ conWire # <<>>
  /\ conWire' = Tail(conWire)
  /\ LET f == Head(conWire)
     IN  /\ unacked' = unacked \ {f.msg}
         /\ \/ f.op = "ack" /\ acked' = acked \cup {f.msg} /\ dropped' = dropped
            \/ f.op = "nack" /\ dropped' = dropped \cup {f.msg} /\ acked' = acked
  /\ UNCHANGED <<ready, conUp, pubVars, envVars, processVars>>

\* The broker reads an alarm and routes it to alarms.dispatch.
ReceiveAlarm ==
  /\ pubUp
  /\ pubWire # <<>>
  /\ alarms' = Append(alarms, Head(pubWire))
  /\ pubWire' = Tail(pubWire)
  /\ UNCHANGED <<pubUp, consumerVars, envVars, processVars>>

\* The consumer's connection goes: its unread frames are lost and what it had
\* not settled returns to the queue.
DropConsumer ==
  /\ conUp' = FALSE
  /\ conWire' = <<>>
  /\ ready' = ready \cup unacked
  /\ unacked' = {}
  /\ UNCHANGED <<acked, dropped>>

-----------------------------------------------------------------------------
(* main.                                                                   *)

\* Startup: load the rules, connect the publisher, connect and subscribe the
\* consumer.  There is one process here, and one consumer: a restart while the
\* broker still holds a connection of the process before is left to Pipeline,
\* which has several.
Start ==
  /\ pc = "down"
  /\ ~conUp /\ ~pubUp
  /\ conUp' = TRUE /\ pubUp' = TRUE
  /\ running' = TRUE
  /\ declared' = FALSE
  /\ pc' = "check"
  /\ UNCHANGED <<queueVars, conWire, pubWire, alarms, envVars,
                 inbox, cur, rule>>

\* while (g_running)
CheckRunning ==
  /\ pc = "check"
  /\ pc' = IF running THEN "consume" ELSE "close"
  /\ UNCHANGED <<consumerVars, pubVars, envVars,
                 running, inbox, cur, rule, declared>>

\* amqp_consume_message returns a message; one that is not JSON makes parse
\* throw.
ConsumeMessage ==
  /\ pc = "consume"
  /\ inbox # <<>>
  /\ cur' = Head(inbox)
  /\ inbox' = Tail(inbox)
  /\ rule' = 1
  /\ pc' = IF Head(inbox) \in Malformed THEN "nack" ELSE "evaluate"
  /\ UNCHANGED <<consumerVars, pubVars, envVars, running, declared>>

\* A timeout that waits again for a message without a look at g_running.
ConsumeTimeoutAgain ==
  /\ pc = "consume"
  /\ inbox = <<>>
  /\ conUp \/ "consumer" \in unseen
  /\ pc' = "consume"
  /\ UNCHANGED <<consumerVars, pubVars, envVars,
                 running, inbox, cur, rule, declared>>

\* amqp_consume_message times out after a second without a message.  With no
\* heartbeats a dead connection may look just as idle as a live one.
ConsumeTimeout ==
  /\ pc = "consume"
  /\ inbox = <<>>
  /\ conUp \/ "consumer" \in unseen
  /\ pc' = "check"
  /\ UNCHANGED <<consumerVars, pubVars, envVars,
                 running, inbox, cur, rule, declared>>

\* amqp_consume_message reports the dead connection: break.
ConsumerError ==
  /\ pc = "consume"
  /\ ~conUp /\ "consumer" \notin unseen
  /\ pc' = "close"
  /\ UNCHANGED <<consumerVars, pubVars, envVars,
                 running, inbox, cur, rule, declared>>

\* AmqpRabbitMQPublisher::publish returns: the alarm is written, or, on a dead
\* connection, lost in the socket's buffer.  declare_queue, made once per process,
\* is a round trip: on a dead connection it throws, once the loss has shown, and
\* does not return before.
PublishAlarm ==
  \/ /\ pubUp
     /\ pubWire' = Append(pubWire, <<cur, rule>>)
     /\ declared' = TRUE
  \/ /\ ~pubUp /\ declared
     /\ UNCHANGED <<pubWire, declared>>

\* ... or it throws.
PublishThrows == ~pubUp /\ "publisher" \notin unseen

\* evaluate as if the first match decided, without the rules after it.
EvaluateFirstMatch ==
  /\ pc = "evaluate"
  /\ rule <= NumRules
  /\ \/ /\ Verdict[cur][rule] = "nomatch"
        /\ rule' = rule + 1
        /\ UNCHANGED <<pubWire, pc, declared>>
     \/ /\ Verdict[cur][rule] = "match"
        /\ PublishAlarm
        /\ rule' = NumRules + 1
        /\ UNCHANGED pc
     \/ /\ Verdict[cur][rule] = "throw"
        /\ pc' = "nack"
        /\ UNCHANGED <<pubWire, rule, declared>>
  /\ UNCHANGED <<consumerVars, pubUp, alarms, envVars, running, inbox, cur>>

\* One turn of evaluate's loop over rules_: a rule that matches is published at
\* once, one that throws ends the evaluation, as does a publish that throws.
EvaluateRule ==
  /\ pc = "evaluate"
  /\ rule <= NumRules
  /\ \/ /\ Verdict[cur][rule] = "nomatch"
        /\ rule' = rule + 1
        /\ UNCHANGED <<pubWire, pc, declared>>
     \/ /\ Verdict[cur][rule] = "match"
        /\ PublishAlarm
        /\ rule' = rule + 1
        /\ UNCHANGED pc
     \/ /\ \/ Verdict[cur][rule] = "throw"
           \/ Verdict[cur][rule] = "match" /\ PublishThrows
        /\ pc' = "nack"
        /\ UNCHANGED <<pubWire, rule, declared>>
  /\ UNCHANGED <<consumerVars, pubUp, alarms, envVars, running, inbox, cur>>

\* amqp_basic_ack and amqp_basic_nack: the frame is written, or lost on a dead
\* connection; the result is not looked at either way.
Settle(op) ==
  /\ conWire' = IF conUp THEN Append(conWire, [op |-> op, msg |-> cur])
                         ELSE conWire
  /\ cur' = None
  /\ pc' = "check"
  /\ UNCHANGED <<queueVars, conUp, pubVars, envVars,
                 running, inbox, rule, declared>>

\* An ack after which the envelope is still in hand.
AckEventKeeping ==
  /\ pc = "evaluate"
  /\ rule > NumRules
  /\ conWire' = IF conUp THEN Append(conWire, [op |-> "ack", msg |-> cur])
                         ELSE conWire
  /\ pc' = "check"
  /\ UNCHANGED <<queueVars, conUp, pubVars, envVars,
                 running, inbox, cur, rule, declared>>

\* evaluate returned.
AckEvent ==
  /\ pc = "evaluate"
  /\ rule > NumRules
  /\ Settle("ack")

\* A handler that logs the exception and goes on to the next message.
NackEventForgotten ==
  /\ pc = "nack"
  /\ cur' = None
  /\ pc' = "check"
  /\ UNCHANGED <<consumerVars, pubVars, envVars,
                 running, inbox, rule, declared>>

\* parse, a rule or the publisher threw.
NackEvent ==
  /\ pc = "nack"
  /\ Settle("nack")

\* Leaving main without the channel-close round trip.
CloseConsumerAbruptly ==
  /\ pc = "close"
  /\ DropConsumer
  /\ inbox' = <<>>
  /\ pc' = "closePublisher"
  /\ UNCHANGED <<pubVars, envVars, running, cur, rule, declared>>

\* amqp_channel_close is a round trip without a timeout: on a live connection the
\* broker has read every ack before it requeues the prefetched rest; one that is
\* known to be dead makes it return; and one that died silently does not.
CloseConsumer ==
  /\ pc = "close"
  /\ conWire = <<>> /\ "consumer" \notin unseen
  /\ DropConsumer
  /\ inbox' = <<>>
  /\ pc' = "closePublisher"
  /\ UNCHANGED <<pubVars, envVars, running, cur, rule, declared>>

\* main returns and ~AmqpRabbitMQPublisher closes its channel likewise.
ClosePublisher ==
  /\ pc = "closePublisher"
  /\ pubWire = <<>> /\ "publisher" \notin unseen
  /\ pubUp' = FALSE
  /\ pc' = "down"
  /\ UNCHANGED <<consumerVars, pubWire, alarms, envVars,
                 running, inbox, cur, rule, declared>>

ServiceStep ==
  \/ CheckRunning
  \/ ConsumeMessage
  \/ ConsumeTimeout
  \/ ConsumerError
  \/ EvaluateRule
  \/ AckEvent
  \/ NackEvent
  \/ CloseConsumer
  \/ ClosePublisher

-----------------------------------------------------------------------------
(* Signals and faults.                                                     *)

\* handle_signal, on SIGINT or SIGTERM.
Signal ==
  /\ pc # "down"
  /\ stops < MaxStops
  /\ stops' = stops + 1
  /\ running' = FALSE
  /\ UNCHANGED <<consumerVars, pubVars, published, faults, pubFaults, unseen,
                 inbox, pc, cur, rule, declared>>

\* The process is killed.
Crash ==
  /\ pc # "down"
  /\ faults < MaxFaults
  /\ faults' = faults + 1
  /\ pc' = "down"
  /\ inbox' = <<>>
  /\ cur' = None
  /\ unseen' = {}
  /\ UNCHANGED <<consumerVars, pubVars, published, stops, pubFaults,
                 running, rule, declared>>

\* The process is told that a connection is gone, or it is not: the network went,
\* and nothing is received that would say so.
Notice(connection) ==
  \/ UNCHANGED unseen
  \/ SilentLoss /\ pc # "down" /\ unseen' = unseen \cup {connection}

LoseConsumer ==
  /\ conUp
  /\ pc # "down"
  /\ faults < MaxFaults
  /\ faults' = faults + 1
  /\ DropConsumer
  /\ Notice("consumer")
  /\ UNCHANGED <<pubVars, published, stops, pubFaults, processVars>>

LosePublisher ==
  /\ pubUp
  /\ pubFaults < MaxPubFaults
  /\ pubFaults' = pubFaults + 1
  /\ pubUp' = FALSE
  /\ pubWire' = <<>>
  /\ Notice("publisher")
  /\ UNCHANGED <<consumerVars, alarms, published, stops, faults, processVars>>

\* What was written on a dead connection is answered by a reset, or given up.
LossShows ==
  /\ \E connection \in unseen : unseen' = unseen \ {connection}
  /\ UNCHANGED <<consumerVars, pubVars, published, stops, faults, pubFaults, processVars>>

\* The broker notices that the process is gone.  Deliveries the process never
\* read make its kernel reset the consumer's connection, which may cost the
\* acks behind it; the publisher's is closed in order, after its last alarm.
NoticeConsumerGone ==
  /\ pc = "down"
  /\ conUp
  /\ DropConsumer
  /\ UNCHANGED <<pubVars, envVars, processVars>>

NoticePublisherGone ==
  /\ pc = "down"
  /\ pubUp
  /\ pubWire = <<>>
  /\ pubUp' = FALSE
  /\ UNCHANGED <<consumerVars, pubWire, alarms, envVars, processVars>>

BrokerStep ==
  \/ Deliver
  \/ ReceiveSettlement
  \/ ReceiveAlarm
  \/ NoticeConsumerGone
  \/ NoticePublisherGone

Next ==
  \/ Publish
  \/ BrokerStep
  \/ Start
  \/ ServiceStep
  \/ Signal
  \/ Crash
  \/ LoseConsumer
  \/ LosePublisher
  \/ LossShows

Spec == Init /\ [][Next]_vars

\* The broker serves each of its duties and a running process keeps running; a
\* stopped one is started again by whoever supervises it.  Signals and faults
\* need not happen, and a loss that went unnoticed need never show.
Fairness ==
  /\ WF_vars(Deliver)
  /\ WF_vars(ReceiveSettlement)
  /\ WF_vars(ReceiveAlarm)
  /\ WF_vars(NoticeConsumerGone)
  /\ WF_vars(NoticePublisherGone)
  /\ WF_vars(ServiceStep)
  /\ WF_vars(Start)

FairSpec == Spec /\ Fairness

-----------------------------------------------------------------------------
(* Properties.                                                             *)

\* The alarms an event calls for: one per matching rule, up to the first rule
\* that throws (the event is then dropped as malformed).
AlarmsOwed(m) ==
  IF m \in Malformed THEN {}
  ELSE {<<m, r>> : r \in {q \in Rules :
          /\ Verdict[m][q] = "match"
          /\ \A p \in 1..(q - 1) : Verdict[m][p] # "throw"}}

Emitted == Range(alarms) \cup Range(pubWire)

AlarmCopies(a) ==
  Cardinality({k \in 1..Len(alarms) : alarms[k] = a})
    + Cardinality({k \in 1..Len(pubWire) : pubWire[k] = a})

\* Every variable has its type; an envelope is in hand exactly while it is
\* being handled, a process that closed its consumer holds nothing, and nothing
\* is on a dead wire.
TypeOK ==
  /\ published \in 0..MaxPublished
  /\ ready \subseteq Msgs
  /\ unacked \subseteq Msgs
  /\ conUp \in BOOLEAN
  /\ conWire \in Seq([op : {"ack", "nack"}, msg : Msgs])
  /\ pubUp \in BOOLEAN
  /\ pubWire \in Seq(Alarms)
  /\ alarms \in Seq(Alarms)
  /\ acked \subseteq Msgs
  /\ dropped \subseteq Msgs
  /\ running \in BOOLEAN
  /\ inbox \in Seq(Msgs)
  /\ pc \in {"down", "check", "consume", "evaluate", "nack",
             "close", "closePublisher"}
  /\ cur \in Msgs \cup {None}
  /\ rule \in 1..(NumRules + 1)
  /\ declared \in BOOLEAN
  /\ stops \in 0..MaxStops
  /\ faults \in 0..MaxFaults
  /\ pubFaults \in 0..MaxPubFaults
  /\ unseen \subseteq {"consumer", "publisher"}
  /\ cur # None <=> pc \in {"evaluate", "nack"}
  /\ pc \in {"closePublisher", "down"} => inbox = <<>>
  /\ pc = "closePublisher" => ~conUp
  /\ ~conUp => conWire = <<>>
  /\ ~pubUp => pubWire = <<>>

\* While no publisher connection was lost, an event leaves the queue only after
\* every alarm it calls for is at the broker or on its way on an intact
\* connection: crashes, signals and lost consumer connections lose no alarm
\* (main.cpp acks only after evaluate returned).
NoAlarmLost ==
  pubFaults = 0 =>
    \A m \in 1..published :
      m \in ready \cup unacked \/ AlarmsOwed(m) \subseteq Emitted

\* An alarm is repeated at most once per crash or lost consumer connection: a
\* SIGTERM at any point repeats none ("flushes in-flight acks before exiting",
\* main.cpp), and neither does an evaluation that fails half way.
DuplicatesNeedFaults ==
  \A a \in Alarms : AlarmCopies(a) <= 1 + faults

\* amqp_publisher.cpp: alarm decisions "must not be lost if the broker is
\* bounced": an acknowledged event has its alarms at the broker or on their way.
AckedHasItsAlarms ==
  \A m \in acked : AlarmsOwed(m) \subseteq Emitted

\* The process waits for an answer of the broker on a connection that died silently:
\* to the close of either channel, or to the first declare_queue.
Unanswered ==
  \/ pc = "close" /\ "consumer" \in unseen
  \/ pc = "closePublisher" /\ "publisher" \in unseen
  \/ /\ pc = "evaluate" /\ rule <= NumRules
     /\ Verdict[cur][rule] = "match"
     /\ ~declared /\ "publisher" \in unseen

\* SIGINT or SIGTERM ends the process, whatever it was doing, unless it comes to wait
\* for good for an answer on a connection whose loss never shows: none of the round
\* trips has a timeout (main.cpp:159, amqp_publisher.cpp).
StopsWhenAsked == ~running ~> (pc = "down" \/ []Unanswered)

\* Every event is eventually settled, with every alarm it calls for on
\* alarms.dispatch: neither an event whose evaluation throws nor a restart
\* holds up the events behind it.  What can is the loss of the publisher's
\* connection, or of the consumer's without a notice.
EventuallyHandled ==
  []<>conUp =>
    \A m \in Msgs :
      published >= m ~>
        \/ m \in acked \cup dropped /\ AlarmsOwed(m) \subseteq Range(alarms)
        \/ pubFaults > 0

\* As long as the publisher's connection holds, the service keeps the
\* at-least-once promise.
Relay == INSTANCE AtLeastOnceRelay WITH
  Inputs  <- Msgs,
  Owed    <- [m \in Msgs |-> AlarmsOwed(m)],
  pending <- ready \cup unacked,
  settled <- acked \cup dropped,
  emitted <- Emitted

ImplementsRelay ==
  Relay!Init /\ [][pubFaults' = 0 => Relay!Next]_(Relay!vars)

-----------------------------------------------------------------------------
(* What makes the properties inductive.                                    *)

\* The events on the consumer's wire, as the broker will settle them.
Settling == [k \in 1..Len(conWire) |-> conWire[k].msg]

\* Only what was published is anywhere.
PublishedOnly ==
  /\ ready \cup unacked \cup acked \cup dropped \subseteq 1..published
  /\ Range(inbox) \cup (IF cur = None THEN {} ELSE {cur}) \subseteq 1..published
  /\ Emitted \subseteq (1..published) \X Rules

\* The process has each delivery once, in its inbox, in hand or on the wire, and
\* on a live connection it has what the broker has down for it, and nothing else.
Holding ==
  /\ ready \cap unacked = {}
  /\ (ready \cup unacked) \cap (acked \cup dropped) = {}
  /\ IsInjective(inbox) /\ IsInjective(Settling)
  /\ cur \notin Range(inbox) \cup Range(Settling)
  /\ Range(inbox) \cap Range(Settling) = {}
  /\ conUp => /\ Range(inbox) \cup Range(Settling) \subseteq unacked
              /\ cur # None => cur \in unacked
              /\ pc # "down" => unacked \subseteq Range(inbox) \cup Range(Settling) \cup {cur}
  /\ ~conUp => unacked = {}

\* An event that was put on the queue is on it, with the consumer, or settled.
Accounted == 1..published \subseteq ready \cup unacked \cup acked \cup dropped

HoldInv == PublishedOnly /\ Holding /\ Accounted

\* As long as the publisher's connection holds: what is settled, or about to be,
\* has its alarms emitted, and so has the event in hand up to the rule it is at.
EmittedBeforeSettled ==
  /\ pc # "down" => pubUp
  /\ \A m \in acked \cup dropped \cup Range(Settling) : AlarmsOwed(m) \subseteq Emitted
  /\ pc = "evaluate" =>
       /\ cur \notin Malformed
       /\ \A r \in 1..(rule - 1) :
            /\ Verdict[cur][r] # "throw"
            /\ Verdict[cur][r] = "match" => <<cur, r>> \in Emitted
  /\ pc = "nack" => AlarmsOwed(cur) \subseteq Emitted

AlarmInv ==
  /\ TypeOK
  /\ HoldInv
  /\ pubFaults = 0 => EmittedBeforeSettled

\* Event m is, or will be, on the queue to be delivered anew.
MayBeDelivered(m) == m \in ready \/ (pc = "down" /\ m \in unacked)

\* The process may yet publish rule r's alarm for event m.
MayBePublished(m, r) ==
  m \in Range(inbox) \/ (pc = "evaluate" /\ cur = m /\ rule <= r)

\* What was emitted, and what may yet be, takes a fault for every repetition.
RepeatsBounded(m, r) ==
  AlarmCopies(<<m, r>>) + (IF MayBeDelivered(m) THEN 1 ELSE 0)
    + (IF MayBePublished(m, r) THEN 1 ELSE 0) <= 1 + faults

RepeatsAreFaults == \A m \in Msgs, r \in Rules : RepeatsBounded(m, r)
=============================================================================
