# A TLA+ model of the nervous-system alarm pipeline

The repository is an IoT alarm pipeline. Device adapters (C++) put events on
RabbitMQ; a Rust service stores and forwards them; a C++ service evaluates rules
and raises alarms; a Rust service notifies people. This directory holds TLA+
models of the services, the TLC runs that check them on small instances, and
proofs about them for instances of every size.

What the project is about is the sentence in `docs/architecture.md` on which the
design rests: the "broker ensures no dropped events if a service crashes".

## The system

| Component | Source | State it keeps | Operations | Talks to |
|---|---|---|---|---|
| device publishers | `rust/mock-publisher`, `demo-cli` publisher, adapters | AMQP connection | publish to `device.events.raw` | RabbitMQ |
| queue service | `rust/queue/src/main.rs` | connection with two channels, consumer stream, the delivery in hand | decode, insert, republish, ack or nack | RabbitMQ, MongoDB |
| processing service | `cpp/processing/src/main.cpp`, `amqp_publisher.cpp` | consumer connection, publisher connection, declared queues, `g_running` | consume with a timeout, evaluate, publish alarms, ack or nack, graceful stop | RabbitMQ |
| processing engine | `processing_engine.cpp` | rules under a mutex, publisher pointer | `load_rules`, `evaluate`, `set_publisher` | publisher, alarm callback |
| rules loader | `rules_loader.hpp` | none | parse a rules file, all or nothing | file |
| dispatcher | `rust/dispatcher/src/main.rs` | connection, consumer stream, the alarm in hand | webhook, e-mail, ack or nack | RabbitMQ, HTTP, SMTP |
| demo-cli | `rust/demo-cli/src/main.rs` | connection | publish events; consume and print alarms | RabbitMQ |
| polling adapters | `zigbee_adapter.cpp`, `zwave_adapter.cpp` | `running_`, worker thread, client, callback | `start`, `stop`, poll | RabbitMQ, callback |
| HTTP adapter | `http_adapter.cpp` | server thread and request threads, client | `start`, `stop`, `POST /events` | RabbitMQ, callback |
| MQTT adapter | `mqtt_adapter.cpp` | MQTT client, AMQP client | `start`, `stop`, message arrived | MQTT broker, RabbitMQ |
| message types | `rust/common/src/lib.rs` | none | encode, decode | |

The queues `device.events.raw`, `device.events.normalized` and
`alarms.dispatch` are the only way the services interact: durable, with
persistent messages, explicit acks, no dead-letter exchange and no publisher
confirms. Everything hard follows from that: a service does several things for
one delivery (store, forward, notify, ack) and may die, or lose a connection,
between any two of them; frames it has written may or may not have been read;
what is redelivered has been partly handled before.

What makes each component correct:

- *queue service*: a well-formed event is never lost and never acknowledged
  before it is downstream; repeats need failures; order is kept as long as one
  connection consumes at a time; a poison message does not block the queue.
- *processing service*: an event leaves the queue only with its alarms raised; a
  signal stops it, without repeating alarms; a failing rule or a poison message
  does not hold up others.
- *dispatcher*: an alarm leaves the queue only after every configured channel
  was tried; repeats need failures; a failing channel does not block the queue.
- *processing engine*: an event is evaluated against one rule set, and each
  condition means what the documentation says.
- *adapters*: an event that is accepted is published while the adapter runs;
  `stop` ends every thread and nothing uses a client after it is gone.
- *the whole*: an event that a device has published is, at any moment, in a queue
  or in the hands of a service that has not acknowledged it, until everybody was
  notified whom it concerns.

## Modules

| Module | What it models |
|---|---|
| `AtLeastOnceRelay` | the promise of a pipeline stage: an input is settled only after all it owes was emitted |
| `QueueService` | the Rust queue service, several instances |
| `QueueServiceProofs` | TLAPS proofs about `QueueService` |
| `ProcessingService` | the C++ processing service with its two connections |
| `Dispatcher` | the consumers of `alarms.dispatch`: dispatchers and demo-cli |
| `Pipeline` | the three services in a row, with every copy of a message followed to its notification |
| `PipelineProofs` | TLAPS proofs about `Pipeline` |
| `DispatcherProofs` | TLAPS proofs about `Dispatcher` |
| `ProcessingServiceProofs` | TLAPS proofs about `ProcessingService` |
| `JsonRules` | JSON values, and loading a rule |
| `RuleMatching` | matching a rule against an event, with a declarative meaning of conditions |
| `ProcessingEngine` | `ProcessingEngineImpl` used by several threads, whatever its rules decide |
| `ProcessingEngineProofs` | TLAPS proofs about `ProcessingEngine` |
| `PollingAdapter` | the Zigbee and Z-Wave adapters: controllers, worker thread, mutexes, condition variable, client |
| `HttpAdapter` | the HTTP adapter: controllers, listening thread, request threads and the client they share |
| `MqttAdapter` | the MQTT adapter: controllers, the MQTT library's thread, both clients |
| `PollingAdapterProofs`, `HttpAdapterProofs`, `MqttAdapterProofs` | TLAPS proofs about the adapters |
| `MC...` | constants for TLC, one module for each module that is run |

Conventions the three services share:

- A message is its position on the inbound queue. The set of ready messages has
  its least element as head, so a requeued message regains its place, as
  RabbitMQ puts it back.
- `wire` is what a process has written on a connection and the broker has not
  read. It is FIFO, survives the death of the process, and is lost with the
  connection. That is the whole effect of unconfirmed publishes.
- An instance, a consumer or a process (`QueueService`, `Dispatcher`, `Pipeline`) is
  the name of one run: a process and its connection. `Start` takes a name that is
  free, one whose process is gone and of whose connection the broker holds nothing.
  No program waits for that. One that is started while the broker still holds its
  predecessor's half-open connection is a start under another name, and competes
  with what is left of the first.
- `pc` names the await point (Rust) or the statement (C++) a process is at. Each
  action is one such step with all its effects; a crash may come between any two.
- Messages that do not decode are a constant set, and what a rule decides of an
  event is a constant table: contents are data the properties do not need.
- `faults` counts crashes and lost connections and is bounded in the guards of
  the fault actions. A count of what failed is also what the properties about
  repetition are stated with.

### QueueService

`TakeDelivery`, `InsertDocument`, `ForwardEvent`, `AckDelivery` and
`NackDelivery` are the steps of the loop in `main`. `InsertDocument` may store
the document, fail without storing it, or fail after storing it; in each case
the code goes on. `ForwardEvent`, `AckDelivery` and `NackDelivery` write a
frame; on a dead connection the frame is lost or `?` ends `main`. `StreamEnds`
is the consumer stream ending. Each instance has one connection: publishes and
acks go out on different channels of it, and it is this that keeps an ack
behind its publish (`AcksFollowPublishes`).

### ProcessingService

One thread, two connections. `EvaluateRule` is one turn of the loop in
`evaluate`, with three outcomes per rule: no match, a match that is published at
once, or an exception. `PublishAlarm` writes the alarm, or loses it silently on
a dead connection; `PublishThrows` is the other outcome there. `declared` is the
first-use declaration, a round trip that cannot succeed on a dead connection.
`Settle` ignores the result of ack and nack, as the code does. `CloseConsumer`
and `ClosePublisher` are the round trips of the graceful shutdown, which wait
for the broker to have read everything before.

Heartbeats are off (`main.cpp:82`) and no round trip has a timeout. With `SilentLoss`
a connection may be lost without the process being told: it is then in `unseen`, and
until the loss shows (`LossShows`), which it need not, the consumer's looks idle,
what is written is swallowed, and a close or a declaration waits. `Unanswered` says
that the process is in such a wait, and `StopsWhenAsked` that a signal ends the
process unless it is in one for good. There is one process at a time, and its
connections are gone when the next starts; services beside half-open connections of
their predecessors are in `Pipeline`.

When a process dies, deliveries it had not read make its kernel reset the
consumer's connection, which may cost the acks behind it
(`NoticeConsumerGone`); the publisher's connection, on which the broker sends
nothing after the declaration, is closed in order (`NoticePublisherGone` waits
for `pubWire`). A publisher connection lost with its frames is `LosePublisher`.

### Dispatcher

The configuration (`Config::from_env`) is chosen once, in `Init`: the channels
and whether the e-mail addresses parse. `NextStage` is the order of stages in
`dispatch_alarm`: webhook if configured, e-mail if configured, ack. A webhook
attempt (`PostWebhook`) ends with any answer or error, if it ends: the HTTP
client has no timeout, so an endpoint that does not answer is a `PostWebhook`
that is never taken. An e-mail attempt ends either way, or, if the addresses do
not parse, in a panic that ends `main`. `Viewers` are demo-cli processes, which
print and ack. `attempts` counts up to `MaxAttempts`, above what
`RepeatsNeedFaults` allows: with a panicking e-mail channel the webhook is
posted again by every new process, without end.

### RuleMatching

The functions of `processing_engine.cpp` under their own names
(`resolve_json_path`, `compare_json_operator`, `condition_matches`, ...) over
typed JSON values; `evaluate_rule` is the `Verdict` that `ProcessingEngine` and
`ProcessingService` take as a constant.
An exception is a third result, which the loops over `$all` and `$any` reach
only if nothing decided before. Strings are their rank, numbers are small
integers (a comparison goes through `double` in the code, which is exact for
these). `Loads` and `Loaded`, in `JsonRules`, are one entry of `RulesLoader`.

`Holds` is the meaning a condition is checked against, written without the
evaluator: `Paths` is the set of all paths into a value, a pattern is a set of
demands at paths, and combinators are quantifiers. It has a meaning only for
`Proper` conditions. What the code does with the others is in the model: a
combinator hides the keys next to it, an object with one `$` key is read as
operators altogether, also if it is the key of no operator (`NoOperator`), which no
value satisfies, and a sub-condition that is not an object throws. The
module is operators only; TLC's run of `ProcessingEngine` uses them, and there
`RulesMeanWhatTheySay` compares the two readings of every rule that is evaluated.

### ProcessingEngine

Each thread has a program, a sequence of calls: `Load` (a rules file through
`RulesLoader` and `load_rules`), `evaluate`, `SetPublisher`. `evaluate` is
`LockRules`, then for each rule `EvaluateRule`, `RunCallback`, `TestPublisher`,
`Publish`, `PublishReturn`; every way out of it is `EndEvaluation`, since the
lock is a guard object. `set_publisher` takes no lock, so it may fall between the
test of the pointer and its use, or replace, and so destroy, a publisher in
use; the assignment of the pointer itself is taken as one step. `crash` records
either. A callback that calls the engine has no step: it waits for its own lock.

What a rule decides of an event is the constant operator `Verdict`. It is given
the value `evaluate_rule` of `RuleMatching` for TLC, and the proofs hold for
whatever it is: matching is recursive, which the prover cannot take, and the
concurrency of the engine does not depend on it.

`file`, `inForce` and `replaced` are history: the rules as the file of the last load
had them, which of those were in force since a thread's call began, and whether
the publisher was replaced while somebody evaluated. `AlarmsOfOneRuleSet` is
stated with the first two, `PublisherSafe` with the third.

### PollingAdapter

`start` is `StartConnect`, `StartSetRunning`, `StartSpawn`; `stop` is
`StopClear`, `StopNotify`, `StopJoin`, `StopReset`; the worker's actions are the
statements of `run_loop`. Any number of controllers call them concurrently. A
mutex is held at the statements of its guard's scope. `wait_for` is
`WorkerTest` (the predicate), `WorkerWait` (unlock and wait), `WorkerWake`
(the interval, or spuriously) or `StopNotify`, and `WorkerRelock`.

`crash` is how the process may die: `joinable` (a `std::thread` that was not
joined is assigned to or destroyed), `freed` (the worker uses a client that was
reset), `uncaught` (a publish throws in the worker). The code does not prevent
the first two when a `start` and a `stop` of two threads overlap: a `stop`
between clearing `running_` and `join` lets `start` through, and a `stop` after
`join` resets the client of the next `start`. `overlapped` records that, and the
properties say that nothing else leads there. The third needs only a lost
connection.

### HttpAdapter

`start` is `StartConnect`, `StartServer`, `StartSpawn` under `callback_mutex_`;
`stop`, which takes no lock, is `StopTest` to `StopResetServer`, and is also
called by the callback of a request (`Callbacks`: `stops`). A request is
`Accept`, `CopyCallback`, `RunCallback`, `TestClient`, `DeclareQueue`,
`BasicPublish`. The checks of its body end it with a 400 before it touches
anything that is shared, so a bad request is no step.

The request threads use one AMQP client without a lock. What comes of that is
undefined: `MisuseClient` kills the process or the connection, or has the other
thread read the reply to this one's declaration, for which this one then waits
(`starved`) with the connection up: until a later request's reply comes its way
(`TakeReply`, which nothing obliges), the connection is closed, or for ever.
`MisuseClient` also is what a request does in a client that `stop` has destroyed.
`RequestsAndStopsEnd` excuses such a wait only if it, or another that the code has no
answer to, is there for good (`[]Excused`). `LossIsBounded` is about the
200 that is answered although the publish failed: `declare_queue` before each
publish is a round trip, which is what keeps a dead connection from swallowing
event after event. `premature` marks the `stop` that comes between the start of
the server's thread and `listen`, for which the thread then listens for ever.

### MqttAdapter

`start` and `stop` hold `callback_mutex_` from beginning to end, and wait for the
broker meanwhile: `StartConnect`, `StartSubscribe`, `StartSubscribed`,
`StartClient`; `StopDisconnect`, `StopReset`. `inbox` is what the broker has
sent, in order: answers, and messages of four kinds: text that is not JSON, which is
wrapped (`mqtt_adapter.cpp:211`); a `mangled` text, not UTF-8 either, which is wrapped
as well and makes `dump()` throw when it is published (line 94); a usable object; and
JSON that makes `value()` throw. `lib` is the library's
thread, which reads one item at a time, ends the waits of `start`, and runs
`handle_mqtt_message`; a message is acknowledged to the broker when that returns.

The model shows how the mutex can stop the adapter for good: a message that the
broker sends between the subscription and its SUBACK waits for the mutex that
`start` holds, on the thread that would have to read the SUBACK (`overtook`).
`late` marks a message that is still being handled when its client is destroyed.
`CallsReturn` and `AckedIsPublished` say that nothing else does the like.

### Pipeline

The services at the grain that matters between them: a process takes a
delivery, emits what it owes for it, one output at a time, and acks. Queues and
what is on the wire are bags, since no property is about order, and every copy of
a message is followed: `QueueService`, `ProcessingService` and `Dispatcher` treat
a message of their inbound queue as one, here a copy that an earlier service has
duplicated is evaluated and notified like the original. `Outputs` is what a
service owes: of a dispatcher nothing for an alarm that is `Undecodable`, which it
nacks. The dispatchers' addresses parse or not (`addressesParse`, chosen in `Init`);
if not, `DispatchPanics` ends the process at each alarm. `Exit` is `main` returning
because the consumer's connection is lost. The Rust services come to that; the
processing service need not, since it takes the timeouts of a connection that died
silently for a quiet queue (`main.cpp:125`), and so `GoesOn`, which is fair, leaves
its `Exit` out. A publish of the queue service is routed in one step
(`ForwardEvent`), because it precedes the ack on the same connection; an alarm
goes through `wire`, on a connection of its own. `NoEventDropped` follows an event
through the queues (`EventSafe`, `EvaluationSafe`, `AlarmSafe`), and
`ImplementsRelay` states the promise of `AtLeastOnceRelay` for the pipeline as a
whole. The latter holds with one processing service: of two, one that lost its
connection may still raise alarms for an event that the other has settled.
`NoEventDropped` holds, and is proved, for any number.

## Runs

| Run | Instance | Shows |
|---|---|---|
| `queue_pair` | 2 instances, 3 messages (one malformed), 1 fault, fair | `TypeOK`; `NoEventLost`; the service implements `AtLeastOnceRelay`; `EventuallySettled` |
| `queue_order` | 2 instances, 3 messages (one malformed), 2 faults | `DuplicatesNeedFaults`; `FirstCopiesInOrder` |
| `queue_persisted` | 1 instance, no faults | **violated**: `docs/flow.md:89` says an acknowledged event is in MongoDB |
| `processing_faults` | 3 messages, 3 rules, 1 signal, 2 faults, 1 lost publisher, losses that show or do not, fair | `TypeOK`; `NoAlarmLost`; `DuplicatesNeedFaults`; `StopsWhenAsked`; the service implements `AtLeastOnceRelay`; `EventuallyHandled` |
| `processing_bounce` | 1 message, 1 lost publisher | **violated**: alarms in flight do not survive (`amqp_publisher.hpp:33`) |
| `dispatcher_configs` | 1 dispatcher in 5 configurations and 1 demo-cli, 3 messages, 1 fault, fair | `TypeOK`; `NoAlarmUnnoticed`; `RepeatsNeedFaults`; the consumers implement `AtLeastOnceRelay`; `QueueBlockedByPanicOnly` |
| `dispatcher_address` | e-mail with an unparsable address, fair | **violated**: "must not block the queue" (dispatcher `main.rs:113`) |
| `polling_adapter` | 2 controllers, 2 starts, every kind of callback, 1 lost connection, fair | `TypeOK`; `CrashNeedsOverlap`; `RunningOrStopped`; `StopReturns` |
| `processing_engine` | 1 thread with 94 events and 285 rules; 3 threads with two rule files, a file that does not load, two publishers, fair | `TypeOK`; `AlarmsOfOneRuleSet`; `PublisherSafe`; `RulesMeanWhatTheySay`; `CallsReturn` |
| `http_adapter` | 2 threads that start, 1 of which stops, 2 requests at a time, 2 starts, 1 lost connection, fair | `TypeOK`; `CrashNeedsOverlap`; `RunningOrStopped`; `LossIsBounded`; `RequestsAndStopsEnd` |
| `mqtt_adapter` | 2 controllers, 2 MQTT clients, 2 items from the broker at a time, 1 lost connection of either kind, fair | `TypeOK`; `CrashNeedsCause`; `AckedIsPublished`; `CallsReturn` |
| `pipeline` | 1 process of each service, 1 event of three kinds (an alarm that decodes, one that does not, malformed), addresses that parse or not, 2 faults, fair | `TypeOK`; `NoEventDropped`; `RepeatsMultiplyAtMost`; the pipeline implements `AtLeastOnceRelay`; `EventuallyNotified` |

The bounds. Three messages give a head, a poison message in the middle and one
behind it. Two instances compete and redeliver to each other; in `queue_order` they
also take turns, which is what `FirstCopiesInOrder` is about, with room for a failure
during the recovery from a failure. The rule table has an event with two
matches around a rule that does not match, one with a throw between two matches,
and one that is not JSON. A prefetch window of two is smaller than the queue.
Every configuration of the dispatcher with at least one channel is an initial
state of `dispatcher_configs`. Two starts let a start meet what an earlier one
left. The rules are every operator and combinator with arguments of right and
wrong type, nested once; the three threads share one event that two rules of the
old file match, in the other order in the new. Two requests are what it takes to
meet in the client, and to have one under way while the other stops the adapter.
Two items in an MQTT inbox are a message and the SUBACK it overtakes. Two faults
in the pipeline are enough for a copy of a copy, and for a fault during the
recovery from another. One event is published there (`MaxPublished`), of any kind, and
followed with all its copies: a process has one message in hand, but no step for one
message depends on another being in a queue; several messages in one queue
are what the services' own runs have, and the proofs about `Pipeline` are for any
number. Deadlock checking is off where the system rests
once every message is settled and the faults are spent; the processing service
polls, so its runs check it.

What the runs show of the documents:

- `queue_persisted`. A failed insert is logged and the event is forwarded and
  acknowledged. The model also has the insert that fails after it took effect.
- `processing_bounce`. The alarm is written and not yet read when the
  publisher's connection goes; the ack travels on the other connection. The same
  loss has a second effect that `NoAlarmLost` excludes (`pubFaults = 0`): when
  the publish throws, `main.cpp:152` nacks the event without requeueing, and
  since the connection is never opened again so is every later event with an
  alarm, although the comment at `main.cpp:149` is about malformed events.
- `dispatcher_address`. The alarm at the head kills each process that takes it.
  `QueueBlockedByPanicOnly` shows that this is the only way to block the queue
  as long as the webhook endpoint answers.
- `http_adapter` and `mqtt_adapter` pass, and their properties name what the code
  leaves open: two requests in one client, of which one may wait for ever for a reply
  the other has read; a `stop` before `listen`; a callback that calls `stop`; an MQTT
  message that ends the process, because its JSON has a wrong shape or its text is not
  UTF-8; a failed start that stays subscribed and acknowledges what it publishes
  nowhere; and the message that overtakes the SUBACK. The documents promise nothing of these, so
  they are hazards here and not findings.
- demo-cli consumes `alarms.dispatch` itself, so an alarm of the demo in
  `README.md:89` is printed by demo-cli or posted to the listener, not both;
  `NoAlarmUnnoticed` is stated accordingly.

## Fairness

Weak fairness for what the broker does (delivering, reading frames, noticing a
dead client) and for the steps of a running process: they are always enabled
until taken and nothing in the code postpones them. Delivery is fair for the
queue, not for each consumer: RabbitMQ owes no particular consumer a message.
Starting again is fair because `specs/zigbee_pi_deployment.md` and the scripts
assume a supervisor; no program reconnects or restarts by itself. In `QueueService`
that is an obligation only when no process is left, which keeps `EventuallySettled`
from relying on a second one. That a silent loss shows (`LossShows`) is not fair, nor
is the processing service's `Exit` in `Pipeline`: `EventuallyHandled` and
`EventuallyNotified` have as a premise that the service is not cut off for good. In
`Pipeline` one weak fairness is enough, of somebody doing one of the steps above:
with dispatchers that do not panic those steps run out when everything is notified.
Neither does anything oblige `TakeReply` of the HTTP adapter. `PostWebhook`
is fair by assumption: the code has nothing that ends a post to an endpoint
that does not answer. A demo-cli is never obliged to start. The adapter's
threads are strongly fair, so that no thread is passed over for ever when a
mutex is handed on (`worker_mutex_` is free for a whole interval in each turn of
the loop); the end of the interval is not fair, so that `StopReturns` shows that
`stop` relies on its notification and not on the interval. The engine's and the
MQTT adapter's threads are strongly fair for the same reason, while the HTTP
adapter's need only weak fairness: nobody waits for a mutex that is taken again
and again. An MQTT broker answers a subscribe, and owes no message. Nobody is
obliged to call or to send a request. Publishing, signals and faults are never
fair.

## Proofs

Each theorem holds for every value of the constants that satisfies the assumption
its component's module states (`QueueServiceAssumption` and so on): bounds are
naturals, constants have their types, different kinds of things are different. No
assumption bounds the number of processes, threads, messages or faults. Only
`HttpAdapterAssumption` has something finite in it, the pool of request threads,
which `httplib` fixes when the server is made.

| Module | Theorem | States |
|---|---|---|
| `QueueServiceProofs` | `TypeCorrect` | `[]TypeOK` |
| | `DeliveryInvHolds`, `NoEventIsLost` | `[]DeliveryInv`, `[]NoEventLost` |
| | `RelayImplemented` | `ImplementsRelay` |
| | `RepeatsNeedFaults` | `[]DuplicatesNeedFaults` |
| | `UnsharedQueueInOrder` | `FirstCopiesInOrder`: `[]OneConnection => []CopiesInOrder` |
| `ProcessingServiceProofs` | `TypeCorrect` | `[]TypeOK` |
| | `NoAlarmIsLost` | `[]NoAlarmLost` |
| | `RelayImplemented` | `ImplementsRelay` |
| | `RepeatsNeedFaults` | `[]DuplicatesNeedFaults` |
| `DispatcherProofs` | `TypeCorrect` | `[]TypeOK` |
| | `NoAlarmGoesUnnoticed` | `[]NoAlarmUnnoticed` |
| | `RelayImplemented` | `ImplementsRelay`, if every configuration has a channel |
| | `OnlyFaultsRepeat` | `[]RepeatsNeedFaults` |
| `PipelineProofs` | `TypeCorrect` | `[]TypeOK` |
| | `NoEventIsDropped` | `[]NoEventDropped` |
| | `RepeatsMultiply` | `[]RepeatsMultiplyAtMost` |
| | `RelayImplemented` | `ImplementsRelay`, if there is one processing service |
| `ProcessingEngineProofs` | `TypeCorrect`, `AlarmsFromOneRuleSet` | `[]TypeOK`, `[]AlarmsOfOneRuleSet` |
| | `PublisherIsSafe` | `[]PublisherSafe` |
| `PollingAdapterProofs` | `TypeCorrect`, `CrashesNeedOverlap`, `RunsOrIsStopped` | `[]TypeOK`, `[]CrashNeedsOverlap`, `[]RunningOrStopped` |
| `HttpAdapterProofs` | the same three, and `LossesAreBounded` | the same, and `[]LossIsBounded` |
| `MqttAdapterProofs` | `TypeCorrect`, `CrashesHaveCauses` | `[]TypeOK`, `[]CrashNeedsCause` |
| | `AcksArePublished` | `AckedIsPublished`, an action property |

The invariants the proofs need stand at the end of each component's module, and were
checked with TLC before they were proved.

### Nothing is lost

`QueueService`. `NoEventLost` is not inductive: it does not say why an event whose
ack was read is downstream. `DeliveryInv` does. `Accounted` says that every
published message is ready, delivered, done or dropped. `ConnectionInOrder(i)` says
that on instance i's connection each ack has its publish before it, or its event
already downstream; that nacks are for malformed messages; that a dead connection
carries nothing; and that an instance about to ack on a live connection has written
its publish there. A step touches one connection: `OthersInOrder` takes care of the
rest, `SendInOrder` of writing a frame, `BrokerReceiveInOrder` of reading one, where
an ack that reaches the head has no publish left before it and so finds its event
routed. A lost connection loses all its frames, so it cannot lose a publish and keep
the ack.

`ProcessingService`. The ack travels on another connection than the alarms, so
`AlarmInv` speaks of what was emitted: as long as the publisher's connection holds,
what is settled, or about to be, has its alarms emitted, and so has the event in hand
up to the rule it is at (`EmittedBeforeSettled`). `HoldInv` is what that takes of the
consumer's side: an event is in one place only, and what is on a live connection is
unsettled.

`Dispatcher`. In `NoticeInv` a message is on the queue, unsettled or settled
(`Accounted`); what is acked, and what a wire carries an ack for, was noticed
(`SettledIsNoticed`); and a consumer reaches its ack only past the notifications that
it owes (`HandIsOnItsWay`). A notification is never taken back (`NoticesStay`), so a
step has only its own consumer to look after.

`Pipeline`. `TypeOK` is more than types here: `Settlements` counts, for each process
and message, that what it holds and has acked is covered by what the broker waits
for. What `NoEventDropped` lacks is `AckedIsDone`: the outputs of what a process has
acked, and those it has emitted for what it has in hand, are in safe hands. The
argument goes from the end of the pipeline to its beginning. `QueueKeeps`: a message
leaves a queue only by an ack. So an alarm that is safe stays so (`AlarmStays`: if it
left by an ack, `AckedIsDone` says that it was dispatched; and a dispatcher that
panics has acked nothing); hence so does an
evaluation (`EvaluationStays`), and an event (`EventStays`). `EmittedIsSafe` is what
a step adds, and `NewAck` and `NewOutput` say that only the owner of a message in hand
acks and emits for it.

### The relay

That each step of a service is one of `AtLeastOnceRelay`'s, or a stutter, takes
`HolderInv` (`HoldInv` in `ProcessingService`) beside the invariants above: a message
is ready or unsettled with one process, and what a live connection carries, what its
process has in hand and what waits in its stream are different unsettled deliveries.
So reading an ack settles a message that is pending, once. In the queue service
`InTurn` adds that a connection carries the publish of a message at most once and
before its ack. A process whose connection is lost may still emit for a message
that another has settled by then; where that reaches anybody (the dispatcher), it is
a stuttering step, since what is settled was emitted before (`TellingEmits`).

For `Pipeline` the relay's inputs are events and its outputs the alarms that decode, so a step
of it has to be seen across three services. An event is pending while it, or an
alarm it calls for, is in a queue. `FromEvents` says that whatever is anywhere in
the pipeline belongs to a published event, so that a notification is one that the
event owed. `HeldIsSafe` is why the event it belongs to is still pending then: what
a process holds for a lost connection is in the pipeline besides. It is where the
assumption is needed: with one processing service the event that it evaluates
cannot have been acked by another. From these, `NothingReturns` says that what has
left does not come back, and `LeavesPipelineByAck` that it leaves only by the ack of
the event or of an alarm of it. So a step either publishes an event, notifies of an
alarm for the first time, settles an event by its last ack (`PublishAccepts`,
`DispatchEmits`, `AckSettles`), or stutters (`OthersStutter`). What is settled has
all its alarms notified, which is `NoEventDropped`.

The dispatcher's theorem is for configurations with a channel. Without one the code
acks what nobody was told of, and `ImplementsRelay`, which asks that nothing is
emitted at first, says nothing of it.

### Repetition takes faults

The bound of `DuplicatesNeedFaults` and `RepeatsNeedFaults` is 1 + `faults`, and the
invariant says what is left of it: what was emitted, plus those that may yet emit for
the message, plus one if it may come up again, is at most 1 + `faults`
(`RepeatsAreFaults`, in `Dispatcher` `RepeatsInv`). An emission turns one of those
that may into one that has; a delivery turns the message that may come up into
a process that may emit; and only a fault takes a message back from a process that
may have emitted for it already. A process that is down gives back what it left
without a further fault, and the broker's noticing adds nothing: hence the cases for
a process that is down in `MayBeForwarded`, `MayBeDelivered` and `ComesUp`. Those that may
emit are counted by a cardinality, and stay finitely many because a step adds one at
most.

In `Pipeline`, where faults of one service multiply the work of the next,
`StageBounded` says of one queue, one message and one output of it: of `entered`
copies as many at most are there, and what was emitted plus what is still to be is
at most `entered` times 1 + the faults of that service. `StageStep` is the
arithmetic: a step that is no fault moves copies about (`DeliverMoves`, ...,
`DispatchMoves`, one lemma for each action), and a fault makes at most everything that is there
to be done again. What a stage emits is what enters the next (`NextGoes`), so three
stages multiply to the product of `RepeatsMultiplyAtMost`. That is stated for
addresses that parse: a dispatcher that panics repeats a webhook without any fault. The numbers of all
processes are added up as the cardinality of a set of pairs (`Total`), and
`TotalChanges` says that a step of one process changes the sum by what it changes
there, whether or not there are finitely many processes.

### Order

`FirstCopiesInOrder` is about behaviours in which the broker holds one connection of
the service at a time. `main.rs` does not see to that: a process that is started
beside a half-open connection is served what is behind the deliveries still out there,
and forwards that first. The theorem is for any number of instances, so for restarts
under any name. `OrderInv` says of the one that is connected: what it was delivered
comes before what is ready (`DeliveredInOrder`); on the wire no publish goes ahead of
that of an earlier event (`WireInOrder`); and deliveries are taken in order, each event
forwarded before the next is taken (`TakenInOrder`). A lost connection takes all
publishes that were not routed, and puts all unsettled messages back in their places,
so the next process begins no later than at the first event that was not routed.

### The adapters

`CallsApart` is the same idea in `PollingAdapter` and `HttpAdapter`: as long as no
calls overlapped that must not, at most one thread is midway through a `start` or
a `stop`, and no `start` meets a `stop`. Under it, `Stage` says what the members are
at each step of a call, `OneThread` (`OneServer`) that only the newest thread lives and
only while the member holds it, `OneClient` that a request is in the client the members
hold, and `WholeBetween` that with nobody midway all is running or all is stopped.
Each step of a `start` or a `stop` takes one stage to the next, and no crash is
enabled in any of them.

`LossIsBounded` follows from `LossesToCome`: once the connection is lost no request
gets to its write, because `declare_queue` fails before, so what was lost and the
requests that are at their write are no more than the pool.

In `MqttAdapter` a mutex keeps the calls apart, and the trouble comes from the
library's thread: `SessionHeld` says that the broker sends only to a client that the
members hold, `HandlerInStep` that a handler works for that client and with the
AMQP client that the members hold, unless the MQTT client was destroyed meanwhile
(`late`), and that past its copy of the callback no `start` has begun.

### The engine

`RulesAreLoaded` says that the rules are those of the last file that was loaded, whole,
and that this file has been in force in every call that is under way. `SoFar` is the
progress of an evaluation: it has raised the alarms of the rules before the one it
is at, and of that one once it was found to match (`AlarmsOf` is stated by a strictly
increasing map from alarms to rules, so order and number are in it). The mutex is why
it is kept: `TypeOK` says that it is held exactly by a thread in `evaluate`, so while
one is there nobody else changes the rules or the index (`OthersSoFar`).
`SkippedRule` and `MatchingRule` are one turn of the loop. An evaluation that ends
(`EvaluationEnds`) has its file as the witness for `AlarmsOfOneRuleSet`, and what was
in force in a call stays so (`InForceGrows`). `PublisherHeld` has the lock keep the
publisher to one thread, and as long as `set_publisher` stays out of evaluations,
to which nothing in the code obliges it, the pointer that was tested is the one that is used.

### Model-checked only

Liveness, which is out of the prover's reach: `ENABLED` and fairness. And what
`RuleMatching` computes (`RulesMeanWhatTheySay`): conditions nest, so matching is
recursive, and the prover takes no module with recursive operators; a proof would
also be by induction over data, which it cannot do.

## Plan

1. `QueueService`, its checks and the proof that no event is lost. *Done.*
2. `ProcessingService` and `Dispatcher` with their refinements. *Done.*
3. `RuleMatching` and `PollingAdapter`. *Done.*
4. `ProcessingEngine`: `load_rules`, `evaluate` and `set_publisher` from several
   threads, the callback under the lock. *Done.*
5. `HttpAdapter` and `MqttAdapter`. *Done.*
6. `Pipeline`: the three services in a row, and the proof that no event is
   dropped. *Done.*
7. `DispatcherProofs`: that no alarm goes unnoticed, and the refinement. *Done.*
8. The invariants of `ProcessingService` and the adapters, what repeats and in which
   order, and the refinements of the services. *Done.*
9. The refinement of `Pipeline`, for one processing service, and the invariants of
   `ProcessingEngine`. *Done.*
10. Wire formats: what C++ writes against what Rust accepts.

## Not modelled

- Contents of messages and documents beyond what rules match on, logging, build
  and deployment files. Redis, PostgreSQL and Temporal run in the compose file but
  no program uses them. The webhook listener keeps no state, and the publisher
  stub does nothing.
- Wire formats. Which messages a service can decode is a constant. That an
  `alarm_type` of the rules file may be one the dispatcher cannot decode is
  `Undecodable` in `Dispatcher` and `Pipeline` (`security` of
  `cpp/processing/README.md:175` and `thermal` of `cpp/processing/QUICK_REFERENCE.md:230`
  are of that kind); the words themselves are not modelled.
- Starts of the services that fail half way: they change no state a property sees.
- The broker is assumed to keep what it has: durable queues and persistent
  messages. A broker restart that loses what was not yet on disk is left out.
- Libraries are modelled from how the code uses them. Of httplib (0.12.6, fetched
  by the build) it is assumed that `stop` has no effect before `listen`, and that
  `listen` returns when its socket is closed and the requests are answered. Of Paho
  it is assumed that one thread reads the connection and runs `message_arrived`,
  that `disconnect` completes without that thread, and that a message is
  acknowledged when `message_arrived` returns. rabbitmq-c is assumed not to
  notice a connection that dies silently while it waits for an answer (no
  heartbeats are negotiated).
- Callbacks of the MQTT adapter return. One that throws ends the process as an odd
  message does, and one that calls `stop` destroys the client whose thread it runs
  on.
