----------------------------- MODULE MqttAdapter -----------------------------
(***************************************************************************)
(* MqttAdapter (cpp/adapters/src/mqtt_adapter.cpp): it subscribes to a      *)
(* topic of an MQTT broker and publishes each message it receives on        *)
(* device.events.raw.                                                       *)
(*                                                                         *)
(* Controllers are the threads that call start, stop and the destructor;   *)
(* both start and stop hold callback_mutex_ from beginning to end, and wait *)
(* for the broker meanwhile.  What the broker sends is read by one thread   *)
(* of the MQTT library, which ends those waits and also runs                *)
(* message_arrived; a message is acknowledged when message_arrived returns. *)
(* The n-th start that reaches the broker makes MQTT client n and AMQP      *)
(* client n.                                                               *)
(***************************************************************************)
EXTENDS Naturals, Sequences, Functions

CONSTANTS
  Controllers,  \* the threads that control the adapter
  MaxStarts,    \* bound: MQTT clients made
  MaxInbox,     \* bound: what the broker sent and the library did not read
  MaxFaults     \* bound: lost AMQP and MQTT connections

ASSUME MqttAdapterAssumption == {MaxStarts, MaxInbox, MaxFaults} \subseteq Nat

VARIABLES
  adapter,   \* the members: running, on_event (whether there is one), mqtt, client
  starts,    \* MQTT clients made
  pc,        \* pc[c]: where controller c is
  session,   \* the MQTT session of the adapter's client
  inbox,     \* what the broker sent
  lib,       \* the library's thread: at which step, with which message, of which
             \* MQTT client, in which AMQP client
  conn,      \* the connection of the AMQP client
  dying,     \* the destructor was called
  crash,     \* how the process died, if it did
  overtook,  \* a message was read before the SUBACK that start waits for
  late,      \* the MQTT client was destroyed while this message was being handled
  lost,      \* the last message acknowledged was not written
  faults

history == <<overtook, late, lost>>
vars == <<adapter, starts, pc, session, inbox, lib, conn, dying, crash, history, faults>>

None     == 0
Messages == {"text", "mangled", "object", "odd"}
Resting  == [at |-> "idle", msg |-> "none", mqtt |-> None, client |-> None]

Init ==
  /\ adapter = [running |-> FALSE, on_event |-> FALSE, mqtt |-> None, client |-> None]
  /\ starts = 0
  /\ pc = [c \in Controllers |-> "idle"]
  /\ session = "closed"
  /\ inbox = <<>>
  /\ lib = Resting
  /\ conn = "up"
  /\ dying = FALSE
  /\ crash = "no"
  /\ overtook = FALSE /\ late = FALSE /\ lost = FALSE
  /\ faults = 0

Goto(c, step) == pc' = [pc EXCEPT ![c] = step]

\* No mutex at all.
CallbackMutexMissing == TRUE

\* A start that unlocks before it connects to RabbitMQ.
CallbackMutexFreeEarly ==
  \A c \in Controllers : pc[c] \notin {"connect", "subscribe", "reset"}

CallbackMutexFree ==
  \A c \in Controllers : pc[c] \notin {"connect", "subscribe", "amqp", "reset"}

\* The library's thread is in message_arrived.
Handling == lib.at # "idle"

-----------------------------------------------------------------------------
(* Calls.  Nobody calls an adapter that is destroyed.                       *)

Call(c, step) ==
  /\ pc[c] = "idle"
  /\ ~dying
  /\ Goto(c, step)
  /\ UNCHANGED <<adapter, starts, session, inbox, lib, conn, crash, history, faults>>

CallStart(c) == Call(c, "start") /\ UNCHANGED dying

CallStop(c) == Call(c, "stop") /\ UNCHANGED dying

\* ~MqttAdapter calls stop.
CallDestructor(c) ==
  /\ \A d \in Controllers : pc[d] = "idle"
  /\ Call(c, "stop")
  /\ dying' = TRUE

-----------------------------------------------------------------------------
(* start, with callback_mutex_ locked.  A step of it that throws leaves what *)
(* the steps before it have done.                                            *)

\* An adapter that runs is left alone; otherwise the callback is stored and a new
\* MQTT client, which sends a connect, takes the place of any that is left over.
\* Its constructor may throw.
StartConnect(c) ==
  /\ pc[c] = "start"
  /\ CallbackMutexFree
  /\ \/ /\ adapter.running
        /\ Goto(c, "idle")
        /\ UNCHANGED <<adapter, starts, session, inbox, late, overtook>>
     \/ /\ ~adapter.running
        /\ \E b \in BOOLEAN :
             \/ /\ adapter' = [adapter EXCEPT !.on_event = b]
                /\ Goto(c, "idle")
                /\ UNCHANGED <<starts, session, inbox, late, overtook>>
             \/ /\ starts < MaxStarts
                /\ starts' = starts + 1
                /\ adapter' = [adapter EXCEPT !.on_event = b, !.mqtt = starts + 1]
                /\ late' = (late \/ (Handling /\ adapter.mqtt # None))
                /\ session' = "connecting"
                /\ inbox' = <<"connack">>
                /\ overtook' = FALSE
                /\ Goto(c, "connect")
  /\ UNCHANGED <<lib, conn, dying, crash, lost, faults>>

\* The wait for the connection is over: it is there and subscribe is sent, or it
\* failed.  Once it has the subscribe the broker sends a SUBACK, and messages.
StartSubscribe(c) ==
  /\ pc[c] = "connect"
  /\ \/ /\ session = "connected"
        /\ session' = "subscribing"
        /\ Goto(c, "subscribe")
     \/ /\ session = "closed"
        /\ Goto(c, "idle")
        /\ UNCHANGED session
  /\ UNCHANGED <<adapter, starts, inbox, lib, conn, dying, crash, history, faults>>

\* The wait for the subscription is over.
StartSubscribed(c) ==
  /\ pc[c] = "subscribe"
  /\ \/ session = "subscribed" /\ Goto(c, "amqp")
     \/ session = "closed" /\ Goto(c, "idle")
  /\ UNCHANGED <<adapter, starts, session, inbox, lib, conn, dying, crash, history, faults>>

\* running_ set before the client connects.
StartClientRunning(c) ==
  /\ pc[c] = "amqp"
  /\ \/ /\ adapter' = [adapter EXCEPT !.client = starts, !.running = TRUE]
        /\ conn' = "up"
     \/ /\ adapter' = [adapter EXCEPT !.running = TRUE]
        /\ UNCHANGED conn
  /\ Goto(c, "idle")
  /\ UNCHANGED <<starts, session, inbox, lib, dying, crash, history, faults>>

\* The AMQP client connects, or throws: not an mqtt::exception, so start does not
\* translate it, and the subscription stays.
StartClient(c) ==
  /\ pc[c] = "amqp"
  /\ \/ /\ adapter' = [adapter EXCEPT !.client = starts, !.running = TRUE]
        /\ conn' = "up"
     \/ UNCHANGED <<adapter, conn>>
  /\ Goto(c, "idle")
  /\ UNCHANGED <<starts, session, inbox, lib, dying, crash, history, faults>>

-----------------------------------------------------------------------------
(* stop, with callback_mutex_ locked.                                       *)

\* stop returns; after the destructor's stop the members are destroyed, the
\* callback object before an MQTT client that a failed start left subscribed.
StopReturn(c) ==
  /\ Goto(c, "idle")
  /\ crash' = IF dying /\ (Handling \/ (adapter.mqtt # None /\ session = "subscribed"))
              THEN "freed" ELSE "no"

\* Return if the adapter is not running, or disconnect, which needs nothing of the
\* library's reading thread, and destroy the MQTT client.
StopDisconnect(c) ==
  /\ pc[c] = "stop"
  /\ CallbackMutexFree
  /\ \/ /\ ~adapter.running
        /\ StopReturn(c)
        /\ UNCHANGED <<adapter, session, inbox, late>>
     \/ /\ adapter.running
        /\ adapter' = [adapter EXCEPT !.mqtt = None]
        /\ session' = "closed"
        /\ inbox' = <<>>
        /\ late' = (late \/ Handling)
        /\ Goto(c, "reset")
        /\ UNCHANGED crash
  /\ UNCHANGED <<starts, lib, conn, dying, overtook, lost, faults>>

\* A stop that waits for the message that is being handled.
StopResetWaiting(c) ==
  /\ pc[c] = "reset"
  /\ conn # "silent"
  /\ ~Handling
  /\ adapter' = [adapter EXCEPT !.client = None, !.running = FALSE]
  /\ StopReturn(c)
  /\ UNCHANGED <<starts, session, inbox, lib, conn, dying, history, faults>>

\* rabbitmq_client_.reset(), a round trip that does not return on a connection
\* that died silently, and running_.store(false).
StopReset(c) ==
  /\ pc[c] = "reset"
  /\ conn # "silent"
  /\ adapter' = [adapter EXCEPT !.client = None, !.running = FALSE]
  /\ StopReturn(c)
  /\ UNCHANGED <<starts, session, inbox, lib, conn, dying, history, faults>>

-----------------------------------------------------------------------------
(* The MQTT broker and the library's thread.                                *)

\* The broker answers a subscribe.
BrokerAnswer ==
  /\ session = "subscribing"
  /\ Len(inbox) < MaxInbox
  /\ "suback" \notin Range(inbox)
  /\ inbox' = Append(inbox, "suback")
  /\ UNCHANGED <<adapter, starts, pc, session, lib, conn, dying, crash, history, faults>>

\* It sends messages, and may do so before its answer.
BrokerSend ==
  /\ session \in {"subscribing", "subscribed"}
  /\ Len(inbox) < MaxInbox
  /\ \E m \in Messages : inbox' = Append(inbox, m)
  /\ UNCHANGED <<adapter, starts, pc, session, lib, conn, dying, crash, history, faults>>

\* What is read ends a wait of start, or is a message to handle.
LibraryRead ==
  /\ ~Handling
  /\ inbox # <<>>
  /\ inbox' = Tail(inbox)
  /\ LET item == Head(inbox)
     IN  \/ /\ item \in {"connack", "suback"}
            /\ session' = IF item = "connack" THEN "connected" ELSE "subscribed"
            /\ UNCHANGED <<lib, overtook, late>>
         \/ /\ item \in Messages
            /\ lib' = [at |-> "parse", msg |-> item, mqtt |-> adapter.mqtt, client |-> None]
            /\ overtook' = (overtook \/ session = "subscribing")
            /\ late' = FALSE
            /\ UNCHANGED session
  /\ UNCHANGED <<adapter, starts, pc, conn, dying, crash, lost, faults>>

-----------------------------------------------------------------------------
(* handle_mqtt_message.                                                     *)

HandlerUnchanged ==
  UNCHANGED <<adapter, starts, pc, session, inbox, conn, dying, overtook, late, faults>>

HandlerGoto(step) == lib' = [lib EXCEPT !.at = step]

\* A parse that catches nothing.
ParseUnchecked ==
  /\ lib.at = "parse"
  /\ \/ lib.msg = "object" /\ HandlerGoto("copy") /\ UNCHANGED crash
     \/ lib.msg # "object" /\ crash' = "uncaught" /\ UNCHANGED lib
  /\ UNCHANGED lost
  /\ HandlerUnchanged

\* A text that is not JSON is wrapped as it is, also a mangled one, which is not
\* UTF-8.  An odd message is JSON, but no object, or an object with a field of a
\* wrong type: value() throws, and nothing catches it.
Parse ==
  /\ lib.at = "parse"
  /\ \/ lib.msg # "odd" /\ HandlerGoto("copy") /\ UNCHANGED crash
     \/ lib.msg = "odd" /\ crash' = "uncaught" /\ UNCHANGED lib
  /\ UNCHANGED lost
  /\ HandlerUnchanged

\* callback = on_event_, under callback_mutex_.
CopyCallback ==
  /\ lib.at = "copy"
  /\ CallbackMutexFree
  /\ HandlerGoto(IF adapter.on_event THEN "call" ELSE "test")
  /\ UNCHANGED <<crash, lost>>
  /\ HandlerUnchanged

\* callback(event), without the mutex.
RunCallback ==
  /\ lib.at = "call"
  /\ HandlerGoto("test")
  /\ UNCHANGED <<crash, lost>>
  /\ HandlerUnchanged

\* message_arrived returns, into a client that may be destroyed, which is
\* undefined.
HandlerReturn(written) ==
  /\ lib' = Resting
  /\ lost' = ~written
  /\ crash' \in IF lib.mqtt = adapter.mqtt THEN {"no"} ELSE {"no", "freed"}

\* if (rabbitmq_client_), without the mutex.
TestClient ==
  /\ lib.at = "test"
  /\ \/ /\ adapter.client = None
        /\ HandlerReturn(FALSE)
     \/ /\ adapter.client # None
        /\ lib' = [lib EXCEPT !.at = "declare", !.client = adapter.client]
        /\ UNCHANGED <<crash, lost>>
  /\ HandlerUnchanged

\* declare_queue is a round trip: it throws on a connection that is known to be
\* dead, which nothing catches, and does not return on one that died silently.
DeclareQueue ==
  /\ lib.at = "declare"
  /\ \/ adapter.client # lib.client /\ crash' = "freed" /\ UNCHANGED lib
     \/ /\ adapter.client = lib.client
        /\ \/ conn = "closed" /\ crash' = "uncaught" /\ UNCHANGED lib
           \/ conn = "up" /\ HandlerGoto("write") /\ UNCHANGED crash
  /\ UNCHANGED lost
  /\ HandlerUnchanged

\* message.dump() throws for a string that is not UTF-8, and nothing catches it.
\* Then amqp_basic_publish, whose failure is only logged.
BasicPublish ==
  /\ lib.at = "write"
  /\ \/ /\ lib.msg = "mangled"
        /\ crash' = "uncaught"
        /\ UNCHANGED <<lib, lost>>
     \/ /\ lib.msg # "mangled"
        /\ adapter.client # lib.client
        /\ crash' = "freed"
        /\ UNCHANGED <<lib, lost>>
     \/ /\ lib.msg # "mangled"
        /\ adapter.client = lib.client
        /\ HandlerReturn(conn = "up")
  /\ HandlerUnchanged

-----------------------------------------------------------------------------
(* Faults.                                                                  *)

\* The AMQP connection is closed, or dies silently (no heartbeats).
LoseConnection ==
  /\ adapter.client # None
  /\ conn = "up"
  /\ faults < MaxFaults
  /\ faults' = faults + 1
  /\ conn' \in {"closed", "silent"}
  /\ UNCHANGED <<adapter, starts, pc, session, inbox, lib, dying, crash, history>>

\* The MQTT connection is lost, or the broker refuses it.  connection_lost only
\* logs it: the adapter runs on without receiving anything.
LoseSession ==
  /\ session # "closed"
  /\ faults < MaxFaults
  /\ faults' = faults + 1
  /\ session' = "closed"
  /\ inbox' = <<>>
  /\ UNCHANGED <<adapter, starts, pc, lib, conn, dying, crash, history>>

ControllerStep(c) ==
  \/ StartConnect(c)
  \/ StartSubscribe(c)
  \/ StartSubscribed(c)
  \/ StartClient(c)
  \/ StopDisconnect(c)
  \/ StopReset(c)

HandlerStep ==
  \/ Parse
  \/ CopyCallback
  \/ RunCallback
  \/ TestClient
  \/ DeclareQueue
  \/ BasicPublish

Next ==
  /\ crash = "no"
  /\ \/ \E c \in Controllers :
          CallStart(c) \/ CallStop(c) \/ CallDestructor(c) \/ ControllerStep(c)
     \/ BrokerAnswer
     \/ BrokerSend
     \/ LibraryRead
     \/ HandlerStep
     \/ LoseConnection
     \/ LoseSession

Spec == Init /\ [][Next]_vars

\* A thread that can run does, and none is passed over for ever when the mutex is
\* handed on.  A broker answers, and sends messages as it likes.
Fairness ==
  /\ \A c \in Controllers : SF_vars(crash = "no" /\ ControllerStep(c))
  /\ WF_vars(crash = "no" /\ LibraryRead)
  /\ SF_vars(crash = "no" /\ HandlerStep)
  /\ WF_vars(crash = "no" /\ BrokerAnswer)

FairSpec == Spec /\ Fairness

-----------------------------------------------------------------------------
(* Properties.                                                              *)

\* Between calls the adapter is all running or all stopped; what a failed start
\* can leave behind is an MQTT client, never an AMQP client.
RunningOrStopped ==
  crash = "no" /\ (\A c \in Controllers : pc[c] \in {"idle", "start", "stop"}) =>
    IF adapter.running THEN adapter.mqtt = starts /\ adapter.client = starts
                       ELSE adapter.client = None

\* Every variable has its type, callback_mutex_ excludes, a handler holds nothing
\* that was not made, and the members are consistent between calls.
TypeOK ==
  /\ adapter \in [running : BOOLEAN, on_event : BOOLEAN, mqtt : 0..starts,
                  client : 0..starts]
  /\ starts \in 0..MaxStarts
  /\ pc \in [Controllers -> {"idle", "start", "connect", "subscribe", "amqp",
                             "stop", "reset"}]
  /\ session \in {"closed", "connecting", "connected", "subscribing", "subscribed"}
  /\ inbox \in Seq(Messages \cup {"connack", "suback"})
  /\ lib \in [at : {"idle", "parse", "copy", "call", "test", "declare", "write"},
              msg : Messages \cup {"none"}, mqtt : 0..starts, client : 0..starts]
  /\ conn \in {"up", "closed", "silent"}
  /\ crash \in {"no", "freed", "uncaught"}
  /\ {dying, overtook, late, lost} \subseteq BOOLEAN
  /\ faults \in 0..MaxFaults
  /\ \A c, d \in Controllers :
       {pc[c], pc[d]} \cap {"idle", "start", "stop"} = {} => c = d
  /\ RunningOrStopped

\* A start failed and left its MQTT client, subscribed perhaps.
LeftOver ==
  /\ ~adapter.running
  /\ adapter.mqtt # None
  /\ \A c \in Controllers : pc[c] \in {"idle", "start", "stop"}

\* The process dies only of: an odd message, a text that is not UTF-8 when it gets
\* to be published, or a lost AMQP connection, which throw on the library's thread;
\* a client destroyed while its message was being handled; and the destruction of
\* an adapter that a failed start left subscribed.  Text in UTF-8 that is not JSON
\* does no harm.
CrashNeedsCause ==
  /\ crash = "uncaught" =>
       \/ lib.msg = "odd" /\ lib.at = "parse"
       \/ lib.msg = "mangled" /\ lib.at = "write"
       \/ conn = "closed" /\ lib.at = "declare"
  /\ crash = "freed" => late \/ (dying /\ LeftOver)

\* A message is acknowledged to the MQTT broker only after it was written to
\* RabbitMQ, also one that arrives while start is still at work; unless the
\* connection to RabbitMQ was lost, the message was being handled when its client
\* was destroyed, or a start failed.
AckedIsPublished ==
  [][Handling /\ ~Handling' /\ lost' => conn # "up" \/ late \/ LeftOver]_vars

\* A start waits for an answer that the library's thread would have to read, which
\* waits for the mutex that start holds.
StartStuck ==
  /\ Handling
  /\ \E c \in Controllers :
       \/ pc[c] = "subscribe" /\ overtook
       \/ pc[c] = "connect" /\ late

\* start and stop return, although the library's thread may need the mutex that
\* they hold: stop waits for nothing that this thread does, and start only if no
\* message comes before the SUBACK and none is left of an earlier client.
CallsReturn ==
  \A c \in Controllers :
    pc[c] # "idle" ~>
      \/ pc[c] = "idle"
      \/ crash # "no"
      \/ conn = "silent"
      \/ StartStuck

-----------------------------------------------------------------------------
(* What makes the properties inductive.                                     *)

Starting(c) == pc[c] \in {"connect", "subscribe", "amqp"}

\* What the members are while a start or a stop holds the mutex, and between calls.
Stage ==
  /\ \A c \in Controllers :
       /\ Starting(c) => /\ ~adapter.running /\ adapter.client = None
                         /\ adapter.mqtt = starts /\ starts # 0
       /\ pc[c] = "reset" => adapter.mqtt = None
  /\ CallbackMutexFree =>
       IF adapter.running
       THEN adapter.mqtt = starts /\ adapter.client = starts /\ starts # 0
       ELSE adapter.client = None

\* What the broker sends, it sends to a client that the members hold.
SessionHeld == session # "closed" \/ inbox # <<>> => adapter.mqtt # None

\* Unless the MQTT client was destroyed meanwhile, a handler works for the one that the
\* members hold, in the AMQP client that they hold; and once it has copied the callback,
\* which waits for the mutex, no start has begun.
HandlerInStep ==
  Handling /\ ~late =>
    /\ lib.mqtt = adapter.mqtt /\ adapter.mqtt # None
    /\ lib.at \in {"declare", "write"} => lib.client = adapter.client /\ lib.client # None
    /\ lib.at \in {"call", "test", "declare", "write"} =>
         \A c \in Controllers : ~Starting(c)

AdapterInv == Stage /\ SessionHeld /\ HandlerInStep /\ CrashNeedsCause
=============================================================================
