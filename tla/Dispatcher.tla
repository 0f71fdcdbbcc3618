----------------------------- MODULE Dispatcher ------------------------------
(***************************************************************************)
(* The consumers of alarms.dispatch: the Rust dispatcher                   *)
(* (rust/dispatcher/src/main.rs), which posts each alarm to a webhook,     *)
(* sends it by e-mail, or both, and acknowledges it whatever came of that; *)
(* and the subscriber of demo-cli (rust/demo-cli/src/main.rs), which       *)
(* consumes the same queue, prints each alarm and acknowledges it.         *)
(* RabbitMQ hands each alarm to one of them.  What the dispatcher notifies  *)
(* is its environment's choice (Config::from_env), made once in Init.      *)
(*                                                                         *)
(* A consumer is the name of a run, of a process and its connection, which *)
(* is used again when the process is gone and the broker holds nothing of  *)
(* its connection; one started before that is another consumer.            *)
(*                                                                         *)
(* An alarm is its position on the queue.  Undecodable are the messages    *)
(* that are not an AlarmDecision of the common crate: its alarm_type is    *)
(* one of four words or {"custom": ...}, its severity one of four.         *)
(***************************************************************************)
EXTENDS Naturals, Sequences, FiniteSets, Functions

CONSTANTS
  Dispatchers,      \* names for runs of the dispatcher, reused when free
  Viewers,          \* and of demo-cli
  MaxPublished,     \* bound: messages ever put on alarms.dispatch
  Undecodable,      \* the messages that are not an AlarmDecision
  Configs,          \* the configurations a dispatcher may be started with
  MaxFaults         \* bound: crashes and lost connections

Consumers == Dispatchers \cup Viewers
Msgs      == 1..MaxPublished
Channels  == {"webhook", "email"}

\* Config::from_env: the channels that are configured, and whether
\* ALARM_EMAIL_FROM and ALARM_EMAIL_TO parse as addresses.
Config == [channels : SUBSET Channels, addressesParse : BOOLEAN]

\* Attempts are counted up to this many: one more than any run may reach that
\* repeats only after faults.
MaxAttempts == MaxFaults + 2

ASSUME DispatcherAssumption ==
  /\ MaxPublished \in Nat
  /\ MaxFaults \in Nat
  /\ Undecodable \subseteq Msgs
  /\ Configs \subseteq Config
  /\ Dispatchers \cap Viewers = {}

VARIABLES
  \* RabbitMQ
  published,  \* how many messages were put on alarms.dispatch
  ready,      \* its ready messages
  unacked,    \* unacked[i]: delivered to i and not settled
  up,         \* up[i]: the broker holds i's connection open
  wire,       \* wire[i]: acks and nacks the broker has not read yet
  acked,      \* messages the broker was told are done
  dropped,    \* messages the broker was told to drop
  \* the consumers
  inbox,      \* inbox[i]: deliveries buffered in i's consumer stream
  pc,         \* pc[i]: what i does next
  cur,        \* cur[i]: the delivery in hand
  \* the outside
  attempts,   \* attempts[m][c]: how often m was sent on channel c
  shown,      \* alarms some demo-cli printed
  config,     \* the dispatchers' configuration
  faults

queueVars    == <<ready, unacked, acked, dropped>>
outsideVars  == <<attempts, shown, config>>
vars == <<published, queueVars, up, wire, inbox, pc, cur, outsideVars, faults>>

None   == 0
Alarms == Msgs \ Undecodable

Init ==
  /\ published = 0
  /\ ready = {}
  /\ unacked = [i \in Consumers |-> {}]
  /\ up = [i \in Consumers |-> FALSE]
  /\ wire = [i \in Consumers |-> <<>>]
  /\ acked = {} /\ dropped = {}
  /\ inbox = [i \in Consumers |-> <<>>]
  /\ pc = [i \in Consumers |-> "down"]
  /\ cur = [i \in Consumers |-> None]
  /\ attempts = [m \in Msgs |-> [c \in Channels |-> 0]]
  /\ shown = {}
  /\ config \in Configs
  /\ faults = 0

-----------------------------------------------------------------------------
(* The broker.                                                             *)

\* The processing service puts an alarm on alarms.dispatch.
Publish ==
  /\ published < MaxPublished
  /\ published' = published + 1
  /\ ready' = ready \cup {published + 1}
  /\ UNCHANGED <<unacked, acked, dropped, up, wire, inbox, pc, cur,
                 outsideVars, faults>>

\* The broker hands the head of the queue to one of its consumers.
Deliver(i) ==
  /\ up[i]
  /\ \E m \in ready :
       /\ \A n \in ready : m <= n
       /\ ready' = ready \ {m}
       /\ unacked' = [unacked EXCEPT ![i] = @ \cup {m}]
       /\ inbox' = IF pc[i] = "down" THEN inbox
                   ELSE [inbox EXCEPT ![i] = Append(@, m)]
  /\ UNCHANGED <<published, acked, dropped, up, wire, pc, cur,
                 outsideVars, faults>>

\* The broker reads an ack or a nack: BasicNackOptions default to requeue =
\* false, so a nacked message is gone.
ReceiveSettlement(i) ==
  /\ up[i]
  /\ wire[i] # <<>>
  /\ wire' = [wire EXCEPT ![i] = Tail(@)]
  /\ LET f == Head(wire[i])
     IN  /\ unacked' = [unacked EXCEPT ![i] = @ \ {f.msg}]
         /\ \/ f.op = "ack" /\ acked' = acked \cup {f.msg} /\ dropped' = dropped
            \/ f.op = "nack" /\ dropped' = dropped \cup {f.msg} /\ acked' = acked
  /\ UNCHANGED <<published, ready, up, inbox, pc, cur, outsideVars, faults>>

\* i's connection goes: unread acks are lost, unsettled deliveries return.
DropConnection(i) ==
  /\ up' = [up EXCEPT ![i] = FALSE]
  /\ wire' = [wire EXCEPT ![i] = <<>>]
  /\ ready' = ready \cup unacked[i]
  /\ unacked' = [unacked EXCEPT ![i] = {}]
  /\ UNCHANGED <<published, acked, dropped, outsideVars>>

-----------------------------------------------------------------------------
(* A consumer.                                                             *)

\* A dispatch that is content with the first channel.
NextStageOneChannel(i, stage) ==
  IF i \in Viewers THEN IF stage = "decoded" THEN "print" ELSE "ack"
  ELSE IF stage = "decoded" /\ "webhook" \in config.channels THEN "webhook"
  ELSE IF stage = "decoded" /\ "email" \in config.channels THEN "email"
  ELSE "ack"

\* dispatch_alarm, seen from the point where stage is done: each channel that is
\* configured is tried once, the webhook before e-mail, then comes the ack.  A
\* demo-cli only prints.
NextStage(i, stage) ==
  IF i \in Viewers THEN IF stage = "decoded" THEN "print" ELSE "ack"
  ELSE IF stage = "decoded" /\ "webhook" \in config.channels THEN "webhook"
  ELSE IF stage # "emailed" /\ "email" \in config.channels THEN "email"
  ELSE "ack"

Exit(i) ==
  /\ pc' = [pc EXCEPT ![i] = "down"]
  /\ cur' = [cur EXCEPT ![i] = None]
  /\ inbox' = [inbox EXCEPT ![i] = <<>>]

\* Startup: connect, declare the queue, subscribe, under a name that is free.
Start(i) ==
  /\ pc[i] = "down"
  /\ ~up[i]
  /\ up' = [up EXCEPT ![i] = TRUE]
  /\ pc' = [pc EXCEPT ![i] = "next"]
  /\ UNCHANGED <<published, queueVars, wire, inbox, cur, outsideVars, faults>>

\* A handler that acks an alarm before it notifies anyone.
TakeAlarmAckFirst(i) ==
  /\ pc[i] = "next"
  /\ inbox[i] # <<>>
  /\ LET m == Head(inbox[i])
     IN  /\ cur' = [cur EXCEPT ![i] = m]
         /\ pc' = [pc EXCEPT ![i] = IF m \in Undecodable THEN "nack"
                                    ELSE NextStage(i, "decoded")]
         /\ wire' = IF up[i] /\ m \notin Undecodable
                    THEN [wire EXCEPT ![i] = Append(@, [op |-> "ack", msg |-> m])]
                    ELSE wire
  /\ inbox' = [inbox EXCEPT ![i] = Tail(@)]
  /\ UNCHANGED <<published, queueVars, up, outsideVars, faults>>

\* consumer.next() yields a delivery, which decodes as an AlarmDecision or not.
TakeAlarm(i) ==
  /\ pc[i] = "next"
  /\ inbox[i] # <<>>
  /\ LET m == Head(inbox[i])
     IN  /\ cur' = [cur EXCEPT ![i] = m]
         /\ pc' = [pc EXCEPT ![i] = IF m \in Undecodable THEN "nack"
                                    ELSE NextStage(i, "decoded")]
  /\ inbox' = [inbox EXCEPT ![i] = Tail(@)]
  /\ UNCHANGED <<published, queueVars, up, wire, outsideVars, faults>>

\* The stream of a dead connection ends, and with it main.
StreamEnds(i) ==
  /\ pc[i] = "next"
  /\ ~up[i]
  /\ Exit(i)
  /\ UNCHANGED <<published, queueVars, up, wire, outsideVars, faults>>

\* demo-cli prints the alarm.
PrintAlarm(i) ==
  /\ pc[i] = "print"
  /\ shown' = shown \cup {cur[i]}
  /\ pc' = [pc EXCEPT ![i] = NextStage(i, "printed")]
  /\ UNCHANGED <<published, queueVars, up, wire, inbox, cur, attempts, config, faults>>

\* The attempts after one more on channel c for the alarm in i's hand.
Attempt(i, c) ==
  [attempts EXCEPT ![cur[i]][c] = IF @ < MaxAttempts THEN @ + 1 ELSE @]

\* A post repeated until the endpoint is known to have taken it.
PostWebhookRetrying(i) ==
  /\ pc[i] = "webhook"
  /\ attempts' = Attempt(i, "webhook")
  /\ \/ pc' = [pc EXCEPT ![i] = "webhook"]
     \/ pc' = [pc EXCEPT ![i] = NextStage(i, "posted")]
  /\ UNCHANGED <<published, queueVars, up, wire, inbox, cur, shown, config, faults>>

\* http.post(url).json(alarm).send(): the endpoint's answer, also a 4xx or 5xx,
\* or an error ends the attempt.  The client has no timeout: with an endpoint
\* that does not answer, this step is not taken.
PostWebhook(i) ==
  /\ pc[i] = "webhook"
  /\ attempts' = Attempt(i, "webhook")
  /\ pc' = [pc EXCEPT ![i] = NextStage(i, "posted")]
  /\ UNCHANGED <<published, queueVars, up, wire, inbox, cur, shown, config, faults>>

\* send_email: the attempt succeeds or its failure is logged; an address that
\* does not parse makes unwrap panic, which ends main.
SendEmail(i) ==
  /\ pc[i] = "email"
  /\ \/ /\ config.addressesParse
        /\ attempts' = Attempt(i, "email")
        /\ pc' = [pc EXCEPT ![i] = NextStage(i, "emailed")]
        /\ UNCHANGED <<inbox, cur>>
     \/ /\ ~config.addressesParse
        /\ Exit(i)
        /\ UNCHANGED attempts
  /\ UNCHANGED <<published, queueVars, up, wire, shown, config, faults>>

\* An alarm that no channel took is left unsettled for a later attempt.
SettleUnlessUndelivered(i) ==
  /\ pc[i] \in {"ack", "nack"}
  /\ \/ wire' = IF up[i]
               THEN [wire EXCEPT ![i] = Append(@, [op |-> pc[i], msg |-> cur[i]])]
               ELSE wire
     \/ wire' = wire
  /\ pc' = [pc EXCEPT ![i] = "next"]
  /\ cur' = [cur EXCEPT ![i] = None]
  /\ UNCHANGED <<published, queueVars, up, inbox, outsideVars, faults>>

\* A settled delivery that the handler does not let go of.
SettleKeeping(i) ==
  /\ pc[i] \in {"ack", "nack"}
  /\ wire' = IF up[i]
             THEN [wire EXCEPT ![i] = Append(@, [op |-> pc[i], msg |-> cur[i]])]
             ELSE wire
  /\ pc' = [pc EXCEPT ![i] = "next"]
  /\ UNCHANGED <<published, queueVars, up, inbox, cur, outsideVars, faults>>

\* delivery.ack(...).await? after the attempts, whatever came of them, or
\* delivery.nack(...).await? of a message that did not decode.
Settle(i) ==
  /\ pc[i] \in {"ack", "nack"}
  /\ \/ /\ wire' = IF up[i]
                   THEN [wire EXCEPT ![i] =
                           Append(@, [op |-> pc[i], msg |-> cur[i]])]
                   ELSE wire
        /\ pc' = [pc EXCEPT ![i] = "next"]
        /\ cur' = [cur EXCEPT ![i] = None]
        /\ UNCHANGED inbox
     \/ /\ ~up[i]
        /\ Exit(i)
        /\ UNCHANGED wire
  /\ UNCHANGED <<published, queueVars, up, outsideVars, faults>>

\* The steps that wait for nobody (the SMTP transport has a timeout).
OwnStep(i) ==
  \/ TakeAlarm(i)
  \/ StreamEnds(i)
  \/ PrintAlarm(i)
  \/ SendEmail(i)
  \/ Settle(i)

-----------------------------------------------------------------------------
(* Faults.                                                                 *)

\* The process is killed, or a demo-cli ends with its last event (main's
\* select! does not wait for the subscriber).
Crash(i) ==
  /\ pc[i] # "down"
  /\ faults < MaxFaults
  /\ faults' = faults + 1
  /\ Exit(i)
  /\ UNCHANGED <<published, queueVars, up, wire, outsideVars>>

LoseConnection(i) ==
  /\ up[i]
  /\ pc[i] # "down"
  /\ faults < MaxFaults
  /\ faults' = faults + 1
  /\ DropConnection(i)
  /\ UNCHANGED <<inbox, pc, cur>>

\* The broker notices that the process at the other end is gone.
CloseConnection(i) ==
  /\ up[i]
  /\ pc[i] = "down"
  /\ DropConnection(i)
  /\ UNCHANGED <<inbox, pc, cur, faults>>

Next ==
  \/ Publish
  \/ \E i \in Consumers :
       \/ Deliver(i)
       \/ ReceiveSettlement(i)
       \/ Start(i)
       \/ OwnStep(i)
       \/ PostWebhook(i)
       \/ Crash(i)
       \/ LoseConnection(i)
       \/ CloseConnection(i)

Spec == Init /\ [][Next]_vars

\* The broker and a running consumer do not stop by themselves, the webhook
\* endpoint answers, and a dead dispatcher is started again by whoever supervises
\* it.  Nobody needs to start a demo-cli.
Fairness ==
  /\ WF_vars(\E i \in Consumers : Deliver(i))
  /\ \A i \in Consumers :
       /\ WF_vars(ReceiveSettlement(i))
       /\ WF_vars(CloseConnection(i))
       /\ WF_vars(OwnStep(i))
       /\ WF_vars(PostWebhook(i))
  /\ \A i \in Dispatchers : WF_vars(Start(i))

FairSpec == Spec /\ Fairness

-----------------------------------------------------------------------------
(* Properties.                                                             *)

Attempted(m) == \A c \in config.channels : attempts[m][c] > 0

\* Does every e-mail attempt panic?
Panics == "email" \in config.channels /\ ~config.addressesParse

\* Every variable has its type; a consumer holds a delivery exactly while it
\* handles one, and a process that is down holds nothing.
TypeOK ==
  /\ published \in 0..MaxPublished
  /\ ready \subseteq Msgs
  /\ unacked \in [Consumers -> SUBSET Msgs]
  /\ up \in [Consumers -> BOOLEAN]
  /\ wire \in [Consumers -> Seq([op : {"ack", "nack"}, msg : Msgs])]
  /\ acked \subseteq Msgs
  /\ dropped \subseteq Msgs
  /\ inbox \in [Consumers -> Seq(Msgs)]
  /\ pc \in [Consumers -> {"down", "next", "print", "webhook", "email",
                           "ack", "nack"}]
  /\ cur \in [Consumers -> Msgs \cup {None}]
  /\ attempts \in [Msgs -> [Channels -> 0..MaxAttempts]]
  /\ shown \subseteq Msgs
  /\ config \in Configs
  /\ faults \in 0..MaxFaults
  /\ \A i \in Consumers : cur[i] = None <=> pc[i] \in {"down", "next"}
  /\ \A i \in Consumers : pc[i] = "down" => inbox[i] = <<>>

\* No alarm disappears unnoticed: one that left the queue was tried on every
\* configured channel, or printed by a demo-cli (dispatch_alarm runs to its end
\* before the ack).
NoAlarmUnnoticed ==
  \A m \in 1..published \ Undecodable :
    \/ m \in ready
    \/ \E i \in Consumers : m \in unacked[i]
    \/ Attempted(m)
    \/ m \in shown

\* Why that is so.  A message is on the queue, with a consumer, or settled; what is
\* acked, and every ack on its way to the broker, is of an alarm that was noticed,
\* and every nack of a message that does not decode; and a consumer comes to the
\* ack only past the notifications that it owes.
Noticed(m) == Attempted(m) \/ m \in shown

Accounted ==
  \A m \in 1..published :
    \/ m \in ready \cup acked \cup dropped
    \/ \E i \in Consumers : m \in unacked[i]

SettledIsNoticed ==
  /\ \A m \in acked : Noticed(m)
  /\ dropped \subseteq Undecodable
  /\ \A i \in Consumers : \A k \in 1..Len(wire[i]) :
       \/ wire[i][k].op = "ack" /\ Noticed(wire[i][k].msg)
       \/ wire[i][k].op = "nack" /\ wire[i][k].msg \in Undecodable

HandIsOnItsWay ==
  \A i \in Consumers :
    /\ pc[i] = "nack" => cur[i] \in Undecodable
    /\ pc[i] = "ack" => Noticed(cur[i])
    /\ pc[i] \in {"print", "webhook", "email"} => cur[i] \notin Undecodable
    /\ pc[i] = "print" => i \in Viewers
    /\ pc[i] \in {"webhook", "email"} => i \notin Viewers /\ pc[i] \in config.channels
    /\ pc[i] = "email" /\ "webhook" \in config.channels =>
         attempts[cur[i]]["webhook"] > 0

NoticeInv ==
  /\ TypeOK
  /\ Accounted
  /\ SettledIsNoticed
  /\ HandIsOnItsWay

\* Nobody is notified twice of an alarm on a channel unless something failed: an
\* ack that returned keeps the alarm from coming back.
RepeatsNeedFaults ==
  ~Panics => \A m \in Msgs : \A c \in Channels : attempts[m][c] <= 1 + faults

\* "a failed notification is logged but must not block the queue" (dispatcher
\* main.rs): every alarm is eventually settled.
QueueNotBlocked ==
  \A m \in Msgs : published >= m ~> m \in acked \cup dropped

\* ... which the code keeps unless an address does not parse.
QueueBlockedByPanicOnly ==
  \A m \in Msgs : published >= m /\ ~Panics ~> m \in acked \cup dropped

\* Together, the consumers of alarms.dispatch keep the at-least-once promise:
\* an alarm is forgotten only after it was tried on each configured channel, or
\* printed.
Relay == INSTANCE AtLeastOnceRelay WITH
  Inputs  <- Msgs,
  Owed    <- [m \in Msgs |-> {m} \ Undecodable],
  pending <- ready \cup UNION {unacked[i] : i \in Consumers},
  settled <- acked \cup dropped,
  emitted <- {m \in Msgs : Attempted(m) \/ m \in shown}

ImplementsRelay == Relay!Spec

\* Why a message is settled once, and by the consumer that has it: it is on the
\* queue or unsettled with one consumer, and what a live connection carries to the
\* broker, what its consumer has in hand and what is in its stream are different
\* unsettled deliveries.
PublishedOnly ==
  /\ ready \cup acked \cup dropped \subseteq 1..published
  /\ \A i \in Consumers :
       /\ unacked[i] \subseteq 1..published
       /\ cur[i] # None => cur[i] \in 1..published
       /\ \A k \in 1..Len(inbox[i]) : inbox[i][k] \in 1..published

OneHolder ==
  \A i \in Consumers :
    /\ unacked[i] \cap ready = {}
    /\ \A j \in Consumers \ {i} : unacked[i] \cap unacked[j] = {}

LiveConnection(i) ==
  /\ cur[i] # None => cur[i] \in unacked[i]
  /\ \A k \in 1..Len(wire[i]) :
       /\ wire[i][k].msg \in unacked[i] \ {cur[i]}
       /\ \A n \in 1..Len(wire[i]) : n # k => wire[i][n].msg # wire[i][k].msg
  /\ \A k \in 1..Len(inbox[i]) :
       /\ inbox[i][k] \in unacked[i] \ {cur[i]}
       /\ \A n \in 1..Len(inbox[i]) : n # k => inbox[i][n] # inbox[i][k]
       /\ \A n \in 1..Len(wire[i]) : wire[i][n].msg # inbox[i][k]

HolderInv ==
  /\ PublishedOnly
  /\ OneHolder
  /\ \A i \in Consumers : IF up[i] THEN LiveConnection(i)
                           ELSE wire[i] = <<>> /\ unacked[i] = {}

\* Why only faults make a consumer repeat itself.  A consumer is about to try an
\* alarm that waits in its stream, or that it has in hand with the channel still
\* before it; an alarm comes up, for whoever is handed it, while it is on the queue
\* or not even there yet, or was given to a process that has ended.
StreamsOnce ==
  \A i \in Consumers : IsInjective(inbox[i]) /\ cur[i] \notin Range(inbox[i])

AboutToTry(i, m, c) ==
  \/ m \in Range(inbox[i])
  \/ cur[i] = m /\ pc[i] \in (IF c = "email" THEN {"webhook", "email"} ELSE {c})

Triers(m, c) == {i \in Consumers : AboutToTry(i, m, c)}

ComesUp(m) ==
  \/ m \notin 1..published
  \/ m \in ready
  \/ \E i \in Consumers : pc[i] = "down" /\ m \in unacked[i]

\* What has been tried, what is about to be, and what may come up again: one
\* attempt, and one more for every fault.
RepeatsBounded(m, c) ==
  /\ IsFiniteSet(Triers(m, c))
  /\ attempts[m][c] + Cardinality(Triers(m, c)) + (IF ComesUp(m) THEN 1 ELSE 0)
       <= 1 + faults

RepeatsInv ==
  /\ NoticeInv
  /\ HolderInv
  /\ StreamsOnce
  /\ ~Panics => \A m \in Msgs : \A c \in Channels : RepeatsBounded(m, c)
=============================================================================
