---------------------------- MODULE QueueService ----------------------------
(***************************************************************************)
(* The Rust queue service (rust/queue/src/main.rs): it consumes            *)
(* device.events.raw, stores each event in MongoDB, republishes it on      *)
(* device.events.normalized and acknowledges the delivery.                 *)
(*                                                                         *)
(* A message is its position on the raw queue, so a queue of ready         *)
(* messages is a set whose least element is its head, and a message that   *)
(* is requeued regains its original position, as RabbitMQ does.  Which     *)
(* messages do not decode as a DeviceEvent is the constant Malformed.      *)
(*                                                                         *)
(* Several processes may run ("add more adapter or dispatcher instances",  *)
(* docs/architecture.md); each opens one connection.  An instance is the   *)
(* name of such a run, of a process and its connection: it is given to     *)
(* another only when the process is gone and the broker holds nothing of   *)
(* its connection.  A process that is started again while the broker still *)
(* holds the connection of the one before it, as it may, is another        *)
(* instance, and competes with what is left of the first.                  *)
(*                                                                         *)
(* What an instance sends is the FIFO wire[i]: publishes go out on         *)
(* publish_channel and acks on channel, but both channels share the one    *)
(* TCP connection, and since the service never selects publisher confirms  *)
(* a publish "succeeds" as soon as it is written.  A lost connection loses *)
(* what is on the wire.                                                    *)
(***************************************************************************)
EXTENDS Naturals, Sequences, FiniteSets, Functions

CONSTANTS
  Instances,     \* names for runs of the queue service, reused when free
  MaxPublished,  \* bound: messages ever put on device.events.raw
  Malformed,     \* the messages that are not a DeviceEvent
  MaxFaults      \* bound: crashes and lost connections

ASSUME QueueServiceAssumption ==
  /\ MaxPublished \in Nat
  /\ MaxFaults \in Nat
  /\ Malformed \subseteq 1..MaxPublished

VARIABLES
  \* RabbitMQ
  published,     \* how many messages were put on device.events.raw
  raw,           \* the ready messages of device.events.raw
  unacked,       \* unacked[i]: delivered to i and not settled
  up,            \* up[i]: the broker holds i's connection open
  wire,          \* wire[i]: frames i has sent and the broker has not read
  normalized,    \* everything routed to device.events.normalized, in order
  acked,         \* messages the broker was told are done
  discarded,     \* messages the broker was told to drop
  \* the service instances
  inbox,         \* inbox[i]: deliveries buffered in i's consumer stream
  pc,            \* pc[i]: what i does next
  cur,           \* cur[i]: the delivery in hand
  \* MongoDB
  mongo,         \* mongo[m]: documents inserted for m
  \* the environment
  faults         \* crashes and lost connections so far

brokerVars  == <<raw, unacked, normalized, acked, discarded>>
serviceVars == <<inbox, pc, cur>>
vars == <<published, raw, unacked, up, wire, normalized, acked, discarded,
          inbox, pc, cur, mongo, faults>>

Msgs   == 1..MaxPublished
Events == Msgs \ Malformed
None   == 0
Frames == [op : {"publish", "ack", "nack"}, msg : Msgs]

Init ==
  /\ published = 0
  /\ raw = {}
  /\ unacked = [i \in Instances |-> {}]
  /\ up = [i \in Instances |-> FALSE]
  /\ wire = [i \in Instances |-> <<>>]
  /\ normalized = <<>>
  /\ acked = {}
  /\ discarded = {}
  /\ inbox = [i \in Instances |-> <<>>]
  /\ pc = [i \in Instances |-> "down"]
  /\ cur = [i \in Instances |-> None]
  /\ mongo = [m \in Msgs |-> 0]
  /\ faults = 0

-----------------------------------------------------------------------------
(* Helpers.                                                                *)

\* A frame sent on a dead connection is lost.
Send(i, op) ==
  wire' = IF up[i]
          THEN [wire EXCEPT ![i] = Append(@, [op |-> op, msg |-> cur[i]])]
          ELSE wire

\* main returns (or is killed): everything the process holds is gone.
Exit(i) ==
  /\ pc' = [pc EXCEPT ![i] = "down"]
  /\ cur' = [cur EXCEPT ![i] = None]
  /\ inbox' = [inbox EXCEPT ![i] = <<>>]

\* The broker drops i's connection: unread frames are lost and every
\* unsettled delivery returns to its place in the queue.
DropConnection(i) ==
  /\ up' = [up EXCEPT ![i] = FALSE]
  /\ wire' = [wire EXCEPT ![i] = <<>>]
  /\ raw' = raw \cup unacked[i]
  /\ unacked' = [unacked EXCEPT ![i] = {}]
  /\ UNCHANGED <<published, normalized, acked, discarded, mongo>>

-----------------------------------------------------------------------------
(* The devices' side and the broker.                                       *)

\* A publisher (mock_device, demo-cli or an adapter) puts a message on
\* device.events.raw.
Publish ==
  /\ published < MaxPublished
  /\ published' = published + 1
  /\ raw' = raw \cup {published + 1}
  /\ UNCHANGED <<unacked, up, wire, normalized, acked, discarded,
                 serviceVars, mongo, faults>>

\* A consumer that subscribed with no_ack would have the broker forget each
\* message on delivery.
DeliverNoAck(i) ==
  /\ up[i]
  /\ \E m \in raw :
       /\ \A n \in raw : m <= n
       /\ raw' = raw \ {m}
       /\ acked' = acked \cup {m}
       /\ inbox' = IF pc[i] = "down"
                   THEN inbox
                   ELSE [inbox EXCEPT ![i] = Append(@, m)]
  /\ UNCHANGED <<published, unacked, up, wire, normalized, discarded,
                 pc, cur, mongo, faults>>

\* The broker delivers the head of device.events.raw to i.  No prefetch limit
\* is set, so only the connection bounds it; a process that died before the
\* broker noticed never sees the delivery.
Deliver(i) ==
  /\ up[i]
  /\ \E m \in raw :
       /\ \A n \in raw : m <= n
       /\ raw' = raw \ {m}
       /\ unacked' = [unacked EXCEPT ![i] = @ \cup {m}]
       /\ inbox' = IF pc[i] = "down"
                   THEN inbox
                   ELSE [inbox EXCEPT ![i] = Append(@, m)]
  /\ UNCHANGED <<published, up, wire, normalized, acked, discarded,
                 pc, cur, mongo, faults>>

\* A nack that asks for requeueing puts the message back instead of dropping it.
BrokerReceiveRequeueing(i) ==
  /\ up[i]
  /\ wire[i] # <<>>
  /\ wire' = [wire EXCEPT ![i] = Tail(@)]
  /\ LET f == Head(wire[i])
     IN  \/ /\ f.op = "publish"
            /\ normalized' = Append(normalized, f.msg)
            /\ UNCHANGED <<raw, unacked, acked, discarded>>
         \/ /\ f.op = "ack"
            /\ unacked' = [unacked EXCEPT ![i] = @ \ {f.msg}]
            /\ acked' = acked \cup {f.msg}
            /\ UNCHANGED <<raw, normalized, discarded>>
         \/ /\ f.op = "nack"
            /\ unacked' = [unacked EXCEPT ![i] = @ \ {f.msg}]
            /\ raw' = raw \cup {f.msg}
            /\ UNCHANGED <<normalized, acked, discarded>>
  /\ UNCHANGED <<published, up, serviceVars, mongo, faults>>

\* Frames read in any order, as if the two channels had a connection each.
BrokerReceiveAnyOrder(i) ==
  /\ up[i]
  /\ \E k \in 1..Len(wire[i]) :
       /\ wire' = [wire EXCEPT ![i] = SubSeq(@, 1, k - 1) \o SubSeq(@, k + 1, Len(@))]
       /\ LET f == wire[i][k]
          IN  \/ /\ f.op = "publish"
                 /\ normalized' = Append(normalized, f.msg)
                 /\ UNCHANGED <<unacked, acked, discarded>>
              \/ /\ f.op = "ack"
                 /\ unacked' = [unacked EXCEPT ![i] = @ \ {f.msg}]
                 /\ acked' = acked \cup {f.msg}
                 /\ UNCHANGED <<normalized, discarded>>
              \/ /\ f.op = "nack"
                 /\ unacked' = [unacked EXCEPT ![i] = @ \ {f.msg}]
                 /\ discarded' = discarded \cup {f.msg}
                 /\ UNCHANGED <<normalized, acked>>
  /\ UNCHANGED <<published, raw, up, serviceVars, mongo, faults>>

\* The broker reads the next frame of i's connection.  BasicNackOptions
\* default to requeue = false and no queue declares a dead-letter exchange,
\* so a nacked message is gone.
BrokerReceive(i) ==
  /\ up[i]
  /\ wire[i] # <<>>
  /\ wire' = [wire EXCEPT ![i] = Tail(@)]
  /\ LET f == Head(wire[i])
     IN  \/ /\ f.op = "publish"
            /\ normalized' = Append(normalized, f.msg)
            /\ UNCHANGED <<unacked, acked, discarded>>
         \/ /\ f.op = "ack"
            /\ unacked' = [unacked EXCEPT ![i] = @ \ {f.msg}]
            /\ acked' = acked \cup {f.msg}
            /\ UNCHANGED <<normalized, discarded>>
         \/ /\ f.op = "nack"
            /\ unacked' = [unacked EXCEPT ![i] = @ \ {f.msg}]
            /\ discarded' = discarded \cup {f.msg}
            /\ UNCHANGED <<normalized, acked>>
  /\ UNCHANGED <<published, raw, up, serviceVars, mongo, faults>>

-----------------------------------------------------------------------------
(* One instance: main, step by step.                                       *)

\* Startup: connect, open both channels, declare both queues, subscribe.  That i is
\* not up makes the name free; the code asks for no such thing, and a start beside a
\* connection that is half open is a start under another name.
Start(i) ==
  /\ pc[i] = "down"
  /\ ~up[i]
  /\ up' = [up EXCEPT ![i] = TRUE]
  /\ pc' = [pc EXCEPT ![i] = "next"]
  /\ UNCHANGED <<published, brokerVars, wire, inbox, cur, mongo, faults>>

\* Deliveries taken in an arbitrary order, as if each had a task of its own.
TakeAnyDelivery(i) ==
  /\ pc[i] = "next"
  /\ \E k \in DOMAIN inbox[i] :
       /\ cur' = [cur EXCEPT ![i] = inbox[i][k]]
       /\ inbox' = [inbox EXCEPT ![i] =
                      SubSeq(@, 1, k - 1) \o SubSeq(@, k + 1, Len(@))]
       /\ pc' = [pc EXCEPT ![i] = IF inbox[i][k] \in Malformed
                                  THEN "nack" ELSE "insert"]
  /\ UNCHANGED <<published, brokerVars, up, wire, mongo, faults>>

\* consumer.next() yields a delivery, which decodes as a DeviceEvent or not.
TakeDelivery(i) ==
  /\ pc[i] = "next"
  /\ inbox[i] # <<>>
  /\ cur' = [cur EXCEPT ![i] = Head(inbox[i])]
  /\ inbox' = [inbox EXCEPT ![i] = Tail(@)]
  /\ pc' = [pc EXCEPT ![i] = IF Head(inbox[i]) \in Malformed
                             THEN "nack" ELSE "insert"]
  /\ UNCHANGED <<published, brokerVars, up, wire, mongo, faults>>

\* The consumer stream of a dead connection ends: main leaves its loop.
StreamEnds(i) ==
  /\ pc[i] = "next"
  /\ ~up[i]
  /\ Exit(i)
  /\ UNCHANGED <<published, brokerVars, up, wire, mongo, faults>>

\* A failed insert that skipped the rest of the handler but for the ack.
InsertDocumentOrSkip(i) ==
  /\ pc[i] = "insert"
  /\ \/ /\ mongo' = [mongo EXCEPT ![cur[i]] = @ + 1]
        /\ pc' = [pc EXCEPT ![i] = "forward"]
     \/ /\ mongo' = mongo
        /\ pc' = [pc EXCEPT ![i] = "ack"]
  /\ UNCHANGED <<published, brokerVars, up, wire, inbox, cur, faults>>

\* events_col.insert_one: the document is stored, or the insert fails (whether
\* or not it took effect) and only a warning is logged.
InsertDocument(i) ==
  /\ pc[i] = "insert"
  /\ pc' = [pc EXCEPT ![i] = "forward"]
  /\ \/ mongo' = [mongo EXCEPT ![cur[i]] = @ + 1]
     \/ mongo' = mongo
  /\ UNCHANGED <<published, brokerVars, up, wire, inbox, cur, faults>>

\* A publish repeated when its outcome is in doubt.
ForwardEventRetrying(i) ==
  /\ pc[i] = "forward"
  /\ Send(i, "publish")
  /\ \/ pc' = [pc EXCEPT ![i] = "forward"]
     \/ pc' = [pc EXCEPT ![i] = "ack"]
  /\ UNCHANGED <<published, brokerVars, up, inbox, cur, mongo, faults>>

\* forward_event: the publish is written; on a dead connection it is lost, or
\* it fails and `?` makes main return.
ForwardEvent(i) ==
  /\ pc[i] = "forward"
  /\ \/ /\ Send(i, "publish")
        /\ pc' = [pc EXCEPT ![i] = "ack"]
        /\ UNCHANGED <<inbox, cur>>
     \/ /\ ~up[i]
        /\ Exit(i)
        /\ UNCHANGED wire
  /\ UNCHANGED <<published, brokerVars, up, mongo, faults>>

\* A handler that forgot to let go of the delivery it acked.
AckDeliveryKeeping(i) ==
  /\ pc[i] = "ack"
  /\ Send(i, "ack")
  /\ pc' = [pc EXCEPT ![i] = "next"]
  /\ UNCHANGED <<published, brokerVars, up, inbox, cur, mongo, faults>>

\* delivery.ack(...).await?
AckDelivery(i) ==
  /\ pc[i] = "ack"
  /\ \/ /\ Send(i, "ack")
        /\ pc' = [pc EXCEPT ![i] = "next"]
        /\ cur' = [cur EXCEPT ![i] = None]
        /\ UNCHANGED inbox
     \/ /\ ~up[i]
        /\ Exit(i)
        /\ UNCHANGED wire
  /\ UNCHANGED <<published, brokerVars, up, mongo, faults>>

\* delivery.nack(...).await? for a message that did not decode.
NackDelivery(i) ==
  /\ pc[i] = "nack"
  /\ \/ /\ Send(i, "nack")
        /\ pc' = [pc EXCEPT ![i] = "next"]
        /\ cur' = [cur EXCEPT ![i] = None]
        /\ UNCHANGED inbox
     \/ /\ ~up[i]
        /\ Exit(i)
        /\ UNCHANGED wire
  /\ UNCHANGED <<published, brokerVars, up, mongo, faults>>

-----------------------------------------------------------------------------
(* Faults.                                                                 *)

\* The process dies (panic, kill, SIGTERM: main installs no handler), or leaves main
\* because its end of the connection failed while the broker holds the other open.
\* What it already wrote may still be read by the broker.
Crash(i) ==
  /\ pc[i] # "down"
  /\ faults < MaxFaults
  /\ faults' = faults + 1
  /\ Exit(i)
  /\ UNCHANGED <<published, brokerVars, up, wire, mongo>>

\* The connection breaks under a live process, which finds out only when it
\* next uses it.
LoseConnection(i) ==
  /\ up[i]
  /\ pc[i] # "down"
  /\ faults < MaxFaults
  /\ faults' = faults + 1
  /\ DropConnection(i)
  /\ UNCHANGED serviceVars

\* The broker notices that the process at the other end is gone.
CloseConnection(i) ==
  /\ up[i]
  /\ pc[i] = "down"
  /\ DropConnection(i)
  /\ UNCHANGED <<serviceVars, faults>>

-----------------------------------------------------------------------------
ServiceStep(i) ==
  \/ TakeDelivery(i)
  \/ StreamEnds(i)
  \/ InsertDocument(i)
  \/ ForwardEvent(i)
  \/ AckDelivery(i)
  \/ NackDelivery(i)

Next ==
  \/ Publish
  \/ \E i \in Instances :
       \/ Deliver(i)
       \/ BrokerReceive(i)
       \/ Start(i)
       \/ ServiceStep(i)
       \/ Crash(i)
       \/ LoseConnection(i)
       \/ CloseConnection(i)

Spec == Init /\ [][Next]_vars

\* The broker and a running service do not stop by themselves.  When no process is
\* left, somebody (an operator, systemd) starts one: nothing in the repository does.
\* Publishing and faults are not fair.
Fairness ==
  /\ WF_vars(\E i \in Instances : Deliver(i))
  /\ \A i \in Instances :
       /\ WF_vars(BrokerReceive(i))
       /\ WF_vars(CloseConnection(i))
       /\ WF_vars(ServiceStep(i))
  /\ WF_vars((\A j \in Instances : pc[j] = "down") /\ \E i \in Instances : Start(i))

FairSpec == Spec /\ Fairness

-----------------------------------------------------------------------------
(* Properties.                                                             *)

InNormalized(m) == \E k \in 1..Len(normalized) : normalized[k] = m
Copies(m) == Cardinality({k \in 1..Len(normalized) : normalized[k] = m})

\* Every variable has its type; an instance holds a delivery exactly while it
\* is handling one, and a process that is down holds nothing.
TypeOK ==
  /\ published \in 0..MaxPublished
  /\ raw \subseteq Msgs
  /\ unacked \in [Instances -> SUBSET Msgs]
  /\ up \in [Instances -> BOOLEAN]
  /\ wire \in [Instances -> Seq(Frames)]
  /\ normalized \in Seq(Msgs)
  /\ acked \subseteq Msgs
  /\ discarded \subseteq Msgs
  /\ inbox \in [Instances -> Seq(Msgs)]
  /\ pc \in [Instances -> {"down", "next", "insert", "forward", "ack", "nack"}]
  /\ cur \in [Instances -> Msgs \cup {None}]
  /\ mongo \in [Msgs -> Nat]
  /\ faults \in 0..MaxFaults
  /\ \A i \in Instances : cur[i] = None <=> pc[i] \in {"down", "next"}
  /\ \A i \in Instances : pc[i] = "down" => inbox[i] = <<>>

\* A well-formed event is never lost, whatever crashes, lost connections and
\* redeliveries happen: it waits on the raw queue, is some connection's
\* unsettled delivery, or was routed to device.events.normalized.  (main.rs
\* acks only after forward_event, on the same connection.)
NoEventLost ==
  \A m \in 1..published \ Malformed :
    \/ m \in raw
    \/ \E i \in Instances : m \in unacked[i]
    \/ InNormalized(m)

\* Every published message is accounted for: ready, delivered, done or dropped.
Accounted ==
  1..published \subseteq
    raw \cup (UNION {unacked[i] : i \in Instances}) \cup acked \cup discarded

\* m was routed downstream, or a publish of m is among the first k - 1 frames of
\* i's connection.
ForwardedBefore(i, m, k) ==
  \/ InNormalized(m)
  \/ \E j \in 1..Len(wire[i]) :
       j < k /\ wire[i][j].op = "publish" /\ wire[i][j].msg = m

\* i's connection carries no ack ahead of the publish it answers for, and nacks
\* malformed messages only; nothing is on a dead wire; and i acks or nacks next
\* only what it may.
ConnectionInOrder(i) ==
  /\ ~up[i] => wire[i] = <<>>
  /\ \A k \in 1..Len(wire[i]) :
       /\ wire[i][k].op = "ack" => ForwardedBefore(i, wire[i][k].msg, k)
       /\ wire[i][k].op = "nack" => wire[i][k].msg \in Malformed
  /\ pc[i] = "nack" => cur[i] \in Malformed
  /\ up[i] /\ pc[i] = "ack" => ForwardedBefore(i, cur[i], Len(wire[i]) + 1)

\* An ack never overtakes the publish it answers for, on the wire or at the
\* broker, and only malformed messages are dropped.  With Accounted this is why
\* no event is lost: the two channels share one FIFO connection, so a fault that
\* loses the publish loses the ack as well.
AcksFollowPublishes ==
  /\ \A m \in acked : InNormalized(m)
  /\ discarded \subseteq Malformed
  /\ \A i \in Instances : ConnectionInOrder(i)

\* The inductive strengthening of NoEventLost: no message escapes the accounting,
\* and none is counted done before its event is downstream.
DeliveryInv == Accounted /\ AcksFollowPublishes

\* Duplicates come from faults alone: each crash or lost connection may repeat
\* an event downstream, and its document in MongoDB, at most once more.
DuplicatesNeedFaults ==
  \A m \in Msgs : Copies(m) <= 1 + faults /\ mongo[m] <= 1 + faults

CopiesInOrder ==
  \A k \in 1..Len(normalized) : \A m \in Events :
    m < normalized[k] => \E j \in 1..(k - 1) : normalized[j] = m

\* The broker holds one connection of the service at most, live or half open.
OneConnection == \A i, j \in Instances : up[i] /\ up[j] => i = j

\* The first copies of the events appear downstream in the order the events were
\* published, across crashes, lost connections, restarts and redeliveries, as long as
\* no instance connects before the broker has let go of the one before it.  (main.rs
\* does not see to that: a restart beside a half-open connection, whose deliveries
\* are still out, forwards later events first.)
FirstCopiesInOrder == []OneConnection => []CopiesInOrder

\* docs/flow.md:89: "The event is acknowledged only after both the MongoDB
\* write and the republish succeed."  The code acks after a failed write too.
AckedIsPersisted ==
  \A m \in acked : mongo[m] > 0

\* Every published event eventually reaches device.events.normalized, and every
\* malformed message is eventually dropped: neither a poison message nor a
\* fault blocks the queue for good.
EventuallySettled ==
  \A m \in Msgs :
    published >= m ~> (IF m \in Malformed THEN m \in discarded
                                          ELSE InNormalized(m))

\* The service implements the at-least-once promise: a message is settled only
\* after the event it carries was routed downstream (a malformed message owes
\* nothing).
Relay == INSTANCE AtLeastOnceRelay WITH
  Inputs  <- Msgs,
  Owed    <- [m \in Msgs |-> IF m \in Malformed THEN {} ELSE {m}],
  pending <- raw \cup UNION {unacked[i] : i \in Instances},
  settled <- acked \cup discarded,
  emitted <- {m \in Msgs : InNormalized(m)}

ImplementsRelay == Relay!Spec

-----------------------------------------------------------------------------
(* What makes the properties inductive.                                    *)

\* The messages that frames of the given kinds on w are about.
Sent(w, ops) == {m \in Msgs : \E k \in 1..Len(w) : w[k].op \in ops /\ w[k].msg = m}

Settling(i)   == Sent(wire[i], {"ack", "nack"})
Forwarding(i) == Sent(wire[i], {"publish"})
InHand(i)     == {cur[i]} \ {None}

\* A connection carries a message's publish at most once, and after it, at most
\* once, what settles the message.
InTurn(w) ==
  \A j, k \in 1..Len(w) :
    j < k /\ w[j].msg = w[k].msg => w[j].op = "publish" /\ w[k].op # "publish"

\* Only what was published is anywhere.
PublishedOnly ==
  /\ raw \cup acked \cup discarded \subseteq 1..published
  /\ Range(normalized) \subseteq 1..published
  /\ \A m \in Msgs : mongo[m] > 0 => m \in 1..published

\* A message is ready, some one instance's delivery, or settled, and never two of
\* these.
OneHolder ==
  /\ raw \cap (acked \cup discarded) = {}
  /\ \A i \in Instances : unacked[i] \cap (raw \cup acked \cup discarded) = {}
  /\ \A i, j \in Instances : i # j => unacked[i] \cap unacked[j] = {}

\* Instance i has each delivery once: buffered, in hand, or on its connection; on a
\* live connection all of these are deliveries the broker waits for.
Holding(i) ==
  /\ unacked[i] \cup Range(inbox[i]) \cup InHand(i) \subseteq 1..published
  /\ IsInjective(inbox[i]) /\ InTurn(wire[i])
  /\ cur[i] \notin Range(inbox[i]) \cup Settling(i)
  /\ Range(inbox[i]) \cap (Settling(i) \cup Forwarding(i)) = {}
  /\ pc[i] \in {"insert", "forward"} => cur[i] \notin Forwarding(i)
  /\ pc[i] \in {"insert", "forward", "ack"} => cur[i] \notin Malformed
  /\ Forwarding(i) \cap Malformed = {}
  /\ up[i] => Range(inbox[i]) \cup InHand(i) \cup Settling(i) \cup Forwarding(i)
                \subseteq unacked[i]
  /\ ~up[i] => unacked[i] = {} /\ wire[i] = <<>>

HolderInv == PublishedOnly /\ OneHolder /\ \A i \in Instances : Holding(i)

\* Event m may yet be forwarded by an instance the broker listens to; a forward of
\* it is on its way.
MayBeForwarded(m) ==
  \/ m \in raw
  \/ \E i \in Instances :
       /\ m \in unacked[i]
       /\ \/ pc[i] = "down"
          \/ m \in Range(inbox[i])
          \/ cur[i] = m /\ pc[i] \in {"insert", "forward"}

OnItsWay(m) == \E i \in Instances : m \in Forwarding(i)

\* Event m is, or will be, ready to be delivered anew; these instances have it and
\* have not stored it.
MayBeDelivered(m) ==
  m \in raw \/ \E i \in Instances : pc[i] = "down" /\ m \in unacked[i]

Storing(m) ==
  {i \in Instances : m \in Range(inbox[i]) \/ (cur[i] = m /\ pc[i] = "insert")}

\* What was forwarded or stored, and what may yet be, takes a fault for every
\* repetition.
ForwardsBounded(m) ==
  Copies(m) + (IF MayBeForwarded(m) THEN 1 ELSE 0)
    + (IF OnItsWay(m) THEN 1 ELSE 0) <= 1 + faults

DocumentsBounded(m) ==
  /\ IsFiniteSet(Storing(m))
  /\ mongo[m] + (IF MayBeDelivered(m) THEN 1 ELSE 0)
       + Cardinality(Storing(m)) <= 1 + faults

RepeatsAreFaults == \A m \in Msgs : ForwardsBounded(m) /\ DocumentsBounded(m)

\* Every event before m was routed downstream, or is forwarded ahead of frame k.
EarlierForwarded(i, m, k) == \A n \in Events : n < m => ForwardedBefore(i, n, k)

Increasing(s) == \A j, k \in 1..Len(s) : j < k => s[j] < s[k]

\* While there is one connection: what its instance was delivered comes before all
\* that is ready,
DeliveredInOrder(i) == \A n \in unacked[i], m \in raw : n < m

\* no forward precedes that of an earlier event,
WireInOrder(i) ==
  \A k \in 1..Len(wire[i]) :
    wire[i][k].op = "publish" => EarlierForwarded(i, wire[i][k].msg, k)

\* and deliveries are taken in order, each event to be forwarded before the next.
TakenInOrder(i) ==
  /\ Increasing(inbox[i])
  /\ \A m \in Range(inbox[i]) : cur[i] < m
  /\ \A n \in unacked[i] \ Malformed :
       \/ n \in Range(inbox[i])
       \/ n = cur[i] /\ pc[i] \in {"insert", "forward"}
       \/ ForwardedBefore(i, n, Len(wire[i]) + 1)

ForwardingInOrder(i) ==
  /\ DeliveredInOrder(i)
  /\ WireInOrder(i)
  /\ up[i] /\ pc[i] # "down" => TakenInOrder(i)

OrderInv == CopiesInOrder /\ \A i \in Instances : ForwardingInOrder(i)
=============================================================================
