--------------------------- MODULE DispatcherProofs ---------------------------
(***************************************************************************)
(* Proofs about Dispatcher, for any dispatchers and demo-clis, in any       *)
(* configurations, and any bounds: its type invariant, that no alarm leaves *)
(* the queue unnoticed, that only faults make the consumers try an alarm    *)
(* again, and, provided that every configuration has a channel, that they   *)
(* implement AtLeastOnceRelay: without a channel an alarm is settled though *)
(* nobody was to be told, and the promise is empty.                         *)
(***************************************************************************)
EXTENDS Dispatcher, SequenceTheorems, FiniteSetTheorems, TLAPS

-----------------------------------------------------------------------------
(* Sequences: wires and inboxes, first in, first out.                     *)

\* Removing the head of a non-empty sequence shifts the others down by one; the
\* head of a sequence that repeats nothing is nowhere else in it.
LEMMA TailFacts ==
  ASSUME NEW S, NEW s \in Seq(S), s # <<>>
  PROVE  /\ Head(s) \in S /\ Head(s) = s[1]
         /\ Tail(s) \in Seq(S)
         /\ Len(s) \in Nat \ {0} /\ Len(Tail(s)) = Len(s) - 1
         /\ \A k \in 1..(Len(s) - 1) : Tail(s)[k] = s[k + 1]
         /\ Range(s) = {Head(s)} \cup Range(Tail(s))
         /\ IsInjective(s) => IsInjective(Tail(s)) /\ Head(s) \notin Range(Tail(s))
<1>1. /\ Head(s) \in S /\ Head(s) = s[1]
      /\ Tail(s) \in Seq(S) /\ Len(s) \in Nat \ {0} /\ Len(Tail(s)) = Len(s) - 1
      /\ \A k \in 1..(Len(s) - 1) : Tail(s)[k] = s[k + 1]
      /\ DOMAIN s = 1..Len(s) /\ DOMAIN Tail(s) = 1..(Len(s) - 1)
  OBVIOUS
<1>2. Range(s) = {Head(s)} \cup Range(Tail(s))
  <2>1. \A k \in 1..Len(s) : k = 1 \/ \E n \in 1..(Len(s) - 1) : k = n + 1
    <3>1. \A k \in 1..Len(s) : k # 1 => k - 1 \in 1..(Len(s) - 1) /\ k = (k - 1) + 1
      BY <1>1
    <3> QED
      BY <3>1
  <2>2. 1 \in 1..Len(s) /\ \A k \in 1..(Len(s) - 1) : k + 1 \in 1..Len(s)
    BY <1>1
  <2>3. Range(Tail(s)) \subseteq Range(s) /\ Head(s) \in Range(s)
    BY <1>1, <2>2 DEF Range
  <2>4. \A n \in 1..(Len(s) - 1) : s[n + 1] \in Range(Tail(s))
    BY <1>1 DEF Range
  <2>5. \A k \in 1..Len(s) : s[k] = Head(s) \/ s[k] \in Range(Tail(s))
    BY <1>1, <2>1, <2>4
  <2> QED
    BY <1>1, <2>3, <2>5 DEF Range
<1>3. IsInjective(s) => IsInjective(Tail(s)) /\ Head(s) \notin Range(Tail(s))
  BY <1>1 DEF IsInjective, Range
<1> QED
  BY <1>1, <1>2, <1>3

\* Appending keeps what was there and puts the new element last.
LEMMA AppendFacts ==
  ASSUME NEW S, NEW s \in Seq(S), NEW e \in S
  PROVE  /\ Append(s, e) \in Seq(S)
         /\ Len(s) \in Nat /\ Len(Append(s, e)) = Len(s) + 1
         /\ \A k \in 1..Len(s) : Append(s, e)[k] = s[k]
         /\ Append(s, e)[Len(s) + 1] = e
         /\ Range(Append(s, e)) = Range(s) \cup {e}
         /\ IsInjective(s) /\ e \notin Range(s) => IsInjective(Append(s, e))
<1>1. /\ Append(s, e) \in Seq(S)
      /\ Len(s) \in Nat /\ Len(Append(s, e)) = Len(s) + 1
      /\ \A k \in 1..Len(s) : Append(s, e)[k] = s[k]
      /\ Append(s, e)[Len(s) + 1] = e
      /\ DOMAIN s = 1..Len(s) /\ DOMAIN Append(s, e) = 1..(Len(s) + 1)
  OBVIOUS
<1>2. Range(Append(s, e)) = Range(s) \cup {e}
  BY <1>1 DEF Range
<1> QED
  BY <1>1, <1>2 DEF Range, IsInjective

\* Nothing is in an empty sequence.
LEMMA EmptyFacts ==
  ASSUME NEW S
  PROVE  <<>> \in Seq(S) /\ Range(<<>>) = {} /\ IsInjective(<<>>)
BY DEF Range, IsInjective

-----------------------------------------------------------------------------
(* The operators the actions are built from.                               *)

\* dispatch_alarm tries the webhook if there is one, then e-mail if there is, and
\* then acks; a demo-cli prints and acks.
LEMMA NextStageFacts ==
  ASSUME NEW i \in Consumers, NEW stage \in {"decoded", "printed", "posted", "emailed"}
  PROVE  /\ NextStage(i, stage) \in {"print", "webhook", "email", "ack"}
         /\ NextStage(i, stage) = "print" => i \in Viewers
         /\ NextStage(i, stage) = "webhook" =>
              i \notin Viewers /\ "webhook" \in config.channels
         /\ NextStage(i, stage) = "email" =>
              /\ i \notin Viewers /\ "email" \in config.channels
              /\ stage = "decoded" => "webhook" \notin config.channels
         /\ NextStage(i, stage) = "ack" =>
              \/ i \in Viewers /\ stage # "decoded"
              \/ /\ i \notin Viewers
                 /\ stage # "emailed" => "email" \notin config.channels
                 /\ stage = "decoded" => "webhook" \notin config.channels
  BY DEF NextStage

\* One more attempt on c for the alarm in i's hand, up to the bound.
LEMMA AttemptFacts ==
  ASSUME TypeOK, NEW i \in Consumers, NEW c \in Channels, cur[i] \in Msgs
  PROVE  /\ Attempt(i, c) \in [Msgs -> [Channels -> 0..MaxAttempts]]
         /\ Attempt(i, c)[cur[i]][c] > 0
         /\ \A m \in Msgs : \A d \in Channels :
              attempts[m][d] > 0 => Attempt(i, c)[m][d] > 0
<1> USE DispatcherAssumption DEF TypeOK
<1>1. attempts[cur[i]] \in [Channels -> 0..MaxAttempts]
  OBVIOUS
<1>2. MaxAttempts \in Nat /\ MaxAttempts > 0
  BY DEF MaxAttempts
<1>3. DEFINE n == IF attempts[cur[i]][c] < MaxAttempts THEN attempts[cur[i]][c] + 1
                  ELSE attempts[cur[i]][c]
<1>4. n \in 0..MaxAttempts /\ n > 0
  BY <1>1, <1>2
<1>5. Attempt(i, c) = [attempts EXCEPT ![cur[i]] = [attempts[cur[i]] EXCEPT ![c] = n]]
  BY DEF Attempt
<1> HIDE DEF n
<1>6. [attempts[cur[i]] EXCEPT ![c] = n] \in [Channels -> 0..MaxAttempts]
  BY <1>1, <1>4
<1> QED
  BY <1>1, <1>4, <1>5, <1>6

\* Settle writes one ack or nack of the message in hand on a live connection.
LEMMA SettleType ==
  ASSUME TypeOK, NEW i \in Consumers, cur[i] \in Msgs, pc[i] \in {"ack", "nack"},
         wire' = IF up[i]
                 THEN [wire EXCEPT ![i] = Append(@, [op |-> pc[i], msg |-> cur[i]])]
                 ELSE wire
  PROVE  wire' \in [Consumers -> Seq([op : {"ack", "nack"}, msg : Msgs])]
<1>1. [op |-> pc[i], msg |-> cur[i]] \in [op : {"ack", "nack"}, msg : Msgs]
  OBVIOUS
<1>2. Append(wire[i], [op |-> pc[i], msg |-> cur[i]])
        \in Seq([op : {"ack", "nack"}, msg : Msgs])
  BY <1>1, AppendFacts DEF TypeOK
<1> QED
  BY <1>2 DEF TypeOK

\* A consumer that ends holds nothing.
LEMMA ExitTypes ==
  ASSUME TypeOK, NEW i \in Consumers, Exit(i)
  PROVE  /\ pc' \in [Consumers -> {"down", "next", "print", "webhook", "email",
                                   "ack", "nack"}]
         /\ cur' \in [Consumers -> Msgs \cup {None}]
         /\ inbox' \in [Consumers -> Seq(Msgs)]
         /\ \A j \in Consumers : cur'[j] = None <=> pc'[j] \in {"down", "next"}
         /\ \A j \in Consumers : pc'[j] = "down" => inbox'[j] = <<>>
<1>1. <<>> \in Seq(Msgs)
  OBVIOUS
<1>2. /\ pc' \in [Consumers -> {"down", "next", "print", "webhook", "email",
                                "ack", "nack"}]
      /\ cur' \in [Consumers -> Msgs \cup {None}]
  BY DEF Exit, TypeOK
<1>3. inbox' \in [Consumers -> Seq(Msgs)]
  BY <1>1 DEF Exit, TypeOK
<1>4. \A j \in Consumers : cur'[j] = None <=> pc'[j] \in {"down", "next"}
  BY DEF Exit, TypeOK
<1>5. \A j \in Consumers : pc'[j] = "down" => inbox'[j] = <<>>
  BY DEF Exit, TypeOK
<1> QED
  BY <1>2, <1>3, <1>4, <1>5

-----------------------------------------------------------------------------
(* Type correctness.                                                       *)

\* Every step of the broker, and every fault, keeps the types.
LEMMA BrokerTypes ==
  ASSUME TypeOK, NEW i \in Consumers,
         \/ Deliver(i) \/ ReceiveSettlement(i)
         \/ Crash(i) \/ LoseConnection(i) \/ CloseConnection(i)
  PROVE  TypeOK'
<1> USE DispatcherAssumption
<1>1. CASE Deliver(i)
  <2>1. PICK m \in ready :
          /\ ready' = ready \ {m}
          /\ unacked' = [unacked EXCEPT ![i] = @ \cup {m}]
          /\ inbox' = IF pc[i] = "down" THEN inbox
                      ELSE [inbox EXCEPT ![i] = Append(@, m)]
    BY <1>1 DEF Deliver
  <2>2. m \in Msgs
    BY DEF TypeOK
  <2>3. Append(inbox[i], m) \in Seq(Msgs)
    BY <2>2, AppendFacts DEF TypeOK
  <2>4. inbox' \in [Consumers -> Seq(Msgs)]
    BY <2>1, <2>3 DEF TypeOK
  <2>5. unacked' \in [Consumers -> SUBSET Msgs] /\ ready' \subseteq Msgs
    BY <2>1, <2>2 DEF TypeOK
  <2>6. UNCHANGED <<published, acked, dropped, up, wire, pc, cur, attempts, shown,
                    config, faults>>
    BY <1>1 DEF Deliver, outsideVars
  <2>7. \A j \in Consumers : pc'[j] = "down" => inbox'[j] = <<>>
    BY <2>1, <2>6 DEF TypeOK
  <2> QED
    BY <2>4, <2>5, <2>6, <2>7 DEF TypeOK
<1>2. CASE ReceiveSettlement(i)
  <2> DEFINE f == Head(wire[i])
  <2>1. /\ f \in [op : {"ack", "nack"}, msg : Msgs]
        /\ Tail(wire[i]) \in Seq([op : {"ack", "nack"}, msg : Msgs])
    BY <1>2, TailFacts DEF ReceiveSettlement, TypeOK
  <2>2. f.msg \in Msgs
    BY <2>1
  <2>3. wire' \in [Consumers -> Seq([op : {"ack", "nack"}, msg : Msgs])]
    BY <1>2, <2>1 DEF ReceiveSettlement, TypeOK
  <2>4. /\ unacked' \in [Consumers -> SUBSET Msgs]
        /\ acked' \subseteq Msgs
        /\ dropped' \subseteq Msgs
    BY <1>2, <2>2 DEF ReceiveSettlement, TypeOK
  <2>5. UNCHANGED <<published, ready, up, inbox, pc, cur, attempts, shown, config, faults>>
    BY <1>2 DEF ReceiveSettlement, outsideVars
  <2> QED
    BY <2>3, <2>4, <2>5 DEF TypeOK
<1>3. CASE Crash(i)
  <2>1. Exit(i)
    BY <1>3 DEF Crash
  <2>2. /\ faults' \in 0..MaxFaults
        /\ UNCHANGED <<published, ready, unacked, acked, dropped, up, wire,
                       attempts, shown, config>>
    BY <1>3 DEF Crash, queueVars, outsideVars, TypeOK
  <2> QED
    BY <2>1, <2>2, ExitTypes DEF TypeOK
<1>4. CASE LoseConnection(i) \/ CloseConnection(i)
  <2>1. /\ up' \in [Consumers -> BOOLEAN]
        /\ wire' \in [Consumers -> Seq([op : {"ack", "nack"}, msg : Msgs])]
        /\ ready' \subseteq Msgs
        /\ unacked' \in [Consumers -> SUBSET Msgs]
    <3>1. /\ <<>> \in Seq([op : {"ack", "nack"}, msg : Msgs])
          /\ FALSE \in BOOLEAN /\ {} \in SUBSET Msgs
      OBVIOUS
    <3>2. DropConnection(i)
      BY <1>4 DEF LoseConnection, CloseConnection
    <3>3. unacked[i] \subseteq Msgs
      BY DEF TypeOK
    <3> QED
      BY <3>1, <3>2, <3>3 DEF DropConnection, TypeOK
  <2>2. /\ faults' \in 0..MaxFaults
        /\ UNCHANGED <<published, acked, dropped, inbox, pc, cur, attempts, shown, config>>
    BY <1>4 DEF LoseConnection, CloseConnection, DropConnection, outsideVars, TypeOK
  <2> QED
    BY <2>1, <2>2 DEF TypeOK
<1> QED
  BY <1>1, <1>2, <1>3, <1>4

\* Every step of a consumer keeps the types.
LEMMA ConsumerTypes ==
  ASSUME TypeOK, NEW i \in Consumers, Start(i) \/ OwnStep(i) \/ PostWebhook(i)
  PROVE  TypeOK'
<1> USE DispatcherAssumption
<1>1. None \notin Msgs
  BY DEF None, Msgs
<1>2. CASE Start(i)
  BY <1>2 DEF Start, TypeOK, queueVars, outsideVars
<1>3. CASE TakeAlarm(i)
  <2>1. /\ Head(inbox[i]) \in Msgs
        /\ Tail(inbox[i]) \in Seq(Msgs)
    BY <1>3, TailFacts DEF TakeAlarm, TypeOK
  <2>2. NextStage(i, "decoded") \in {"print", "webhook", "email", "ack"}
    BY NextStageFacts
  <2> QED
    BY <1>1, <1>3, <2>1, <2>2 DEF TakeAlarm, TypeOK, queueVars, outsideVars
<1>4. CASE StreamEnds(i)
  <2>1. Exit(i)
    BY <1>4 DEF StreamEnds
  <2>2. UNCHANGED <<published, ready, unacked, acked, dropped, up, wire,
                    attempts, shown, config, faults>>
    BY <1>4 DEF StreamEnds, queueVars, outsideVars
  <2> QED
    BY <2>1, <2>2, ExitTypes DEF TypeOK
<1>5. CASE PrintAlarm(i)
  <2>1. cur[i] \in Msgs
    BY <1>5 DEF PrintAlarm, TypeOK
  <2>2. NextStage(i, "printed") \in {"print", "webhook", "email", "ack"}
    BY NextStageFacts
  <2> QED
    BY <1>5, <2>1, <2>2 DEF PrintAlarm, TypeOK, queueVars
<1>6. CASE PostWebhook(i)
  <2>1. cur[i] \in Msgs
    BY <1>6 DEF PostWebhook, TypeOK
  <2>2. NextStage(i, "posted") \in {"print", "webhook", "email", "ack"}
    BY NextStageFacts
  <2>3. attempts' \in [Msgs -> [Channels -> 0..MaxAttempts]]
    BY <1>6, <2>1, AttemptFacts DEF PostWebhook, Channels
  <2> QED
    BY <1>6, <2>1, <2>2, <2>3 DEF PostWebhook, TypeOK, queueVars
<1>7. CASE SendEmail(i)
  <2>1. cur[i] \in Msgs
    BY <1>7 DEF SendEmail, TypeOK
  <2>2. CASE config.addressesParse
    <3>1. NextStage(i, "emailed") \in {"print", "webhook", "email", "ack"}
      BY NextStageFacts
    <3>2. attempts' \in [Msgs -> [Channels -> 0..MaxAttempts]]
      BY <1>7, <2>1, <2>2, AttemptFacts DEF SendEmail, Channels
    <3> QED
      BY <1>7, <2>1, <2>2, <3>1, <3>2, ZenonT(30) DEF SendEmail, TypeOK, queueVars
  <2>3. CASE ~config.addressesParse
    <3>1. Exit(i)
      BY <1>7, <2>3 DEF SendEmail
    <3>2. UNCHANGED <<published, ready, unacked, acked, dropped, up, wire,
                      attempts, shown, config, faults>>
      BY <1>7, <2>3 DEF SendEmail, queueVars
    <3> QED
      BY <3>1, <3>2, ExitTypes DEF TypeOK
  <2> QED
    BY <2>2, <2>3
<1>8. CASE Settle(i)
  <2>1. cur[i] \in Msgs
    BY <1>8 DEF Settle, TypeOK
  <2>2. CASE pc' = [pc EXCEPT ![i] = "next"] /\ cur' = [cur EXCEPT ![i] = None] /\ inbox' = inbox
    <3>1. wire' \in [Consumers -> Seq([op : {"ack", "nack"}, msg : Msgs])]
      <4>1. CASE wire' = wire
        BY <4>1 DEF TypeOK
      <4>2. CASE wire' # wire
        BY <1>8, <2>1, <4>2, SettleType DEF Settle
      <4> QED
        BY <4>1, <4>2
    <3> QED
      BY <1>8, <2>2, <3>1 DEF Settle, TypeOK, queueVars, outsideVars
  <2>3. CASE Exit(i) /\ wire' = wire
    <3>1. UNCHANGED <<published, ready, unacked, acked, dropped, up,
                      attempts, shown, config, faults>>
      BY <1>8 DEF Settle, queueVars, outsideVars
    <3> QED
      BY <2>3, <3>1, ExitTypes DEF TypeOK
  <2> QED
    BY <1>8, <2>2, <2>3 DEF Settle
<1> QED
  BY <1>2, <1>3, <1>4, <1>5, <1>6, <1>7, <1>8 DEF OwnStep

\* Every step keeps the types.
LEMMA StepTypes ==
  TypeOK /\ [Next]_vars => TypeOK'
<1> SUFFICES ASSUME TypeOK, [Next]_vars
             PROVE  TypeOK'
  OBVIOUS
<1>1. CASE Publish
  <2>1. published + 1 \in Msgs /\ published' \in 0..MaxPublished
    BY <1>1, DispatcherAssumption DEF Publish, TypeOK, Msgs
  <2>2. ready' \subseteq Msgs
    BY <1>1, <2>1 DEF Publish, TypeOK
  <2>3. UNCHANGED <<unacked, acked, dropped, up, wire, inbox, pc, cur,
                    attempts, shown, config, faults>>
    BY <1>1 DEF Publish, outsideVars
  <2> QED
    BY <2>1, <2>2, <2>3 DEF TypeOK
<1>2. CASE \E i \in Consumers :
             \/ Deliver(i) \/ ReceiveSettlement(i)
             \/ Crash(i) \/ LoseConnection(i) \/ CloseConnection(i)
  BY <1>2, BrokerTypes
<1>3. CASE \E i \in Consumers : Start(i) \/ OwnStep(i) \/ PostWebhook(i)
  BY <1>3, ConsumerTypes
<1>4. CASE UNCHANGED vars
  BY <1>4 DEF vars, queueVars, outsideVars, TypeOK
<1> QED
  BY <1>1, <1>2, <1>3, <1>4 DEF Next

\* The empty queue, before any consumer has started, has its types.
LEMMA InitTypes == Init => TypeOK
  BY DispatcherAssumption DEF Init, TypeOK, Msgs, None, MaxAttempts

\* Every behaviour is well typed: a consumer holds a delivery exactly while it
\* handles one, and a process that is down holds nothing.
THEOREM TypeCorrect == Spec => []TypeOK
  BY InitTypes, StepTypes, PTL DEF Spec

-----------------------------------------------------------------------------
(* No alarm leaves the queue unnoticed.                                    *)

\* A step never takes back a notification, nor changes what was configured.
NoticesStay ==
  /\ config' = config
  /\ shown \subseteq shown'
  /\ \A m \in Msgs : \A c \in Channels : attempts[m][c] > 0 => attempts'[m][c] > 0

\* Every step lets the notifications stand.
LEMMA StepKeepsNotices ==
  ASSUME TypeOK, Next
  PROVE  NoticesStay
<1>1. CASE UNCHANGED outsideVars
  BY <1>1 DEF outsideVars, NoticesStay
<1>2. ASSUME NEW i \in Consumers, PrintAlarm(i)
      PROVE  NoticesStay
  BY <1>2 DEF PrintAlarm, NoticesStay
<1>3. ASSUME NEW i \in Consumers, PostWebhook(i)
      PROVE  NoticesStay
  <2>1. cur[i] \in Msgs
    BY <1>3 DEF PostWebhook, TypeOK
  <2> QED
    BY <1>3, <2>1, AttemptFacts DEF PostWebhook, NoticesStay, Channels
<1>4. ASSUME NEW i \in Consumers, SendEmail(i)
      PROVE  NoticesStay
  <2>1. cur[i] \in Msgs
    BY <1>4 DEF SendEmail, TypeOK
  <2> QED
    BY <1>4, <2>1, AttemptFacts DEF SendEmail, NoticesStay, Channels
<1> QED
  BY <1>1, <1>2, <1>3, <1>4
  DEF Next, OwnStep, Publish, Deliver, ReceiveSettlement, Start, TakeAlarm, StreamEnds,
      Settle, Crash, LoseConnection, CloseConnection, DropConnection, outsideVars

\* An alarm that was noticed stays so.
LEMMA NoticedStays ==
  ASSUME TypeOK, NoticesStay, NEW m \in Msgs, Noticed(m)
  PROVE  Noticed(m)'
<1>1. config.channels \subseteq Channels
  BY DispatcherAssumption DEF TypeOK, Config
<1> QED
  BY <1>1 DEF NoticesStay, Noticed, Attempted

\* Every step keeps every message on the queue, with a consumer, or settled.
LEMMA StepAccounts ==
  ASSUME TypeOK, Accounted, Next
  PROVE  Accounted'
<1>1. CASE Publish
  <2>1. /\ published' = published + 1 /\ ready' = ready \cup {published + 1}
        /\ UNCHANGED <<unacked, acked, dropped>>
    BY <1>1 DEF Publish
  <2>2. \A m \in 1..published' : m \in 1..published \/ m = published + 1
    BY <2>1 DEF TypeOK
  <2> QED
    BY <2>1, <2>2 DEF Accounted
<1>2. ASSUME NEW i \in Consumers, Deliver(i)
      PROVE  Accounted'
  <2>1. PICK m \in ready :
          /\ ready' = ready \ {m}
          /\ unacked' = [unacked EXCEPT ![i] = @ \cup {m}]
    BY <1>2 DEF Deliver
  <2>2. m \in unacked'[i] /\ \A j \in Consumers : unacked[j] \subseteq unacked'[j]
    BY <2>1 DEF TypeOK
  <2>3. UNCHANGED <<published, acked, dropped>>
    BY <1>2 DEF Deliver
  <2> QED
    BY <2>1, <2>2, <2>3 DEF Accounted
<1>3. ASSUME NEW i \in Consumers, ReceiveSettlement(i)
      PROVE  Accounted'
  <2> DEFINE f == Head(wire[i])
  <2>1. \A j \in Consumers : unacked[j] \subseteq unacked'[j] \cup {f.msg}
    BY <1>3 DEF ReceiveSettlement, TypeOK
  <2>2. /\ f.msg \in acked' \cup dropped'
        /\ acked \subseteq acked' /\ dropped \subseteq dropped'
        /\ UNCHANGED <<published, ready>>
    BY <1>3 DEF ReceiveSettlement
  <2> QED
    BY <2>1, <2>2 DEF Accounted
<1>4. ASSUME NEW i \in Consumers, LoseConnection(i) \/ CloseConnection(i)
      PROVE  Accounted'
  <2>1. DropConnection(i)
    BY <1>4 DEF LoseConnection, CloseConnection
  <2>2. \A j \in Consumers : unacked[j] \subseteq unacked'[j] \cup ready'
    BY <2>1 DEF DropConnection, TypeOK
  <2>3. ready \subseteq ready' /\ UNCHANGED <<published, acked, dropped>>
    BY <2>1 DEF DropConnection
  <2> QED
    BY <2>2, <2>3 DEF Accounted
<1>5. CASE UNCHANGED <<published, queueVars>>
  BY <1>5 DEF queueVars, Accounted
<1> QED
  BY <1>1, <1>2, <1>3, <1>4, <1>5
  DEF Next, OwnStep, Start, TakeAlarm, StreamEnds, PrintAlarm, PostWebhook, SendEmail,
      Settle, Crash

\* A settlement, on the wire or read, is of an alarm that was noticed or of a
\* message that does not decode.
Justified(f) ==
  \/ f.op = "ack" /\ Noticed(f.msg)
  \/ f.op = "nack" /\ f.msg \in Undecodable

Settlements == [op : {"ack", "nack"}, msg : Msgs]

\* What is on the wire is a settlement, and justified.
LEMMA OnTheWire ==
  ASSUME TypeOK, SettledIsNoticed, NEW j \in Consumers, NEW k \in 1..Len(wire[j])
  PROVE  wire[j][k] \in Settlements /\ Justified(wire[j][k])
<1>1. wire[j][k] \in Settlements
  BY ElementOfSeq DEF TypeOK, Settlements
<1> QED
  BY <1>1 DEF SettledIsNoticed, Justified

\* A justified settlement stays so.
LEMMA JustifiedStays ==
  ASSUME TypeOK, NoticesStay, NEW f \in Settlements, Justified(f)
  PROVE  Justified(f)'
<1>1. CASE f.op = "ack" /\ Noticed(f.msg)
  <2>1. f.msg \in Msgs
    BY DEF Settlements
  <2>2. Noticed(f.msg)'
    BY <1>1, <2>1, NoticedStays
  <2> QED
    BY <1>1, <2>2 DEF Justified, Noticed, Attempted
<1>2. CASE f.op = "nack" /\ f.msg \in Undecodable
  BY <1>2 DEF Justified
<1> QED
  BY <1>1, <1>2 DEF Justified

\* If every settlement on the new wire was on the old one or is justified, and
\* what the broker has newly read was on the wire, then all are of alarms that
\* were noticed.
LEMMA WireStaysJustified ==
  ASSUME TypeOK, SettledIsNoticed, NoticesStay,
         \A j \in Consumers : \A k \in 1..Len(wire'[j]) :
           \/ \E n \in 1..Len(wire[j]) : wire'[j][k] = wire[j][n]
           \/ \E f \in Settlements : Justified(f) /\ wire'[j][k] = f,
         \A m \in acked' : m \in Msgs /\ Noticed(m),
         dropped' \subseteq Undecodable
  PROVE  SettledIsNoticed'
<1>1. \A m \in acked' : Noticed(m)'
  BY NoticedStays
<1>2. ASSUME NEW j \in Consumers, NEW k \in 1..Len(wire'[j])
      PROVE  \/ wire'[j][k].op = "ack" /\ Noticed(wire[j][k].msg)'
             \/ wire'[j][k].op = "nack" /\ wire'[j][k].msg \in Undecodable
  <2>1. PICK f \in Settlements : Justified(f) /\ wire'[j][k] = f
    BY <1>2, OnTheWire
  <2>2. Justified(f)'
    BY <2>1, JustifiedStays
  <2> QED
    BY <2>1, <2>2 DEF Justified, Noticed, Attempted
<1> QED
  BY <1>1, <1>2 DEF SettledIsNoticed, Noticed, Attempted

\* Every step acks only what was noticed and drops only what does not decode.
LEMMA StepSettles ==
  ASSUME NoticeInv, Next, NoticesStay
  PROVE  SettledIsNoticed'
<1> USE DEF NoticeInv
<1>1. \A m \in acked : m \in Msgs /\ Noticed(m)
  BY DEF TypeOK, SettledIsNoticed
<1>2. dropped \subseteq Undecodable
  BY DEF SettledIsNoticed
<1>3. CASE UNCHANGED <<wire, acked, dropped>>
  BY <1>1, <1>2, <1>3, WireStaysJustified
<1>4. ASSUME NEW i \in Consumers, ReceiveSettlement(i)
      PROVE  SettledIsNoticed'
  <2> DEFINE f == Head(wire[i])
  <2>1. wire[i] # <<>> /\ wire[i] \in Seq(Settlements)
    BY <1>4 DEF ReceiveSettlement, TypeOK, Settlements
  <2>2. /\ Len(wire[i]) \in Nat \ {0} /\ f = wire[i][1]
        /\ Len(Tail(wire[i])) = Len(wire[i]) - 1
        /\ \A k \in 1..(Len(wire[i]) - 1) : Tail(wire[i])[k] = wire[i][k + 1]
    BY <2>1, TailFacts
  <2>3. f \in Settlements /\ Justified(f)
    BY <2>2, OnTheWire
  <2>4. \A j \in Consumers : \A k \in 1..Len(wire'[j]) :
          \E n \in 1..Len(wire[j]) : wire'[j][k] = wire[j][n]
    <3>1. ASSUME NEW k \in 1..Len(wire'[i])
          PROVE  \E n \in 1..Len(wire[i]) : wire'[i][k] = wire[i][n]
      <4>1. wire'[i] = Tail(wire[i])
        BY <1>4 DEF ReceiveSettlement, TypeOK
      <4>2. k + 1 \in 1..Len(wire[i]) /\ wire'[i][k] = wire[i][k + 1]
        BY <2>2, <4>1
      <4> QED
        BY <4>2
    <3>2. \A j \in Consumers \ {i} : wire'[j] = wire[j]
      BY <1>4 DEF ReceiveSettlement, TypeOK
    <3> QED
      BY <3>1, <3>2
  <2>5. f.msg \in Msgs
    BY <2>3 DEF Settlements
  <2>6. CASE f.op = "ack" /\ acked' = acked \cup {f.msg} /\ dropped' = dropped
    <3>1. Noticed(f.msg)
      BY <2>3, <2>6 DEF Justified
    <3>2. \A m \in acked' : m \in Msgs /\ Noticed(m)
      BY <1>1, <2>5, <2>6, <3>1
    <3> QED
      BY <1>2, <2>4, <2>6, <3>2, WireStaysJustified
  <2>7. CASE f.op = "nack" /\ dropped' = dropped \cup {f.msg} /\ acked' = acked
    <3>1. f.msg \in Undecodable
      BY <2>3, <2>7 DEF Justified
    <3> QED
      BY <1>1, <1>2, <2>4, <2>7, <3>1, WireStaysJustified
  <2> QED
    BY <1>4, <2>6, <2>7 DEF ReceiveSettlement
<1>5. ASSUME NEW i \in Consumers, LoseConnection(i) \/ CloseConnection(i)
      PROVE  SettledIsNoticed'
  <2>1. /\ wire' = [wire EXCEPT ![i] = <<>>]
        /\ UNCHANGED <<acked, dropped>>
    BY <1>5 DEF LoseConnection, CloseConnection, DropConnection
  <2>2. \A j \in Consumers : wire'[j] = IF j = i THEN <<>> ELSE wire[j]
    BY <2>1 DEF TypeOK
  <2>3. \A j \in Consumers : \A k \in 1..Len(wire'[j]) :
          \E n \in 1..Len(wire[j]) : wire'[j][k] = wire[j][n]
    BY <2>2
  <2> QED
    BY <1>1, <1>2, <2>1, <2>3, WireStaysJustified
<1>6. ASSUME NEW i \in Consumers, Settle(i)
      PROVE  SettledIsNoticed'
  <2> DEFINE f == [op |-> pc[i], msg |-> cur[i]]
  <2>1. UNCHANGED <<acked, dropped>>
    BY <1>6 DEF Settle, queueVars
  <2>2. f \in Settlements /\ Justified(f)
    <3>1. pc[i] \in {"ack", "nack"} /\ cur[i] \in Msgs
      BY <1>6 DEF Settle, TypeOK
    <3> QED
      BY <3>1 DEF Settlements, Justified, HandIsOnItsWay
  <2>3. CASE wire' = [wire EXCEPT ![i] = Append(@, f)]
    <3>1. wire[i] \in Seq(Settlements) /\ wire'[i] = Append(wire[i], f)
      BY <2>3 DEF TypeOK, Settlements
    <3>2. \A j \in Consumers \ {i} : wire'[j] = wire[j]
      BY <2>3 DEF TypeOK
    <3>3. \A k \in 1..Len(wire'[i]) :
            \/ k \in 1..Len(wire[i]) /\ wire'[i][k] = wire[i][k]
            \/ wire'[i][k] = f
      <4> HIDE DEF f
      <4> QED
        BY <2>2, <3>1, AppendFacts
    <3> HIDE DEF f
    <3>4. \A j \in Consumers : \A k \in 1..Len(wire'[j]) :
            \/ \E n \in 1..Len(wire[j]) : wire'[j][k] = wire[j][n]
            \/ \E g \in Settlements : Justified(g) /\ wire'[j][k] = g
      BY <2>2, <3>2, <3>3
    <3> QED
      BY <1>1, <1>2, <2>1, <3>4, WireStaysJustified
  <2>4. CASE wire' = wire
    BY <1>3, <2>1, <2>4
  <2> QED
    BY <1>6, <2>3, <2>4 DEF Settle
<1> QED
  BY <1>3, <1>4, <1>5, <1>6
  DEF Next, OwnStep, Publish, Deliver, Start, TakeAlarm, StreamEnds, PrintAlarm,
      PostWebhook, SendEmail, Crash, queueVars

\* Every step leaves a consumer with a message in hand that it may settle the way
\* it is about to.
LEMMA StepHands ==
  ASSUME NoticeInv, Next, NoticesStay
  PROVE  HandIsOnItsWay'
<1> USE DEF NoticeInv
<1>1. /\ config' = config /\ config.channels \subseteq Channels
  BY DispatcherAssumption DEF NoticesStay, TypeOK, Config
<1> DEFINE Way(j) ==
      /\ pc[j] = "nack" => cur[j] \in Undecodable
      /\ pc[j] = "ack" => Noticed(cur[j])
      /\ pc[j] \in {"print", "webhook", "email"} => cur[j] \notin Undecodable
      /\ pc[j] = "print" => j \in Viewers
      /\ pc[j] \in {"webhook", "email"} => j \notin Viewers /\ pc[j] \in config.channels
      /\ pc[j] = "email" /\ "webhook" \in config.channels =>
           attempts[cur[j]]["webhook"] > 0
<1>2. ASSUME NEW j \in Consumers, pc'[j] = pc[j], cur'[j] = cur[j]
      PROVE  Way(j)'
  <2>1. Way(j)
    BY DEF HandIsOnItsWay
  <2>2. pc[j] \in {"ack", "email"} => cur[j] \in Msgs
    BY DEF TypeOK
  <2>3. pc[j] = "ack" => Noticed(cur[j])'
    <3>1. PICK m : m = cur[j]
      OBVIOUS
    <3>2. pc[j] = "ack" => m \in Msgs /\ Noticed(m)
      BY <2>1, <2>2, <3>1
    <3>3. pc[j] = "ack" => Noticed(m)'
      BY <3>2, NoticedStays
    <3> QED
      BY <1>2, <3>1, <3>3 DEF Noticed, Attempted
  <2>4. pc[j] = "email" /\ "webhook" \in config.channels =>
          attempts'[cur[j]]["webhook"] > 0
    BY <2>1, <2>2 DEF NoticesStay, Channels
  <2> QED
    BY <1>1, <1>2, <2>1, <2>3, <2>4 DEF Noticed, Attempted
<1>3. ASSUME NEW i \in Consumers, Way(i)',
             \A j \in Consumers \ {i} : pc'[j] = pc[j] /\ cur'[j] = cur[j]
      PROVE  HandIsOnItsWay'
  <2>1. \A j \in Consumers : Way(j)'
    BY <1>2, <1>3
  <2> QED
    BY <2>1 DEF HandIsOnItsWay
<1>4. CASE UNCHANGED <<pc, cur>>
  <2>1. \A j \in Consumers : Way(j)'
    BY <1>2, <1>4
  <2> QED
    BY <2>1 DEF HandIsOnItsWay
<1>5. ASSUME NEW i \in Consumers, pc' \in {[pc EXCEPT ![i] = "down"], [pc EXCEPT ![i] = "next"]},
             cur' \in {cur, [cur EXCEPT ![i] = None]}
      PROVE  HandIsOnItsWay'
  <2>1. /\ pc'[i] \in {"down", "next"}
        /\ \A j \in Consumers \ {i} : pc'[j] = pc[j] /\ cur'[j] = cur[j]
    BY <1>5 DEF TypeOK
  <2>2. Way(i)'
    BY <2>1
  <2> QED
    BY <1>3, <2>1, <2>2
<1>6. ASSUME NEW i \in Consumers, TakeAlarm(i)
      PROVE  HandIsOnItsWay'
  <2>1. PICK m : m = Head(inbox[i])
    OBVIOUS
  <2>2. m \in Msgs
    BY <1>6, <2>1, TailFacts DEF TakeAlarm, TypeOK
  <2>3. /\ cur'[i] = m
        /\ pc'[i] = IF m \in Undecodable THEN "nack" ELSE NextStage(i, "decoded")
        /\ \A j \in Consumers \ {i} : pc'[j] = pc[j] /\ cur'[j] = cur[j]
    BY <1>6, <2>1 DEF TakeAlarm, TypeOK
  <2>4. CASE m \in Undecodable
    BY <1>3, <2>3, <2>4
  <2>5. CASE m \notin Undecodable
    <3>1. /\ pc'[i] \in {"print", "webhook", "email", "ack"}
          /\ pc'[i] = "print" => i \in Viewers
          /\ pc'[i] \in {"webhook", "email"} => i \notin Viewers /\ pc'[i] \in config.channels
          /\ pc'[i] = "email" => "webhook" \notin config.channels
          /\ pc'[i] = "ack" => config.channels = {}
      BY <1>1, <2>3, <2>5, NextStageFacts DEF Channels
    <3>2. pc'[i] = "ack" => Noticed(m)'
      BY <1>1, <3>1 DEF Noticed, Attempted
    <3>3. Way(i)'
      BY <1>1, <2>3, <3>1, <3>2 DEF Noticed, Attempted
    <3> QED
      BY <1>3, <2>3, <3>3
  <2> QED
    BY <2>4, <2>5
<1>7. ASSUME NEW i \in Consumers, PrintAlarm(i)
      PROVE  HandIsOnItsWay'
  <2>1. i \in Viewers
    BY <1>7 DEF PrintAlarm, HandIsOnItsWay
  <2>2. NextStage(i, "printed") = "ack"
    BY <2>1 DEF NextStage
  <2>3. /\ pc'[i] = "ack" /\ cur[i] \in shown'
        /\ cur' = cur
        /\ \A j \in Consumers \ {i} : pc'[j] = pc[j]
    BY <1>7, <2>2 DEF PrintAlarm, TypeOK
  <2>4. Way(i)'
    BY <2>3 DEF Noticed
  <2> QED
    BY <1>3, <2>3, <2>4
<1>8. ASSUME NEW i \in Consumers, PostWebhook(i)
      PROVE  HandIsOnItsWay'
  <2>1. /\ cur[i] \in Msgs /\ cur[i] \notin Undecodable /\ i \notin Viewers
        /\ cur' = cur
        /\ pc'[i] = NextStage(i, "posted")
        /\ \A j \in Consumers \ {i} : pc'[j] = pc[j]
    BY <1>8 DEF PostWebhook, TypeOK, HandIsOnItsWay
  <2>2. attempts'[cur[i]]["webhook"] > 0
    BY <1>8, <2>1, AttemptFacts DEF PostWebhook, Channels
  <2>3. /\ pc'[i] \in {"email", "ack"}
        /\ pc'[i] = "email" => "email" \in config.channels
        /\ pc'[i] = "ack" => "email" \notin config.channels
    BY <2>1 DEF NextStage
  <2>4. pc'[i] = "ack" => \A c \in config.channels : attempts'[cur[i]][c] > 0
    BY <1>1, <2>2, <2>3 DEF Channels
  <2>5. Way(i)'
    BY <1>1, <2>1, <2>2, <2>3, <2>4 DEF Noticed, Attempted
  <2> QED
    BY <1>3, <2>1, <2>5
<1>9. ASSUME NEW i \in Consumers, SendEmail(i), config.addressesParse
      PROVE  HandIsOnItsWay'
  <2>1. /\ cur[i] \in Msgs /\ cur[i] \notin Undecodable /\ i \notin Viewers
        /\ cur' = cur
        /\ pc'[i] = NextStage(i, "emailed")
        /\ \A j \in Consumers \ {i} : pc'[j] = pc[j]
    BY <1>9 DEF SendEmail, TypeOK, HandIsOnItsWay
  <2>2. attempts'[cur[i]]["email"] > 0
    BY <1>9, <2>1, AttemptFacts DEF SendEmail, Channels
  <2>3. pc'[i] = "ack"
    BY <2>1 DEF NextStage
  <2>4. "webhook" \in config.channels => attempts'[cur[i]]["webhook"] > 0
    BY <1>9, <2>1 DEF SendEmail, HandIsOnItsWay, NoticesStay, Channels
  <2>5. \A c \in config.channels : attempts'[cur[i]][c] > 0
    BY <1>1, <2>2, <2>4 DEF Channels
  <2>6. Way(i)'
    BY <1>1, <2>1, <2>3, <2>5 DEF Noticed, Attempted
  <2> QED
    BY <1>3, <2>1, <2>6
<1>10. ASSUME NEW i \in Consumers,
             \/ Start(i) \/ StreamEnds(i) \/ Settle(i) \/ Crash(i)
             \/ SendEmail(i) /\ ~config.addressesParse
      PROVE  HandIsOnItsWay'
  BY <1>5, <1>10 DEF Start, StreamEnds, Settle, Crash, SendEmail, Exit
<1> QED
  BY <1>4, <1>6, <1>7, <1>8, <1>9, <1>10
  DEF Next, OwnStep, Publish, Deliver, ReceiveSettlement, LoseConnection, CloseConnection

\* Before anything was published, nothing was settled.
LEMMA InitNotices == Init => NoticeInv
<1> SUFFICES ASSUME Init
             PROVE  NoticeInv
  OBVIOUS
<1>1. TypeOK
  BY InitTypes
<1>2. Accounted
  BY DEF Init, Accounted
<1>3. SettledIsNoticed
  BY DEF Init, SettledIsNoticed
<1>4. HandIsOnItsWay
  BY DEF Init, HandIsOnItsWay
<1> QED
  BY <1>1, <1>2, <1>3, <1>4 DEF NoticeInv

\* The invariant is inductive.
LEMMA StepNotices ==
  NoticeInv /\ [Next]_vars => NoticeInv'
<1> SUFFICES ASSUME NoticeInv, [Next]_vars
             PROVE  NoticeInv'
  OBVIOUS
<1>1. TypeOK'
  BY StepTypes DEF NoticeInv
<1>2. CASE Next
  <2>1. NoticesStay
    BY <1>2, StepKeepsNotices DEF NoticeInv
  <2> QED
    BY <1>1, <1>2, <2>1, StepAccounts, StepSettles, StepHands DEF NoticeInv
<1>3. CASE UNCHANGED vars
  <2>1. Accounted'
    BY <1>3 DEF vars, queueVars, NoticeInv, Accounted
  <2>2. SettledIsNoticed'
    BY <1>3 DEF vars, queueVars, outsideVars, NoticeInv, SettledIsNoticed, Noticed, Attempted
  <2>3. HandIsOnItsWay'
    BY <1>3 DEF vars, outsideVars, NoticeInv, HandIsOnItsWay, Noticed, Attempted
  <2> QED
    BY <1>1, <2>1, <2>2, <2>3 DEF NoticeInv
<1> QED
  BY <1>2, <1>3

\* No alarm disappears unnoticed, however many dispatchers and demo-clis share the
\* queue, whatever channels are configured, and whichever of them crash or lose
\* their connection, and how often.
THEOREM NoAlarmGoesUnnoticed == Spec => []NoAlarmUnnoticed
<1>1. NoticeInv => NoAlarmUnnoticed
  BY DEF NoticeInv, Accounted, SettledIsNoticed, Noticed, NoAlarmUnnoticed
<1> QED
  BY <1>1, InitNotices, StepNotices, PTL DEF Spec

-----------------------------------------------------------------------------
(* Every message has one holder.                                           *)

\* What a consumer's connection looks like, live or dead.
Connected(i) ==
  IF up[i] THEN LiveConnection(i) ELSE wire[i] = <<>> /\ unacked[i] = {}

\* A step that leaves j's deliveries and its connection alone leaves it connected
\* as it was.
LEMMA OthersConnected ==
  ASSUME NEW j \in Consumers, Connected(j),
         UNCHANGED <<up[j], wire[j], unacked[j], inbox[j], cur[j]>>
  PROVE  Connected(j)'
  BY DEF Connected, LiveConnection

\* So a step of consumer i's connection has only that connection to look after.
LEMMA OneConnection ==
  ASSUME HolderInv, NEW i \in Consumers,
         \A j \in Consumers \ {i} :
           UNCHANGED <<up[j], wire[j], unacked[j], inbox[j], cur[j]>>,
         PublishedOnly', OneHolder', Connected(i)'
  PROVE  HolderInv'
<1>1. \A j \in Consumers : Connected(j)'
  BY OthersConnected DEF HolderInv, Connected
<1> QED
  BY <1>1 DEF HolderInv, Connected

\* A step that moves nothing on the broker's side keeps every message's holder,
\* if the consumer that takes it still knows only published messages.
LEMMA ServiceKeepsHolders ==
  ASSUME HolderInv, NEW i \in Consumers,
         UNCHANGED <<published, queueVars, up>>,
         \A j \in Consumers \ {i} : UNCHANGED <<wire[j], inbox[j], cur[j]>>,
         cur'[i] # None => cur'[i] \in 1..published,
         \A k \in 1..Len(inbox'[i]) : inbox'[i][k] \in 1..published,
         Connected(i)'
  PROVE  HolderInv'
<1>1. PublishedOnly'
  BY DEF HolderInv, PublishedOnly, queueVars
<1>2. OneHolder'
  BY DEF HolderInv, OneHolder, queueVars
<1> QED
  BY <1>1, <1>2, OneConnection DEF queueVars

\* A consumer that ends leaves to its connection what it had written.
LEMMA ExitKeepsHolders ==
  ASSUME TypeOK, HolderInv, NEW i \in Consumers, Exit(i),
         UNCHANGED <<published, queueVars, up, wire>>
  PROVE  HolderInv'
<1>1. /\ cur'[i] = None /\ inbox'[i] = <<>>
      /\ \A j \in Consumers \ {i} : UNCHANGED <<wire[j], inbox[j], cur[j]>>
  BY DEF Exit, TypeOK
<1>2. \A m \in unacked[i] : m # None
  BY DEF TypeOK, Msgs, None
<1>3. CASE up[i]
  <2>1. LiveConnection(i)
    BY <1>3 DEF HolderInv
  <2>2. LiveConnection(i)'
    BY <1>1, <1>2, <2>1 DEF LiveConnection, queueVars
  <2> QED
    BY <1>1, <1>3, <2>2, ServiceKeepsHolders DEF Connected
<1>4. CASE ~up[i]
  <2>1. Connected(i)'
    BY <1>4 DEF HolderInv, Connected, queueVars
  <2> QED
    BY <1>1, <2>1, ServiceKeepsHolders
<1> QED
  BY <1>3, <1>4

\* The broker hands a ready message to i, behind those i has.
LEMMA DeliverKeepsHolders ==
  ASSUME TypeOK, HolderInv, NEW i \in Consumers, Deliver(i)
  PROVE  HolderInv'
<1>1. PICK m \in ready :
        /\ ready' = ready \ {m}
        /\ unacked' = [unacked EXCEPT ![i] = @ \cup {m}]
        /\ inbox' = IF pc[i] = "down" THEN inbox
                    ELSE [inbox EXCEPT ![i] = Append(@, m)]
  BY DEF Deliver
<1>2. /\ up[i] /\ UNCHANGED <<published, acked, dropped, up, wire, cur>>
      /\ m \in Msgs /\ m \in 1..published
      /\ unacked'[i] = unacked[i] \cup {m}
      /\ \A j \in Consumers \ {i} : unacked'[j] = unacked[j] /\ inbox'[j] = inbox[j]
  BY <1>1 DEF Deliver, TypeOK, HolderInv, PublishedOnly
<1>3. /\ inbox[i] \in Seq(Msgs) /\ Len(inbox[i]) \in Nat
      /\ \/ inbox'[i] = inbox[i]
         \/ /\ Len(inbox'[i]) = Len(inbox[i]) + 1
            /\ \A k \in 1..Len(inbox[i]) : inbox'[i][k] = inbox[i][k]
            /\ inbox'[i][Len(inbox[i]) + 1] = m
  <2>1. inbox[i] \in Seq(Msgs)
    BY DEF TypeOK
  <2>2. inbox'[i] = inbox[i] \/ inbox'[i] = Append(inbox[i], m)
    BY <1>1 DEF TypeOK
  <2> QED
    BY <1>2, <2>1, <2>2, AppendFacts
<1>4. \A k \in 1..Len(inbox'[i]) :
        \/ k \in 1..Len(inbox[i]) /\ inbox'[i][k] = inbox[i][k]
        \/ /\ k = Len(inbox[i]) + 1 /\ inbox'[i][k] = m
           /\ Len(inbox'[i]) = Len(inbox[i]) + 1
  BY <1>3
<1>5. PublishedOnly'
  <2>1. ready' \cup acked' \cup dropped' \subseteq 1..published'
    BY <1>1, <1>2 DEF HolderInv, PublishedOnly
  <2>2. \A j \in Consumers : unacked'[j] \subseteq 1..published'
    BY <1>2 DEF HolderInv, PublishedOnly
  <2>3. \A j \in Consumers : \A k \in 1..Len(inbox'[j]) : inbox'[j][k] \in 1..published'
    BY <1>2, <1>4 DEF HolderInv, PublishedOnly
  <2> QED
    BY <1>2, <2>1, <2>2, <2>3 DEF HolderInv, PublishedOnly
<1>6. m \notin unacked[i] /\ \A j \in Consumers : m \notin unacked[j]
  BY DEF HolderInv, OneHolder
<1>7. OneHolder'
  BY <1>1, <1>2, <1>6 DEF HolderInv, OneHolder
<1>8. LiveConnection(i)'
  <2>1. LiveConnection(i)
    BY <1>2 DEF HolderInv
  <2>2. m # cur[i] /\ \A n \in 1..Len(wire[i]) : wire[i][n].msg # m
    <3>1. m # None
      BY <1>2 DEF Msgs, None
    <3> QED
      BY <1>6, <2>1, <3>1 DEF LiveConnection
  <2>3. cur'[i] # None => cur'[i] \in unacked'[i]
    BY <1>2, <2>1 DEF LiveConnection
  <2>4. \A k \in 1..Len(wire'[i]) :
          /\ wire'[i][k].msg \in unacked'[i] \ {cur'[i]}
          /\ \A n \in 1..Len(wire'[i]) : n # k => wire'[i][n].msg # wire'[i][k].msg
    BY <1>2, <2>1 DEF LiveConnection
  <2>5. ASSUME NEW k \in 1..Len(inbox'[i])
        PROVE  /\ inbox'[i][k] \in unacked'[i] \ {cur'[i]}
               /\ \A n \in 1..Len(wire'[i]) : wire'[i][n].msg # inbox'[i][k]
    BY <1>2, <1>4, <2>1, <2>2, SMTT(30) DEF LiveConnection
  <2>6. ASSUME NEW k \in 1..Len(inbox'[i]), NEW n \in 1..Len(inbox'[i]), n # k
        PROVE  inbox'[i][n] # inbox'[i][k]
    <3>1. CASE k \in 1..Len(inbox[i]) /\ n \in 1..Len(inbox[i])
      BY <1>3, <1>4, <2>1, <2>6, <3>1 DEF LiveConnection
    <3>2. CASE k = Len(inbox[i]) + 1 /\ n \in 1..Len(inbox[i])
      BY <1>3, <1>4, <1>6, <2>1, <2>6, <3>2 DEF LiveConnection
    <3>3. CASE n = Len(inbox[i]) + 1 /\ k \in 1..Len(inbox[i])
      BY <1>3, <1>4, <1>6, <2>1, <2>6, <3>3, SMTT(30) DEF LiveConnection
    <3> QED
      BY <1>4, <2>6, <3>1, <3>2, <3>3
  <2> QED
    BY <2>3, <2>4, <2>5, <2>6 DEF LiveConnection
<1> QED
  BY <1>2, <1>5, <1>7, <1>8, OneConnection DEF Connected

\* The broker reads the first settlement on i's wire: that message is i's no
\* longer, and nothing else i holds is the same message.
LEMMA ReceiveKeepsHolders ==
  ASSUME TypeOK, HolderInv, NEW i \in Consumers, ReceiveSettlement(i)
  PROVE  /\ HolderInv'
         /\ Head(wire[i]).msg \in unacked[i]
         /\ Len(wire[i]) \in Nat \ {0} /\ Head(wire[i]) = wire[i][1]
<1> DEFINE f == Head(wire[i])
<1>1. /\ up[i] /\ UNCHANGED <<published, ready, up, inbox, cur>>
      /\ wire[i] # <<>> /\ wire'[i] = Tail(wire[i])
      /\ unacked'[i] = unacked[i] \ {f.msg}
      /\ acked' \cup dropped' = acked \cup dropped \cup {f.msg}
      /\ \A j \in Consumers \ {i} : wire'[j] = wire[j] /\ unacked'[j] = unacked[j]
  BY DEF ReceiveSettlement, TypeOK
<1>2. wire[i] \in Seq(Settlements)
  BY DEF TypeOK, Settlements
<1>3. /\ Len(wire[i]) \in Nat \ {0} /\ f = wire[i][1]
      /\ Len(wire'[i]) = Len(wire[i]) - 1
      /\ \A k \in 1..(Len(wire[i]) - 1) : wire'[i][k] = wire[i][k + 1]
  BY <1>1, <1>2, TailFacts
<1>4. LiveConnection(i)
  BY <1>1 DEF HolderInv
<1>5. f.msg \in unacked[i] /\ f.msg # cur[i]
  BY <1>3, <1>4 DEF LiveConnection
<1>6. PublishedOnly'
  BY <1>1, <1>5 DEF HolderInv, PublishedOnly
<1>7. OneHolder'
  BY <1>1 DEF HolderInv, OneHolder
<1>8. \A k \in 1..Len(wire'[i]) :
        /\ k + 1 \in 1..Len(wire[i]) /\ wire'[i][k] = wire[i][k + 1]
        /\ wire[i][k + 1].msg # f.msg
  <2>1. /\ 1 \in 1..Len(wire[i])
        /\ \A k \in 1..Len(wire'[i]) :
             k + 1 \in 1..Len(wire[i]) /\ k + 1 # 1 /\ wire'[i][k] = wire[i][k + 1]
    BY <1>3
  <2> QED
    BY <1>3, <1>4, <2>1 DEF LiveConnection
<1>9. LiveConnection(i)'
  <2>1. cur'[i] # None => cur'[i] \in unacked'[i]
    BY <1>1, <1>4, <1>5 DEF LiveConnection
  <2>2. ASSUME NEW k \in 1..Len(wire'[i])
        PROVE  wire'[i][k].msg \in unacked'[i] \ {cur'[i]}
    BY <1>1, <1>4, <1>8 DEF LiveConnection
  <2>3. ASSUME NEW k \in 1..Len(wire'[i]), NEW n \in 1..Len(wire'[i]), n # k
        PROVE  wire'[i][n].msg # wire'[i][k].msg
    <3>1. n + 1 # k + 1
      BY <1>3, <2>3
    <3>2. /\ k + 1 \in 1..Len(wire[i]) /\ wire'[i][k] = wire[i][k + 1]
          /\ n + 1 \in 1..Len(wire[i]) /\ wire'[i][n] = wire[i][n + 1]
      BY <1>8
    <3>3. wire[i][n + 1].msg # wire[i][k + 1].msg
      BY <1>4, <3>1, <3>2 DEF LiveConnection
    <3> QED
      BY <3>2, <3>3
  <2>4. ASSUME NEW k \in 1..Len(inbox'[i])
        PROVE  /\ inbox'[i][k] \in unacked'[i] \ {cur'[i]}
               /\ \A n \in 1..Len(inbox'[i]) : n # k => inbox'[i][n] # inbox'[i][k]
    BY <1>1, <1>3, <1>4 DEF LiveConnection
  <2>5. ASSUME NEW k \in 1..Len(inbox'[i]), NEW n \in 1..Len(wire'[i])
        PROVE  wire'[i][n].msg # inbox'[i][k]
    BY <1>1, <1>4, <1>8 DEF LiveConnection
  <2> QED
    BY <2>1, <2>2, <2>3, <2>4, <2>5 DEF LiveConnection
<1>10. HolderInv'
  BY <1>1, <1>6, <1>7, <1>9, OneConnection DEF Connected
<1> QED
  BY <1>3, <1>5, <1>10

\* A connection that goes gives back what is unsettled.
LEMMA DropKeepsHolders ==
  ASSUME TypeOK, HolderInv, NEW i \in Consumers, DropConnection(i),
         UNCHANGED <<inbox, cur>>
  PROVE  HolderInv'
<1>1. /\ ~up'[i] /\ wire'[i] = <<>> /\ unacked'[i] = {}
      /\ ready' = ready \cup unacked[i]
      /\ UNCHANGED <<published, acked, dropped>>
      /\ \A j \in Consumers \ {i} :
           up'[j] = up[j] /\ wire'[j] = wire[j] /\ unacked'[j] = unacked[j]
  BY DEF DropConnection, TypeOK
<1>2. PublishedOnly'
  BY <1>1 DEF HolderInv, PublishedOnly
<1>3. OneHolder'
  BY <1>1 DEF HolderInv, OneHolder
<1> QED
  BY <1>1, <1>2, <1>3, OneConnection DEF Connected

\* A message that is put on the queue is new to everybody.
LEMMA PublishKeepsHolders ==
  ASSUME TypeOK, HolderInv, Publish
  PROVE  /\ HolderInv'
         /\ published + 1 \in Msgs
         /\ published + 1 \notin ready \cup acked \cup dropped
         /\ \A i \in Consumers : published + 1 \notin unacked[i]
<1>1. /\ published \in Nat /\ published < MaxPublished /\ MaxPublished \in Nat
      /\ published' = published + 1 /\ ready' = ready \cup {published + 1}
      /\ UNCHANGED <<unacked, acked, dropped, up, wire, inbox, pc, cur>>
  BY DispatcherAssumption DEF Publish, TypeOK
<1>2. \A m \in 1..published : m \in 1..published' /\ m # published + 1
  BY <1>1
<1>3. published + 1 \in 1..published' /\ published + 1 \in Msgs
  BY <1>1 DEF Msgs
<1>4. /\ published + 1 \notin ready \cup acked \cup dropped
      /\ \A i \in Consumers : published + 1 \notin unacked[i]
  BY <1>2 DEF HolderInv, PublishedOnly
<1>5. PublishedOnly'
  <2>1. ready' \cup acked' \cup dropped' \subseteq 1..published'
    BY <1>1, <1>2, <1>3 DEF HolderInv, PublishedOnly
  <2>2. \A i \in Consumers :
          /\ unacked[i] \subseteq 1..published'
          /\ cur[i] # None => cur[i] \in 1..published'
          /\ \A k \in 1..Len(inbox[i]) : inbox[i][k] \in 1..published'
    BY <1>2 DEF HolderInv, PublishedOnly
  <2> QED
    BY <1>1, <2>1, <2>2 DEF PublishedOnly
<1>6. OneHolder'
  BY <1>1, <1>4 DEF HolderInv, OneHolder
<1>7. \A i \in Consumers : Connected(i)'
  BY <1>1, OthersConnected DEF HolderInv, Connected
<1> QED
  BY <1>3, <1>4, <1>5, <1>6, <1>7 DEF HolderInv, Connected

\* The delivery that a consumer takes in hand leaves its stream.
LEMMA TakeKeepsHolders ==
  ASSUME TypeOK, HolderInv, NEW i \in Consumers, TakeAlarm(i)
  PROVE  HolderInv'
<1>1. /\ inbox[i] # <<>> /\ inbox[i] \in Seq(Msgs)
      /\ cur'[i] = Head(inbox[i]) /\ inbox'[i] = Tail(inbox[i]) /\ cur[i] = None
      /\ UNCHANGED <<published, queueVars, up, wire>>
      /\ \A j \in Consumers \ {i} : inbox'[j] = inbox[j] /\ cur'[j] = cur[j]
  BY DEF TakeAlarm, TypeOK
<1>2. /\ Len(inbox[i]) \in Nat \ {0} /\ cur'[i] = inbox[i][1]
      /\ Len(inbox'[i]) = Len(inbox[i]) - 1
      /\ \A k \in 1..(Len(inbox[i]) - 1) : inbox'[i][k] = inbox[i][k + 1]
  BY <1>1, TailFacts
<1>3. 1 \in 1..Len(inbox[i])
  BY <1>2
<1>4. \A k \in 1..Len(inbox'[i]) :
        k + 1 \in 1..Len(inbox[i]) /\ k + 1 # 1 /\ inbox'[i][k] = inbox[i][k + 1]
  BY <1>2
<1>5. /\ cur'[i] \in 1..published
      /\ \A k \in 1..Len(inbox'[i]) : inbox'[i][k] \in 1..published
  BY <1>2, <1>3, <1>4 DEF HolderInv, PublishedOnly
<1>6. CASE up[i]
  <2>1. LiveConnection(i)
    BY <1>6 DEF HolderInv
  <2>2. cur'[i] \in unacked[i] /\ \A n \in 1..Len(wire[i]) : wire[i][n].msg # cur'[i]
    BY <1>2, <1>3, <2>1 DEF LiveConnection
  <2>3. ASSUME NEW k \in 1..Len(inbox'[i])
        PROVE  /\ inbox'[i][k] \in unacked[i] \ {cur'[i]}
               /\ \A n \in 1..Len(wire[i]) : wire[i][n].msg # inbox'[i][k]
    BY <1>2, <1>3, <1>4, <2>1 DEF LiveConnection
  <2>4. ASSUME NEW k \in 1..Len(inbox'[i]), NEW n \in 1..Len(inbox'[i]), n # k
        PROVE  inbox'[i][n] # inbox'[i][k]
    <3>1. n + 1 # k + 1
      BY <1>2, <2>4
    <3>2. /\ k + 1 \in 1..Len(inbox[i]) /\ inbox'[i][k] = inbox[i][k + 1]
          /\ n + 1 \in 1..Len(inbox[i]) /\ inbox'[i][n] = inbox[i][n + 1]
      BY <1>4
    <3>3. inbox[i][n + 1] # inbox[i][k + 1]
      BY <2>1, <3>1, <3>2 DEF LiveConnection
    <3> QED
      BY <3>2, <3>3
  <2>5. \A k \in 1..Len(wire[i]) :
          /\ wire[i][k].msg \in unacked[i] \ {cur'[i]}
          /\ \A n \in 1..Len(wire[i]) : n # k => wire[i][n].msg # wire[i][k].msg
    BY <2>1, <2>2 DEF LiveConnection
  <2>6. LiveConnection(i)'
    BY <1>1, <2>2, <2>3, <2>4, <2>5 DEF LiveConnection, queueVars
  <2> QED
    BY <1>1, <1>5, <1>6, <2>6, ServiceKeepsHolders DEF Connected
<1>7. CASE ~up[i]
  <2>1. Connected(i)'
    BY <1>1, <1>7 DEF HolderInv, Connected, queueVars
  <2> QED
    BY <1>1, <1>5, <2>1, ServiceKeepsHolders
<1> QED
  BY <1>6, <1>7

\* What a consumer settles, on a live connection, goes from its hand to the wire.
LEMMA SettleKeepsHolders ==
  ASSUME TypeOK, HolderInv, NEW i \in Consumers, Settle(i)
  PROVE  HolderInv'
<1> DEFINE f == [op |-> pc[i], msg |-> cur[i]]
<1>1. /\ UNCHANGED <<published, queueVars, up>> /\ cur[i] \in Msgs
      /\ f \in Settlements
  BY DEF Settle, TypeOK, Settlements
<1>2. CASE Exit(i) /\ wire' = wire
  BY <1>1, <1>2, ExitKeepsHolders
<1>3. CASE /\ wire' = IF up[i] THEN [wire EXCEPT ![i] = Append(@, f)] ELSE wire
           /\ cur' = [cur EXCEPT ![i] = None]
           /\ inbox' = inbox
  <2>1. /\ cur'[i] = None /\ inbox' = inbox
        /\ \A j \in Consumers \ {i} : wire'[j] = wire[j] /\ cur'[j] = cur[j]
    BY <1>3 DEF TypeOK
  <2>2. \A k \in 1..Len(inbox[i]) : inbox[i][k] \in 1..published
    BY DEF HolderInv, PublishedOnly
  <2>3. CASE ~up[i]
    <3>1. Connected(i)'
      BY <1>1, <1>3, <2>3 DEF HolderInv, Connected, queueVars
    <3> QED
      BY <1>1, <2>1, <2>2, <3>1, ServiceKeepsHolders
  <2>4. CASE up[i]
    <3>1. LiveConnection(i)
      BY <2>4 DEF HolderInv
    <3>2. wire[i] \in Seq(Settlements) /\ wire'[i] = Append(wire[i], f)
      BY <1>3, <2>4 DEF TypeOK, Settlements
    <3>3. /\ Len(wire[i]) \in Nat /\ Len(wire'[i]) = Len(wire[i]) + 1
          /\ \A k \in 1..Len(wire[i]) : wire'[i][k] = wire[i][k]
          /\ wire'[i][Len(wire[i]) + 1].msg = cur[i]
      BY <1>1, <3>2, AppendFacts
    <3>4. \A k \in 1..Len(wire'[i]) :
            \/ k \in 1..Len(wire[i]) /\ wire'[i][k] = wire[i][k]
            \/ k = Len(wire[i]) + 1 /\ wire'[i][k].msg = cur[i]
      BY <3>3
    <3>5. \A m \in unacked[i] : m # None
      BY DEF TypeOK, Msgs, None
    <3>6. cur[i] \in unacked[i]
      BY <1>1, <3>1 DEF LiveConnection, Msgs, None
    <3>7. ASSUME NEW k \in 1..Len(wire'[i])
          PROVE  wire'[i][k].msg \in unacked[i] \ {cur'[i]}
      BY <2>1, <3>1, <3>4, <3>5, <3>6 DEF LiveConnection
    <3>8. ASSUME NEW k \in 1..Len(wire'[i]), NEW n \in 1..Len(wire'[i]), n # k
          PROVE  wire'[i][n].msg # wire'[i][k].msg
      BY <3>1, <3>4, <3>8 DEF LiveConnection
    <3>9. ASSUME NEW k \in 1..Len(inbox[i])
          PROVE  /\ inbox[i][k] \in unacked[i] \ {cur'[i]}
                 /\ \A n \in 1..Len(inbox[i]) : n # k => inbox[i][n] # inbox[i][k]
                 /\ \A n \in 1..Len(wire'[i]) : wire'[i][n].msg # inbox[i][k]
      BY <2>1, <3>1, <3>4, <3>5 DEF LiveConnection
    <3>10. LiveConnection(i)'
      BY <1>1, <2>1, <3>7, <3>8, <3>9 DEF LiveConnection, queueVars
    <3> QED
      BY <1>1, <2>1, <2>2, <2>4, <3>10, ServiceKeepsHolders DEF Connected
  <2> QED
    BY <2>3, <2>4
<1> QED
  BY <1>2, <1>3 DEF Settle

\* A consumer that starts has a new connection, with nothing on it.
LEMMA StartKeepsHolders ==
  ASSUME TypeOK, HolderInv, NEW i \in Consumers, Start(i)
  PROVE  HolderInv'
<1>1. /\ UNCHANGED <<published, queueVars, wire, inbox, cur>>
      /\ up'[i] /\ ~up[i] /\ cur[i] = None /\ inbox[i] = <<>>
      /\ \A j \in Consumers \ {i} : up'[j] = up[j]
  BY DEF Start, TypeOK
<1>2. PublishedOnly' /\ OneHolder'
  BY <1>1 DEF HolderInv, PublishedOnly, OneHolder, queueVars
<1>3. LiveConnection(i)'
  BY <1>1 DEF HolderInv, LiveConnection
<1> QED
  BY <1>1, <1>2, <1>3, OneConnection DEF Connected, queueVars

\* Every step keeps every message's holder.
LEMMA StepKeepsHolders ==
  TypeOK /\ HolderInv /\ [Next]_vars => HolderInv'
<1> SUFFICES ASSUME TypeOK, HolderInv, [Next]_vars
             PROVE  HolderInv'
  OBVIOUS
<1>1. CASE Publish
  BY <1>1, PublishKeepsHolders
<1>2. CASE UNCHANGED <<published, queueVars, up, wire, inbox, cur>>
  BY <1>2 DEF queueVars, HolderInv, PublishedOnly, OneHolder, LiveConnection
<1>3. ASSUME NEW i \in Consumers,
             StreamEnds(i) \/ Crash(i) \/ SendEmail(i)
      PROVE  HolderInv'
  <2>1. UNCHANGED <<published, queueVars, up, wire>> /\ (Exit(i) \/ UNCHANGED <<inbox, cur>>)
    BY <1>3 DEF StreamEnds, Crash, SendEmail
  <2> QED
    BY <1>2, <2>1, ExitKeepsHolders
<1>4. ASSUME NEW i \in Consumers, PrintAlarm(i) \/ PostWebhook(i)
      PROVE  HolderInv'
  BY <1>2, <1>4 DEF PrintAlarm, PostWebhook
<1>5. ASSUME NEW i \in Consumers, LoseConnection(i) \/ CloseConnection(i)
      PROVE  HolderInv'
  BY <1>5, DropKeepsHolders DEF LoseConnection, CloseConnection
<1>6. CASE UNCHANGED vars
  BY <1>2, <1>6 DEF vars
<1> QED
  BY <1>1, <1>3, <1>4, <1>5, <1>6, DeliverKeepsHolders, ReceiveKeepsHolders,
     TakeKeepsHolders, SettleKeepsHolders, StartKeepsHolders DEF Next, OwnStep

\* Nobody holds anything before the first message is published.
LEMMA InitHolders == Init => HolderInv
  BY DEF Init, HolderInv, PublishedOnly, OneHolder

-----------------------------------------------------------------------------
(* The steps of the relay.                                                 *)

Pending == ready \cup UNION {unacked[i] : i \in Consumers}
Settled == acked \cup dropped
Emitted == {m \in Msgs : Attempted(m) \/ m \in shown}

RelayMoves == Relay!Next \/ UNCHANGED Relay!vars

\* A message accepted, an output emitted, a message settled, or none of these.
LEMMA RelaySteps ==
  ASSUME NEW m \in Msgs,
         \/ /\ m \notin Pending \cup Settled /\ Pending' = Pending \cup {m}
            /\ Settled' = Settled /\ Emitted' = Emitted
         \/ /\ m \in Pending /\ m \notin Undecodable /\ Emitted' = Emitted \cup {m}
            /\ Pending' = Pending /\ Settled' = Settled
         \/ /\ m \in Pending /\ m \in Undecodable \cup Emitted
            /\ Pending' = Pending \ {m} /\ Settled' = Settled \cup {m}
            /\ Emitted' = Emitted
  PROVE  RelayMoves
<1> DEFINE owed == [n \in Msgs |-> {n} \ Undecodable]
<1>1. owed[m] = {m} \ Undecodable
  OBVIOUS
<1>2. CASE /\ m \notin Pending \cup Settled /\ Pending' = Pending \cup {m}
           /\ Settled' = Settled /\ Emitted' = Emitted
  <2>1. Relay!Accept(m)
    BY <1>2 DEF Relay!Accept, Pending, Settled, Emitted
  <2> QED
    BY <2>1 DEF RelayMoves, Relay!Next
<1>3. CASE /\ m \in Pending /\ m \notin Undecodable /\ Emitted' = Emitted \cup {m}
           /\ Pending' = Pending /\ Settled' = Settled
  <2>1. Relay!Emit(m, m)
    BY <1>1, <1>3 DEF Relay!Emit, Pending, Settled, Emitted
  <2> QED
    BY <1>1, <1>3, <2>1 DEF RelayMoves, Relay!Next
<1>4. CASE /\ m \in Pending /\ m \in Undecodable \cup Emitted
           /\ Pending' = Pending \ {m} /\ Settled' = Settled \cup {m}
           /\ Emitted' = Emitted
  <2>1. owed[m] \subseteq Emitted
    BY <1>1, <1>4
  <2>2. Relay!Settle(m)
    BY <1>4, <2>1 DEF Relay!Settle, Pending, Settled, Emitted
  <2> QED
    BY <2>2 DEF RelayMoves, Relay!Next
<1> QED
  BY <1>2, <1>3, <1>4

LEMMA RelayStutters ==
  ASSUME Pending' = Pending, Settled' = Settled, Emitted' = Emitted
  PROVE  RelayMoves
  BY DEF RelayMoves, Relay!vars, Pending, Settled, Emitted

\* A step that tells nobody anything emits nothing.
LEMMA NothingEmitted ==
  ASSUME UNCHANGED outsideVars
  PROVE  Emitted' = Emitted
  BY DEF Emitted, Attempted, outsideVars

\* Telling about the alarm in hand emits it, if it was not emitted before: it is
\* still pending then, for a settled alarm has been emitted.
LEMMA TellingEmits ==
  ASSUME NoticeInv, HolderInv, NEW i \in Consumers, cur[i] \in Msgs \ Undecodable,
         UNCHANGED <<published, queueVars, config>>,
         shown' \subseteq shown \cup {cur[i]}, NoticesStay,
         attempts' \in [Msgs -> [Channels -> 0..MaxAttempts]],
         \A m \in Msgs \ {cur[i]} : attempts'[m] = attempts[m]
  PROVE  RelayMoves
<1> DEFINE m == cur[i]
<1>1. Pending' = Pending /\ Settled' = Settled
  BY DEF Pending, Settled, queueVars
<1>2. Emitted \subseteq Emitted'
  <2>1. \A n \in Msgs : Noticed(n) => Noticed(n)'
    BY NoticedStays DEF NoticeInv
  <2> QED
    BY <2>1 DEF Emitted, Noticed, Attempted
<1>3. Emitted' \subseteq Emitted \cup {m}
  BY DEF Emitted, Attempted
<1>4. CASE Emitted' = Emitted
  BY <1>1, <1>4, RelayStutters
<1>5. CASE Emitted' # Emitted
  <2>1. m \notin Emitted /\ Emitted' = Emitted \cup {m}
    BY <1>2, <1>3, <1>5
  <2>2. m \in 1..published
    BY DEF HolderInv, PublishedOnly, None, Msgs
  <2>3. m \notin acked \cup dropped
    BY <2>1 DEF NoticeInv, SettledIsNoticed, Noticed, Emitted
  <2>4. m \in Pending
    BY <2>2, <2>3 DEF NoticeInv, Accounted, Pending
  <2>5. m \in Msgs /\ m \notin Undecodable
    OBVIOUS
  <2> QED
    BY <1>1, <2>1, <2>4, <2>5, RelaySteps
<1> QED
  BY <1>4, <1>5

\* An attempt concerns the alarm in hand only.
LEMMA AttemptOnce ==
  ASSUME TypeOK, NEW i \in Consumers, NEW c \in Channels, cur[i] \in Msgs
  PROVE  \A m \in Msgs \ {cur[i]} : Attempt(i, c)[m] = attempts[m]
  BY DEF Attempt, TypeOK

\* Every step of the consumers and their queue is a step of the relay, or none.
LEMMA StepRelays ==
  NoticeInv /\ HolderInv /\ [Next]_vars => [Relay!Next]_(Relay!vars)
<1> SUFFICES ASSUME NoticeInv, HolderInv, [Next]_vars
             PROVE  RelayMoves
  BY DEF RelayMoves
<1>1. TypeOK
  BY DEF NoticeInv
<1>2. CASE Publish
  <2>1. /\ ready' = ready \cup {published + 1}
        /\ UNCHANGED <<unacked, acked, dropped, outsideVars>>
    BY <1>2 DEF Publish
  <2>2. /\ published + 1 \in Msgs
        /\ published + 1 \notin Pending \cup Settled
    BY <1>1, <1>2, PublishKeepsHolders DEF Pending, Settled
  <2>3. Pending' = Pending \cup {published + 1} /\ Settled' = Settled
    BY <2>1 DEF Pending, Settled
  <2>4. Emitted' = Emitted
    BY <2>1, NothingEmitted
  <2> QED
    BY <2>2, <2>3, <2>4, RelaySteps
<1>3. ASSUME NEW i \in Consumers, Deliver(i)
      PROVE  RelayMoves
  <2>1. PICK m \in ready : /\ ready' = ready \ {m}
                           /\ unacked' = [unacked EXCEPT ![i] = @ \cup {m}]
    BY <1>3 DEF Deliver
  <2>2. UNCHANGED <<acked, dropped, outsideVars>>
    BY <1>3 DEF Deliver
  <2>3. /\ unacked'[i] = unacked[i] \cup {m}
        /\ \A j \in Consumers \ {i} : unacked'[j] = unacked[j]
    BY <1>1, <2>1 DEF TypeOK
  <2>4. Pending' = Pending /\ Settled' = Settled
    BY <2>1, <2>2, <2>3 DEF Pending, Settled
  <2> QED
    BY <2>2, <2>4, NothingEmitted, RelayStutters
<1>4. ASSUME NEW i \in Consumers, ReceiveSettlement(i)
      PROVE  RelayMoves
  <2> DEFINE f == Head(wire[i])
  <2>1. /\ f.msg \in unacked[i] /\ Len(wire[i]) \in Nat \ {0} /\ f = wire[i][1]
    BY <1>1, <1>4, ReceiveKeepsHolders
  <2>2. /\ unacked'[i] = unacked[i] \ {f.msg} /\ ready' = ready
        /\ acked' \cup dropped' = acked \cup dropped \cup {f.msg}
        /\ \A j \in Consumers \ {i} : unacked'[j] = unacked[j]
        /\ UNCHANGED outsideVars
    BY <1>1, <1>4 DEF ReceiveSettlement, TypeOK
  <2>3. f.msg \in Msgs /\ Justified(f)
    BY <1>1, <2>1, OnTheWire DEF NoticeInv, Settlements
  <2>4. f.msg \in Undecodable \cup Emitted
    BY <2>3 DEF Justified, Noticed, Emitted
  <2>5. f.msg \notin ready /\ \A j \in Consumers \ {i} : f.msg \notin unacked[j]
    BY <2>1 DEF HolderInv, OneHolder
  <2> HIDE DEF f
  <2>6. f.msg \in Pending /\ Pending' = Pending \ {f.msg}
    BY <2>1, <2>2, <2>5 DEF Pending
  <2>7. Settled' = Settled \cup {f.msg} /\ Emitted' = Emitted
    BY <2>2, NothingEmitted DEF Settled
  <2> QED
    BY <2>3, <2>4, <2>6, <2>7, RelaySteps
<1>5. ASSUME NEW i \in Consumers, LoseConnection(i) \/ CloseConnection(i)
      PROVE  RelayMoves
  <2>1. DropConnection(i)
    BY <1>5 DEF LoseConnection, CloseConnection
  <2>2. /\ ready' = ready \cup unacked[i] /\ unacked'[i] = {}
        /\ \A j \in Consumers \ {i} : unacked'[j] = unacked[j]
        /\ UNCHANGED <<acked, dropped, outsideVars>>
    BY <1>1, <2>1 DEF DropConnection, TypeOK
  <2>3. Pending' = Pending /\ Settled' = Settled
    BY <2>2 DEF Pending, Settled
  <2> QED
    BY <2>2, <2>3, NothingEmitted, RelayStutters
<1>6. ASSUME UNCHANGED <<queueVars, outsideVars>>
      PROVE  RelayMoves
  <2>1. Pending' = Pending /\ Settled' = Settled
    BY <1>6 DEF Pending, Settled, queueVars
  <2> QED
    BY <1>6, <2>1, NothingEmitted, RelayStutters
<1>7. ASSUME NEW i \in Consumers,
             PrintAlarm(i) \/ PostWebhook(i) \/ SendEmail(i)
      PROVE  RelayMoves
  <2>1. cur[i] \in Msgs \ Undecodable
    BY <1>1, <1>7
    DEF PrintAlarm, PostWebhook, SendEmail, TypeOK, NoticeInv, HandIsOnItsWay
  <2>2. NoticesStay
    BY <1>1, <1>7, StepKeepsNotices DEF Next, OwnStep
  <2>3. UNCHANGED <<published, queueVars, config>> /\ shown' \subseteq shown \cup {cur[i]}
    BY <1>7 DEF PrintAlarm, PostWebhook, SendEmail
  <2>4. attempts' = attempts \/ \E c \in Channels : attempts' = Attempt(i, c)
    BY <1>7 DEF PrintAlarm, PostWebhook, SendEmail, Channels
  <2>5. /\ attempts' \in [Msgs -> [Channels -> 0..MaxAttempts]]
        /\ \A m \in Msgs \ {cur[i]} : attempts'[m] = attempts[m]
    <3>1. CASE attempts' = attempts
      BY <1>1, <3>1 DEF TypeOK
    <3>2. ASSUME NEW c \in Channels, attempts' = Attempt(i, c)
          PROVE  /\ attempts' \in [Msgs -> [Channels -> 0..MaxAttempts]]
                 /\ \A m \in Msgs \ {cur[i]} : attempts'[m] = attempts[m]
      BY <1>1, <2>1, <3>2, AttemptFacts, AttemptOnce
    <3> QED
      BY <2>4, <3>1, <3>2
  <2> QED
    BY <2>1, <2>2, <2>3, <2>5, TellingEmits
<1>8. ASSUME NEW i \in Consumers,
             Start(i) \/ TakeAlarm(i) \/ StreamEnds(i) \/ Settle(i) \/ Crash(i)
      PROVE  RelayMoves
  BY <1>6, <1>8 DEF Start, TakeAlarm, StreamEnds, Settle, Crash, outsideVars
<1>9. CASE UNCHANGED vars
  BY <1>6, <1>9 DEF vars
<1> QED
  BY <1>2, <1>3, <1>4, <1>5, <1>7, <1>8, <1>9 DEF Next, OwnStep

\* NoticeInv includes the types that HolderInv is inductive under.
LEMMA NoticeInvTyped == NoticeInv => TypeOK
  BY DEF NoticeInv

\* With a channel to use, nothing is emitted before the first message.
LEMMA InitRelays ==
  ASSUME \A c \in Configs : c.channels # {}
  PROVE  Init => Relay!Init
<1> SUFFICES ASSUME Init
             PROVE  Relay!Init
  OBVIOUS
<1>1. Pending = {} /\ Settled = {}
  BY DEF Init, Pending, Settled
<1>2. Emitted = {}
  <2>1. config.channels # {} /\ config.channels \subseteq Channels
    BY DispatcherAssumption DEF Init, Config
  <2>2. \A m \in Msgs : ~Attempted(m)
    BY <2>1 DEF Init, Attempted
  <2> QED
    BY <2>2 DEF Init, Emitted
<1> QED
  BY <1>1, <1>2 DEF Relay!Init, Pending, Settled, Emitted

\* However many dispatchers and demo-clis share the queue, and whatever crashes and
\* lost connections they meet, they keep the relay's promise: an alarm is settled
\* once, by the consumer that holds it, and only after it was tried on every
\* configured channel, or printed.
THEOREM RelayImplemented ==
  ASSUME \A c \in Configs : c.channels # {}
  PROVE  Spec => ImplementsRelay
<1>1. Init => Relay!Init
  BY InitRelays
<1> QED
  BY <1>1, InitNotices, StepNotices, InitHolders, StepKeepsHolders, StepRelays,
     NoticeInvTyped, PTL
  DEF Spec, ImplementsRelay, Relay!Spec

-----------------------------------------------------------------------------
(* Only faults make the consumers repeat themselves.                       *)

\* A step of consumer i has only i's stream to look after.
LEMMA OneStream ==
  ASSUME StreamsOnce, NEW i \in Consumers,
         \A j \in Consumers \ {i} : UNCHANGED <<inbox[j], cur[j]>>,
         IsInjective(inbox'[i]), cur'[i] \notin Range(inbox'[i])
  PROVE  StreamsOnce'
  BY DEF StreamsOnce, IsInjective, Range

\* None is no message, so it is in no stream.
LEMMA NoneInNoStream ==
  ASSUME TypeOK, NEW i \in Consumers
  PROVE  None \notin Range(inbox[i])
<1>1. inbox[i] \in Seq(Msgs) /\ None \notin Msgs
  BY DEF TypeOK, Msgs, None
<1>2. DOMAIN inbox[i] = 1..Len(inbox[i]) /\ \A k \in 1..Len(inbox[i]) : inbox[i][k] \in Msgs
  BY <1>1, LenProperties, ElementOfSeq
<1> QED
  BY <1>1, <1>2 DEF Range

\* No step puts the same delivery twice in a stream, nor one that is in hand.
LEMMA StepKeepsStreams ==
  ASSUME TypeOK, HolderInv, StreamsOnce, Next
  PROVE  StreamsOnce'
<1>1. CASE UNCHANGED <<inbox, cur>>
  BY <1>1 DEF StreamsOnce, IsInjective, Range
<1>2. ASSUME NEW i \in Consumers, Deliver(i)
      PROVE  StreamsOnce'
  <2>1. PICK m \in ready :
          inbox' = IF pc[i] = "down" THEN inbox ELSE [inbox EXCEPT ![i] = Append(@, m)]
    BY <1>2 DEF Deliver
  <2>2. /\ up[i] /\ cur' = cur /\ inbox[i] \in Seq(Msgs) /\ m \in Msgs
        /\ \A j \in Consumers \ {i} : inbox'[j] = inbox[j]
    BY <1>2, <2>1 DEF Deliver, TypeOK
  <2>3. m \notin unacked[i] /\ LiveConnection(i) /\ m # None
    BY <2>2 DEF HolderInv, OneHolder, Msgs, None
  <2>4. m # cur[i] /\ m \notin Range(inbox[i])
    <3>1. DOMAIN inbox[i] = 1..Len(inbox[i])
      BY <2>2, LenProperties
    <3> QED
      BY <2>3, <3>1 DEF LiveConnection, Range
  <2>5. IsInjective(inbox[i]) /\ cur[i] \notin Range(inbox[i])
    BY DEF StreamsOnce
  <2>6. inbox'[i] = inbox[i] \/ inbox'[i] = Append(inbox[i], m)
    BY <2>1 DEF TypeOK
  <2>7. IsInjective(inbox'[i]) /\ cur'[i] \notin Range(inbox'[i])
    <3>1. /\ Range(Append(inbox[i], m)) = Range(inbox[i]) \cup {m}
          /\ IsInjective(Append(inbox[i], m))
      BY <2>2, <2>4, <2>5, AppendFacts
    <3>2. CASE inbox'[i] = inbox[i]
      BY <2>2, <2>5, <3>2
    <3>3. CASE inbox'[i] = Append(inbox[i], m)
      BY <2>2, <2>4, <2>5, <3>1, <3>3
    <3> QED
      BY <2>6, <3>2, <3>3
  <2> QED
    BY <2>2, <2>7, OneStream
<1>3. ASSUME NEW i \in Consumers, TakeAlarm(i)
      PROVE  StreamsOnce'
  <2>1. /\ inbox[i] # <<>> /\ inbox[i] \in Seq(Msgs)
        /\ cur'[i] = Head(inbox[i]) /\ inbox'[i] = Tail(inbox[i])
        /\ \A j \in Consumers \ {i} : inbox'[j] = inbox[j] /\ cur'[j] = cur[j]
    BY <1>3 DEF TakeAlarm, TypeOK
  <2>2. IsInjective(inbox[i])
    BY DEF StreamsOnce
  <2>3. IsInjective(inbox'[i]) /\ cur'[i] \notin Range(inbox'[i])
    BY <2>1, <2>2, TailFacts
  <2> QED
    BY <2>1, <2>3, OneStream
<1>4. ASSUME NEW i \in Consumers, Exit(i)
      PROVE  StreamsOnce'
  <2>1. /\ cur'[i] = None /\ inbox'[i] = <<>>
        /\ \A j \in Consumers \ {i} : inbox'[j] = inbox[j] /\ cur'[j] = cur[j]
    BY <1>4 DEF Exit, TypeOK
  <2>2. IsInjective(inbox'[i]) /\ cur'[i] \notin Range(inbox'[i])
    BY <2>1, EmptyFacts
  <2> QED
    BY <2>1, <2>2, OneStream
<1>5. ASSUME NEW i \in Consumers, cur' = [cur EXCEPT ![i] = None], inbox' = inbox
      PROVE  StreamsOnce'
  <2>1. cur'[i] = None /\ \A j \in Consumers \ {i} : cur'[j] = cur[j]
    BY <1>5 DEF TypeOK
  <2>2. IsInjective(inbox'[i]) /\ cur'[i] \notin Range(inbox'[i])
    BY <1>5, <2>1, NoneInNoStream DEF StreamsOnce
  <2> QED
    BY <1>5, <2>1, <2>2, OneStream
<1> QED
  BY <1>1, <1>2, <1>3, <1>4, <1>5
  DEF Next, OwnStep, Publish, ReceiveSettlement, Start, StreamEnds, PrintAlarm,
      PostWebhook, SendEmail, Settle, Crash, LoseConnection, CloseConnection

\* What a step may do about an alarm and a channel: nothing that repeats it; a
\* fault, after which it may come up again; an attempt, by one that was about to
\* make it; or a delivery, by which it comes up no more.
TriesStep(m, c) ==
  \/ /\ attempts'[m][c] = attempts[m][c] /\ Triers(m, c)' \subseteq Triers(m, c)
     /\ \/ faults' = faults /\ (ComesUp(m)' => ComesUp(m))
        \/ faults' = faults + 1
  \/ /\ attempts'[m][c] <= attempts[m][c] + 1
     /\ \E i \in Triers(m, c) : Triers(m, c)' \subseteq Triers(m, c) \ {i}
     /\ faults' = faults /\ (ComesUp(m)' => ComesUp(m))
  \/ /\ attempts'[m][c] = attempts[m][c]
     /\ \E i \in Consumers : Triers(m, c)' \subseteq Triers(m, c) \cup {i}
     /\ faults' = faults /\ ComesUp(m) /\ ~ComesUp(m)'

\* Any of these keeps the count within its bound.
LEMMA TriesStayBounded ==
  ASSUME TypeOK, TypeOK', NEW m \in Msgs, NEW c \in Channels,
         RepeatsBounded(m, c), TriesStep(m, c)
  PROVE  RepeatsBounded(m, c)'
<1> DEFINE T == Triers(m, c)
           U == Triers(m, c)'
           up1 == IF ComesUp(m) THEN 1 ELSE 0
           up2 == IF ComesUp(m)' THEN 1 ELSE 0
<1>1. /\ attempts[m][c] \in Nat /\ attempts'[m][c] \in Nat
      /\ faults \in Nat /\ faults' \in Nat
      /\ up1 \in {0, 1} /\ up2 \in {0, 1}
  BY DispatcherAssumption DEF TypeOK, MaxAttempts
<1>2. /\ IsFiniteSet(T) /\ Cardinality(T) \in Nat
      /\ attempts[m][c] + Cardinality(T) + up1 <= 1 + faults
  BY FS_CardinalityType DEF RepeatsBounded
<1>3. SUFFICES IsFiniteSet(U) /\ attempts'[m][c] + Cardinality(U) + up2 <= 1 + faults'
  BY DEF RepeatsBounded
<1>4. CASE /\ attempts'[m][c] = attempts[m][c] /\ U \subseteq T
           /\ \/ faults' = faults /\ (ComesUp(m)' => ComesUp(m))
              \/ faults' = faults + 1
  <2>1. (faults' = faults /\ up2 <= up1) \/ faults' = faults + 1
    BY <1>4
  <2> HIDE DEF T, U, up1, up2
  <2>2. IsFiniteSet(U) /\ Cardinality(U) \in Nat /\ Cardinality(U) <= Cardinality(T)
    BY <1>2, <1>4, FS_Subset, FS_CardinalityType
  <2> QED
    BY <1>1, <1>2, <1>4, <2>1, <2>2
<1>5. CASE /\ attempts'[m][c] <= attempts[m][c] + 1
           /\ \E i \in T : U \subseteq T \ {i}
           /\ faults' = faults /\ (ComesUp(m)' => ComesUp(m))
  <2>1. up2 <= up1
    BY <1>5
  <2>2. PICK i \in T : U \subseteq T \ {i}
    BY <1>5
  <2> HIDE DEF T, U, up1, up2
  <2>3. IsFiniteSet(T \ {i}) /\ Cardinality(T \ {i}) = Cardinality(T) - 1
    BY <1>2, FS_RemoveElement
  <2>4. IsFiniteSet(U) /\ Cardinality(U) \in Nat /\ Cardinality(U) <= Cardinality(T) - 1
    BY <2>2, <2>3, FS_Subset, FS_CardinalityType
  <2> QED
    BY <1>1, <1>2, <1>5, <2>1, <2>4
<1>6. CASE /\ attempts'[m][c] = attempts[m][c]
           /\ \E i \in Consumers : U \subseteq T \cup {i}
           /\ faults' = faults /\ ComesUp(m) /\ ~ComesUp(m)'
  <2>1. up1 = 1 /\ up2 = 0
    BY <1>6
  <2>2. PICK i \in Consumers : U \subseteq T \cup {i}
    BY <1>6
  <2> HIDE DEF T, U, up1, up2
  <2>3. /\ IsFiniteSet(T \cup {i}) /\ Cardinality(T \cup {i}) \in Nat
        /\ Cardinality(T \cup {i}) <= Cardinality(T) + 1
    <3>1. /\ IsFiniteSet(T \cup {i})
          /\ Cardinality(T \cup {i}) = IF i \in T THEN Cardinality(T)
                                       ELSE Cardinality(T) + 1
      BY <1>2, FS_AddElement
    <3> QED
      BY <1>2, <3>1
  <2>4. IsFiniteSet(U) /\ Cardinality(U) \in Nat /\ Cardinality(U) <= Cardinality(T) + 1
    BY <1>2, <2>2, <2>3, FS_Subset, FS_CardinalityType
  <2> QED
    BY <1>1, <1>2, <1>6, <2>1, <2>4
<1> QED
  BY <1>4, <1>5, <1>6 DEF TriesStep

\* A step that lets nobody but i do anything moves nobody else towards an attempt.
LEMMA OthersTry ==
  ASSUME NEW i \in Consumers, NEW m, NEW c,
         \A j \in Consumers \ {i} : UNCHANGED <<inbox[j], cur[j], pc[j]>>
  PROVE  /\ Triers(m, c)' \subseteq Triers(m, c) \cup {i}
         /\ ~AboutToTry(i, m, c)' => Triers(m, c)' \subseteq Triers(m, c) \ {i}
         /\ (AboutToTry(i, m, c)' => AboutToTry(i, m, c)) =>
              Triers(m, c)' \subseteq Triers(m, c)
<1>1. \A j \in Consumers \ {i} : AboutToTry(j, m, c)' <=> AboutToTry(j, m, c)
  BY DEF AboutToTry
<1> QED
  BY <1>1 DEF Triers

\* Nothing comes up again by a step that leaves the queue alone and ends nobody who
\* has deliveries to give back.
LEMMA NothingComesUp ==
  ASSUME NEW m, UNCHANGED <<published, ready, unacked>>,
         \A j \in Consumers : pc'[j] = "down" => pc[j] = "down" \/ unacked[j] = {}
  PROVE  ComesUp(m)' => ComesUp(m)
  BY DEF ComesUp

\* A consumer that ends is about to try nothing.
LEMMA ExitTriesNoMore ==
  ASSUME TypeOK, NEW i \in Consumers, Exit(i), NEW m \in Msgs, NEW c \in Channels
  PROVE  /\ ~AboutToTry(i, m, c)'
         /\ \A j \in Consumers \ {i} : UNCHANGED <<inbox[j], cur[j], pc[j]>>
<1>1. /\ inbox'[i] = <<>> /\ cur'[i] = None
      /\ \A j \in Consumers \ {i} : UNCHANGED <<inbox[j], cur[j], pc[j]>>
  BY DEF Exit, TypeOK
<1>2. m # None /\ m \notin Range(inbox'[i])
  BY <1>1, EmptyFacts DEF Msgs, None
<1> QED
  BY <1>1, <1>2 DEF AboutToTry

\* A step of i alone, that is no attempt and no fault.
LEMMA QuietStep ==
  ASSUME NEW i \in Consumers, NEW m \in Msgs, NEW c \in Channels,
         UNCHANGED <<attempts, faults, published, ready, unacked>>,
         \A j \in Consumers \ {i} : UNCHANGED <<inbox[j], cur[j], pc[j]>>,
         pc'[i] = "down" => unacked[i] = {},
         AboutToTry(i, m, c)' => AboutToTry(i, m, c)
  PROVE  TriesStep(m, c)
<1>1. Triers(m, c)' \subseteq Triers(m, c)
  BY OthersTry
<1>2. ComesUp(m)' => ComesUp(m)
  BY NothingComesUp
<1> QED
  BY <1>1, <1>2 DEF TriesStep

\* An attempt on channel c for the alarm in i's hand.
LEMMA AttemptStep ==
  ASSUME TypeOK, StreamsOnce, NEW i \in Consumers, NEW c \in Channels, pc[i] = c,
         cur[i] \in Msgs, attempts' = Attempt(i, c),
         UNCHANGED <<inbox, cur, faults, published, ready, unacked>>,
         \A j \in Consumers \ {i} : pc'[j] = pc[j],
         pc'[i] \in {"email", "ack"}, c = "email" => pc'[i] = "ack",
         NEW m \in Msgs, NEW d \in Channels
  PROVE  TriesStep(m, d)
<1>1. ComesUp(m)' => ComesUp(m)
  BY NothingComesUp
<1>2. CASE m = cur[i] /\ d = c
  <2>1. attempts'[m][d] <= attempts[m][d] + 1
    <3>1. attempts[m] \in [Channels -> 0..MaxAttempts]
      BY DEF TypeOK
    <3>2. MaxAttempts \in Nat
      BY DispatcherAssumption DEF MaxAttempts
    <3>3. attempts'[m][d] = IF attempts[m][d] < MaxAttempts THEN attempts[m][d] + 1
                            ELSE attempts[m][d]
      BY <1>2 DEF Attempt, TypeOK
    <3>4. attempts[m][d] \in Nat
      BY <3>1, <3>2
    <3> QED
      BY <3>3, <3>4
  <2>2. i \in Triers(m, d)
    BY <1>2 DEF Triers, AboutToTry, Channels
  <2>3. ~AboutToTry(i, m, d)'
    <3>1. m \notin Range(inbox[i])
      BY <1>2 DEF StreamsOnce
    <3>2. pc'[i] \notin (IF d = "email" THEN {"webhook", "email"} ELSE {d})
      BY <1>2 DEF Channels
    <3> QED
      BY <3>1, <3>2 DEF AboutToTry
  <2>4. Triers(m, d)' \subseteq Triers(m, d) \ {i}
    BY <2>3, OthersTry
  <2> QED
    BY <1>1, <2>1, <2>2, <2>4 DEF TriesStep
<1>3. CASE ~(m = cur[i] /\ d = c)
  <2>1. attempts'[m][d] = attempts[m][d]
    <3>1. attempts[m] \in [Channels -> 0..MaxAttempts] /\ attempts[cur[i]] \in [Channels -> 0..MaxAttempts]
      BY DEF TypeOK
    <3> QED
      BY <1>3, <3>1 DEF Attempt, TypeOK
  <2>2. AboutToTry(i, m, d)' => AboutToTry(i, m, d)
    BY <1>3 DEF AboutToTry, Channels
  <2>3. Triers(m, d)' \subseteq Triers(m, d)
    BY <2>2, OthersTry
  <2> QED
    BY <1>1, <2>1, <2>3 DEF TriesStep
<1> QED
  BY <1>2, <1>3

\* Every step is one of these, unless e-mail attempts panic.
LEMMA StepTries ==
  ASSUME NoticeInv, HolderInv, StreamsOnce, ~Panics, Next,
         NEW m \in Msgs, NEW c \in Channels
  PROVE  TriesStep(m, c)
<1>1. TypeOK
  BY DEF NoticeInv
<1>2. CASE Publish
  <2>1. /\ published' = published + 1 /\ ready' = ready \cup {published + 1}
        /\ UNCHANGED <<unacked, inbox, pc, cur, attempts, faults>>
    BY <1>2 DEF Publish, outsideVars
  <2>2. Triers(m, c)' = Triers(m, c)
    BY <2>1 DEF Triers, AboutToTry
  <2>3. m \in 1..published' \/ m \notin 1..published
    BY <1>1, <2>1 DEF TypeOK
  <2>4. ComesUp(m)' => ComesUp(m)
    <3>1. m = published + 1 => m \notin 1..published
      BY <1>1 DEF TypeOK
    <3>2. m \in 1..published => m \in 1..published'
      BY <1>1, <2>1 DEF TypeOK
    <3> QED
      BY <2>1, <3>1, <3>2 DEF ComesUp
  <2> QED
    BY <2>1, <2>2, <2>4 DEF TriesStep
<1>3. ASSUME NEW i \in Consumers, Deliver(i)
      PROVE  TriesStep(m, c)
  <2>1. PICK n \in ready :
          /\ ready' = ready \ {n}
          /\ unacked' = [unacked EXCEPT ![i] = @ \cup {n}]
          /\ inbox' = IF pc[i] = "down" THEN inbox
                      ELSE [inbox EXCEPT ![i] = Append(@, n)]
    BY <1>3 DEF Deliver
  <2>2. /\ n \in Msgs /\ n \in 1..published /\ inbox[i] \in Seq(Msgs)
        /\ UNCHANGED <<published, pc, cur, attempts, faults>>
        /\ \A j \in Consumers \ {i} : inbox'[j] = inbox[j] /\ unacked'[j] = unacked[j]
        /\ unacked'[i] = unacked[i] \cup {n}
    BY <1>1, <1>3, <2>1 DEF Deliver, outsideVars, TypeOK, HolderInv, PublishedOnly
  <2>3. CASE m = n /\ pc[i] # "down"
    <3>1. \A j \in Consumers : m \notin unacked[j]
      BY <2>3 DEF HolderInv, OneHolder
    <3>2. ComesUp(m) /\ ~ComesUp(m)'
      BY <2>1, <2>2, <2>3, <3>1 DEF ComesUp
    <3>3. Triers(m, c)' \subseteq Triers(m, c) \cup {i}
      BY <2>2, OthersTry
    <3> QED
      BY <2>2, <3>2, <3>3 DEF TriesStep
  <2>4. CASE m # n \/ pc[i] = "down"
    <3>1. ComesUp(m)' => ComesUp(m)
      BY <2>1, <2>2, <2>4 DEF ComesUp
    <3>2. m \in Range(inbox'[i]) => m \in Range(inbox[i])
      <4>1. inbox'[i] = inbox[i] \/ (m # n /\ inbox'[i] = Append(inbox[i], n))
        BY <1>1, <2>1, <2>4 DEF TypeOK
      <4>2. Range(Append(inbox[i], n)) = Range(inbox[i]) \cup {n}
        BY <2>2, AppendFacts
      <4> QED
        BY <4>1, <4>2
    <3>3. AboutToTry(i, m, c)' => AboutToTry(i, m, c)
      BY <2>2, <3>2 DEF AboutToTry
    <3>4. Triers(m, c)' \subseteq Triers(m, c)
      BY <2>2, <3>3, OthersTry
    <3> QED
      BY <2>2, <3>1, <3>4 DEF TriesStep
  <2> QED
    BY <2>3, <2>4
<1>4. ASSUME NEW i \in Consumers, ReceiveSettlement(i)
      PROVE  TriesStep(m, c)
  <2>1. /\ UNCHANGED <<published, ready, inbox, pc, cur, attempts, faults>>
        /\ \A j \in Consumers : unacked'[j] \subseteq unacked[j]
    BY <1>1, <1>4 DEF ReceiveSettlement, outsideVars, TypeOK
  <2>2. Triers(m, c)' = Triers(m, c)
    BY <2>1 DEF Triers, AboutToTry
  <2>3. ComesUp(m)' => ComesUp(m)
    BY <2>1 DEF ComesUp
  <2> QED
    BY <2>1, <2>2, <2>3 DEF TriesStep
<1>5. ASSUME NEW i \in Consumers, Crash(i) \/ LoseConnection(i)
      PROVE  TriesStep(m, c)
  <2>1. attempts' = attempts /\ faults' = faults + 1
    BY <1>5 DEF Crash, LoseConnection, DropConnection, outsideVars
  <2>2. Exit(i) \/ UNCHANGED <<inbox, cur, pc>>
    BY <1>5 DEF Crash, LoseConnection
  <2>3. Triers(m, c)' \subseteq Triers(m, c)
    <3>1. CASE UNCHANGED <<inbox, cur, pc>>
      BY <3>1 DEF Triers, AboutToTry
    <3>2. CASE Exit(i)
      BY <1>1, <3>2, ExitTriesNoMore, OthersTry
    <3> QED
      BY <2>2, <3>1, <3>2
  <2> QED
    BY <2>1, <2>3 DEF TriesStep
<1>6. ASSUME NEW i \in Consumers, CloseConnection(i)
      PROVE  TriesStep(m, c)
  <2>1. /\ pc[i] = "down" /\ ready' = ready \cup unacked[i]
        /\ UNCHANGED <<published, inbox, pc, cur, attempts, faults>>
        /\ \A j \in Consumers : unacked'[j] \subseteq unacked[j]
    BY <1>1, <1>6 DEF CloseConnection, DropConnection, outsideVars, TypeOK
  <2>2. Triers(m, c)' = Triers(m, c)
    BY <2>1 DEF Triers, AboutToTry
  <2>3. ComesUp(m)' => ComesUp(m)
    BY <2>1 DEF ComesUp
  <2> QED
    BY <2>1, <2>2, <2>3 DEF TriesStep
<1>7. ASSUME NEW i \in Consumers, Start(i)
      PROVE  TriesStep(m, c)
  <2>1. /\ UNCHANGED <<attempts, faults, published, ready, unacked, inbox, cur>>
        /\ cur[i] = None /\ pc'[i] = "next"
        /\ \A j \in Consumers \ {i} : pc'[j] = pc[j]
    BY <1>1, <1>7 DEF Start, queueVars, outsideVars, TypeOK
  <2>2. AboutToTry(i, m, c)' => AboutToTry(i, m, c)
    BY <2>1 DEF AboutToTry, Msgs, None
  <2> QED
    BY <2>1, <2>2, QuietStep
<1>8. ASSUME NEW i \in Consumers, TakeAlarm(i)
      PROVE  TriesStep(m, c)
  <2>1. /\ UNCHANGED <<attempts, faults, published, ready, unacked>>
        /\ inbox[i] # <<>> /\ inbox[i] \in Seq(Msgs)
        /\ cur'[i] = Head(inbox[i]) /\ inbox'[i] = Tail(inbox[i])
        /\ pc'[i] # "down"
        /\ \A j \in Consumers \ {i} : UNCHANGED <<inbox[j], cur[j], pc[j]>>
    BY <1>1, <1>8, NextStageFacts DEF TakeAlarm, queueVars, outsideVars, TypeOK
  <2>2. Range(inbox[i]) = {cur'[i]} \cup Range(inbox'[i])
    BY <2>1, TailFacts
  <2>3. AboutToTry(i, m, c)' => AboutToTry(i, m, c)
    BY <2>2 DEF AboutToTry
  <2> QED
    BY <2>1, <2>3, QuietStep
<1>9. ASSUME NEW i \in Consumers, PrintAlarm(i)
      PROVE  TriesStep(m, c)
  <2>1. i \in Viewers
    BY <1>9 DEF PrintAlarm, NoticeInv, HandIsOnItsWay
  <2>2. /\ UNCHANGED <<attempts, faults, published, ready, unacked, inbox, cur>>
        /\ pc'[i] = "ack"
        /\ \A j \in Consumers \ {i} : pc'[j] = pc[j]
    BY <1>1, <1>9, <2>1 DEF PrintAlarm, queueVars, TypeOK, NextStage
  <2>3. AboutToTry(i, m, c)' => AboutToTry(i, m, c)
    BY <2>2 DEF AboutToTry, Channels
  <2> QED
    BY <2>2, <2>3, QuietStep
<1>10. ASSUME NEW i \in Consumers, PostWebhook(i)
      PROVE  TriesStep(m, c)
  <2>1. i \notin Viewers /\ cur[i] \in Msgs
    BY <1>1, <1>10 DEF PostWebhook, NoticeInv, HandIsOnItsWay, TypeOK
  <2>2. /\ UNCHANGED <<inbox, cur, faults, published, ready, unacked>>
        /\ pc[i] = "webhook" /\ attempts' = Attempt(i, "webhook")
        /\ pc'[i] \in {"email", "ack"}
        /\ \A j \in Consumers \ {i} : pc'[j] = pc[j]
    BY <1>1, <1>10, <2>1 DEF PostWebhook, queueVars, TypeOK, NextStage
  <2> QED
    BY <1>1, <2>1, <2>2, AttemptStep DEF Channels
<1>11. ASSUME NEW i \in Consumers, SendEmail(i)
       PROVE  TriesStep(m, c)
  <2>1. i \notin Viewers /\ cur[i] \in Msgs /\ config.addressesParse
    BY <1>1, <1>11 DEF SendEmail, NoticeInv, HandIsOnItsWay, TypeOK, Panics
  <2>2. /\ UNCHANGED <<inbox, cur, faults, published, ready, unacked>>
        /\ pc[i] = "email" /\ attempts' = Attempt(i, "email")
        /\ pc'[i] = "ack"
        /\ \A j \in Consumers \ {i} : pc'[j] = pc[j]
    BY <1>1, <1>11, <2>1 DEF SendEmail, queueVars, TypeOK, NextStage
  <2> QED
    BY <1>1, <2>1, <2>2, AttemptStep DEF Channels
<1>12. ASSUME NEW i \in Consumers, StreamEnds(i) \/ Settle(i)
       PROVE  TriesStep(m, c)
  <2>1. UNCHANGED <<attempts, faults, published, ready, unacked>>
    BY <1>12 DEF StreamEnds, Settle, queueVars, outsideVars
  <2>2. CASE Exit(i) /\ ~up[i]
    <3>1. /\ unacked[i] = {}
          /\ \A j \in Consumers \ {i} : UNCHANGED <<inbox[j], cur[j], pc[j]>>
      BY <1>1, <2>2 DEF HolderInv, Exit, TypeOK
    <3> QED
      BY <1>1, <2>1, <2>2, <3>1, ExitTriesNoMore, QuietStep
  <2>3. CASE /\ pc' = [pc EXCEPT ![i] = "next"] /\ cur' = [cur EXCEPT ![i] = None]
             /\ inbox' = inbox
    <3>1. /\ pc'[i] = "next"
          /\ \A j \in Consumers \ {i} : UNCHANGED <<inbox[j], cur[j], pc[j]>>
      BY <1>1, <2>3 DEF TypeOK
    <3>2. AboutToTry(i, m, c)' => AboutToTry(i, m, c)
      BY <2>3, <3>1 DEF AboutToTry, Channels
    <3> QED
      BY <2>1, <3>1, <3>2, QuietStep
  <2> QED
    BY <1>12, <2>2, <2>3 DEF StreamEnds, Settle
<1> QED
  BY <1>2, <1>3, <1>4, <1>5, <1>6, <1>7, <1>8, <1>9, <1>10, <1>11, <1>12 DEF Next, OwnStep

\* Before anything was published, everything has yet to come up.
LEMMA InitRepeats == Init => RepeatsInv
<1> SUFFICES ASSUME Init
             PROVE  RepeatsInv
  OBVIOUS
<1>1. StreamsOnce
  BY EmptyFacts DEF Init, StreamsOnce
<1>2. ASSUME NEW m \in Msgs, NEW c \in Channels
      PROVE  RepeatsBounded(m, c)
  <2>1. Triers(m, c) = {}
    BY EmptyFacts DEF Init, Triers, AboutToTry, Channels
  <2>2. IsFiniteSet(Triers(m, c)) /\ Cardinality(Triers(m, c)) = 0
    BY <2>1, FS_EmptySet
  <2>3. attempts[m][c] = 0 /\ faults = 0
    BY DEF Init
  <2> QED
    BY <2>2, <2>3 DEF RepeatsBounded
<1> QED
  BY <1>1, <1>2, InitNotices, InitHolders DEF RepeatsInv

\* The invariant is inductive.
LEMMA StepRepeats == RepeatsInv /\ [Next]_vars => RepeatsInv'
<1> SUFFICES ASSUME RepeatsInv, [Next]_vars
             PROVE  RepeatsInv'
  OBVIOUS
<1>1. NoticeInv /\ HolderInv /\ StreamsOnce /\ TypeOK
  BY DEF RepeatsInv, NoticeInv
<1>2. NoticeInv' /\ HolderInv' /\ TypeOK'
  BY <1>1, StepNotices, StepKeepsHolders, StepTypes
<1>3. CASE UNCHANGED vars
  <2>1. StreamsOnce'
    BY <1>1, <1>3 DEF StreamsOnce, vars
  <2>2. \A m \in Msgs : \A c \in Channels : RepeatsBounded(m, c)' <=> RepeatsBounded(m, c)
    BY <1>3 DEF RepeatsBounded, Triers, AboutToTry, ComesUp, vars, queueVars, outsideVars
  <2>3. Panics' <=> Panics
    BY <1>3 DEF Panics, vars, outsideVars
  <2> QED
    BY <1>2, <2>1, <2>2, <2>3 DEF RepeatsInv
<1>4. CASE Next
  <2>1. StreamsOnce'
    BY <1>1, <1>4, StepKeepsStreams
  <2>2. Panics' <=> Panics
    BY <1>1, <1>4, StepKeepsNotices DEF NoticesStay, Panics
  <2>3. ASSUME ~Panics, NEW m \in Msgs, NEW c \in Channels
        PROVE  RepeatsBounded(m, c)'
    <3>1. TriesStep(m, c)
      BY <1>1, <1>4, <2>3, StepTries
    <3>2. RepeatsBounded(m, c)
      BY <2>3 DEF RepeatsInv
    <3> QED
      BY <1>1, <1>2, <3>1, <3>2, TriesStayBounded
  <2> QED
    BY <1>2, <2>1, <2>2, <2>3 DEF RepeatsInv
<1> QED
  BY <1>3, <1>4

\* And it bounds the attempts.
LEMMA InvMeansFewRepeats == RepeatsInv => RepeatsNeedFaults
<1> SUFFICES ASSUME RepeatsInv, ~Panics, NEW m \in Msgs, NEW c \in Channels
             PROVE  attempts[m][c] <= 1 + faults
  BY DEF RepeatsNeedFaults
<1>1. RepeatsBounded(m, c) /\ TypeOK
  BY DEF RepeatsInv, NoticeInv
<1>2. Cardinality(Triers(m, c)) \in Nat
  BY <1>1, FS_CardinalityType DEF RepeatsBounded
<1>3. attempts[m][c] \in Nat /\ faults \in Nat
  BY <1>1, DispatcherAssumption DEF TypeOK, MaxAttempts
<1> QED
  BY <1>1, <1>2, <1>3 DEF RepeatsBounded

\* Nobody is notified twice of an alarm on a channel unless something failed, once
\* for each repetition: unless e-mail attempts panic, an alarm is tried on a channel
\* at most once more than there were crashes and lost connections.
THEOREM OnlyFaultsRepeat == Spec => []RepeatsNeedFaults
  BY InitRepeats, StepRepeats, InvMeansFewRepeats, PTL DEF Spec
=============================================================================
