---------------------------- MODULE PipelineProofs ----------------------------
(***************************************************************************)
(* Proofs about Pipeline, for any number of processes of each service, any *)
(* events and rules, any number of faults, and any set of alarms that the  *)
(* dispatcher cannot decode.                                               *)
(***************************************************************************)
EXTENDS Pipeline, FiniteSetTheorems, TLAPS

-----------------------------------------------------------------------------
(* The operators the actions are built from.                               *)

\* What a service owes are messages.
LEMMA OutputsType ==
  ASSUME NEW q \in Queues, NEW m \in Messages
  PROVE  Outputs(q, m) \subseteq Messages
  BY DEF Outputs, Queues, Messages

\* What the end of p's connection does.
LEMMA Dropped ==
  ASSUME Types, NEW p \in Processes, DropConnection(p)
  PROVE  /\ up' \in [Processes -> BOOLEAN]
         /\ acks' \in Bags(Processes)
         /\ unacked' \in Bags(Processes)
         /\ ready' \in Bags(Queues)
         /\ ~up'[p]
         /\ \A r \in Processes \ {p} : up'[r] = up[r] /\ acks'[r] = acks[r] /\ unacked'[r] = unacked[r]
         /\ \A m \in Messages : acks'[p][m] = 0 /\ unacked'[p][m] = 0
         /\ \A q \in Queues : \A m \in Messages :
              ready'[q][m] = IF q = Serves[p] THEN ready[q][m] + unacked[p][m] ELSE ready[q][m]
<1> USE PipelineAssumption DEF Types
<1>1. Serves[p] \in Queues
  OBVIOUS
<1>2. acks' = [acks EXCEPT ![p] = Empty] /\ unacked' = [unacked EXCEPT ![p] = Empty]
  BY DEF DropConnection
<1>3. /\ acks' \in Bags(Processes) /\ unacked' \in Bags(Processes)
      /\ \A m \in Messages : acks'[p][m] = 0 /\ unacked'[p][m] = 0
      /\ \A r \in Processes \ {p} : acks'[r] = acks[r] /\ unacked'[r] = unacked[r]
  BY <1>2 DEF Bags, Empty
<1>4. /\ up' \in [Processes -> BOOLEAN] /\ ~up'[p]
      /\ \A r \in Processes \ {p} : up'[r] = up[r]
  BY DEF DropConnection
<1>5. DEFINE returned == [m \in Messages |-> ready[Serves[p]][m] + unacked[p][m]]
<1>6. returned \in [Messages -> Nat]
  BY <1>1 DEF Bags
<1>7. ready' = [ready EXCEPT ![Serves[p]] = returned]
  BY DEF DropConnection
<1>8. ready' \in Bags(Queues)
  BY <1>1, <1>6, <1>7 DEF Bags
<1>9. \A q \in Queues : \A m \in Messages :
        ready'[q][m] = IF q = Serves[p] THEN ready[q][m] + unacked[p][m] ELSE ready[q][m]
  BY <1>1, <1>7 DEF Bags
<1> QED
  BY <1>3, <1>4, <1>8, <1>9

-----------------------------------------------------------------------------
(* Type correctness.                                                       *)

\* Every step of the broker keeps the types.
LEMMA BrokerTypes ==
  ASSUME TypeOK, NEW p \in Processes, NEW m,
         \/ m \in Messages /\ (Deliver(p, m) \/ ReceiveAck(p, m) \/ ReceiveAlarm(p, m))
         \/ NoticeGone(p)
  PROVE  TypeOK'
<1> USE PipelineAssumption DEF TypeOK, Types
<1>0. Serves[p] \in Queues /\ "alarms" \in Queues
  BY DEF Queues
<1>1. CASE m \in Messages /\ Deliver(p, m)
  <2>1. /\ ready' \in Bags(Queues)
        /\ unacked' \in Bags(Processes)
        /\ \A r \in Processes : \A n \in Messages :
             unacked'[r][n] = IF r = p /\ n = m THEN unacked[r][n] + 1 ELSE unacked[r][n]
    BY <1>0, <1>1 DEF Deliver, Bags
  <2>2. /\ inbox' \in Bags(Processes)
        /\ running[p] => \A r \in Processes : \A n \in Messages :
             inbox'[r][n] = IF r = p /\ n = m THEN inbox[r][n] + 1 ELSE inbox[r][n]
        /\ ~running[p] => inbox' = inbox
    BY <1>1 DEF Deliver, Bags
  <2>3. Types'
    BY <1>1, <2>1, <2>2 DEF Deliver, publisher, outside
  <2>4. DownHoldsNothing'
    BY <1>1, <2>2 DEF Deliver, DownHoldsNothing
  <2>5. Settlements'
    BY <1>1, <2>1, <2>2 DEF Deliver, Settlements, InHand, Bags
  <2> QED
    BY <2>3, <2>4, <2>5
<1>2. CASE m \in Messages /\ ReceiveAck(p, m)
  <2>1. up[p] /\ acks[p][m] > 0 /\ unacked[p][m] > 0
    <3>1. up[p] /\ acks[p][m] > 0
      BY <1>2 DEF ReceiveAck, Settlements
    <3>2. acks[p][m] + inbox[p][m] + InHand(p, m) <= unacked[p][m]
      BY <1>2, <3>1 DEF Settlements
    <3>3. {acks[p][m], inbox[p][m], InHand(p, m), unacked[p][m]} \subseteq Nat
      BY <1>2 DEF Bags, InHand
    <3> QED
      BY <3>1, <3>2, <3>3
  <2>2. /\ acks' \in Bags(Processes)
        /\ unacked' \in Bags(Processes)
        /\ \A r \in Processes : \A n \in Messages :
             /\ acks'[r][n] = IF r = p /\ n = m THEN acks[r][n] - 1 ELSE acks[r][n]
             /\ unacked'[r][n] = IF r = p /\ n = m THEN unacked[r][n] - 1 ELSE unacked[r][n]
    BY <1>2, <2>1 DEF ReceiveAck, Bags
  <2>3. Types'
    BY <1>2, <2>2 DEF ReceiveAck, publisher, process, outside
  <2>4. DownHoldsNothing'
    BY <1>2 DEF ReceiveAck, DownHoldsNothing, process
  <2>5. Settlements'
    BY <1>2, <2>1, <2>2 DEF ReceiveAck, Settlements, InHand, Bags, process
  <2> QED
    BY <2>3, <2>4, <2>5
<1>3. CASE m \in Messages /\ ReceiveAlarm(p, m)
  <2>1. wire' \in Bags(Processes) /\ ready' \in Bags(Queues)
    BY <1>0, <1>3 DEF ReceiveAlarm, Bags
  <2>2. Types'
    BY <1>3, <2>1 DEF ReceiveAlarm, connection, process, outside
  <2>3. DownHoldsNothing' /\ Settlements'
    BY <1>3 DEF ReceiveAlarm, DownHoldsNothing, Settlements, InHand, connection, process
  <2> QED
    BY <2>2, <2>3
<1>4. CASE NoticeGone(p)
  <2>1. Types'
    BY <1>4, Dropped DEF NoticeGone, publisher, process, outside
  <2>2. DownHoldsNothing'
    BY <1>4 DEF NoticeGone, DownHoldsNothing, process
  <2>3. Settlements'
    BY <1>4, Dropped DEF NoticeGone, Settlements, InHand, process
  <2> QED
    BY <2>1, <2>2, <2>3
<1> QED
  BY <1>1, <1>2, <1>3, <1>4

\* The end of a process keeps the types, whatever else it counts.
LEMMA EndTypes ==
  ASSUME TypeOK, NEW p \in Processes, Ends(p),
         UNCHANGED <<published, ready, connection, publisher, addressesParse, pubFaults>>,
         notified' \in [Messages -> Nat], faults' \in [Queues -> Nat]
  PROVE  TypeOK'
<1> USE DEF TypeOK, Types
<1>1. Types' /\ DownHoldsNothing'
  BY DEF Ends, DownHoldsNothing, Empty, Bags, connection, publisher
<1>2. /\ \A n \in Messages : inbox'[p][n] = 0 /\ InHand(p, n)' = 0
      /\ \A r \in Processes \ {p} : \A n \in Messages :
           inbox'[r][n] = inbox[r][n] /\ InHand(r, n)' = InHand(r, n)
  <2>1. inbox' = [inbox EXCEPT ![p] = Empty] /\ hand' = [hand EXCEPT ![p] = None]
    BY DEF Ends
  <2>2. \A n \in Messages : inbox'[p][n] = 0 /\ InHand(p, n)' = 0
    BY <2>1, PipelineAssumption DEF InHand, Empty, Bags
  <2>3. \A r \in Processes \ {p} : \A n \in Messages :
          inbox'[r][n] = inbox[r][n] /\ InHand(r, n)' = InHand(r, n)
    BY <2>1 DEF InHand, Bags
  <2> QED
    BY <2>2, <2>3
<1>3. \A r \in Processes : \A n \in Messages : InHand(r, n) \in Nat /\ inbox[r][n] \in Nat
  BY DEF InHand, Bags
<1>4. UNCHANGED <<up, acks, unacked>>
  BY DEF connection
<1>5. \A r \in Processes : \A n \in Messages : acks[r][n] \in Nat /\ unacked[r][n] \in Nat
  BY DEF Bags
<1>6. Settlements'
  <2> SUFFICES ASSUME NEW r \in Processes, NEW n \in Messages
               PROVE  /\ up[r] => acks[r][n] + inbox'[r][n] + InHand(r, n)' <= unacked[r][n]
                      /\ ~up[r] => acks[r][n] = 0 /\ unacked[r][n] = 0
    BY <1>4 DEF Settlements
  <2>1. CASE r = p
    BY <1>2, <1>3, <1>5, <2>1 DEF Settlements
  <2>2. CASE r # p
    BY <1>2, <2>2 DEF Settlements
  <2> QED
    BY <2>1, <2>2
<1> QED
  BY <1>1, <1>6

\* Every step of a process keeps the types.
LEMMA ServiceTypes ==
  ASSUME TypeOK, NEW p \in Processes, NEW m,
         \/ m \in Messages /\ \/ Take(p, m)
                              \/ ForwardEvent(p, m)
                              \/ PublishAlarm(p, m)
                              \/ DispatchAlarm(p, m)
                              \/ DispatchPanics(p, m)
         \/ Start(p) \/ Ack(p) \/ Exit(p)
  PROVE  TypeOK'
<1> USE PipelineAssumption DEF TypeOK, Types
<1>0. Serves[p] \in Queues /\ "normalized" \in Queues
  BY DEF Queues
<1>1. CASE Start(p)
  <2>1. Types'
    BY <1>1 DEF Start, outside
  <2>2. DownHoldsNothing'
    BY <1>1 DEF Start, DownHoldsNothing
  <2>3. inbox[p] = Empty /\ hand[p] = None
    BY <1>1 DEF Start, DownHoldsNothing
  <2>4. \A n \in Messages : inbox[p][n] = 0 /\ InHand(p, n) = 0
    BY <2>3 DEF Empty, InHand
  <2>5. \A n \in Messages : acks[p][n] = 0 /\ unacked[p][n] = 0
    BY <1>1 DEF Start, Settlements
  <2>6. Settlements'
    BY <1>1, <2>4, <2>5 DEF Start, Settlements, InHand
  <2> QED
    BY <2>1, <2>2, <2>6
<1>2. CASE m \in Messages /\ Take(p, m)
  <2>1. /\ inbox' \in Bags(Processes)
        /\ \A r \in Processes : \A n \in Messages :
             inbox'[r][n] = IF r = p /\ n = m THEN inbox[r][n] - 1 ELSE inbox[r][n]
    BY <1>2 DEF Take, Bags
  <2>2. /\ left' \in [Processes -> SUBSET Messages]
        /\ hand' = [hand EXCEPT ![p] = m]
    BY <1>0, <1>2, OutputsType DEF Take
  <2>3. Types'
    BY <1>2, <2>1, <2>2 DEF Take, connection, publisher, outside
  <2>4. DownHoldsNothing'
    BY <1>2 DEF Take, DownHoldsNothing
  <2>5. hand[p] = None
    BY <1>2 DEF Take
  <2>6. \A r \in Processes : \A n \in Messages :
          InHand(r, n)' = IF r = p /\ n = m THEN 1 ELSE InHand(r, n)
    BY <2>2, <2>5 DEF InHand
  <2>7. InHand(p, m) = 0
    BY <1>2, <2>5 DEF InHand
  <2>8. Settlements'
    BY <1>2, <2>1, <2>6, <2>7 DEF Take, Settlements, Bags, connection
  <2> QED
    BY <2>3, <2>4, <2>8
<1>3. CASE m \in Messages
            /\ (ForwardEvent(p, m) \/ PublishAlarm(p, m) \/ DispatchAlarm(p, m))
  <2>1. left' \in [Processes -> SUBSET Messages]
    BY <1>3 DEF ForwardEvent, PublishAlarm, DispatchAlarm
  <2>2. ready' \in Bags(Queues)
    <3>1. CASE ready' = ready
      BY <3>1
    <3>2. CASE ready' = [ready EXCEPT !["normalized"][m] = @ + 1]
      BY <1>0, <1>3, <3>2 DEF Bags
    <3> QED
      BY <1>3, <3>1, <3>2 DEF ForwardEvent, PublishAlarm, DispatchAlarm
  <2>3. wire' \in Bags(Processes)
    <3>1. CASE wire' = wire
      BY <3>1
    <3>2. CASE wire' = [wire EXCEPT ![p][m] = @ + 1]
      BY <1>3, <3>2 DEF Bags
    <3> QED
      BY <1>3, <3>1, <3>2 DEF ForwardEvent, PublishAlarm, DispatchAlarm, publisher
  <2>4. notified' \in [Messages -> Nat]
    BY <1>3 DEF ForwardEvent, PublishAlarm, DispatchAlarm, outside
  <2>5. UNCHANGED <<published, connection, pubUp, running, inbox, hand, addressesParse,
                 faults, pubFaults>>
    BY <1>3 DEF ForwardEvent, PublishAlarm, DispatchAlarm, publisher, outside
  <2>6. Types'
    BY <2>1, <2>2, <2>3, <2>4, <2>5 DEF connection
  <2>7. DownHoldsNothing' /\ Settlements'
    BY <2>5 DEF DownHoldsNothing, Settlements, InHand, connection
  <2> QED
    BY <2>6, <2>7
<1>4. CASE Ack(p)
  <2>1. hand[p] \in Messages
    BY <1>4 DEF Ack
  <2>2. /\ acks' \in Bags(Processes)
        /\ up[p] => \A r \in Processes : \A n \in Messages :
             acks'[r][n] = IF r = p /\ n = hand[p] THEN acks[r][n] + 1 ELSE acks[r][n]
        /\ ~up[p] => acks' = acks
    BY <1>4, <2>1 DEF Ack, Bags
  <2>3. Types'
    BY <1>4, <2>2 DEF Ack, publisher, outside
  <2>4. DownHoldsNothing'
    BY <1>4 DEF Ack, DownHoldsNothing
  <2>5. \A r \in Processes : \A n \in Messages :
          InHand(r, n)' = IF r = p THEN 0 ELSE InHand(r, n)
    BY <1>4 DEF Ack, InHand
  <2>6. \A n \in Messages : InHand(p, n) = IF n = hand[p] THEN 1 ELSE 0
    BY DEF InHand
  <2>7. Settlements'
    BY <1>4, <2>1, <2>2, <2>5, <2>6 DEF Ack, Settlements, Bags
  <2> QED
    BY <2>3, <2>4, <2>7
<1>5. CASE Exit(p)
  BY <1>5, EndTypes DEF Exit, outside
<1>6. CASE m \in Messages /\ DispatchPanics(p, m)
  <2>1. notified' \in [Messages -> Nat]
    BY <1>6 DEF DispatchPanics
  <2> QED
    BY <1>6, <2>1, EndTypes DEF DispatchPanics
<1> QED
  BY <1>1, <1>2, <1>3, <1>4, <1>5, <1>6

\* Every fault keeps the types.
LEMMA FaultTypes ==
  ASSUME TypeOK, NEW p \in Processes,
         Crash(p) \/ LoseConnection(p) \/ LosePublisher(p)
  PROVE  TypeOK'
<1> USE PipelineAssumption DEF TypeOK, Types
<1>0. Serves[p] \in Queues
  OBVIOUS
<1>1. CASE Crash(p)
  <2>1. faults' \in [Queues -> Nat]
    BY <1>0, <1>1 DEF Crash, Fault
  <2> QED
    BY <1>1, <2>1, EndTypes DEF Crash
<1>2. CASE LoseConnection(p)
  <2>1. Types'
    BY <1>0, <1>2, Dropped DEF LoseConnection, Fault, publisher, process
  <2>2. DownHoldsNothing'
    BY <1>2 DEF LoseConnection, DownHoldsNothing, process
  <2>3. Settlements'
    BY <1>2, Dropped DEF LoseConnection, Settlements, InHand, process
  <2> QED
    BY <2>1, <2>2, <2>3
<1>3. CASE LosePublisher(p)
  <2>1. Types'
    BY <1>3 DEF LosePublisher, Empty, Bags, connection, process
  <2>2. DownHoldsNothing' /\ Settlements'
    BY <1>3 DEF LosePublisher, DownHoldsNothing, Settlements, InHand, connection, process
  <2> QED
    BY <2>1, <2>2
<1> QED
  BY <1>1, <1>2, <1>3

\* Every step keeps the types.
LEMMA StepTypes ==
  TypeOK /\ [Next]_vars => TypeOK'
<1> SUFFICES ASSUME TypeOK, [Next]_vars PROVE TypeOK'
  OBVIOUS
<1>1. CASE \E m \in Messages : Publish(m)
  <2>1. PICK m \in Messages : Publish(m)
    BY <1>1
  <2>2. "raw" \in Queues
    BY DEF Queues
  <2>3. Types'
    BY <2>1, <2>2 DEF TypeOK, Types, Publish, Bags, connection, publisher, process, outside
  <2>4. DownHoldsNothing' /\ Settlements'
    BY <2>1 DEF TypeOK, DownHoldsNothing, Settlements, InHand, Publish, connection, process
  <2> QED
    BY <2>3, <2>4 DEF TypeOK
<1>2. CASE \E p \in Processes : \E m \in Messages : Deliver(p, m)
  BY <1>2, BrokerTypes
<1>3. CASE \E p \in Processes : BrokerStep(p)
  BY <1>3, BrokerTypes DEF BrokerStep
<1>4. CASE \E p \in Processes : Start(p) \/ ServiceStep(p)
  BY <1>4, ServiceTypes DEF ServiceStep, OwnStep
<1>5. CASE \E p \in Processes : Crash(p) \/ LoseConnection(p) \/ LosePublisher(p)
  BY <1>5, FaultTypes
<1>6. CASE UNCHANGED vars
  BY <1>6 DEF vars, TypeOK, Types, DownHoldsNothing, Settlements, InHand,
              connection, publisher, process, outside
<1> QED
  BY <1>1, <1>2, <1>3, <1>4, <1>5, <1>6 DEF Next

\* The empty pipeline has its types.
LEMMA InitTypes == Init => TypeOK
<1> SUFFICES ASSUME Init PROVE TypeOK
  OBVIOUS
<1>1. Empty \in [Messages -> Nat] /\ \A m \in Messages : Empty[m] = 0
  BY DEF Empty
<1>2. Types
  BY <1>1 DEF Init, Types, Bags
<1>3. DownHoldsNothing /\ Settlements
  BY <1>1, PipelineAssumption DEF Init, DownHoldsNothing, Settlements, InHand
<1> QED
  BY <1>2, <1>3 DEF TypeOK

\* No delivery outlives the process it was made to, and no message is acked that
\* the broker does not hold as unsettled for that process.
THEOREM TypeCorrect == Spec => []TypeOK
<1> QED
  BY InitTypes, StepTypes, PTL DEF Spec

-----------------------------------------------------------------------------
(* No event is dropped.                                                    *)

\* A message leaves a queue only when an ack of it is read.
LEMMA LeavesByAck ==
  ASSUME TypeOK, [Next]_vars, NEW q \in Queues, NEW m \in Messages, InQueue(q, m)
  PROVE  InQueue(q, m)' \/ \E p \in Processes : Serves[p] = q /\ ReceiveAck(p, m)
<1> USE PipelineAssumption DEF TypeOK, Types
<1>0. \A p \in Processes : Serves[p] \in Queues
  OBVIOUS
<1> DEFINE Keeps == unacked' = unacked /\ (ready[q][m] > 0 => ready'[q][m] > 0)
<1>1. ready[q][m] \in Nat /\ \A p \in Processes : unacked[p][m] \in Nat
  BY DEF Bags
<1>2. Keeps => InQueue(q, m)'
  BY <1>1 DEF InQueue
<1>3. ASSUME NEW n \in Messages, Publish(n)
      PROVE  Keeps
  BY <1>1, <1>3 DEF Publish, connection, Queues, Bags
<1>4. ASSUME NEW p \in Processes, NEW n \in Messages, Deliver(p, n)
      PROVE  InQueue(q, m)'
  <2>1. CASE n = m /\ Serves[p] = q
    <3>1. unacked'[p][m] > 0
      BY <1>1, <1>4, <2>1 DEF Deliver, Bags
    <3> QED
      BY <2>1, <3>1 DEF InQueue
  <2>2. CASE ~(n = m /\ Serves[p] = q)
    <3>1. ready'[q][m] = ready[q][m]
      BY <1>0, <1>4, <2>2 DEF Deliver, Bags
    <3>2. \A r \in Processes : unacked[r][m] > 0 => unacked'[r][m] > 0
      BY <1>1, <1>4 DEF Deliver, Bags
    <3> QED
      BY <1>1, <3>1, <3>2 DEF InQueue
  <2> QED
    BY <2>1, <2>2
<1>5. ASSUME NEW p \in Processes, NEW n \in Messages, ReceiveAck(p, n),
             ~(n = m /\ Serves[p] = q)
      PROVE  InQueue(q, m)'
  <2>1. ready' = ready
    BY <1>5 DEF ReceiveAck
  <2>2. \A r \in Processes : Serves[r] = q => unacked'[r][m] = unacked[r][m]
    BY <1>5 DEF ReceiveAck, Bags
  <2> QED
    BY <2>1, <2>2 DEF InQueue
<1>6. ASSUME NEW p \in Processes, NEW n \in Messages, ReceiveAlarm(p, n)
      PROVE  Keeps
  BY <1>1, <1>6 DEF ReceiveAlarm, connection, Queues, Bags
<1>7. ASSUME NEW p \in Processes, DropConnection(p)
      PROVE  InQueue(q, m)'
  <2>1. ready'[q][m] = IF q = Serves[p] THEN ready[q][m] + unacked[p][m] ELSE ready[q][m]
    BY <1>7, Dropped
  <2>2. CASE ready[q][m] > 0
    BY <1>1, <2>1, <2>2 DEF InQueue
  <2>3. ASSUME NEW r \in Processes, Serves[r] = q, unacked[r][m] > 0
        PROVE  InQueue(q, m)'
    <3>1. CASE r = p
      BY <1>1, <2>1, <2>3, <3>1 DEF InQueue
    <3>2. CASE r # p
      BY <1>7, <2>3, <3>2, Dropped DEF InQueue
    <3> QED
      BY <3>1, <3>2
  <2> QED
    BY <2>2, <2>3 DEF InQueue
<1>8. ASSUME NEW p \in Processes, NEW n \in Messages, ForwardEvent(p, n)
      PROVE  Keeps
  <2>1. unacked' = unacked
    BY <1>8 DEF ForwardEvent, connection
  <2>2. CASE ready' = ready
    BY <1>1, <2>1, <2>2
  <2>3. CASE ready' = [ready EXCEPT !["normalized"][n] = @ + 1]
    BY <1>1, <2>1, <2>3 DEF Queues, Bags
  <2> QED
    BY <1>8, <2>2, <2>3 DEF ForwardEvent
<1>9. ASSUME UNCHANGED <<ready, unacked>>
      PROVE  Keeps
  BY <1>1, <1>9
<1>10. ASSUME NEW p \in Processes, BrokerStep(p)
       PROVE  InQueue(q, m)' \/ (Serves[p] = q /\ ReceiveAck(p, m))
  BY <1>2, <1>5, <1>6, <1>7, <1>10 DEF BrokerStep, NoticeGone
<1>11. ASSUME NEW p \in Processes, ServiceStep(p) \/ Start(p) \/ Crash(p) \/ LosePublisher(p)
       PROVE  InQueue(q, m)'
  BY <1>2, <1>8, <1>9, <1>11
     DEF ServiceStep, OwnStep, DispatchPanics, Take, PublishAlarm, DispatchAlarm, Ack,
         Exit, Start, Crash,
         LosePublisher, connection
<1>12. ASSUME NEW p \in Processes, LoseConnection(p)
       PROVE  InQueue(q, m)'
  BY <1>7, <1>12 DEF LoseConnection
<1>13. CASE UNCHANGED vars
  BY <1>2, <1>9, <1>13 DEF vars, connection
<1> QED
  BY <1>2, <1>3, <1>4, <1>10, <1>11, <1>12, <1>13 DEF Next

LEMMA QueueKeeps ==
  ASSUME TypeOK, [Next]_vars, NEW q \in Queues, NEW m \in Messages, InQueue(q, m)
  PROVE  InQueue(q, m)' \/ \E p \in Processes : Serves[p] = q /\ acks[p][m] > 0
  BY LeavesByAck DEF ReceiveAck

\* A notification is not undone.
LEMMA NotifiedStays ==
  ASSUME TypeOK, [Next]_vars, NEW m \in Messages, notified[m] > 0
  PROVE  notified'[m] > 0
<1>1. ASSUME NEW p \in Processes, NEW n \in Messages, DispatchAlarm(p, n) \/ DispatchPanics(p, n)
      PROVE  notified'[m] > 0
  BY <1>1 DEF DispatchAlarm, DispatchPanics, TypeOK, Types
<1>2. CASE UNCHANGED notified
  BY <1>2
<1> QED
  BY <1>1, <1>2, ZenonT(60)
     DEF Next, Publish, Deliver, BrokerStep, ReceiveAck, ReceiveAlarm, NoticeGone, Start,
         ServiceStep, OwnStep, Take, ForwardEvent, PublishAlarm, Ack, Exit, Crash,
         LoseConnection, LosePublisher, outside, vars

\* An alarm on its way stays on its way or arrives, unless a publisher's
\* connection is lost.
LEMMA WireKeeps ==
  ASSUME TypeOK, [Next]_vars, pubFaults' = 0,
         NEW p \in Processes, NEW m \in Messages, wire[p][m] > 0
  PROVE  wire'[p][m] > 0 \/ InQueue("alarms", m)'
<1> USE DEF TypeOK, Types
<1>0. "alarms" \in Queues /\ ready["alarms"][m] \in Nat
  BY DEF Queues, Bags
<1>1. ASSUME NEW r \in Processes, NEW n \in Messages, ReceiveAlarm(r, n)
      PROVE  wire'[p][m] > 0 \/ InQueue("alarms", m)'
  <2>1. CASE r = p /\ n = m
    <3>1. ready'["alarms"][m] > 0
      BY <1>0, <1>1, <2>1 DEF ReceiveAlarm, Bags
    <3> QED
      BY <3>1 DEF InQueue
  <2>2. CASE ~(r = p /\ n = m)
    BY <1>1, <2>2 DEF ReceiveAlarm, Bags
  <2> QED
    BY <2>1, <2>2
<1>2. ASSUME NEW r \in Processes, NEW n \in Messages, PublishAlarm(r, n)
      PROVE  wire'[p][m] > 0
  <2>1. CASE wire' = wire
    BY <2>1
  <2>2. CASE wire' = [wire EXCEPT ![r][n] = @ + 1]
    BY <2>2 DEF Bags
  <2> QED
    BY <1>2, <2>1, <2>2 DEF PublishAlarm
<1>3. ASSUME NEW r \in Processes, LosePublisher(r)
      PROVE  FALSE
  BY <1>3 DEF LosePublisher
<1>4. CASE UNCHANGED wire
  BY <1>4
<1> QED
  BY <1>1, <1>2, <1>3, <1>4, ZenonT(60)
     DEF Next, Publish, Deliver, BrokerStep, ReceiveAck, NoticeGone, Start,
         ServiceStep, OwnStep, DispatchPanics, Take, ForwardEvent, DispatchAlarm, Ack,
         Exit, Crash,
         LoseConnection, publisher, vars

\* Publisher connections are not lost backwards.
LEMMA PubFaultsGrow ==
  ASSUME TypeOK, [Next]_vars, pubFaults' = 0
  PROVE  pubFaults = 0
<1>1. ASSUME NEW p \in Processes, LosePublisher(p)
      PROVE  FALSE
  BY <1>1 DEF LosePublisher, TypeOK, Types
<1>2. CASE UNCHANGED pubFaults
  BY <1>2
<1> QED
  BY <1>1, <1>2, ZenonT(60)
     DEF Next, Publish, Deliver, BrokerStep, ReceiveAck, ReceiveAlarm, NoticeGone, Start,
         ServiceStep, OwnStep, DispatchPanics, Take, ForwardEvent, PublishAlarm,
         DispatchAlarm, Ack, Exit, Crash,
         LoseConnection, outside, vars

\* What is in safe hands stays there: each stage leaves a message only when the
\* next has it.
LEMMA AlarmStays ==
  ASSUME TypeOK, AckedIsDone, [Next]_vars, pubFaults' = 0,
         NEW m \in Messages, AlarmSafe(m)
  PROVE  AlarmSafe(m)'
<1>1. CASE notified[m] > 0
  BY <1>1, NotifiedStays DEF AlarmSafe
<1>2. CASE InQueue("alarms", m)
  <2>1. CASE InQueue("alarms", m)'
    BY <2>1 DEF AlarmSafe
  <2>2. CASE \E p \in Processes : Serves[p] = "alarms" /\ acks[p][m] > 0
    <3>1. \E p \in Processes : \A o \in Outputs("alarms", m) : OutputSafe("alarms", o)
      BY <2>2, PubFaultsGrow DEF AckedIsDone
    <3>2. m \in Undecodable \/ notified[m] > 0
      BY <3>1 DEF Outputs, OutputSafe
    <3> QED
      BY <3>2, NotifiedStays DEF AlarmSafe
  <2> QED
    BY <1>2, <2>1, <2>2, QueueKeeps DEF Queues
<1>3. CASE \E p \in Processes : wire[p][m] > 0
  BY <1>3, WireKeeps DEF AlarmSafe
<1>4. CASE m \in Undecodable
  BY <1>4 DEF AlarmSafe
<1> QED
  BY <1>1, <1>2, <1>3, <1>4 DEF AlarmSafe

\* What has been evaluated, or waits for it, stays so.
LEMMA EvaluationStays ==
  ASSUME TypeOK, AckedIsDone, [Next]_vars, pubFaults' = 0,
         NEW m \in Messages, EvaluationSafe(m)
  PROVE  EvaluationSafe(m)'
<1>0. "normalized" \in Queues
  BY DEF Queues
<1>1. CASE InQueue("normalized", m)'
  BY <1>1 DEF EvaluationSafe
<1>2. CASE \A a \in Outputs("normalized", m) : AlarmSafe(a)
  <2>1. \A a \in Outputs("normalized", m) : AlarmSafe(a)'
    BY <1>0, <1>2, AlarmStays, OutputsType
  <2> QED
    BY <2>1 DEF EvaluationSafe, Outputs
<1>3. CASE \E p \in Processes : Serves[p] = "normalized" /\ acks[p][m] > 0
  <2>1. \A o \in Outputs("normalized", m) : OutputSafe("normalized", o)
    BY <1>3, PubFaultsGrow DEF AckedIsDone
  <2> QED
    BY <1>2, <2>1 DEF OutputSafe
<1> QED
  BY <1>0, <1>1, <1>2, <1>3, QueueKeeps DEF EvaluationSafe

\* So does what a queue service has done, or waits for one.
LEMMA EventStays ==
  ASSUME TypeOK, AckedIsDone, [Next]_vars, pubFaults' = 0,
         NEW m \in Messages, EventSafe(m)
  PROVE  EventSafe(m)'
<1>0. "raw" \in Queues
  BY DEF Queues
<1>1. CASE InQueue("raw", m)'
  BY <1>1 DEF EventSafe
<1>2. CASE \A e \in Outputs("raw", m) : EvaluationSafe(e)
  <2>1. \A e \in Outputs("raw", m) : EvaluationSafe(e)'
    BY <1>0, <1>2, EvaluationStays, OutputsType
  <2> QED
    BY <2>1 DEF EventSafe, Outputs
<1>3. CASE \E p \in Processes : Serves[p] = "raw" /\ acks[p][m] > 0
  <2>1. \A o \in Outputs("raw", m) : OutputSafe("raw", o)
    BY <1>3, PubFaultsGrow DEF AckedIsDone
  <2> QED
    BY <1>2, <2>1 DEF OutputSafe
<1> QED
  BY <1>0, <1>1, <1>2, <1>3, QueueKeeps DEF EventSafe

\* In short: what is in safe hands stays there.
LEMMA OutputStays ==
  ASSUME TypeOK, AckedIsDone, [Next]_vars, pubFaults' = 0,
         NEW q \in Queues, NEW m \in Messages, OutputSafe(q, m)
  PROVE  OutputSafe(q, m)'
<1>1. CASE q = "raw"
  BY <1>1, EvaluationStays DEF OutputSafe
<1>2. CASE q = "normalized"
  BY <1>2, AlarmStays DEF OutputSafe
<1>3. CASE q = "alarms"
  BY <1>3, NotifiedStays DEF OutputSafe
<1> QED
  BY <1>1, <1>2, <1>3 DEF Queues

\* A service that has published its output has put it in safe hands.
LEMMA EmittedIsSafe ==
  ASSUME TypeOK, NEW p \in Processes, NEW m \in Messages,
         \/ up[p] /\ ForwardEvent(p, m)
         \/ pubUp[p] /\ PublishAlarm(p, m)
         \/ DispatchAlarm(p, m)
  PROVE  OutputSafe(Serves[p], m)'
<1> USE DEF TypeOK, Types
<1>1. CASE up[p] /\ ForwardEvent(p, m)
  <2>1. "normalized" \in Queues /\ ready["normalized"][m] \in Nat
    BY DEF Queues, Bags
  <2>2. ready'["normalized"][m] > 0
    BY <1>1, <2>1 DEF ForwardEvent, Bags
  <2> QED
    BY <1>1, <2>2 DEF ForwardEvent, OutputSafe, EvaluationSafe, InQueue
<1>2. CASE pubUp[p] /\ PublishAlarm(p, m)
  <2>1. wire'[p][m] > 0
    BY <1>2 DEF PublishAlarm, Bags
  <2> QED
    BY <1>2, <2>1 DEF PublishAlarm, OutputSafe, AlarmSafe
<1>3. CASE DispatchAlarm(p, m)
  BY <1>3 DEF DispatchAlarm, OutputSafe
<1> QED
  BY <1>1, <1>2, <1>3

\* A new ack is one of the message in hand.
LEMMA NewAck ==
  ASSUME TypeOK, [Next]_vars, NEW p \in Processes, NEW m \in Messages, acks'[p][m] > 0
  PROVE  acks[p][m] > 0 \/ (Ack(p) /\ up[p] /\ hand[p] = m)
<1> USE DEF TypeOK, Types
<1>1. ASSUME NEW r \in Processes, NEW n \in Messages, ReceiveAck(r, n)
      PROVE  acks[p][m] > 0
  BY <1>1 DEF ReceiveAck, Bags
<1>2. ASSUME NEW r \in Processes, Ack(r)
      PROVE  acks[p][m] > 0 \/ (Ack(p) /\ up[p] /\ hand[p] = m)
  <2>1. CASE acks' = acks
    BY <2>1
  <2>2. CASE up[r] /\ acks' = [acks EXCEPT ![r][hand[r]] = @ + 1]
    BY <1>2, <2>2 DEF Bags
  <2> QED
    BY <1>2, <2>1, <2>2 DEF Ack
<1>3. ASSUME NEW r \in Processes, DropConnection(r)
      PROVE  acks[p][m] > 0
  <2>1. p # r
    BY <1>3, Dropped
  <2> QED
    BY <1>3, <2>1, Dropped
<1>4. CASE UNCHANGED acks
  BY <1>4
<1> QED
  BY <1>1, <1>2, <1>3, <1>4, ZenonT(60)
     DEF Next, Publish, Deliver, BrokerStep, ReceiveAlarm, NoticeGone, Start,
         ServiceStep, OwnStep, DispatchPanics,
         Take, ForwardEvent, PublishAlarm, DispatchAlarm, Exit, Crash, LoseConnection,
         LosePublisher, connection, vars

\* What a service with a connection has emitted for the message in hand, it had
\* emitted before or emits now.
LEMMA NewOutput ==
  ASSUME TypeOK, AckedIsDone, [Next]_vars, pubFaults = 0, NEW p \in Processes,
         up'[p], hand'[p] # None,
         NEW o \in Outputs(Serves[p], hand'[p]), o \notin left'[p]
  PROVE  \/ OutputSafe(Serves[p], o)'
         \/ up[p] /\ hand[p] = hand'[p] /\ o \notin left[p]
<1> USE PipelineAssumption DEF TypeOK, Types
<1> DEFINE Held == up[p] /\ hand[p] = hand'[p] /\ o \notin left[p]
<1>1. ASSUME NEW r \in Processes, Start(r)
      PROVE  Held
  <2>1. p # r
    BY <1>1 DEF Start, DownHoldsNothing
  <2> QED
    BY <1>1, <2>1 DEF Start
<1>2. ASSUME NEW r \in Processes, NEW n \in Messages, Take(r, n)
      PROVE  Held
  <2>1. p # r
    BY <1>2 DEF Take
  <2> QED
    BY <1>2, <2>1 DEF Take, connection
<1>3. ASSUME NEW r \in Processes, NEW n \in Messages,
             ForwardEvent(r, n) \/ PublishAlarm(r, n) \/ DispatchAlarm(r, n)
      PROVE  OutputSafe(Serves[p], o)' \/ Held
  <2>1. up'[p] = up[p] /\ hand' = hand /\ running' = running
    BY <1>3 DEF ForwardEvent, PublishAlarm, DispatchAlarm, connection
  <2>2. CASE r # p
    BY <1>3, <2>1, <2>2 DEF ForwardEvent, PublishAlarm, DispatchAlarm
  <2>3. CASE r = p
    <3>1. running[p] => pubUp[p]
      BY DEF AckedIsDone
    <3>2. running[p]
      BY <2>1 DEF DownHoldsNothing
    <3>3. left'[p] = left[p] \ {n}
      BY <1>3, <2>3, <3>1, <3>2 DEF ForwardEvent, PublishAlarm, DispatchAlarm
    <3>4. CASE o = n
      BY <1>3, <2>1, <2>3, <3>1, <3>2, <3>4, EmittedIsSafe
    <3>5. CASE o # n
      BY <2>1, <3>3, <3>5
    <3> QED
      BY <3>4, <3>5
  <2> QED
    BY <2>2, <2>3
<1>4. ASSUME NEW r \in Processes,
             Ack(r) \/ Exit(r) \/ Crash(r) \/ \E n \in Messages : DispatchPanics(r, n)
      PROVE  Held
  <2>1. p # r
    BY <1>4 DEF Ack, Exit, Crash, DispatchPanics, Ends
  <2> QED
    BY <1>4, <2>1 DEF Ack, Exit, Crash, DispatchPanics, Ends, connection
<1>5. ASSUME NEW r \in Processes, DropConnection(r), UNCHANGED process
      PROVE  Held
  BY <1>5, Dropped DEF process
<1>6. CASE UNCHANGED <<up, hand, left>>
  BY <1>6
<1> QED
  BY <1>1, <1>2, <1>3, <1>4, <1>5, <1>6
     DEF Next, Publish, Deliver, BrokerStep, ReceiveAck, ReceiveAlarm, NoticeGone,
         ServiceStep, OwnStep, LoseConnection, LosePublisher, connection, process, vars

\* A service that runs has its publisher.
LEMMA PublisherStays ==
  ASSUME TypeOK, AckedIsDone, [Next]_vars, pubFaults' = 0, pubFaults = 0,
         NEW p \in Processes, running'[p]
  PROVE  pubUp'[p]
<1> USE DEF TypeOK, Types
<1>0. running[p] => pubUp[p]
  BY DEF AckedIsDone
<1>1. ASSUME NEW r \in Processes, Start(r)
      PROVE  pubUp'[p]
  BY <1>0, <1>1 DEF Start
<1>2. ASSUME NEW r \in Processes, Ends(r), UNCHANGED pubUp
      PROVE  pubUp'[p]
  BY <1>0, <1>2 DEF Ends
<1>3. ASSUME NEW r \in Processes, LosePublisher(r)
      PROVE  FALSE
  BY <1>3 DEF LosePublisher
<1>4. CASE UNCHANGED <<running, pubUp>>
  BY <1>0, <1>4
<1> QED
  BY <1>1, <1>2, <1>3, <1>4, ZenonT(60)
     DEF Next, Publish, Deliver, BrokerStep, ReceiveAck, ReceiveAlarm, NoticeGone,
         ServiceStep, OwnStep, DispatchPanics, Take, ForwardEvent, PublishAlarm,
         DispatchAlarm, Ack, Exit, Crash,
         LoseConnection, publisher, process, vars

\* What is acked is done.
LEMMA StepAckedIsDone ==
  TypeOK /\ AckedIsDone /\ [Next]_vars => AckedIsDone'
<1> SUFFICES ASSUME TypeOK, AckedIsDone, [Next]_vars, pubFaults' = 0, NEW p \in Processes
             PROVE  /\ running'[p] => pubUp'[p]
                    /\ \A m \in Messages :
                         acks'[p][m] > 0 =>
                           \A o \in Outputs(Serves[p], m) : OutputSafe(Serves[p], o)'
                    /\ up'[p] /\ hand'[p] # None =>
                         \A o \in Outputs(Serves[p], hand'[p]) \ left'[p] :
                           OutputSafe(Serves[p], o)'
  BY DEF AckedIsDone, Outputs
<1>0. pubFaults = 0 /\ Serves[p] \in Queues
  BY PubFaultsGrow, PipelineAssumption
<1>1. running'[p] => pubUp'[p]
  BY <1>0, PublisherStays
<1>2. ASSUME NEW m \in Messages, acks'[p][m] > 0, NEW o \in Outputs(Serves[p], m)
      PROVE  OutputSafe(Serves[p], o)'
  <2>1. o \in Messages
    BY <1>0, OutputsType
  <2>2. CASE acks[p][m] > 0
    BY <1>0, <2>1, <2>2, OutputStays DEF AckedIsDone
  <2>3. CASE Ack(p) /\ up[p] /\ hand[p] = m
    <3>1. OutputSafe(Serves[p], o)
      BY <1>0, <2>3 DEF AckedIsDone, Ack
    <3> QED
      BY <1>0, <2>1, <3>1, OutputStays
  <2> QED
    BY <1>2, <2>2, <2>3, NewAck
<1>3. ASSUME up'[p], hand'[p] # None,
             NEW o \in Outputs(Serves[p], hand'[p]), o \notin left'[p]
      PROVE  OutputSafe(Serves[p], o)'
  <2>1. CASE up[p] /\ hand[p] = hand'[p] /\ o \notin left[p]
    <3>1. OutputSafe(Serves[p], o)
      BY <1>0, <1>3, <2>1 DEF AckedIsDone
    <3>2. hand[p] \in Messages
      BY <1>3, <2>1 DEF TypeOK, Types
    <3>3. o \in Messages
      BY <1>0, <2>1, <3>2, OutputsType
    <3> QED
      BY <1>0, <3>1, <3>3, OutputStays
  <2> QED
    BY <1>0, <1>3, <2>1, NewOutput
<1> QED
  BY <1>1, <1>2, <1>3

\* Nothing is published in the empty pipeline, and nothing acked.
LEMMA InitSafety == Init => AckedIsDone /\ NoEventDropped
<1> SUFFICES ASSUME Init PROVE AckedIsDone /\ NoEventDropped
  OBVIOUS
<1>1. \A p \in Processes : \A m \in Messages : acks[p][m] = 0
  BY DEF Init, Empty
<1> QED
  BY <1>1 DEF Init, AckedIsDone, NoEventDropped

\* Every step keeps NoEventDropped: an event leaves a queue only by an ack, and
\* by AckedIsDone its outputs are then in safe hands.
LEMMA StepNoEventDropped ==
  TypeOK /\ AckedIsDone /\ NoEventDropped /\ [Next]_vars => NoEventDropped'
<1> SUFFICES ASSUME TypeOK, AckedIsDone, NoEventDropped, [Next]_vars, pubFaults' = 0,
                    NEW m \in published'
             PROVE  EventSafe(m)'
  BY DEF NoEventDropped
<1>1. CASE m \in published
  <2>1. EventSafe(m)
    BY <1>1, PubFaultsGrow DEF NoEventDropped
  <2>2. m \in Messages
    BY <1>1 DEF TypeOK, Types, Messages
  <2> QED
    BY <2>1, <2>2, EventStays
<1>2. CASE m \notin published
  <2>1. m \in Messages /\ Publish(m)
    BY <1>2, ZenonT(60) DEF Next, Publish, Deliver, BrokerStep, ReceiveAck, ReceiveAlarm, NoticeGone,
                Start, ServiceStep, OwnStep, DispatchPanics, Take, ForwardEvent,
                PublishAlarm, DispatchAlarm, Ack,
                Exit, Crash, LoseConnection, LosePublisher, vars
  <2>2. "raw" \in Queues /\ ready["raw"][m] \in Nat
    BY <2>1 DEF TypeOK, Types, Queues, Bags
  <2>3. ready'["raw"][m] > 0
    BY <2>1, <2>2 DEF Publish, TypeOK, Types, Bags
  <2> QED
    BY <2>3 DEF EventSafe, InQueue
<1> QED
  BY <1>1, <1>2

\* No crash, no lost consumer connection and no panicking dispatcher, of however many
\* processes and however often, makes the pipeline drop an event, but for the alarms
\* that no dispatcher can decode: the guarantee of each service, to ack only what it
\* has handed on, carries over to the whole.
THEOREM NoEventIsDropped == Spec => []NoEventDropped
<1>1. TypeOK /\ AckedIsDone /\ NoEventDropped /\ [Next]_vars
        => (TypeOK /\ AckedIsDone /\ NoEventDropped)'
  BY StepTypes, StepAckedIsDone, StepNoEventDropped
<1>2. Init => TypeOK /\ AckedIsDone /\ NoEventDropped
  BY InitTypes, InitSafety
<1> QED
  BY <1>1, <1>2, PTL DEF Spec

-----------------------------------------------------------------------------
(* Totals over the processes.                                              *)

\* Where only p's number changes, so does the total, by as much.
LEMMA TotalChanges ==
  ASSUME NEW S, NEW f \in [S -> Nat], NEW g \in [S -> Nat], NEW p \in S,
         \A r \in S \ {p} : g[r] = f[r], IsFiniteSet(Counted(f))
  PROVE  /\ IsFiniteSet(Counted(g))
         /\ Total(f) \in Nat /\ Total(g) \in Nat
         /\ Total(g) + f[p] = Total(f) + g[p]
         /\ f[p] <= Total(f)
<1> DEFINE Row(n) == {p} \X (1..n)
           R == UNION {{r} \X (1..f[r]) : r \in S \ {p}}
<1>1. ASSUME NEW n \in Nat
      PROVE  IsFiniteSet(Row(n)) /\ Cardinality(Row(n)) = n
  <2>1. /\ IsFiniteSet(1..n) /\ Cardinality(1..n) = n
    <3>1. /\ IsFiniteSet(1..n)
          /\ Cardinality(1..n) = IF 1 > n THEN 0 ELSE n - 1 + 1
      BY FS_Interval, 1 \in Int, n \in Int
    <3> QED
      BY <3>1
  <2>2. IsFiniteSet({p}) /\ Cardinality({p}) = 1
    BY FS_Singleton
  <2>3. IsFiniteSet(Row(n)) /\ Cardinality(Row(n)) = Cardinality({p}) * Cardinality(1..n)
    BY <2>1, <2>2, FS_Product
  <2> QED
    BY <2>1, <2>2, <2>3
<1>2. \A n \in Nat : R \cap Row(n) = {}
  OBVIOUS
<1>3. Counted(f) = R \cup Row(f[p])
  BY DEF Counted
<1>4. Counted(g) = R \cup Row(g[p])
  BY DEF Counted
<1> HIDE DEF Row, R
<1>5. IsFiniteSet(R) /\ Cardinality(R) \in Nat
  BY <1>3, FS_Subset, FS_CardinalityType
<1>6. ASSUME NEW n \in Nat
      PROVE  IsFiniteSet(R \cup Row(n)) /\ Cardinality(R \cup Row(n)) = Cardinality(R) + n
  <2>1. Cardinality(R \cap Row(n)) = 0
    BY <1>2, FS_EmptySet
  <2>2. IsFiniteSet(Row(n)) /\ Cardinality(Row(n)) = n
    BY <1>1
  <2>3. /\ IsFiniteSet(R \cup Row(n))
        /\ Cardinality(R \cup Row(n))
             = Cardinality(R) + Cardinality(Row(n)) - Cardinality(R \cap Row(n))
    BY <1>5, <2>2, FS_Union
  <2> QED
    BY <1>5, <2>1, <2>2, <2>3
<1>7. f[p] \in Nat /\ g[p] \in Nat
  OBVIOUS
<1>8. Total(f) = Cardinality(R) + f[p] /\ Total(g) = Cardinality(R) + g[p]
  BY <1>3, <1>4, <1>6, <1>7 DEF Total
<1> QED
  BY <1>4, <1>5, <1>6, <1>7, <1>8

\* Nothing adds up to nothing.
LEMMA TotalOfNothing ==
  ASSUME NEW S, NEW f \in [S -> Nat], \A p \in S : f[p] = 0
  PROVE  IsFiniteSet(Counted(f)) /\ Total(f) = 0
<1>1. \A p \in S : 1..f[p] = {}
  OBVIOUS
<1>2. Counted(f) = {}
  BY <1>1 DEF Counted
<1> QED
  BY <1>2, FS_EmptySet DEF Total

-----------------------------------------------------------------------------
(* What a step does to a stage.                                            *)

\* The numbers that the totals are of.
LEMMA ShareTypes ==
  ASSUME Types, Types', NEW q \in Queues, NEW m \in Messages, NEW o
  PROVE  /\ Unsettled(q, m) \in [Processes -> Nat] /\ Unsettled(q, m)' \in [Processes -> Nat]
         /\ YetToEmit(q, m, o) \in [Processes -> Nat] /\ YetToEmit(q, m, o)' \in [Processes -> Nat]
         /\ ready[q][m] \in Nat /\ ready'[q][m] \in Nat
         /\ faults[q] \in Nat /\ faults'[q] \in Nat
<1>1. \A p \in Processes :
        /\ OnItsWay(q, m, p) \in Nat /\ OnItsWay(q, m, p)' \in Nat
        /\ unacked[p][m] \in Nat /\ unacked'[p][m] \in Nat
        /\ inbox[p][m] \in Nat /\ inbox'[p][m] \in Nat
  BY DEF Types, Bags, OnItsWay
<1>2. \A p \in Processes : ToCome(p, m, o) \in Nat /\ ToCome(p, m, o)' \in Nat
  BY <1>1 DEF ToCome
<1>3. /\ Unsettled(q, m) \in [Processes -> Nat] /\ Unsettled(q, m)' \in [Processes -> Nat]
  BY <1>1 DEF Unsettled
<1>4. YetToEmit(q, m, o) \in [Processes -> Nat] /\ YetToEmit(q, m, o)' \in [Processes -> Nat]
  BY <1>1, <1>2 DEF YetToEmit
<1>5. ready[q][m] \in Nat /\ ready'[q][m] \in Nat /\ faults[q] \in Nat /\ faults'[q] \in Nat
  BY DEF Types, Bags
<1> QED
  BY <1>3, <1>4, <1>5

\* A step lets so many copies of m enter q and so many o's be emitted: it makes no
\* more of either than that, unless it is a fault, by which what is there may have
\* to be done again.
Moves(q, m, o, enters, emits) ==
  /\ StageFinite(q, m, o)'
  /\ There(q, m)' <= There(q, m) + enters
  /\ \/ /\ faults'[q] = faults[q]
        /\ emits + ToDo(q, m, o)' <= ToDo(q, m, o) + enters
     \/ /\ faults'[q] = faults[q] + 1
        /\ emits + ToDo(q, m, o)' <= ToDo(q, m, o) + There(q, m) + enters

\* The same of a step that only process p and the queue take part in.
MovesOne(p, q, m, o, enters, emits) ==
  /\ \A r \in Processes \ {p} :
       /\ Unsettled(q, m)'[r] = Unsettled(q, m)[r]
       /\ YetToEmit(q, m, o)'[r] = YetToEmit(q, m, o)[r]
  /\ ready'[q][m] + Unsettled(q, m)'[p] <= ready[q][m] + Unsettled(q, m)[p] + enters
  /\ \/ /\ faults'[q] = faults[q]
        /\ emits + ready'[q][m] + YetToEmit(q, m, o)'[p]
             <= ready[q][m] + YetToEmit(q, m, o)[p] + enters
     \/ /\ faults'[q] = faults[q] + 1
        /\ emits + ready'[q][m] + YetToEmit(q, m, o)'[p]
             <= ready[q][m] + YetToEmit(q, m, o)[p] + Unsettled(q, m)[p] + enters

LEMMA OneMoves ==
  ASSUME Types, Types', NEW p \in Processes, NEW q \in Queues, NEW m \in Messages, NEW o,
         NEW enters \in Nat, NEW emits \in Nat,
         StageFinite(q, m, o), MovesOne(p, q, m, o, enters, emits)
  PROVE  Moves(q, m, o, enters, emits)
<1> DEFINE f == Unsettled(q, m)
           g == Unsettled(q, m)'
           h == YetToEmit(q, m, o)
           k == YetToEmit(q, m, o)'
<1>1. /\ f \in [Processes -> Nat] /\ g \in [Processes -> Nat]
      /\ h \in [Processes -> Nat] /\ k \in [Processes -> Nat]
      /\ ready[q][m] \in Nat /\ ready'[q][m] \in Nat
      /\ faults[q] \in Nat /\ faults'[q] \in Nat
  BY ShareTypes
<1>2. IsFiniteSet(Counted(f)) /\ IsFiniteSet(Counted(h))
  BY DEF StageFinite
<1>3. /\ \A r \in Processes \ {p} : g[r] = f[r]
      /\ \A r \in Processes \ {p} : k[r] = h[r]
  BY DEF MovesOne
<1>4. There(q, m)' = ready'[q][m] + Total(g) /\ There(q, m) = ready[q][m] + Total(f)
  BY DEF There, Total, Counted
<1>5. /\ ToDo(q, m, o)' = ready'[q][m] + Total(k)
      /\ ToDo(q, m, o) = ready[q][m] + Total(h)
  BY DEF ToDo, Total, Counted
<1>6. StageFinite(q, m, o)' <=> IsFiniteSet(Counted(g)) /\ IsFiniteSet(Counted(k))
  BY DEF StageFinite, Counted
<1>7. /\ ready'[q][m] + g[p] <= ready[q][m] + f[p] + enters
      /\ \/ /\ faults'[q] = faults[q]
            /\ emits + ready'[q][m] + k[p] <= ready[q][m] + h[p] + enters
         \/ /\ faults'[q] = faults[q] + 1
            /\ emits + ready'[q][m] + k[p] <= ready[q][m] + h[p] + f[p] + enters
  BY DEF MovesOne
<1> HIDE DEF f, g, h, k
<1>8. /\ IsFiniteSet(Counted(g)) /\ Total(f) \in Nat /\ Total(g) \in Nat
      /\ Total(g) + f[p] = Total(f) + g[p] /\ f[p] <= Total(f)
  BY <1>1, <1>2, <1>3, TotalChanges, SMTT(30)
<1>9. /\ IsFiniteSet(Counted(k)) /\ Total(h) \in Nat /\ Total(k) \in Nat
      /\ Total(k) + h[p] = Total(h) + k[p]
  <2>1. /\ h \in [Processes -> Nat] /\ k \in [Processes -> Nat]
        /\ IsFiniteSet(Counted(h))
        /\ \A r \in Processes \ {p} : k[r] = h[r]
    BY <1>1, <1>2, <1>3
  <2> QED
    BY <2>1, TotalChanges
<1>10. f[p] \in Nat /\ g[p] \in Nat /\ h[p] \in Nat /\ k[p] \in Nat
  BY <1>1
<1>11. There(q, m)' <= There(q, m) + enters
  BY <1>1, <1>4, <1>7, <1>8, <1>10
<1>12. \/ /\ faults'[q] = faults[q]
          /\ emits + ToDo(q, m, o)' <= ToDo(q, m, o) + enters
       \/ /\ faults'[q] = faults[q] + 1
          /\ emits + ToDo(q, m, o)' <= ToDo(q, m, o) + There(q, m) + enters
  BY <1>1, <1>4, <1>5, <1>7, <1>8, <1>9, <1>10
<1> QED
  BY <1>6, <1>8, <1>9, <1>11, <1>12 DEF Moves

\* So a stage stays within its bounds, with what has entered it and what it has
\* emitted counted on.
LEMMA StageStep ==
  ASSUME Types, Types', NEW q \in Queues, NEW m \in Messages, NEW o,
         NEW entered \in Nat, NEW emitted \in Nat, NEW enters \in Nat, NEW emits \in Nat,
         StageBounded(q, m, o, entered, emitted), Moves(q, m, o, enters, emits)
  PROVE  StageBounded(q, m, o, entered + enters, emitted + emits)'
<1> DEFINE t == There(q, m)
           u == There(q, m)'
           d == ToDo(q, m, o)
           e == ToDo(q, m, o)'
<1>1. /\ Unsettled(q, m) \in [Processes -> Nat] /\ Unsettled(q, m)' \in [Processes -> Nat]
      /\ YetToEmit(q, m, o) \in [Processes -> Nat] /\ YetToEmit(q, m, o)' \in [Processes -> Nat]
      /\ ready[q][m] \in Nat /\ ready'[q][m] \in Nat
      /\ faults[q] \in Nat /\ faults'[q] \in Nat
  BY ShareTypes
<1>2. t \in Nat /\ d \in Nat
  <2>1. Total(Unsettled(q, m)) \in Nat /\ Total(YetToEmit(q, m, o)) \in Nat
    BY FS_CardinalityType DEF StageBounded, StageFinite, Total
  <2> QED
    BY <1>1, <2>1 DEF There, ToDo
<1>3. u \in Nat /\ e \in Nat
  <2>1. Cardinality(Counted(Unsettled(q, m)))' \in Nat /\ Cardinality(Counted(YetToEmit(q, m, o)))' \in Nat
    BY FS_CardinalityType DEF Moves, StageFinite
  <2> QED
    BY <1>1, <2>1 DEF There, ToDo, Total
<1>4. t <= entered /\ emitted + d <= entered * (1 + faults[q])
  BY DEF StageBounded
<1>5. /\ u <= t + enters
      /\ \/ faults'[q] = faults[q] /\ emits + e <= d + enters
         \/ faults'[q] = faults[q] + 1 /\ emits + e <= d + t + enters
  BY DEF Moves
<1> HIDE DEF t, u, d, e
<1>6. PICK F \in Nat : F = faults[q]
  BY <1>1
<1>7. PICK G \in Nat : G = faults'[q]
  BY <1>1
<1>8. /\ (entered + enters) * (1 + G) = entered * (1 + G) + enters * (1 + G)
      /\ entered * (1 + (F + 1)) = entered * (1 + F) + entered
      /\ enters <= enters * (1 + G)
      /\ entered * (1 + F) \in Nat /\ entered * (1 + G) \in Nat /\ enters * (1 + G) \in Nat
  OBVIOUS
<1>9. u <= entered + enters
  BY <1>2, <1>3, <1>4, <1>5
<1>10. CASE G = F /\ emits + e <= d + enters
  <2>1. (emitted + emits) + e <= entered * (1 + G) + enters * (1 + G)
    BY <1>2, <1>3, <1>4, <1>6, <1>8, <1>10
  <2> QED
    BY <1>7, <1>8, <1>9, <2>1 DEF StageBounded, Moves, u, e
<1>11. CASE G = F + 1 /\ emits + e <= d + t + enters
  <2>1. (emitted + emits) + e <= entered * (1 + G) + enters * (1 + G)
    BY <1>2, <1>3, <1>4, <1>6, <1>8, <1>11
  <2> QED
    BY <1>7, <1>8, <1>9, <2>1 DEF StageBounded, Moves, u, e
<1> QED
  BY <1>5, <1>6, <1>7, <1>10, <1>11

\* What p has to do with a queue, by what it consumes; the others have what they
\* had.
LEMMA Shares ==
  ASSUME NEW p \in Processes, NEW q, NEW m, NEW o,
         \A r \in Processes \ {p} :
           UNCHANGED <<unacked[r], wire[r], running[r], inbox[r], hand[r], left[r]>>
  PROVE  /\ \A r \in Processes \ {p} :
              /\ Unsettled(q, m)'[r] = Unsettled(q, m)[r]
              /\ YetToEmit(q, m, o)'[r] = YetToEmit(q, m, o)[r]
         /\ q = Serves[p] =>
              /\ Unsettled(q, m)[p] = OnItsWay(q, m, p) + unacked[p][m]
              /\ Unsettled(q, m)'[p] = OnItsWay(q, m, p)' + unacked'[p][m]
              /\ YetToEmit(q, m, o)[p] = OnItsWay(q, m, p) + ToCome(p, m, o)
              /\ YetToEmit(q, m, o)'[p] = OnItsWay(q, m, p)' + ToCome(p, m, o)'
         /\ q # Serves[p] =>
              /\ Unsettled(q, m)[p] = OnItsWay(q, m, p) + 0
              /\ Unsettled(q, m)'[p] = OnItsWay(q, m, p)' + 0
              /\ YetToEmit(q, m, o)[p] = OnItsWay(q, m, p) + 0
              /\ YetToEmit(q, m, o)'[p] = OnItsWay(q, m, p)' + 0
<1>1. /\ \A r \in Processes \ {p} :
           /\ Unsettled(q, m)'[r] = Unsettled(q, m)[r]
           /\ YetToEmit(q, m, o)'[r] = YetToEmit(q, m, o)[r]
  BY DEF Unsettled, YetToEmit, ToCome, OnItsWay
<1>2. /\ q = Serves[p] =>
           /\ Unsettled(q, m)[p] = OnItsWay(q, m, p) + unacked[p][m]
           /\ Unsettled(q, m)'[p] = OnItsWay(q, m, p)' + unacked'[p][m]
           /\ YetToEmit(q, m, o)[p] = OnItsWay(q, m, p) + ToCome(p, m, o)
           /\ YetToEmit(q, m, o)'[p] = OnItsWay(q, m, p)' + ToCome(p, m, o)'
  BY DEF Unsettled, YetToEmit
<1>3. /\ q # Serves[p] =>
           /\ Unsettled(q, m)[p] = OnItsWay(q, m, p) + 0
           /\ Unsettled(q, m)'[p] = OnItsWay(q, m, p)' + 0
           /\ YetToEmit(q, m, o)[p] = OnItsWay(q, m, p) + 0
           /\ YetToEmit(q, m, o)'[p] = OnItsWay(q, m, p)' + 0
  BY DEF Unsettled, YetToEmit
<1> QED
  BY <1>1, <1>2, <1>3

\* The numbers of which a stage's totals are made.
LEMMA Numbers ==
  ASSUME Types, Types', NEW p \in Processes, NEW q \in Queues, NEW m \in Messages, NEW o
  PROVE  /\ {ready[q][m], unacked[p][m], wire[p][m], inbox[p][m],
             OnItsWay(q, m, p), ToCome(p, m, o)} \subseteq Nat
         /\ {ready'[q][m], unacked'[p][m], wire'[p][m], inbox'[p][m],
             OnItsWay(q, m, p)', ToCome(p, m, o)'} \subseteq Nat
<1>1. /\ {ready[q][m], unacked[p][m], wire[p][m], inbox[p][m]} \subseteq Nat
      /\ {ready'[q][m], unacked'[p][m], wire'[p][m], inbox'[p][m]} \subseteq Nat
  BY DEF Types, Bags
<1> QED
  BY <1>1 DEF OnItsWay, ToCome

\* The broker hands over a delivery: it leaves the queue for p.
LEMMA DeliverMoves ==
  ASSUME Types, Types', NEW p \in Processes, NEW n \in Messages, Deliver(p, n),
         NEW q \in Queues, NEW m \in Messages, NEW o
  PROVE  MovesOne(p, q, m, o, 0, 0)
<1>1. /\ {ready[q][m], unacked[p][m], wire[p][m], inbox[p][m],
             OnItsWay(q, m, p), ToCome(p, m, o)} \subseteq Nat
      /\ {ready'[q][m], unacked'[p][m], wire'[p][m], inbox'[p][m],
             OnItsWay(q, m, p)', ToCome(p, m, o)'} \subseteq Nat
  BY Numbers
<1>2. /\ ready[Serves[p]][n] > 0
      /\ ready' = [ready EXCEPT ![Serves[p]][n] = @ - 1]
      /\ unacked' = [unacked EXCEPT ![p][n] = @ + 1]
      /\ inbox' = IF running[p] THEN [inbox EXCEPT ![p][n] = @ + 1] ELSE inbox
      /\ UNCHANGED <<wire, running, hand, left, faults>>
  BY DEF Deliver, publisher, outside
<1>3. \A r \in Processes \ {p} :
        UNCHANGED <<unacked[r], wire[r], running[r], inbox[r], hand[r], left[r]>>
  BY <1>2 DEF Types, Bags
<1>4. OnItsWay(q, m, p)' = OnItsWay(q, m, p)
  BY <1>2 DEF OnItsWay
<1>5. CASE q # Serves[p]
  <2>1. ready'[q][m] = ready[q][m]
    BY <1>2, <1>5, PipelineAssumption DEF Types, Bags
  <2> QED
    BY <1>1, <1>2, <1>3, <1>4, <1>5, <2>1, Shares DEF MovesOne
<1>6. CASE q = Serves[p]
  <2>1. /\ ready'[q][m] = IF m = n THEN ready[q][m] - 1 ELSE ready[q][m]
        /\ unacked'[p][m] = IF m = n THEN unacked[p][m] + 1 ELSE unacked[p][m]
    BY <1>2, <1>6 DEF Types, Bags
  <2>2. inbox'[p][m] = IF running[p] /\ m = n THEN inbox[p][m] + 1 ELSE inbox[p][m]
    BY <1>2 DEF Types, Bags
  <2>3. ToCome(p, m, o)' = IF m = n THEN ToCome(p, m, o) + 1 ELSE ToCome(p, m, o)
    BY <1>1, <1>2, <2>1, <2>2 DEF ToCome
  <2> QED
    BY <1>1, <1>2, <1>3, <1>4, <1>6, <2>1, <2>3, Shares DEF MovesOne
<1> QED
  BY <1>5, <1>6

\* The broker reads an ack: a copy of the message is settled.
LEMMA ReceiveAckMoves ==
  ASSUME Types, Types', NEW p \in Processes, NEW n \in Messages, ReceiveAck(p, n),
         NEW q \in Queues, NEW m \in Messages, NEW o
  PROVE  MovesOne(p, q, m, o, 0, 0)
<1>1. /\ {ready[q][m], unacked[p][m], wire[p][m], inbox[p][m],
             OnItsWay(q, m, p), ToCome(p, m, o)} \subseteq Nat
      /\ {ready'[q][m], unacked'[p][m], wire'[p][m], inbox'[p][m],
             OnItsWay(q, m, p)', ToCome(p, m, o)'} \subseteq Nat
  BY Numbers
<1>2. /\ unacked' = [unacked EXCEPT ![p][n] = @ - 1]
      /\ UNCHANGED <<ready, wire, running, inbox, hand, left, faults>>
  BY DEF ReceiveAck, publisher, process, outside
<1>3. \A r \in Processes \ {p} :
        UNCHANGED <<unacked[r], wire[r], running[r], inbox[r], hand[r], left[r]>>
  BY <1>2 DEF Types, Bags
<1>4. OnItsWay(q, m, p)' = OnItsWay(q, m, p)
  BY <1>2 DEF OnItsWay
<1>5. CASE q # Serves[p]
  BY <1>1, <1>2, <1>3, <1>4, <1>5, Shares DEF MovesOne
<1>6. CASE q = Serves[p]
  <2>1. unacked'[p][m] = IF m = n THEN unacked[p][m] - 1 ELSE unacked[p][m]
    BY <1>2 DEF Types, Bags
  <2>2. ToCome(p, m, o)' <= ToCome(p, m, o)
    BY <1>1, <1>2, <2>1 DEF ToCome
  <2> QED
    BY <1>1, <1>2, <1>3, <1>4, <1>6, <2>1, <2>2, Shares DEF MovesOne
<1> QED
  BY <1>5, <1>6

\* An alarm arrives in alarms.dispatch, to which it belonged on its way.
LEMMA ReceiveAlarmMoves ==
  ASSUME Types, Types', NEW p \in Processes, NEW n \in Messages, ReceiveAlarm(p, n),
         NEW q \in Queues, NEW m \in Messages, NEW o
  PROVE  MovesOne(p, q, m, o, 0, 0)
<1>1. /\ {ready[q][m], unacked[p][m], wire[p][m], inbox[p][m],
             OnItsWay(q, m, p), ToCome(p, m, o)} \subseteq Nat
      /\ {ready'[q][m], unacked'[p][m], wire'[p][m], inbox'[p][m],
             OnItsWay(q, m, p)', ToCome(p, m, o)'} \subseteq Nat
  BY Numbers
<1>2. /\ wire' = [wire EXCEPT ![p][n] = @ - 1]
      /\ ready' = [ready EXCEPT !["alarms"][n] = @ + 1]
      /\ UNCHANGED <<unacked, running, inbox, hand, left, faults>>
  BY DEF ReceiveAlarm, connection, process, outside
<1>3. \A r \in Processes \ {p} :
        UNCHANGED <<unacked[r], wire[r], running[r], inbox[r], hand[r], left[r]>>
  BY <1>2 DEF Types, Bags
<1>4. ready'[q][m] = IF q = "alarms" /\ m = n THEN ready[q][m] + 1 ELSE ready[q][m]
  BY <1>2 DEF Types, Bags
<1>5. wire'[p][m] = IF m = n THEN wire[p][m] - 1 ELSE wire[p][m]
  BY <1>2 DEF Types, Bags
<1>6. ready'[q][m] + OnItsWay(q, m, p)' = ready[q][m] + OnItsWay(q, m, p)
  BY <1>1, <1>4, <1>5 DEF OnItsWay
<1>7. ToCome(p, m, o)' = ToCome(p, m, o)
  BY <1>2 DEF ToCome
<1>8. CASE q # Serves[p]
  BY <1>1, <1>2, <1>3, <1>6, <1>8, Shares DEF MovesOne
<1>9. CASE q = Serves[p]
  BY <1>1, <1>2, <1>3, <1>6, <1>7, <1>9, Shares DEF MovesOne
<1> QED
  BY <1>8, <1>9

\* The end of p's connection gives back what was not settled: by the loss of it from
\* a running process a fault, and otherwise what nobody was going to do.
LEMMA DropMoves ==
  ASSUME Types, Types', NEW p \in Processes, DropConnection(p),
         UNCHANGED <<wire, running, inbox, hand, left>>,
         NEW q \in Queues, NEW m \in Messages, NEW o,
         \/ ~running[p] /\ faults' = faults
         \/ faults' = [faults EXCEPT ![Serves[p]] = @ + 1]
  PROVE  MovesOne(p, q, m, o, 0, 0)
<1>1. /\ {ready[q][m], unacked[p][m], wire[p][m], inbox[p][m],
             OnItsWay(q, m, p), ToCome(p, m, o)} \subseteq Nat
      /\ {ready'[q][m], unacked'[p][m], wire'[p][m], inbox'[p][m],
             OnItsWay(q, m, p)', ToCome(p, m, o)'} \subseteq Nat
  BY Numbers
<1>2. /\ \A r \in Processes \ {p} : unacked'[r] = unacked[r]
      /\ unacked'[p][m] = 0
      /\ ready'[q][m] = IF q = Serves[p] THEN ready[q][m] + unacked[p][m] ELSE ready[q][m]
  BY Dropped
<1>3. \A r \in Processes \ {p} :
        UNCHANGED <<unacked[r], wire[r], running[r], inbox[r], hand[r], left[r]>>
  BY <1>2
<1>4. OnItsWay(q, m, p)' = OnItsWay(q, m, p)
  BY DEF OnItsWay
<1>5. CASE q # Serves[p]
  <2>1. faults'[q] = faults[q]
    BY <1>5 DEF Types
  <2> QED
    BY <1>1, <1>2, <1>3, <1>4, <1>5, <2>1, Shares DEF MovesOne
<1>6. CASE q = Serves[p]
  <2>1. ToCome(p, m, o)' = IF running[p] THEN ToCome(p, m, o) ELSE 0
    BY <1>2 DEF ToCome
  <2>2. ~running[p] => ToCome(p, m, o) = unacked[p][m]
    BY DEF ToCome
  <2>3. CASE ~running[p] /\ faults' = faults
    BY <1>1, <1>2, <1>3, <1>4, <1>6, <2>1, <2>2, <2>3, Shares DEF MovesOne
  <2>4. CASE faults' = [faults EXCEPT ![Serves[p]] = @ + 1]
    <3>1. faults'[q] = faults[q] + 1
      BY <1>6, <2>4 DEF Types
    <3> QED
      BY <1>1, <1>2, <1>3, <1>4, <1>6, <2>1, <3>1, Shares DEF MovesOne
  <2> QED
    BY <2>3, <2>4
<1> QED
  BY <1>5, <1>6

\* A process that starts holds nothing, and the broker waits for nothing from it.
LEMMA StartMoves ==
  ASSUME TypeOK, Types', NEW p \in Processes, Start(p),
         NEW q \in Queues, NEW m \in Messages, NEW o
  PROVE  MovesOne(p, q, m, o, 0, 0)
<1> USE DEF TypeOK
<1>1. /\ {ready[q][m], unacked[p][m], wire[p][m], inbox[p][m],
             OnItsWay(q, m, p), ToCome(p, m, o)} \subseteq Nat
      /\ {ready'[q][m], unacked'[p][m], wire'[p][m], inbox'[p][m],
             OnItsWay(q, m, p)', ToCome(p, m, o)'} \subseteq Nat
  BY Numbers
<1>2. /\ ~running[p] /\ ~up[p]
      /\ running' = [running EXCEPT ![p] = TRUE]
      /\ UNCHANGED <<ready, unacked, wire, inbox, hand, left, faults>>
  BY DEF Start, outside
<1>3. \A r \in Processes \ {p} :
        UNCHANGED <<unacked[r], wire[r], running[r], inbox[r], hand[r], left[r]>>
  BY <1>2 DEF Types, Bags
<1>4. OnItsWay(q, m, p)' = OnItsWay(q, m, p)
  BY <1>2 DEF OnItsWay
<1>5. ToCome(p, m, o)' = ToCome(p, m, o)
  <2>1. unacked[p][m] = 0 /\ inbox[p] = Empty /\ hand[p] = None
    BY <1>2 DEF Settlements, DownHoldsNothing
  <2>2. inbox[p][m] = 0 /\ hand[p] # m
    BY <2>1, PipelineAssumption DEF Empty
  <2>3. running'[p]
    BY <1>2 DEF Types
  <2> QED
    BY <1>2, <2>1, <2>2, <2>3 DEF ToCome
<1>6. ready'[q][m] = ready[q][m] /\ unacked'[p][m] = unacked[p][m] /\ faults'[q] = faults[q]
  BY <1>2
<1>7. CASE q # Serves[p]
  BY <1>1, <1>3, <1>4, <1>6, <1>7, Shares DEF MovesOne
<1>8. CASE q = Serves[p]
  BY <1>1, <1>3, <1>4, <1>5, <1>6, <1>8, Shares DEF MovesOne
<1> QED
  BY <1>7, <1>8

\* The message in hand is one less in the inbox.
LEMMA TakeMoves ==
  ASSUME Types, Types', NEW p \in Processes, NEW n \in Messages, Take(p, n),
         NEW q \in Queues, NEW m \in Messages, NEW o
  PROVE  MovesOne(p, q, m, o, 0, 0)
<1>1. /\ {ready[q][m], unacked[p][m], wire[p][m], inbox[p][m],
             OnItsWay(q, m, p), ToCome(p, m, o)} \subseteq Nat
      /\ {ready'[q][m], unacked'[p][m], wire'[p][m], inbox'[p][m],
             OnItsWay(q, m, p)', ToCome(p, m, o)'} \subseteq Nat
  BY Numbers
<1>2. /\ running[p] /\ hand[p] = None /\ inbox[p][n] > 0
      /\ inbox' = [inbox EXCEPT ![p][n] = @ - 1]
      /\ hand' = [hand EXCEPT ![p] = n]
      /\ left' = [left EXCEPT ![p] = Outputs(Serves[p], n)]
      /\ UNCHANGED <<ready, unacked, wire, running, faults>>
  BY DEF Take, connection, publisher, outside
<1>3. \A r \in Processes \ {p} :
        UNCHANGED <<unacked[r], wire[r], running[r], inbox[r], hand[r], left[r]>>
  BY <1>2 DEF Types, Bags
<1>4. OnItsWay(q, m, p)' = OnItsWay(q, m, p)
  BY <1>2 DEF OnItsWay
<1>5. ToCome(p, m, o)' <= ToCome(p, m, o)
  <2>1. inbox'[p][m] = IF m = n THEN inbox[p][m] - 1 ELSE inbox[p][m]
    BY <1>2 DEF Types, Bags
  <2>2. hand[p] # m /\ hand'[p] = n
    BY <1>2, PipelineAssumption DEF Types
  <2> QED
    BY <1>1, <1>2, <2>1, <2>2 DEF ToCome
<1>6. CASE q # Serves[p]
  BY <1>1, <1>2, <1>3, <1>4, <1>6, Shares DEF MovesOne
<1>7. CASE q = Serves[p]
  BY <1>1, <1>2, <1>3, <1>4, <1>5, <1>7, Shares DEF MovesOne
<1> QED
  BY <1>6, <1>7

\* Nothing is left to emit for what is acked.
LEMMA AckMoves ==
  ASSUME Types, Types', NEW p \in Processes, Ack(p),
         NEW q \in Queues, NEW m \in Messages, NEW o
  PROVE  MovesOne(p, q, m, o, 0, 0)
<1>1. /\ {ready[q][m], unacked[p][m], wire[p][m], inbox[p][m],
             OnItsWay(q, m, p), ToCome(p, m, o)} \subseteq Nat
      /\ {ready'[q][m], unacked'[p][m], wire'[p][m], inbox'[p][m],
             OnItsWay(q, m, p)', ToCome(p, m, o)'} \subseteq Nat
  BY Numbers
<1>2. /\ left[p] = {}
      /\ hand' = [hand EXCEPT ![p] = None]
      /\ UNCHANGED <<ready, unacked, wire, running, inbox, left, faults>>
  BY DEF Ack, publisher, outside
<1>3. \A r \in Processes \ {p} :
        UNCHANGED <<unacked[r], wire[r], running[r], inbox[r], hand[r], left[r]>>
  BY <1>2 DEF Types, Bags
<1>4. OnItsWay(q, m, p)' = OnItsWay(q, m, p)
  BY <1>2 DEF OnItsWay
<1>5. ToCome(p, m, o)' = ToCome(p, m, o)
  BY <1>2 DEF ToCome
<1>6. CASE q # Serves[p]
  BY <1>1, <1>2, <1>3, <1>4, <1>6, Shares DEF MovesOne
<1>7. CASE q = Serves[p]
  BY <1>1, <1>2, <1>3, <1>4, <1>5, <1>7, Shares DEF MovesOne
<1> QED
  BY <1>6, <1>7

\* A process ends: without a connection nothing comes back of what it held, and
\* otherwise it has crashed.
LEMMA EndMoves ==
  ASSUME TypeOK, Types', NEW p \in Processes, Ends(p),
         UNCHANGED <<ready, unacked, wire>>,
         NEW q \in Queues, NEW m \in Messages, NEW o,
         \/ ~up[p] /\ faults' = faults
         \/ faults' = [faults EXCEPT ![Serves[p]] = @ + 1]
  PROVE  MovesOne(p, q, m, o, 0, 0)
<1> USE DEF TypeOK
<1>1. /\ {ready[q][m], unacked[p][m], wire[p][m], inbox[p][m],
             OnItsWay(q, m, p), ToCome(p, m, o)} \subseteq Nat
      /\ {ready'[q][m], unacked'[p][m], wire'[p][m], inbox'[p][m],
             OnItsWay(q, m, p)', ToCome(p, m, o)'} \subseteq Nat
  BY Numbers
<1>2. /\ running' = [running EXCEPT ![p] = FALSE]
      /\ inbox' = [inbox EXCEPT ![p] = Empty]
      /\ hand' = [hand EXCEPT ![p] = None]
      /\ left' = [left EXCEPT ![p] = {}]
  BY DEF Ends
<1>3. \A r \in Processes \ {p} :
        UNCHANGED <<unacked[r], wire[r], running[r], inbox[r], hand[r], left[r]>>
  BY <1>2 DEF Types, Bags
<1>4. OnItsWay(q, m, p)' = OnItsWay(q, m, p)
  BY DEF OnItsWay
<1>5. ToCome(p, m, o)' = unacked[p][m]
  <2>1. ~running'[p]
    BY <1>2 DEF Types
  <2> QED
    BY <2>1 DEF ToCome
<1>6. CASE q # Serves[p]
  <2>1. faults'[q] = faults[q]
    BY <1>6 DEF Types
  <2> QED
    BY <1>1, <1>3, <1>4, <1>6, <2>1, Shares DEF MovesOne
<1>7. CASE q = Serves[p]
  <2>1. CASE ~up[p] /\ faults' = faults
    <3>1. unacked[p][m] = 0
      BY <2>1 DEF Settlements
    <3> QED
      BY <1>1, <1>3, <1>4, <1>5, <1>7, <2>1, <3>1, Shares DEF MovesOne
  <2>2. CASE faults' = [faults EXCEPT ![Serves[p]] = @ + 1]
    <3>1. faults'[q] = faults[q] + 1
      BY <1>7, <2>2 DEF Types
    <3> QED
      BY <1>1, <1>3, <1>4, <1>5, <1>7, <3>1, Shares DEF MovesOne
  <2> QED
    BY <2>1, <2>2
<1> QED
  BY <1>6, <1>7

\* The alarms that a publisher's connection takes with it are so many less.
LEMMA LosePublisherMoves ==
  ASSUME Types, Types', NEW p \in Processes, LosePublisher(p),
         NEW q \in Queues, NEW m \in Messages, NEW o
  PROVE  MovesOne(p, q, m, o, 0, 0)
<1>1. /\ {ready[q][m], unacked[p][m], wire[p][m], inbox[p][m],
             OnItsWay(q, m, p), ToCome(p, m, o)} \subseteq Nat
      /\ {ready'[q][m], unacked'[p][m], wire'[p][m], inbox'[p][m],
             OnItsWay(q, m, p)', ToCome(p, m, o)'} \subseteq Nat
  BY Numbers
<1>2. /\ wire' = [wire EXCEPT ![p] = Empty]
      /\ UNCHANGED <<ready, unacked, running, inbox, hand, left, faults>>
  BY DEF LosePublisher, connection, process
<1>3. \A r \in Processes \ {p} :
        UNCHANGED <<unacked[r], wire[r], running[r], inbox[r], hand[r], left[r]>>
  BY <1>2 DEF Types, Bags
<1>4. OnItsWay(q, m, p)' <= OnItsWay(q, m, p)
  <2>1. wire'[p][m] = 0
    BY <1>2 DEF Types, Bags, Empty
  <2> QED
    BY <1>1, <2>1 DEF OnItsWay
<1>5. ToCome(p, m, o)' = ToCome(p, m, o)
  BY <1>2 DEF ToCome
<1>6. CASE q # Serves[p]
  BY <1>1, <1>2, <1>3, <1>4, <1>6, Shares DEF MovesOne
<1>7. CASE q = Serves[p]
  BY <1>1, <1>2, <1>3, <1>4, <1>5, <1>7, Shares DEF MovesOne
<1> QED
  BY <1>6, <1>7

\* An event that is forwarded leaves one stage for the next, if the connection is
\* there.
LEMMA ForwardMoves ==
  ASSUME TypeOK, Types', LeftIsOwed, NEW p \in Processes, NEW n \in Messages,
         ForwardEvent(p, n), NEW q \in Queues, NEW m \in Messages, NEW o
  PROVE  MovesOne(p, q, m, o, IF q = "normalized" /\ m = n /\ up[p] THEN 1 ELSE 0,
                              IF q = "raw" /\ m = n /\ o = n /\ up[p] THEN 1 ELSE 0)
<1> USE DEF TypeOK
<1>1. /\ {ready[q][m], unacked[p][m], wire[p][m], inbox[p][m],
             OnItsWay(q, m, p), ToCome(p, m, o)} \subseteq Nat
      /\ {ready'[q][m], unacked'[p][m], wire'[p][m], inbox'[p][m],
             OnItsWay(q, m, p)', ToCome(p, m, o)'} \subseteq Nat
  BY Numbers
<1>2. /\ Serves[p] = "raw" /\ n \in left[p]
      /\ left' = [left EXCEPT ![p] = @ \ {n}]
      /\ ready' = IF up[p] THEN [ready EXCEPT !["normalized"][n] = @ + 1] ELSE ready
      /\ UNCHANGED <<unacked, wire, running, inbox, hand, faults>>
  BY DEF ForwardEvent, connection, publisher, outside
<1>3. \A r \in Processes \ {p} :
        UNCHANGED <<unacked[r], wire[r], running[r], inbox[r], hand[r], left[r]>>
  BY <1>2 DEF Types, Bags
<1>4. OnItsWay(q, m, p)' = OnItsWay(q, m, p)
  BY <1>2 DEF OnItsWay
<1>5. ready'[q][m] = IF q = "normalized" /\ m = n /\ up[p] THEN ready[q][m] + 1 ELSE ready[q][m]
  BY <1>2 DEF Types, Bags
<1>6. CASE q # Serves[p]
  BY <1>1, <1>2, <1>3, <1>4, <1>5, <1>6, Shares DEF MovesOne
<1>7. CASE q = Serves[p]
  <2>1. hand[p] = n
    BY <1>2 DEF LeftIsOwed, Outputs
  <2>2. running[p]
    BY <2>1, PipelineAssumption DEF DownHoldsNothing
  <2>3. left'[p] = left[p] \ {n}
    BY <1>2 DEF Types
  <2>4. ToCome(p, m, o)' = IF m = n /\ o = n THEN ToCome(p, m, o) - 1 ELSE ToCome(p, m, o)
    BY <1>1, <1>2, <2>1, <2>2, <2>3 DEF ToCome
  <2> QED
    BY <1>1, <1>2, <1>3, <1>4, <1>5, <1>7, <2>4, Shares DEF MovesOne
<1> QED
  BY <1>6, <1>7

\* So does an alarm that is raised, onto the wire; an evaluation cut short only
\* leaves out the rest.
LEMMA AlarmMoves ==
  ASSUME TypeOK, Types', LeftIsOwed, NEW p \in Processes, NEW n \in Messages,
         PublishAlarm(p, n), NEW q \in Queues, NEW m \in Messages, NEW o
  PROVE  MovesOne(p, q, m, o, IF q = "alarms" /\ m = n /\ pubUp[p] THEN 1 ELSE 0,
                              IF q = "normalized" /\ m = n[1] /\ o = n /\ pubUp[p] THEN 1 ELSE 0)
<1> USE DEF TypeOK
<1>1. /\ {ready[q][m], unacked[p][m], wire[p][m], inbox[p][m],
             OnItsWay(q, m, p), ToCome(p, m, o)} \subseteq Nat
      /\ {ready'[q][m], unacked'[p][m], wire'[p][m], inbox'[p][m],
             OnItsWay(q, m, p)', ToCome(p, m, o)'} \subseteq Nat
  BY Numbers
<1>2. /\ Serves[p] = "normalized" /\ n \in left[p]
      /\ \/ left' = [left EXCEPT ![p] = @ \ {n}]
         \/ left' = [left EXCEPT ![p] = {}]
      /\ wire' = IF pubUp[p] THEN [wire EXCEPT ![p][n] = @ + 1] ELSE wire
      /\ UNCHANGED <<ready, unacked, running, inbox, hand, faults>>
  BY DEF PublishAlarm, connection, outside
<1>3. \A r \in Processes \ {p} :
        UNCHANGED <<unacked[r], wire[r], running[r], inbox[r], hand[r], left[r]>>
  BY <1>2 DEF Types, Bags
<1>4. wire'[p][m] = IF m = n /\ pubUp[p] THEN wire[p][m] + 1 ELSE wire[p][m]
  BY <1>2 DEF Types, Bags
<1>5. OnItsWay(q, m, p)' = IF q = "alarms" /\ m = n /\ pubUp[p]
                           THEN OnItsWay(q, m, p) + 1 ELSE OnItsWay(q, m, p)
  BY <1>1, <1>4 DEF OnItsWay
<1>6. CASE q # Serves[p]
  BY <1>1, <1>2, <1>3, <1>5, <1>6, Shares DEF MovesOne
<1>7. CASE q = Serves[p]
  <2>1. hand[p] = n[1] /\ hand[p] # None
    BY <1>2 DEF LeftIsOwed, Outputs
  <2>2. running[p]
    BY <2>1 DEF DownHoldsNothing
  <2>3. left'[p] \subseteq left[p] \ {n}
    BY <1>2 DEF Types
  <2>4. CASE m = n[1] /\ o = n
    <3>1. ToCome(p, m, o)' + 1 = ToCome(p, m, o)
      BY <1>1, <1>2, <2>1, <2>2, <2>3, <2>4 DEF ToCome
    <3> QED
      BY <1>1, <1>2, <1>3, <1>5, <1>7, <2>4, <3>1, Shares DEF MovesOne
  <2>5. CASE ~(m = n[1] /\ o = n)
    <3>1. ToCome(p, m, o)' <= ToCome(p, m, o)
      BY <1>1, <1>2, <2>2, <2>3 DEF ToCome
    <3> QED
      BY <1>1, <1>2, <1>3, <1>5, <1>7, <2>5, <3>1, Shares DEF MovesOne
  <2> QED
    BY <2>4, <2>5
<1> QED
  BY <1>6, <1>7

\* And an alarm that is dispatched leaves the pipeline.
LEMMA DispatchMoves ==
  ASSUME TypeOK, Types', LeftIsOwed, NEW p \in Processes, NEW n \in Messages,
         DispatchAlarm(p, n), NEW q \in Queues, NEW m \in Messages, NEW o
  PROVE  MovesOne(p, q, m, o, 0, IF q = "alarms" /\ m = n /\ o = n THEN 1 ELSE 0)
<1> USE DEF TypeOK
<1>1. /\ {ready[q][m], unacked[p][m], wire[p][m], inbox[p][m],
             OnItsWay(q, m, p), ToCome(p, m, o)} \subseteq Nat
      /\ {ready'[q][m], unacked'[p][m], wire'[p][m], inbox'[p][m],
             OnItsWay(q, m, p)', ToCome(p, m, o)'} \subseteq Nat
  BY Numbers
<1>2. /\ Serves[p] = "alarms" /\ n \in left[p]
      /\ left' = [left EXCEPT ![p] = @ \ {n}]
      /\ UNCHANGED <<ready, unacked, wire, running, inbox, hand, faults>>
  BY DEF DispatchAlarm, connection, publisher
<1>3. \A r \in Processes \ {p} :
        UNCHANGED <<unacked[r], wire[r], running[r], inbox[r], hand[r], left[r]>>
  BY <1>2 DEF Types, Bags
<1>4. OnItsWay(q, m, p)' = OnItsWay(q, m, p)
  BY <1>2 DEF OnItsWay
<1>5. CASE q # Serves[p]
  BY <1>1, <1>2, <1>3, <1>4, <1>5, Shares DEF MovesOne
<1>6. CASE q = Serves[p]
  <2>1. hand[p] = n
    BY <1>2 DEF LeftIsOwed, Outputs
  <2>2. running[p]
    BY <2>1, PipelineAssumption DEF DownHoldsNothing
  <2>3. left'[p] = left[p] \ {n}
    BY <1>2 DEF Types
  <2>4. ToCome(p, m, o)' = IF m = n /\ o = n THEN ToCome(p, m, o) - 1 ELSE ToCome(p, m, o)
    BY <1>1, <1>2, <2>1, <2>2, <2>3 DEF ToCome
  <2> QED
    BY <1>1, <1>2, <1>3, <1>4, <1>6, <2>4, Shares DEF MovesOne
<1> QED
  BY <1>5, <1>6

\* An event that is published enters the first stage; no process takes part.
LEMMA PublishMoves ==
  ASSUME Types, Types', NEW n \in Messages, Publish(n),
         NEW q \in Queues, NEW m \in Messages, NEW o, StageFinite(q, m, o)
  PROVE  Moves(q, m, o, IF q = "raw" /\ m = n THEN 1 ELSE 0, 0)
<1>1. /\ ready' = [ready EXCEPT !["raw"][n] = @ + 1]
      /\ UNCHANGED <<unacked, wire, running, inbox, hand, left, faults>>
  BY DEF Publish, connection, publisher, process, outside
<1>2. Unsettled(q, m)' = Unsettled(q, m) /\ YetToEmit(q, m, o)' = YetToEmit(q, m, o)
  BY <1>1 DEF Unsettled, YetToEmit, ToCome, OnItsWay
<1>3. Counted(Unsettled(q, m))' = Counted(Unsettled(q, m))
  BY <1>2 DEF Counted
<1>4. Counted(YetToEmit(q, m, o))' = Counted(YetToEmit(q, m, o))
  BY <1>2 DEF Counted
<1>5. ready[q][m] \in Nat /\ faults'[q] = faults[q]
  BY <1>1 DEF Types, Bags
<1>6. ready'[q][m] = IF q = "raw" /\ m = n THEN ready[q][m] + 1 ELSE ready[q][m]
  BY <1>1 DEF Types, Bags
<1>7. Total(Unsettled(q, m)) \in Nat /\ Total(YetToEmit(q, m, o)) \in Nat
  BY FS_CardinalityType DEF StageFinite, Total
<1>8. There(q, m)' = IF q = "raw" /\ m = n THEN There(q, m) + 1 ELSE There(q, m)
  BY <1>3, <1>5, <1>6, <1>7 DEF There, Total
<1>9. ToDo(q, m, o)' = IF q = "raw" /\ m = n THEN ToDo(q, m, o) + 1 ELSE ToDo(q, m, o)
  BY <1>4, <1>5, <1>6, <1>7 DEF ToDo, Total
<1>10. There(q, m) \in Nat /\ ToDo(q, m, o) \in Nat
  BY <1>5, <1>7 DEF There, ToDo
<1>11. StageFinite(q, m, o)'
  BY <1>3, <1>4 DEF StageFinite
<1> QED
  BY <1>5, <1>8, <1>9, <1>10, <1>11 DEF Moves

\* All the other steps of a process, and of the broker for it, neither let anything
\* enter a stage nor emit anything.
LEMMA QuietMoves ==
  ASSUME TypeOK, Types', NEW p \in Processes,
         \/ \E n \in Messages : \/ Deliver(p, n) \/ Take(p, n)
                                \/ ReceiveAck(p, n) \/ ReceiveAlarm(p, n)
         \/ NoticeGone(p) \/ Start(p) \/ Ack(p) \/ Exit(p)
         \/ Crash(p) \/ LoseConnection(p) \/ LosePublisher(p),
         NEW q \in Queues, NEW m \in Messages, NEW o
  PROVE  /\ MovesOne(p, q, m, o, 0, 0)
         /\ UNCHANGED <<published, notified>>
<1> USE DEF TypeOK
<1>1. CASE \E n \in Messages : \/ Deliver(p, n) \/ Take(p, n)
                               \/ ReceiveAck(p, n) \/ ReceiveAlarm(p, n)
  <2>1. PICK n \in Messages : \/ Deliver(p, n) \/ Take(p, n)
                              \/ ReceiveAck(p, n) \/ ReceiveAlarm(p, n)
    BY <1>1
  <2>2. UNCHANGED <<published, notified>>
    BY <2>1 DEF Deliver, Take, ReceiveAck, ReceiveAlarm, outside
  <2> QED
    BY <2>1, <2>2, DeliverMoves, TakeMoves, ReceiveAckMoves, ReceiveAlarmMoves
<1>2. CASE NoticeGone(p)
  BY <1>2, DropMoves DEF NoticeGone, publisher, process, outside
<1>3. CASE Start(p)
  BY <1>3, StartMoves DEF Start, outside
<1>4. CASE Ack(p)
  BY <1>4, AckMoves DEF Ack, outside
<1>5. CASE Exit(p)
  BY <1>5, EndMoves DEF Exit, connection, publisher, outside
<1>6. CASE Crash(p)
  BY <1>6, EndMoves DEF Crash, Fault, connection, publisher
<1>7. CASE LoseConnection(p)
  BY <1>7, DropMoves DEF LoseConnection, Fault, publisher, process
<1>8. CASE LosePublisher(p)
  BY <1>8, LosePublisherMoves DEF LosePublisher
<1> QED
  BY <1>1, <1>2, <1>3, <1>4, <1>5, <1>6, <1>7, <1>8

-----------------------------------------------------------------------------
(* A notification is repeated at most by the product of the faults.        *)

\* The number of o's that are to be emitted.
LEMMA ToDoType ==
  ASSUME Types, NEW q \in Queues, NEW m \in Messages, NEW o, StageFinite(q, m, o)
  PROVE  ToDo(q, m, o) \in Nat
<1>1. ready[q][m] \in Nat
  BY DEF Types, Bags
<1>2. Total(YetToEmit(q, m, o)) \in Nat
  BY FS_CardinalityType DEF StageFinite, Total
<1> QED
  BY <1>1, <1>2 DEF ToDo

\* What an alarm a goes through: a[1] enters the pipeline, is forwarded, a is raised
\* for it, and notified of, each so often in this step.
Goes(a, enters, forwards, raises, notifies) ==
  /\ Moves("raw", a[1], a[1], enters, forwards)
  /\ Moves("normalized", a[1], a, forwards, raises)
  /\ Moves("alarms", a, a, raises, notifies)
  /\ Entered(a[1])' = Entered(a[1]) + enters
  /\ notified'[a] = notified[a] + notifies

\* What is emitted is owed for the message in hand.
LEMMA StepLeft ==
  TypeOK /\ LeftIsOwed /\ [Next]_vars => LeftIsOwed'
<1> SUFFICES ASSUME TypeOK, LeftIsOwed, [Next]_vars, NEW p \in Processes
             PROVE  left'[p] \subseteq
                      IF hand'[p] = None THEN {} ELSE Outputs(Serves[p], hand'[p])
  BY DEF LeftIsOwed, Outputs
<1> USE DEF TypeOK, Types
<1>0. left[p] \subseteq IF hand[p] = None THEN {} ELSE Outputs(Serves[p], hand[p])
  BY DEF LeftIsOwed
<1>1. ASSUME NEW r \in Processes, NEW n \in Messages, Take(r, n)
      PROVE  left'[p] \subseteq
               IF hand'[p] = None THEN {} ELSE Outputs(Serves[p], hand'[p])
  BY <1>0, <1>1, PipelineAssumption DEF Take
<1>2. ASSUME NEW r \in Processes, NEW n \in Messages,
             ForwardEvent(r, n) \/ PublishAlarm(r, n) \/ DispatchAlarm(r, n)
      PROVE  left'[p] \subseteq left[p] /\ hand' = hand
  BY <1>2 DEF ForwardEvent, PublishAlarm, DispatchAlarm
<1>3. ASSUME NEW r \in Processes, Ack(r) \/ Ends(r)
      PROVE  left'[p] \subseteq
               IF hand'[p] = None THEN {} ELSE Outputs(Serves[p], hand'[p])
  BY <1>0, <1>3 DEF Ack, Ends
<1>4. CASE UNCHANGED <<hand, left>>
  BY <1>0, <1>4
<1>5. CASE \E r \in Processes : \E n \in Messages :
             ForwardEvent(r, n) \/ PublishAlarm(r, n) \/ DispatchAlarm(r, n)
  BY <1>0, <1>2, <1>5
<1> QED
  BY <1>1, <1>3, <1>4, <1>5
     DEF Next, Publish, Deliver, BrokerStep, ReceiveAck, ReceiveAlarm, NoticeGone, Start,
         ServiceStep, OwnStep, DispatchPanics, Exit, Crash, LoseConnection, LosePublisher,
         process, vars

\* Whether the dispatchers panic does not change.
LEMMA AddressesStay ==
  ASSUME [Next]_vars
  PROVE  addressesParse' = addressesParse
<1>1. CASE UNCHANGED addressesParse
  BY <1>1
<1> QED
  BY <1>1, ZenonT(60)
     DEF Next, Publish, Deliver, BrokerStep, ReceiveAck, ReceiveAlarm, NoticeGone, Start,
         ServiceStep, OwnStep, Take, ForwardEvent, PublishAlarm, DispatchAlarm,
         DispatchPanics, Ack, Exit, Crash, LoseConnection, LosePublisher, outside, vars

\* Each step takes an alarm so far through the pipeline.
LEMMA NextGoes ==
  ASSUME TypeOK, Types', LeftIsOwed, addressesParse, Next, NEW a \in Alarms,
         StageFinite("raw", a[1], a[1]), StageFinite("normalized", a[1], a),
         StageFinite("alarms", a, a)
  PROVE  \E enters, forwards, raises, notifies \in Nat :
           Goes(a, enters, forwards, raises, notifies)
<1> USE DEF TypeOK
<1>0. /\ a \in Messages /\ a[1] \in Messages /\ a[1] \in Events
      /\ "raw" \in Queues /\ "normalized" \in Queues /\ "alarms" \in Queues
  BY DEF Alarms, Messages, Queues
<1>1. Entered(a[1]) \in Nat /\ notified[a] \in Nat
  BY <1>0 DEF Entered, Types
<1>2. ASSUME NEW p \in Processes, NEW enters \in Nat, NEW forwards \in Nat,
             NEW raises \in Nat, NEW notifies \in Nat,
             MovesOne(p, "raw", a[1], a[1], enters, forwards),
             MovesOne(p, "normalized", a[1], a, forwards, raises),
             MovesOne(p, "alarms", a, a, raises, notifies)
      PROVE  /\ Moves("raw", a[1], a[1], enters, forwards)
             /\ Moves("normalized", a[1], a, forwards, raises)
             /\ Moves("alarms", a, a, raises, notifies)
  BY <1>0, <1>2, OneMoves
<1>3. ASSUME NEW n \in Messages, Publish(n)
      PROVE  Goes(a, IF a[1] = n THEN 1 ELSE 0, 0, 0, 0)
  <2>1. /\ Moves("raw", a[1], a[1], IF a[1] = n THEN 1 ELSE 0, 0)
        /\ Moves("normalized", a[1], a, 0, 0)
        /\ Moves("alarms", a, a, 0, 0)
    <3>1. /\ Moves("raw", a[1], a[1], IF "raw" = "raw" /\ a[1] = n THEN 1 ELSE 0, 0)
          /\ Moves("normalized", a[1], a, IF "normalized" = "raw" /\ a[1] = n THEN 1 ELSE 0, 0)
          /\ Moves("alarms", a, a, IF "alarms" = "raw" /\ a = n THEN 1 ELSE 0, 0)
      BY <1>0, <1>3, PublishMoves
    <3> QED
      BY <3>1
  <2>2. Entered(a[1])' = Entered(a[1]) + IF a[1] = n THEN 1 ELSE 0
    BY <1>3 DEF Publish, Entered
  <2>3. notified'[a] = notified[a] + 0
    BY <1>1, <1>3 DEF Publish, outside
  <2> QED
    BY <2>1, <2>2, <2>3 DEF Goes
<1>4. ASSUME NEW p \in Processes,
             \/ \E n \in Messages : \/ Deliver(p, n) \/ Take(p, n)
                                    \/ ReceiveAck(p, n) \/ ReceiveAlarm(p, n)
             \/ NoticeGone(p) \/ Start(p) \/ Ack(p) \/ Exit(p)
             \/ Crash(p) \/ LoseConnection(p) \/ LosePublisher(p)
      PROVE  Goes(a, 0, 0, 0, 0)
  <2>1. /\ MovesOne(p, "raw", a[1], a[1], 0, 0)
        /\ MovesOne(p, "normalized", a[1], a, 0, 0)
        /\ MovesOne(p, "alarms", a, a, 0, 0)
        /\ UNCHANGED <<published, notified>>
    BY <1>0, <1>4, QuietMoves
  <2>2. Entered(a[1])' = Entered(a[1]) + 0 /\ notified'[a] = notified[a] + 0
    BY <1>1, <2>1 DEF Entered
  <2> QED
    BY <1>2, <2>1, <2>2 DEF Goes
<1>5. ASSUME NEW p \in Processes, NEW n \in Messages, ForwardEvent(p, n)
      PROVE  Goes(a, 0, IF a[1] = n /\ up[p] THEN 1 ELSE 0, 0, 0)
  <2>1. /\ MovesOne(p, "raw", a[1], a[1],
             IF "raw" = "normalized" /\ a[1] = n /\ up[p] THEN 1 ELSE 0,
             IF "raw" = "raw" /\ a[1] = n /\ a[1] = n /\ up[p] THEN 1 ELSE 0)
        /\ MovesOne(p, "normalized", a[1], a,
             IF "normalized" = "normalized" /\ a[1] = n /\ up[p] THEN 1 ELSE 0,
             IF "normalized" = "raw" /\ a[1] = n /\ a = n /\ up[p] THEN 1 ELSE 0)
        /\ MovesOne(p, "alarms", a, a,
             IF "alarms" = "normalized" /\ a = n /\ up[p] THEN 1 ELSE 0,
             IF "alarms" = "raw" /\ a = n /\ a = n /\ up[p] THEN 1 ELSE 0)
    BY <1>0, <1>5, ForwardMoves
  <2>2. /\ MovesOne(p, "raw", a[1], a[1], 0, IF a[1] = n /\ up[p] THEN 1 ELSE 0)
        /\ MovesOne(p, "normalized", a[1], a, IF a[1] = n /\ up[p] THEN 1 ELSE 0, 0)
        /\ MovesOne(p, "alarms", a, a, 0, 0)
    BY <2>1
  <2>3. Entered(a[1])' = Entered(a[1]) + 0 /\ notified'[a] = notified[a] + 0
    BY <1>1, <1>5 DEF ForwardEvent, Entered, outside
  <2> QED
    BY <1>2, <2>2, <2>3 DEF Goes
<1>6. ASSUME NEW p \in Processes, NEW n \in Messages, PublishAlarm(p, n)
      PROVE  Goes(a, 0, 0, IF a = n /\ pubUp[p] THEN 1 ELSE 0, 0)
  <2>1. /\ MovesOne(p, "raw", a[1], a[1],
             IF "raw" = "alarms" /\ a[1] = n /\ pubUp[p] THEN 1 ELSE 0,
             IF "raw" = "normalized" /\ a[1] = n[1] /\ a[1] = n /\ pubUp[p] THEN 1 ELSE 0)
        /\ MovesOne(p, "normalized", a[1], a,
             IF "normalized" = "alarms" /\ a[1] = n /\ pubUp[p] THEN 1 ELSE 0,
             IF "normalized" = "normalized" /\ a[1] = n[1] /\ a = n /\ pubUp[p] THEN 1 ELSE 0)
        /\ MovesOne(p, "alarms", a, a,
             IF "alarms" = "alarms" /\ a = n /\ pubUp[p] THEN 1 ELSE 0,
             IF "alarms" = "normalized" /\ a = n[1] /\ a = n /\ pubUp[p] THEN 1 ELSE 0)
    BY <1>0, <1>6, AlarmMoves
  <2>2. /\ MovesOne(p, "raw", a[1], a[1], 0, 0)
        /\ MovesOne(p, "normalized", a[1], a, 0, IF a = n /\ pubUp[p] THEN 1 ELSE 0)
        /\ MovesOne(p, "alarms", a, a, IF a = n /\ pubUp[p] THEN 1 ELSE 0, 0)
    <3>1. (a[1] = n[1] /\ a = n /\ pubUp[p]) <=> (a = n /\ pubUp[p])
      OBVIOUS
    <3> QED
      BY <2>1, <3>1
  <2>3. Entered(a[1])' = Entered(a[1]) + 0 /\ notified'[a] = notified[a] + 0
    BY <1>1, <1>6 DEF PublishAlarm, Entered, outside
  <2> QED
    BY <1>2, <2>2, <2>3 DEF Goes
<1>7. ASSUME NEW p \in Processes, NEW n \in Messages, DispatchAlarm(p, n)
      PROVE  Goes(a, 0, 0, 0, IF a = n THEN 1 ELSE 0)
  <2>1. /\ MovesOne(p, "raw", a[1], a[1], 0,
             IF "raw" = "alarms" /\ a[1] = n /\ a[1] = n THEN 1 ELSE 0)
        /\ MovesOne(p, "normalized", a[1], a, 0,
             IF "normalized" = "alarms" /\ a[1] = n /\ a = n THEN 1 ELSE 0)
        /\ MovesOne(p, "alarms", a, a, 0, IF "alarms" = "alarms" /\ a = n /\ a = n THEN 1 ELSE 0)
    BY <1>0, <1>7, DispatchMoves
  <2>2. /\ MovesOne(p, "raw", a[1], a[1], 0, 0)
        /\ MovesOne(p, "normalized", a[1], a, 0, 0)
        /\ MovesOne(p, "alarms", a, a, 0, IF a = n THEN 1 ELSE 0)
    BY <2>1
  <2>3. /\ Entered(a[1])' = Entered(a[1]) + 0
        /\ notified'[a] = notified[a] + IF a = n THEN 1 ELSE 0
    BY <1>0, <1>1, <1>7 DEF DispatchAlarm, Entered, Types
  <2> QED
    BY <1>2, <2>2, <2>3 DEF Goes
<1> HIDE DEF TypeOK
<1>8. \A P : (IF P THEN 1 ELSE 0) \in Nat
  OBVIOUS
<1>9. CASE \E n \in Messages : Publish(n)
  BY <1>3, <1>8, <1>9
<1>10. CASE \E p \in Processes :
              \/ \E n \in Messages : \/ Deliver(p, n) \/ Take(p, n)
                                     \/ ReceiveAck(p, n) \/ ReceiveAlarm(p, n)
              \/ NoticeGone(p) \/ Start(p) \/ Ack(p) \/ Exit(p)
              \/ Crash(p) \/ LoseConnection(p) \/ LosePublisher(p)
  BY <1>4, <1>10
<1>11. CASE \E p \in Processes : \E n \in Messages : ForwardEvent(p, n)
  BY <1>5, <1>8, <1>11
<1>12. CASE \E p \in Processes : \E n \in Messages : PublishAlarm(p, n)
  BY <1>6, <1>8, <1>12
<1>13. CASE \E p \in Processes : \E n \in Messages : DispatchAlarm(p, n)
  BY <1>7, <1>8, <1>13
<1>14. \A p \in Processes : \A n \in Messages : ~DispatchPanics(p, n)
  BY DEF DispatchPanics
<1> QED
  BY <1>9, <1>10, <1>11, <1>12, <1>13, <1>14 DEF Next, BrokerStep, ServiceStep, OwnStep

\* So each stage stays within its bounds.
LEMMA AlarmStep ==
  ASSUME TypeOK, Types', LeftIsOwed, addressesParse, Next, NEW a \in Alarms,
         AlarmBounded(a)
  PROVE  AlarmBounded(a)'
<1> USE DEF TypeOK
<1>0. /\ a \in Messages /\ a[1] \in Messages
      /\ "raw" \in Queues /\ "normalized" \in Queues /\ "alarms" \in Queues
  BY DEF Alarms, Messages, Queues
<1>1. /\ Entered(a[1]) \in Nat /\ Entered(a[1])' \in 0..1 /\ notified[a] \in Nat
      /\ faults["raw"] \in Nat /\ faults["normalized"] \in Nat
      /\ faults'["raw"] \in Nat /\ faults'["normalized"] \in Nat
  BY <1>0 DEF Entered, Types
<1>2. PICK forwarded \in 0..(1 + faults["raw"]) :
        \E raised \in 0..(forwarded * (1 + faults["normalized"])) :
          /\ StageBounded("raw", a[1], a[1], Entered(a[1]), forwarded)
          /\ StageBounded("normalized", a[1], a, forwarded, raised)
          /\ StageBounded("alarms", a, a, raised, notified[a])
  BY DEF AlarmBounded
<1>3. PICK raised \in 0..(forwarded * (1 + faults["normalized"])) :
          /\ StageBounded("raw", a[1], a[1], Entered(a[1]), forwarded)
          /\ StageBounded("normalized", a[1], a, forwarded, raised)
          /\ StageBounded("alarms", a, a, raised, notified[a])
  BY <1>2
<1>4. forwarded \in Nat /\ raised \in Nat
  BY <1>2, <1>3
<1>5. PICK enters, forwards, raises, notifies \in Nat :
        Goes(a, enters, forwards, raises, notifies)
  BY <1>3, NextGoes DEF StageBounded
<1>6. PICK entered \in Nat : entered = Entered(a[1])
  BY <1>1
<1>7. PICK notices \in Nat : notices = notified[a]
  BY <1>1
<1>8. /\ StageBounded("raw", a[1], a[1], entered, forwarded)
      /\ StageBounded("normalized", a[1], a, forwarded, raised)
      /\ StageBounded("alarms", a, a, raised, notices)
  BY <1>3, <1>6, <1>7
<1>9. /\ StageBounded("raw", a[1], a[1], entered + enters, forwarded + forwards)'
      /\ StageBounded("normalized", a[1], a, forwarded + forwards, raised + raises)'
      /\ StageBounded("alarms", a, a, raised + raises, notices + notifies)'
  BY <1>0, <1>4, <1>5, <1>8, StageStep DEF Goes
<1> DEFINE F == forwarded + forwards
           R == raised + raises
<1>10. F \in Nat /\ R \in Nat
  BY <1>4, <1>5
<1>11. /\ StageBounded("raw", a[1], a[1], Entered(a[1]), F)'
      /\ StageBounded("normalized", a[1], a, F, R)'
      /\ StageBounded("alarms", a, a, R, notified[a])'
  BY <1>5, <1>6, <1>7, <1>9 DEF Goes, StageBounded
<1> HIDE DEF F, R
<1>12. F <= 1 + faults'["raw"]
  <2>1. F + ToDo("raw", a[1], a[1])' <= Entered(a[1])' * (1 + faults'["raw"])
    BY <1>11 DEF StageBounded
  <2>2. ToDo("raw", a[1], a[1])' \in Nat
    <3>1. StageFinite("raw", a[1], a[1])'
      BY <1>11 DEF StageBounded
    <3>2. Cardinality(Counted(YetToEmit("raw", a[1], a[1])))' \in Nat
      BY <3>1, FS_CardinalityType DEF StageFinite
    <3> QED
      BY <1>0, <3>2 DEF ToDo, Total, Types, Bags
  <2>3. Entered(a[1])' * (1 + faults'["raw"]) <= 1 + faults'["raw"]
    <3>1. CASE Entered(a[1])' = 0
      BY <1>1, <3>1
    <3>2. CASE Entered(a[1])' = 1
      BY <1>1, <3>2
    <3> QED
      BY <1>1, <3>1, <3>2
  <2>4. Entered(a[1])' * (1 + faults'["raw"]) \in Nat
    BY <1>1
  <2> QED
    BY <1>1, <1>10, <2>1, <2>2, <2>3, <2>4
<1>13. R <= F * (1 + faults'["normalized"])
  <2>1. R + ToDo("normalized", a[1], a)' <= F * (1 + faults'["normalized"])
    BY <1>11 DEF StageBounded
  <2>2. ToDo("normalized", a[1], a)' \in Nat
    <3>1. StageFinite("normalized", a[1], a)'
      BY <1>11 DEF StageBounded
    <3>2. Cardinality(Counted(YetToEmit("normalized", a[1], a)))' \in Nat
      BY <3>1, FS_CardinalityType DEF StageFinite
    <3> QED
      BY <1>0, <3>2 DEF ToDo, Total, Types, Bags
  <2>3. F * (1 + faults'["normalized"]) \in Nat
    BY <1>1, <1>10
  <2> QED
    BY <1>10, <2>1, <2>2, <2>3
<1>14. F \in 0..(1 + faults'["raw"]) /\ R \in 0..(F * (1 + faults'["normalized"]))
  <2>1. F * (1 + faults'["normalized"]) \in Nat
    BY <1>1, <1>10
  <2> QED
    BY <1>1, <1>10, <1>12, <1>13, <2>1
<1> QED
  BY <1>11, <1>14 DEF AlarmBounded

\* Every step keeps the whole invariant.
LEMMA StepRepeats ==
  RepeatsInv /\ [Next]_vars => RepeatsInv'
<1> SUFFICES ASSUME RepeatsInv, [Next]_vars PROVE RepeatsInv'
  OBVIOUS
<1>1. TypeOK' /\ LeftIsOwed'
  BY StepTypes, StepLeft DEF RepeatsInv
<1>2. ASSUME addressesParse', NEW a \in Alarms
      PROVE  AlarmBounded(a)'
  <2>0. addressesParse /\ AlarmBounded(a)
    BY <1>2, AddressesStay DEF RepeatsInv
  <2>1. CASE Next
    BY <1>1, <2>0, <2>1, AlarmStep DEF RepeatsInv, TypeOK
  <2>2. CASE UNCHANGED vars
    <3>1. UNCHANGED <<published, ready, unacked, wire, running, inbox, hand, left, notified,
                      faults>>
      BY <2>2 DEF vars, connection, publisher, process, outside
    <3>2. ASSUME NEW q, NEW m, NEW o
          PROVE  UNCHANGED <<Counted(Unsettled(q, m)), Counted(YetToEmit(q, m, o))>>
      BY <3>1 DEF Counted, Unsettled, YetToEmit, ToCome, OnItsWay
    <3>3. ASSUME NEW q, NEW m, NEW o
          PROVE  UNCHANGED <<StageFinite(q, m, o), There(q, m), ToDo(q, m, o)>>
      BY <3>1, <3>2 DEF StageFinite, There, ToDo, Total
    <3>4. UNCHANGED Entered(a[1])
      BY <3>1 DEF Entered
    <3> QED
      BY <2>0, <3>1, <3>3, <3>4 DEF AlarmBounded, StageBounded
  <2> QED
    BY <2>1, <2>2
<1> QED
  BY <1>1, <1>2 DEF RepeatsInv, Alarms

\* In the empty pipeline nothing has entered a stage.
LEMMA InitRepeats == Init => RepeatsInv
<1> SUFFICES ASSUME Init PROVE RepeatsInv
  OBVIOUS
<1>1. TypeOK
  BY InitTypes
<1>2. LeftIsOwed
  BY DEF Init, LeftIsOwed
<1>3. ASSUME NEW q \in Queues, NEW m \in Messages, NEW o
      PROVE  StageBounded(q, m, o, 0, 0)
  <2>1. /\ \A p \in Processes :
             unacked[p][m] = 0 /\ wire[p][m] = 0 /\ inbox[p][m] = 0 /\ ~running[p]
        /\ ready[q][m] = 0 /\ faults[q] = 0
    BY DEF Init, Empty
  <2>2. \A p \in Processes : OnItsWay(q, m, p) = 0 /\ ToCome(p, m, o) = 0
    BY <2>1 DEF OnItsWay, ToCome
  <2>3. /\ Unsettled(q, m) \in [Processes -> Nat]
        /\ \A p \in Processes : Unsettled(q, m)[p] = 0
    BY <2>1, <2>2 DEF Unsettled
  <2>4. /\ YetToEmit(q, m, o) \in [Processes -> Nat]
        /\ \A p \in Processes : YetToEmit(q, m, o)[p] = 0
    BY <2>2 DEF YetToEmit
  <2>5. IsFiniteSet(Counted(Unsettled(q, m))) /\ Total(Unsettled(q, m)) = 0
    BY <2>3, TotalOfNothing
  <2>6. IsFiniteSet(Counted(YetToEmit(q, m, o))) /\ Total(YetToEmit(q, m, o)) = 0
    BY <2>4, TotalOfNothing
  <2> QED
    BY <2>1, <2>5, <2>6 DEF StageBounded, StageFinite, There, ToDo
<1>4. ASSUME NEW a \in Alarms
      PROVE  AlarmBounded(a)
  <2>1. /\ a \in Messages /\ a[1] \in Messages
        /\ "raw" \in Queues /\ "normalized" \in Queues /\ "alarms" \in Queues
    BY DEF Alarms, Messages, Queues
  <2>2. /\ Entered(a[1]) = 0 /\ notified[a] = 0
        /\ faults["raw"] = 0 /\ faults["normalized"] = 0
    BY <2>1 DEF Init, Entered, Empty
  <2>3. /\ StageBounded("raw", a[1], a[1], Entered(a[1]), 0)
        /\ StageBounded("normalized", a[1], a, 0, 0)
        /\ StageBounded("alarms", a, a, 0, notified[a])
    BY <1>3, <2>1, <2>2
  <2>4. 0 \in 0..(1 + faults["raw"]) /\ 0 \in 0..(0 * (1 + faults["normalized"]))
    BY <2>2
  <2> QED
    BY <2>3, <2>4 DEF AlarmBounded
<1> QED
  BY <1>1, <1>2, <1>4 DEF RepeatsInv

\* A product grows with its factors.
LEMMA ProductGrows ==
  ASSUME NEW x \in Nat, NEW y \in Nat, NEW n \in Nat, x <= y
  PROVE  x * (1 + n) <= y * (1 + n) /\ x * (1 + n) \in Nat /\ y * (1 + n) \in Nat
<1>1. PICK d \in Nat : y = x + d
  <2>1. y - x \in Nat /\ y = x + (y - x)
    OBVIOUS
  <2> QED
    BY <2>1
<1>2. y * (1 + n) = x * (1 + n) + d * (1 + n)
  BY <1>1
<1>3. x * (1 + n) \in Nat /\ d * (1 + n) \in Nat
  OBVIOUS
<1> QED
  BY <1>2, <1>3

\* The stages' bounds make the product.
LEMMA BoundedRepeats == RepeatsInv => RepeatsMultiplyAtMost
<1> SUFFICES ASSUME RepeatsInv, addressesParse, NEW a \in Alarms
             PROVE  notified[a]
                      <= (1 + faults["raw"]) * (1 + faults["normalized"]) * (1 + faults["alarms"])
  BY DEF RepeatsMultiplyAtMost
<1>1. /\ a \in Messages
      /\ "raw" \in Queues /\ "normalized" \in Queues /\ "alarms" \in Queues
  BY DEF Messages, Queues
<1>2. /\ notified[a] \in Nat
      /\ faults["raw"] \in Nat /\ faults["normalized"] \in Nat /\ faults["alarms"] \in Nat
  BY <1>1 DEF RepeatsInv, TypeOK, Types
<1>3. PICK forwarded \in 0..(1 + faults["raw"]) :
        \E raised \in 0..(forwarded * (1 + faults["normalized"])) :
          StageBounded("alarms", a, a, raised, notified[a])
  BY DEF RepeatsInv, AlarmBounded
<1>4. PICK raised \in 0..(forwarded * (1 + faults["normalized"])) :
          StageBounded("alarms", a, a, raised, notified[a])
  BY <1>3
<1>5. PICK r \in Nat : r = faults["raw"]
  BY <1>2
<1>6. PICK n \in Nat : n = faults["normalized"]
  BY <1>2
<1>7. PICK d \in Nat : d = faults["alarms"]
  BY <1>2
<1>8. forwarded \in Nat /\ forwarded <= 1 + r /\ raised \in Nat
  BY <1>3, <1>4, <1>5
<1>9. raised <= forwarded * (1 + n)
  BY <1>4, <1>6, <1>8
<1>10. /\ forwarded * (1 + n) <= (1 + r) * (1 + n)
       /\ forwarded * (1 + n) \in Nat /\ (1 + r) * (1 + n) \in Nat
  <2>1. 1 + r \in Nat
    OBVIOUS
  <2> QED
    BY <1>8, <2>1, ProductGrows
<1>11. raised <= (1 + r) * (1 + n)
  BY <1>8, <1>9, <1>10
<1>12. /\ raised * (1 + d) <= ((1 + r) * (1 + n)) * (1 + d)
       /\ raised * (1 + d) \in Nat /\ ((1 + r) * (1 + n)) * (1 + d) \in Nat
  BY <1>8, <1>10, <1>11, ProductGrows
<1>13. notified[a] <= raised * (1 + d)
  <2>1. notified[a] + ToDo("alarms", a, a) <= raised * (1 + d)
    BY <1>4, <1>7 DEF StageBounded
  <2>2. ToDo("alarms", a, a) \in Nat
    BY <1>1, <1>4, ToDoType DEF StageBounded, RepeatsInv, TypeOK
  <2> QED
    BY <1>2, <1>12, <2>1, <2>2
<1> QED
  BY <1>2, <1>5, <1>6, <1>7, <1>12, <1>13

\* However many processes there are and whatever fails, if the dispatchers' addresses
\* parse, somebody is notified of an alarm at most as often as the product of the
\* three services' faults allows: each of them repeats, for each fault of its own, at
\* most what it was given.
THEOREM RepeatsMultiply == Spec => []RepeatsMultiplyAtMost
<1> QED
  BY InitRepeats, StepRepeats, BoundedRepeats, PTL DEF Spec
-----------------------------------------------------------------------------
(* The pipeline is a relay.                                                 *)

\* What may be in a queue is a message, and stays one that may be there.
LEMMA BelongsGrows ==
  ASSUME Types, [Next]_vars, NEW q \in Queues
  PROVE  Belongs(q) \subseteq Messages /\ Belongs(q) \subseteq Belongs(q)'
<1>1. published \subseteq published'
  BY ZenonT(60)
     DEF Next, Publish, Deliver, BrokerStep, ReceiveAck, ReceiveAlarm, NoticeGone, Start,
         ServiceStep, OwnStep, DispatchPanics, Take, ForwardEvent, PublishAlarm,
         DispatchAlarm, Ack, Exit, Crash,
         LoseConnection, LosePublisher, vars
<1> QED
  BY <1>1 DEF Belongs, Queues, Types, Messages

\* Where the messages of the queues come from.
LEMMA NewInQueue ==
  ASSUME Types, [Next]_vars, NEW q \in Queues, NEW m \in Messages, ready'[q][m] > 0
  PROVE  \/ ready[q][m] > 0
         \/ q = "raw" /\ Publish(m)
         \/ q = "normalized" /\ \E p \in Processes : up[p] /\ ForwardEvent(p, m)
         \/ q = "alarms" /\ \E p \in Processes : wire[p][m] > 0
         \/ \E p \in Processes : Serves[p] = q /\ unacked[p][m] > 0
<1> USE PipelineAssumption DEF Types
<1>0. ready[q][m] \in Nat /\ \A p \in Processes : unacked[p][m] \in Nat /\ Serves[p] \in Queues
  BY DEF Bags
<1>1. ASSUME NEW n \in Messages, Publish(n)
      PROVE  ready[q][m] > 0 \/ (q = "raw" /\ Publish(m))
  BY <1>0, <1>1 DEF Publish, Queues, Bags
<1>2. ASSUME NEW p \in Processes, NEW n \in Messages, Deliver(p, n)
      PROVE  ready[q][m] > 0
  BY <1>0, <1>2 DEF Deliver, Queues, Bags
<1>3. ASSUME NEW p \in Processes, NEW n \in Messages, ReceiveAlarm(p, n)
      PROVE  ready[q][m] > 0 \/ (q = "alarms" /\ wire[p][m] > 0)
  BY <1>0, <1>3 DEF ReceiveAlarm, Queues, Bags
<1>4. ASSUME NEW p \in Processes, DropConnection(p)
      PROVE  ready[q][m] > 0 \/ (Serves[p] = q /\ unacked[p][m] > 0)
  BY <1>0, <1>4, Dropped
<1>5. ASSUME NEW p \in Processes, NEW n \in Messages, ForwardEvent(p, n)
      PROVE  ready[q][m] > 0 \/ (q = "normalized" /\ up[p] /\ ForwardEvent(p, m))
  <2>1. CASE ready' = ready
    BY <2>1
  <2>2. CASE up[p] /\ ready' = [ready EXCEPT !["normalized"][n] = @ + 1]
    BY <1>0, <1>5, <2>2 DEF Queues, Bags
  <2> QED
    BY <1>5, <2>1, <2>2 DEF ForwardEvent
<1>6. CASE UNCHANGED ready
  BY <1>6
<1> QED
  BY <1>1, <1>2, <1>3, <1>4, <1>5, <1>6
     DEF Next, BrokerStep, ReceiveAck, NoticeGone, Start, ServiceStep, OwnStep,
         DispatchPanics, Take, PublishAlarm,
         DispatchAlarm, Ack, Exit, Crash, LoseConnection, LosePublisher, vars

\* What a process holds or has to settle was in its queue.
LEMMA NewWithProcess ==
  ASSUME TypeOK, [Next]_vars, NEW p \in Processes, NEW m \in Messages
  PROVE  /\ Holds(p, m)' => Holds(p, m) \/ (up'[p] /\ ready[Serves[p]][m] > 0)
         /\ unacked'[p][m] > 0 => unacked[p][m] > 0 \/ ready[Serves[p]][m] > 0
<1> USE PipelineAssumption DEF TypeOK, Types
<1> DEFINE Both ==
      /\ Holds(p, m)' => Holds(p, m) \/ (up'[p] /\ ready[Serves[p]][m] > 0)
      /\ unacked'[p][m] > 0 => unacked[p][m] > 0 \/ ready[Serves[p]][m] > 0
<1>0. unacked[p][m] \in Nat /\ inbox[p][m] \in Nat /\ m # None
  BY DEF Bags
<1>1. ASSUME NEW r \in Processes, NEW n \in Messages, Deliver(r, n)
      PROVE  Both
  <2>1. CASE p = r /\ m = n
    BY <1>1, <2>1 DEF Deliver
  <2>2. CASE ~(p = r /\ m = n)
    <3>1. unacked'[p][m] = unacked[p][m]
      BY <1>1, <2>2 DEF Deliver, Bags
    <3>2. inbox'[p][m] = inbox[p][m] /\ hand' = hand
      BY <1>1, <2>2 DEF Deliver, Bags
    <3> QED
      BY <3>1, <3>2 DEF Holds
  <2> QED
    BY <2>1, <2>2
<1>2. ASSUME NEW r \in Processes, NEW n \in Messages, ReceiveAck(r, n)
      PROVE  Both
  <2>1. inbox' = inbox /\ hand' = hand
    BY <1>2 DEF ReceiveAck, process
  <2>2. unacked[r][n] \in Nat /\ unacked[r][n] > 0
    <3>1. /\ unacked[r][n] \in Nat /\ acks[r][n] \in Nat /\ acks[r][n] > 0
          /\ inbox[r][n] \in Nat /\ InHand(r, n) \in Nat
      BY <1>2 DEF ReceiveAck, Bags, InHand
    <3> QED
      BY <3>1 DEF Settlements
  <2>3. unacked'[p][m] > 0 => unacked[p][m] > 0
    BY <1>0, <1>2, <2>2 DEF ReceiveAck, Bags
  <2> QED
    BY <2>1, <2>3 DEF Holds
<1>3. ASSUME NEW r \in Processes, DropConnection(r), UNCHANGED process
      PROVE  Both
  <2>1. inbox' = inbox /\ hand' = hand
    BY <1>3 DEF process
  <2>2. unacked'[p][m] > 0 => unacked[p][m] > 0
    BY <1>3, Dropped
  <2> QED
    BY <2>1, <2>2 DEF Holds
<1>4. ASSUME NEW r \in Processes, NEW n \in Messages, Take(r, n)
      PROVE  Both
  <2>1. unacked' = unacked
    BY <1>4 DEF Take, connection
  <2>2. hand'[p] = m => hand[p] = m \/ inbox[p][m] > 0
    BY <1>4 DEF Take
  <2>3. inbox'[p][m] > 0 => inbox[p][m] > 0
    BY <1>0, <1>4 DEF Take, Bags
  <2> QED
    BY <2>1, <2>2, <2>3 DEF Holds
<1>5. ASSUME NEW r \in Processes, Ack(r)
      PROVE  Both
  <2>1. unacked' = unacked /\ inbox' = inbox /\ (hand'[p] = m => hand[p] = m)
    BY <1>0, <1>5 DEF Ack
  <2> QED
    BY <2>1 DEF Holds
<1>6. ASSUME NEW r \in Processes, Ends(r), UNCHANGED unacked
      PROVE  Both
  <2>1. inbox'[p][m] > 0 => inbox[p][m] > 0
    BY <1>0, <1>6 DEF Ends, Empty
  <2>2. hand'[p] = m => hand[p] = m
    BY <1>0, <1>6 DEF Ends
  <2> QED
    BY <1>6, <2>1, <2>2 DEF Holds
<1>7. ASSUME UNCHANGED <<unacked, inbox, hand>>
      PROVE  Both
  BY <1>7 DEF Holds
<1> HIDE DEF Both
<1>8. ASSUME NEW r \in Processes, BrokerStep(r)
      PROVE  Both
  <2>1. CASE \E n \in Messages : ReceiveAck(r, n)
    BY <1>2, <2>1
  <2>2. CASE \E n \in Messages : ReceiveAlarm(r, n)
    BY <1>7, <2>2 DEF ReceiveAlarm, connection, process
  <2>3. CASE NoticeGone(r)
    BY <1>3, <2>3 DEF NoticeGone
  <2> QED
    BY <1>8, <2>1, <2>2, <2>3 DEF BrokerStep
<1>9. ASSUME NEW r \in Processes, ServiceStep(r)
      PROVE  Both
  <2>1. CASE \E n \in Messages : Take(r, n)
    BY <1>4, <2>1
  <2>2. CASE \E n \in Messages : ForwardEvent(r, n) \/ PublishAlarm(r, n) \/ DispatchAlarm(r, n)
    BY <1>7, <2>2 DEF ForwardEvent, PublishAlarm, DispatchAlarm, connection
  <2>3. CASE Ack(r)
    BY <1>5, <2>3
  <2>4. CASE Exit(r) \/ \E n \in Messages : DispatchPanics(r, n)
    BY <1>6, <2>4 DEF Exit, DispatchPanics, connection
  <2> QED
    BY <1>9, <2>1, <2>2, <2>3, <2>4 DEF ServiceStep, OwnStep
<1>10. ASSUME NEW r \in Processes,
              Start(r) \/ Crash(r) \/ LoseConnection(r) \/ LosePublisher(r)
       PROVE  Both
  <2>1. CASE Start(r) \/ LosePublisher(r)
    BY <1>7, <2>1 DEF Start, LosePublisher, connection, process
  <2>2. CASE Crash(r)
    BY <1>6, <2>2 DEF Crash, connection
  <2>3. CASE LoseConnection(r)
    BY <1>3, <2>3 DEF LoseConnection
  <2> QED
    BY <1>10, <2>1, <2>2, <2>3
<1>11. ASSUME (\E n \in Messages : Publish(n)) \/ UNCHANGED vars
       PROVE  Both
  BY <1>7, <1>11 DEF Publish, vars, connection, process
<1>12. Both
  BY <1>1, <1>8, <1>9, <1>10, <1>11 DEF Next
<1> QED
  BY <1>12 DEF Both

\* An alarm on its way was raised by a processing service.
LEMMA NewOnWire ==
  ASSUME Types, [Next]_vars, NEW p \in Processes, NEW m \in Messages, wire'[p][m] > 0
  PROVE  wire[p][m] > 0 \/ PublishAlarm(p, m)
<1> USE DEF Types
<1>0. wire[p][m] \in Nat
  BY DEF Bags
<1>1. ASSUME NEW r \in Processes, NEW n \in Messages, ReceiveAlarm(r, n)
      PROVE  wire[p][m] > 0
  BY <1>0, <1>1 DEF ReceiveAlarm, Bags
<1>2. ASSUME NEW r \in Processes, NEW n \in Messages, PublishAlarm(r, n)
      PROVE  wire[p][m] > 0 \/ PublishAlarm(p, m)
  <2>1. CASE wire' = wire
    BY <2>1
  <2>2. CASE wire' = [wire EXCEPT ![r][n] = @ + 1]
    BY <1>0, <1>2, <2>2 DEF Bags
  <2> QED
    BY <1>2, <2>1, <2>2 DEF PublishAlarm
<1>3. ASSUME NEW r \in Processes, LosePublisher(r)
      PROVE  wire[p][m] > 0
  BY <1>0, <1>3 DEF LosePublisher, Empty
<1>4. CASE UNCHANGED wire
  BY <1>4
<1> QED
  BY <1>1, <1>2, <1>3, <1>4, ZenonT(60)
     DEF Next, Publish, Deliver, BrokerStep, ReceiveAck, NoticeGone, Start,
         ServiceStep, OwnStep, DispatchPanics, Take, ForwardEvent, DispatchAlarm, Ack,
         Exit, Crash,
         LoseConnection, publisher, vars

\* A dispatcher is at an alarm, and may have notified somebody of it.
Dispatches(p, m) == DispatchAlarm(p, m) \/ DispatchPanics(p, m)

\* A notification is new only by a dispatcher's step.
LEMMA NewNotified ==
  ASSUME Types, [Next]_vars, NEW m \in Messages, notified'[m] > 0
  PROVE  notified[m] > 0 \/ \E p \in Processes : Dispatches(p, m)
<1>1. ASSUME NEW p \in Processes, NEW n \in Messages, Dispatches(p, n)
      PROVE  notified[m] > 0 \/ Dispatches(p, m)
  BY <1>1 DEF Dispatches, DispatchAlarm, DispatchPanics, Types
<1>2. CASE UNCHANGED notified
  BY <1>2
<1>3. CASE \E p \in Processes, n \in Messages : DispatchAlarm(p, n) \/ DispatchPanics(p, n)
  BY <1>1, <1>3 DEF Dispatches
<1> QED
  BY <1>2, <1>3, ZenonT(60)
     DEF Next, Publish, Deliver, BrokerStep, ReceiveAck, ReceiveAlarm, NoticeGone, Start,
         ServiceStep, OwnStep, Take, ForwardEvent, PublishAlarm, Ack, Exit, Crash,
         LoseConnection, LosePublisher, outside, vars

\* A service emits into the next queue what belongs there.
LEMMA OutputsBelong ==
  ASSUME TypeOK, LeftIsOwed, FromEvents, NEW p \in Processes, NEW m \in Messages,
         m \in left[p]
  PROVE  /\ hand[p] \in Messages /\ Holds(p, hand[p])
         /\ m \in Outputs(Serves[p], hand[p])
         /\ hand[p] \in Belongs(Serves[p])
         /\ Serves[p] = "raw" => m \in Belongs("normalized") /\ m = hand[p]
         /\ Serves[p] = "normalized" => m \in Belongs("alarms") /\ hand[p] = m[1]
         /\ Serves[p] = "alarms" =>
              m \in Belongs("alarms") /\ m = hand[p] /\ m \notin Undecodable
<1>1. hand[p] # None /\ m \in Outputs(Serves[p], hand[p])
  BY DEF LeftIsOwed
<1>2. hand[p] \in Messages /\ Holds(p, hand[p])
  BY <1>1 DEF TypeOK, Types, Holds
<1>3. hand[p] \in Belongs(Serves[p])
  BY <1>2 DEF FromEvents
<1> QED
  BY <1>1, <1>2, <1>3 DEF Outputs, Belongs

\* Every step keeps the pipeline free of what no event calls for.
LEMMA StepFromEvents ==
  TypeOK /\ LeftIsOwed /\ FromEvents /\ [Next]_vars => FromEvents'
<1> SUFFICES ASSUME TypeOK, LeftIsOwed, FromEvents, [Next]_vars, NEW m \in Messages
             PROVE  /\ \A q \in Queues : ready'[q][m] > 0 => m \in Belongs(q)'
                    /\ \A p \in Processes :
                         /\ unacked'[p][m] > 0 \/ Holds(p, m)' => m \in Belongs(Serves[p])'
                         /\ wire'[p][m] > 0 => m \in Belongs("alarms")'
                    /\ notified'[m] > 0 => m \in Belongs("alarms")'
  BY DEF FromEvents, Belongs
<1> USE DEF TypeOK
<1>0. /\ "raw" \in Queues /\ "normalized" \in Queues /\ "alarms" \in Queues
      /\ \A p \in Processes : Serves[p] \in Queues
  BY PipelineAssumption DEF Queues
<1>1. \A q \in Queues : m \in Belongs(q) => m \in Belongs(q)'
  BY BelongsGrows
<1>2. ASSUME NEW q \in Queues, ready'[q][m] > 0
      PROVE  m \in Belongs(q)'
  <2>1. CASE q = "raw" /\ Publish(m)
    BY <2>1 DEF Belongs, Publish
  <2>2. CASE q = "normalized" /\ \E p \in Processes : up[p] /\ ForwardEvent(p, m)
    BY <1>0, <1>1, <2>2, OutputsBelong DEF ForwardEvent
  <2>3. CASE m \in Belongs(q)
    BY <1>1, <2>3
  <2> QED
    BY <1>2, <2>1, <2>2, <2>3, NewInQueue DEF FromEvents
<1>3. ASSUME NEW p \in Processes, unacked'[p][m] > 0 \/ Holds(p, m)'
      PROVE  m \in Belongs(Serves[p])'
  BY <1>0, <1>1, <1>3, NewWithProcess DEF FromEvents
<1>4. ASSUME NEW p \in Processes, wire'[p][m] > 0
      PROVE  m \in Belongs("alarms")'
  <2>1. CASE PublishAlarm(p, m)
    BY <1>0, <1>1, <2>1, OutputsBelong DEF PublishAlarm
  <2> QED
    BY <1>0, <1>1, <1>4, <2>1, NewOnWire DEF FromEvents
<1>5. ASSUME notified'[m] > 0
      PROVE  m \in Belongs("alarms")'
  <2>1. CASE \E p \in Processes : Dispatches(p, m)
    BY <1>0, <1>1, <2>1, OutputsBelong DEF Dispatches, DispatchAlarm, DispatchPanics
  <2> QED
    BY <1>0, <1>1, <1>5, <2>1, NewNotified DEF FromEvents
<1> QED
  BY <1>2, <1>3, <1>4, <1>5

\* There is one processing service.
OneProcessing ==
  \A p, r \in Processes : Serves[p] = "normalized" /\ Serves[r] = "normalized" => p = r

\* A lost connection puts what its process held back into the queue.
LEMMA LostIsQueued ==
  ASSUME TypeOK, [Next]_vars, NEW p \in Processes, NEW m \in Messages, up[p], ~up'[p],
         unacked[p][m] > 0
  PROVE  InQueue(Serves[p], m)'
<1> USE PipelineAssumption DEF TypeOK, Types
<1>1. ASSUME NEW r \in Processes, DropConnection(r)
      PROVE  InQueue(Serves[p], m)'
  <2>1. p = r
    BY <1>1, Dropped
  <2>2. Serves[p] \in Queues /\ ready[Serves[p]][m] \in Nat /\ unacked[p][m] \in Nat
    BY DEF Bags
  <2>3. ready'[Serves[p]][m] = ready[Serves[p]][m] + unacked[p][m]
    BY <1>1, <2>1, <2>2, Dropped
  <2> QED
    BY <2>2, <2>3 DEF InQueue
<1>2. ASSUME NEW r \in Processes, Start(r)
      PROVE  FALSE
  BY <1>2 DEF Start
<1>3. CASE UNCHANGED up
  BY <1>3
<1> QED
  BY <1>1, <1>2, <1>3, ZenonT(60)
     DEF Next, Publish, Deliver, BrokerStep, ReceiveAck, ReceiveAlarm, NoticeGone,
         ServiceStep, OwnStep, DispatchPanics, Take, ForwardEvent, PublishAlarm,
         DispatchAlarm, Ack, Exit, Crash,
         LoseConnection, LosePublisher, connection, vars

\* What a process with a connection holds is in its queue.
LEMMA HeldIsUnsettled ==
  ASSUME TypeOK, NEW p \in Processes, NEW m \in Messages, up[p], Holds(p, m)
  PROVE  unacked[p][m] > 0
<1>1. /\ acks[p][m] \in Nat /\ inbox[p][m] \in Nat /\ unacked[p][m] \in Nat
      /\ acks[p][m] + inbox[p][m] + InHand(p, m) <= unacked[p][m]
  BY DEF TypeOK, Types, Bags, Settlements
<1>2. InHand(p, m) = IF hand[p] = m THEN 1 ELSE 0
  BY DEF InHand
<1> QED
  BY <1>1, <1>2 DEF Holds

\* Every step keeps what is held safe.
LEMMA StepHeldIsSafe ==
  ASSUME OneProcessing
  PROVE  TypeOK /\ AckedIsDone /\ HeldIsSafe /\ [Next]_vars => HeldIsSafe'
<1> SUFFICES ASSUME TypeOK, AckedIsDone, HeldIsSafe, [Next]_vars,
                    NEW p \in Processes, NEW m \in Messages, Holds(p, m)'
             PROVE  /\ Serves[p] = "normalized" => InQueue("normalized", m)'
                    /\ Serves[p] = "alarms" /\ pubFaults' = 0 => AlarmSafe(m)'
  BY DEF HeldIsSafe
<1>0. "normalized" \in Queues /\ "alarms" \in Queues
  BY DEF Queues
<1>1. CASE up'[p]
  <2>1. TypeOK'
    BY StepTypes
  <2>2. unacked'[p][m] > 0
    <3>1. /\ acks'[p][m] \in Nat /\ inbox'[p][m] \in Nat /\ unacked'[p][m] \in Nat
          /\ acks'[p][m] + inbox'[p][m] + InHand(p, m)' <= unacked'[p][m]
      BY <1>1, <2>1 DEF TypeOK, Types, Bags, Settlements
    <3>2. InHand(p, m)' = IF hand'[p] = m THEN 1 ELSE 0
      BY DEF InHand
    <3> QED
      BY <3>1, <3>2 DEF Holds
  <2> QED
    BY <2>2 DEF InQueue, AlarmSafe
<1>2. CASE ~up'[p]
  <2>1. Holds(p, m)
    BY <1>2, NewWithProcess
  <2>2. ASSUME Serves[p] = "normalized"
        PROVE  InQueue("normalized", m)'
    <3>1. InQueue("normalized", m)
      BY <2>1, <2>2 DEF HeldIsSafe
    <3>2. CASE up[p]
      BY <1>2, <2>1, <2>2, <3>2, HeldIsUnsettled, LostIsQueued
    <3>3. CASE ~up[p]
      <4>1. ASSUME NEW r \in Processes, Serves[r] = "normalized", ReceiveAck(r, m)
            PROVE  FALSE
        <5>1. r = p
          BY <2>2, <4>1 DEF OneProcessing
        <5>2. acks[p][m] = 0
          BY <3>3 DEF TypeOK, Settlements
        <5> QED
          BY <4>1, <5>1, <5>2 DEF ReceiveAck
      <4> QED
        BY <1>0, <3>1, <4>1, LeavesByAck
    <3> QED
      BY <3>2, <3>3
  <2>3. ASSUME Serves[p] = "alarms", pubFaults' = 0
        PROVE  AlarmSafe(m)'
    <3>1. AlarmSafe(m)
      BY <2>1, <2>3, PubFaultsGrow DEF HeldIsSafe
    <3> QED
      BY <2>3, <3>1, AlarmStays
  <2> QED
    BY <2>2, <2>3
<1> QED
  BY <1>1, <1>2

\* Everything that the relay's steps are shown from.
RelayInv ==
  TypeOK /\ AckedIsDone /\ NoEventDropped /\ LeftIsOwed /\ FromEvents /\ HeldIsSafe

\* An alarm belongs to one event.
LEMMA OneEvent ==
  ASSUME NEW m \in Events, NEW a \in Outputs("normalized", m)
  PROVE  a \in Alarms /\ a \in Messages /\ a[1] = m /\ a \notin Events
  BY PipelineAssumption DEF Outputs, Messages

\* An event that has left the pipeline, or never entered it, does not come back.
LEMMA NothingReturns ==
  ASSUME RelayInv, [Next]_vars, NEW m \in published, InPipeline(m)'
  PROVE  InPipeline(m)
<1> USE DEF RelayInv
<1>0. /\ m \in Events /\ m \in Messages /\ Types
      /\ "raw" \in Queues /\ "normalized" \in Queues /\ "alarms" \in Queues
      /\ \A p \in Processes : Serves[p] \in Queues
  BY PipelineAssumption DEF TypeOK, Types, Messages, Queues
<1>1. ASSUME NEW q \in Queues, NEW n \in Messages, InQueue(q, n)', ~InQueue(q, n)
      PROVE  \/ q = "raw" /\ Publish(n)
             \/ q = "normalized" /\ \E p \in Processes : up[p] /\ ForwardEvent(p, n)
             \/ q = "alarms" /\ \E p \in Processes : wire[p][n] > 0
  <2>1. ready'[q][n] > 0 \/ \E p \in Processes : Serves[p] = q /\ unacked'[p][n] > 0
    BY <1>1 DEF InQueue
  <2>2. ~(ready[q][n] > 0) /\ \A p \in Processes : ~(Serves[p] = q /\ unacked[p][n] > 0)
    BY <1>1 DEF InQueue
  <2>3. ready'[q][n] > 0
    BY <2>1, <2>2, NewWithProcess
  <2> QED
    BY <1>0, <2>2, <2>3, NewInQueue
<1>2. CASE InQueue("raw", m)'
  <2>1. ~Publish(m)
    BY DEF Publish
  <2> QED
    BY <1>0, <1>1, <1>2, <2>1 DEF InPipeline
<1>3. CASE InQueue("normalized", m)'
  <2>1. ASSUME NEW p \in Processes, up[p], ForwardEvent(p, m)
        PROVE  InQueue("raw", m)
    <3>1. Serves[p] = "raw" /\ Holds(p, m)
      BY <1>0, <2>1, OutputsBelong DEF ForwardEvent
    <3> QED
      BY <1>0, <2>1, <3>1, HeldIsUnsettled DEF InQueue
  <2> QED
    BY <1>0, <1>1, <1>3, <2>1 DEF InPipeline
<1>4. ASSUME NEW a \in Outputs("normalized", m),
             InQueue("alarms", a)' \/ \E p \in Processes : wire'[p][a] > 0
      PROVE  InPipeline(m)
  <2>0. a \in Messages /\ a[1] = m
    BY <1>0, OneEvent
  <2>1. CASE InQueue("alarms", a)'
    BY <1>0, <1>1, <2>0, <2>1 DEF InPipeline
  <2>2. ASSUME NEW p \in Processes, wire'[p][a] > 0
        PROVE  InPipeline(m)
    <3>1. CASE wire[p][a] > 0
      BY <3>1 DEF InPipeline
    <3>2. CASE PublishAlarm(p, a)
      <4>1. Serves[p] = "normalized" /\ Holds(p, m)
        BY <2>0, <3>2, OutputsBelong DEF PublishAlarm
      <4> QED
        BY <1>0, <4>1 DEF HeldIsSafe, InPipeline
    <3> QED
      BY <1>0, <2>0, <2>2, <3>1, <3>2, NewOnWire
  <2> QED
    BY <1>4, <2>1, <2>2
<1>5. Outputs("normalized", m)' = Outputs("normalized", m)
  BY DEF Outputs
<1> QED
  BY <1>2, <1>3, <1>4, <1>5 DEF InPipeline

\* An event leaves the pipeline only when the last ack of it, or of an alarm it calls
\* for, is read.
LEMMA LeavesPipelineByAck ==
  ASSUME RelayInv, [Next]_vars, pubFaults' = 0, NEW m \in Events, InPipeline(m),
         ~InPipeline(m)'
  PROVE  \E p \in Processes : \E n \in {m} \cup Outputs("normalized", m) : ReceiveAck(p, n)
<1> USE DEF RelayInv
<1>0. /\ m \in Messages /\ TypeOK
      /\ "raw" \in Queues /\ "normalized" \in Queues /\ "alarms" \in Queues
      /\ Outputs("normalized", m)' = Outputs("normalized", m)
  BY DEF Messages, Queues, Outputs
<1>1. CASE InQueue("raw", m) \/ InQueue("normalized", m)
  BY <1>0, <1>1, LeavesByAck DEF InPipeline
<1>2. ASSUME NEW a \in Outputs("normalized", m), InQueue("alarms", a)
      PROVE  \E p \in Processes : ReceiveAck(p, a)
  BY <1>0, <1>2, OneEvent, LeavesByAck DEF InPipeline
<1>3. ASSUME NEW a \in Outputs("normalized", m), NEW p \in Processes, wire[p][a] > 0
      PROVE  FALSE
  BY <1>0, <1>3, OneEvent, WireKeeps DEF InPipeline
<1> QED
  BY <1>1, <1>2, <1>3 DEF InPipeline

\* The relay that the pipeline implements.
Pending == {m \in published : InPipeline(m)}
Settled == {m \in published : ~InPipeline(m)}
Emitted == {m \in Messages : notified[m] > 0}

RelayMoves == Relay!Next \/ UNCHANGED Relay!vars

\* Publishing an event accepts it.
LEMMA PublishAccepts ==
  ASSUME RelayInv, [Next]_vars, pubFaults' = 0, NEW n \in Messages, Publish(n)
  PROVE  RelayMoves
<1>1. n \in Events /\ n \notin published /\ published' = published \cup {n}
      /\ notified' = notified
  BY DEF Publish, outside
<1>2. ASSUME NEW m \in published
      PROVE  InPipeline(m) <=> InPipeline(m)'
  <2>1. m \in Events
    BY DEF RelayInv, TypeOK, Types
  <2>2. \A p \in Processes : \A a : ~ReceiveAck(p, a)
    BY <1>1 DEF ReceiveAck
  <2> QED
    BY <2>1, <2>2, NothingReturns, LeavesPipelineByAck
<1>3. InPipeline(n)'
  <2>1. ready'["raw"][n] > 0
    BY <1>1 DEF Publish, RelayInv, TypeOK, Types, Bags, Queues
  <2> QED
    BY <2>1 DEF InPipeline, InQueue
<1>4. Pending' = Pending \cup {n} /\ UNCHANGED <<Settled, Emitted>> /\ n \notin Pending \cup Settled
  BY <1>1, <1>2, <1>3 DEF Pending, Settled, Emitted
<1>5. Relay!Accept(n)
  BY <1>4 DEF Relay!Accept, Pending, Settled, Emitted
<1> QED
  BY <1>1, <1>5 DEF RelayMoves, Relay!Next

\* Dispatching an alarm for the first time emits it for an event that is pending.
LEMMA DispatchEmits ==
  ASSUME RelayInv, [Next]_vars, pubFaults' = 0,
         NEW p \in Processes, NEW a \in Messages, Dispatches(p, a)
  PROVE  RelayMoves
<1> USE DEF RelayInv
<1>0. /\ published' = published /\ notified \in [Messages -> Nat]
      /\ Serves[p] = "alarms" /\ a \in left[p]
      /\ UNCHANGED <<ready, unacked, wire>>
  BY DEF Dispatches, DispatchAlarm, DispatchPanics, connection, publisher, TypeOK, Types
<1>1. \A m : InPipeline(m)' = InPipeline(m)
  BY <1>0 DEF InPipeline, InQueue, Outputs
<1>2. UNCHANGED <<Pending, Settled>>
  BY <1>0, <1>1 DEF Pending, Settled
<1>3. Emitted' = Emitted \/ Emitted' = Emitted \cup {a}
  <2>1. CASE notified' = notified
    BY <2>1 DEF Emitted
  <2>2. CASE \/ notified' = [notified EXCEPT ![a] = @ + 1]
             \/ notified' = [notified EXCEPT ![a] = IF @ = 0 THEN 1 ELSE @]
    <3>1. \A m \in Messages : notified'[m] > 0 <=> notified[m] > 0 \/ m = a
      BY <1>0, <2>2
    <3> QED
      BY <3>1 DEF Emitted
  <2> QED
    BY <2>1, <2>2 DEF Dispatches, DispatchAlarm, DispatchPanics
<1>4. CASE Emitted' = Emitted
  BY <1>2, <1>4 DEF RelayMoves, Relay!vars, Pending, Settled, Emitted
<1>5. CASE Emitted' = Emitted \cup {a} /\ ~(notified[a] > 0)
  <2>1. /\ Holds(p, a) /\ a \notin Undecodable
        /\ a \in Alarms /\ a[1] \in published \ Malformed /\ a[2] \in Matching[a[1]]
    BY <1>0, OutputsBelong DEF Belongs
  <2>2. AlarmSafe(a)
    BY <1>0, <2>1, PubFaultsGrow DEF HeldIsSafe
  <2>3. a \in Outputs("normalized", a[1])
    BY <2>1 DEF Outputs
  <2>4. InPipeline(a[1])
    BY <1>5, <2>1, <2>2, <2>3 DEF AlarmSafe, InPipeline
  <2>5. a[1] \in Events /\ a[1] \in Pending
    BY <2>1, <2>4 DEF Pending, TypeOK, Types
  <2> DEFINE owed == [m \in Events |-> IF m \in Malformed THEN {} ELSE Notifiable(m)]
  <2>6. a \in owed[a[1]]
    BY <2>1, <2>3, <2>5 DEF Notifiable
  <2>7. Relay!Emit(a[1], a)
    BY <1>2, <1>5, <2>5, <2>6 DEF Relay!Emit, Pending, Settled, Emitted
  <2> QED
    BY <2>5, <2>6, <2>7 DEF RelayMoves, Relay!Next
<1>6. CASE Emitted' = Emitted \cup {a} /\ notified[a] > 0
  BY <1>4, <1>6 DEF Emitted
<1> QED
  BY <1>3, <1>4, <1>5, <1>6

\* Reading the last ack settles an event, all of whose alarms were dispatched.
LEMMA AckSettles ==
  ASSUME RelayInv, NoEventDropped', [Next]_vars, pubFaults' = 0,
         NEW p \in Processes, NEW n \in Messages, ReceiveAck(p, n)
  PROVE  RelayMoves
<1> USE DEF RelayInv
<1>0. published' = published /\ notified' = notified /\ published \subseteq Events
  BY DEF ReceiveAck, outside, TypeOK, Types
<1>1. Emitted' = Emitted
  BY <1>0 DEF Emitted
<1>2. ASSUME NEW m \in published, InPipeline(m), ~InPipeline(m)'
      PROVE  n \in {m} \cup Outputs("normalized", m)
  <2>1. PICK r \in Processes, a \in {m} \cup Outputs("normalized", m) : ReceiveAck(r, a)
    BY <1>0, <1>2, LeavesPipelineByAck
  <2>2. a \in Messages
    BY <1>0, <2>1, OneEvent DEF Messages
  <2>3. acks[r][a] \in Nat /\ acks[r][a] > 0 /\ acks'[r][a] = acks[r][a] - 1
    BY <2>1, <2>2 DEF ReceiveAck, TypeOK, Types, Bags
  <2>4. CASE a # n
    <3>1. acks'[r][a] = acks[r][a]
      BY <2>2, <2>4 DEF ReceiveAck, TypeOK, Types, Bags
    <3> QED
      BY <2>3, <3>1
  <2> QED
    BY <2>1, <2>4
<1>3. CASE \A m \in published : InPipeline(m) => InPipeline(m)'
  <2>1. \A m \in published : InPipeline(m) <=> InPipeline(m)'
    BY <1>3, NothingReturns
  <2>2. UNCHANGED <<Pending, Settled>>
    BY <1>0, <2>1 DEF Pending, Settled
  <2> QED
    BY <1>1, <2>2 DEF RelayMoves, Relay!vars, Pending, Settled, Emitted
<1>4. ASSUME NEW m \in published, InPipeline(m), ~InPipeline(m)'
      PROVE  RelayMoves
  <2>0. m \in Events /\ n \in {m} \cup Outputs("normalized", m)
    BY <1>0, <1>2, <1>4
  <2>1. \A e \in published \ {m} : InPipeline(e) <=> InPipeline(e)'
    <3>1. ASSUME NEW e \in published, InPipeline(e), ~InPipeline(e)'
          PROVE  e = m
      <4>1. e \in Events /\ n \in {e} \cup Outputs("normalized", e)
        BY <1>0, <1>2, <3>1
      <4> QED
        BY <2>0, <4>1, OneEvent
    <3> QED
      BY <3>1, NothingReturns
  <2>2. Pending' = Pending \ {m} /\ Settled' = Settled \cup {m} /\ m \in Pending
    BY <1>0, <1>4, <2>1 DEF Pending, Settled
  <2> DEFINE owed == [e \in Events |-> IF e \in Malformed THEN {} ELSE Notifiable(e)]
  <2>3. owed[m] \subseteq Emitted
    <3>1. CASE m \in Malformed
      BY <2>0, <3>1
    <3>2. CASE m \notin Malformed
      <4>1. EventSafe(m)'
        BY <1>0 DEF NoEventDropped
      <4>2. ~InQueue("raw", m)' /\ ~InQueue("normalized", m)'
        BY <1>4 DEF InPipeline
      <4>3. EvaluationSafe(m)'
        BY <3>2, <4>1, <4>2 DEF EventSafe, Outputs
      <4>4. ASSUME NEW a \in Notifiable(m)
            PROVE  a \in Emitted
        <5>0. a \in Outputs("normalized", m) /\ a \notin Undecodable
          BY DEF Notifiable
        <5>1. AlarmSafe(a)'
          BY <4>2, <4>3, <5>0 DEF EvaluationSafe, Outputs
        <5>2. ~InQueue("alarms", a)' /\ \A r \in Processes : ~(wire'[r][a] > 0)
          BY <1>4, <5>0 DEF InPipeline, Outputs
        <5>3. notified[a] > 0
          BY <1>0, <5>0, <5>1, <5>2 DEF AlarmSafe
        <5> QED
          BY <2>0, <5>0, <5>3, OneEvent DEF Emitted
      <4> QED
        BY <2>0, <3>2, <4>4
    <3> QED
      BY <3>1, <3>2
  <2>4. Relay!Settle(m)
    BY <1>1, <2>2, <2>3 DEF Relay!Settle, Pending, Settled, Emitted
  <2> QED
    BY <2>0, <2>4 DEF RelayMoves, Relay!Next
<1> QED
  BY <1>3, <1>4

\* No other step shows.
LEMMA OthersStutter ==
  ASSUME RelayInv, [Next]_vars, pubFaults' = 0, UNCHANGED <<published, notified>>,
         \A p \in Processes : \A n \in Messages : ~ReceiveAck(p, n)
  PROVE  RelayMoves
<1>1. \A m \in published : InPipeline(m) <=> InPipeline(m)'
  <2>1. ASSUME NEW m \in published
        PROVE  m \in Events /\ {m} \cup Outputs("normalized", m) \subseteq Messages
    BY OneEvent DEF RelayInv, TypeOK, Types, Messages
  <2> QED
    BY <2>1, NothingReturns, LeavesPipelineByAck
<1>2. UNCHANGED <<Pending, Settled, Emitted>>
  BY <1>1 DEF Pending, Settled, Emitted
<1> QED
  BY <1>2 DEF RelayMoves, Relay!vars, Pending, Settled, Emitted

\* So each step is one of the relay's, or none.
LEMMA StepRelays ==
  RelayInv /\ NoEventDropped' /\ [Next]_vars
    => [pubFaults' = 0 => Relay!Next]_(Relay!vars)
<1> SUFFICES ASSUME RelayInv, NoEventDropped', [Next]_vars, pubFaults' = 0
             PROVE  RelayMoves
  BY DEF RelayMoves
<1>1. CASE \E n \in Messages : Publish(n)
  BY <1>1, PublishAccepts
<1>2. CASE \E p \in Processes, n \in Messages : DispatchAlarm(p, n) \/ DispatchPanics(p, n)
  BY <1>2, DispatchEmits DEF Dispatches
<1>3. CASE \E p \in Processes, n \in Messages : ReceiveAck(p, n)
  BY <1>3, AckSettles
<1>4. CASE UNCHANGED <<published, notified>>
  BY <1>3, <1>4, OthersStutter
<1> QED
  BY <1>1, <1>2, <1>3, <1>4, ZenonT(60)
     DEF Next, Deliver, BrokerStep, ReceiveAlarm, NoticeGone, Start,
         ServiceStep, OwnStep, Take, ForwardEvent, PublishAlarm, Ack, Exit, Crash,
         LoseConnection, LosePublisher, outside, vars

\* The empty pipeline is the empty relay.
LEMMA InitRelays == Init => RelayInv /\ Relay!Init
<1> SUFFICES ASSUME Init
             PROVE  RelayInv /\ Relay!Init
  OBVIOUS
<1>1. /\ \A q \in Queues : \A m \in Messages : ready[q][m] = 0
      /\ \A p \in Processes : \A m \in Messages :
           unacked[p][m] = 0 /\ inbox[p][m] = 0 /\ wire[p][m] = 0 /\ hand[p] = None
      /\ \A m \in Messages : notified[m] = 0
      /\ published = {} /\ \A p \in Processes : left[p] = {}
  BY DEF Init, Empty
<1>2. LeftIsOwed
  BY <1>1 DEF LeftIsOwed
<1>3. FromEvents /\ HeldIsSafe
  BY <1>1, PipelineAssumption DEF FromEvents, HeldIsSafe, Holds
<1>4. RelayInv
  BY <1>2, <1>3, InitTypes, InitSafety DEF RelayInv
<1>5. Pending = {} /\ Settled = {} /\ Emitted = {}
  BY <1>1 DEF Pending, Settled, Emitted
<1> QED
  BY <1>4, <1>5 DEF Relay!Init, Pending, Settled, Emitted

\* Whatever crashes and loses its connection, and with any number of queue services
\* and dispatchers, the pipeline as a whole keeps the relay's promise, if it has one
\* processing service and that keeps its publisher: nothing is left of an event only
\* after all of its decodable alarms were, an alarm is first dispatched while its
\* event is pending, and an event that has left does not come back.
THEOREM RelayImplemented ==
  ASSUME OneProcessing
  PROVE  Spec => ImplementsRelay
<1>1. RelayInv /\ [Next]_vars => RelayInv'
  BY StepTypes, StepAckedIsDone, StepNoEventDropped, StepLeft, StepFromEvents,
     StepHeldIsSafe
  DEF RelayInv
<1>2. RelayInv /\ RelayInv' /\ [Next]_vars => [pubFaults' = 0 => Relay!Next]_(Relay!vars)
  BY StepRelays DEF RelayInv
<1> QED
  BY <1>1, <1>2, InitRelays, PTL DEF Spec, ImplementsRelay
=============================================================================
