------------------------- MODULE QueueServiceProofs -------------------------
(***************************************************************************)
(* Proofs about QueueService, for any set of instances and any bounds: its  *)
(* type invariant, that no well-formed event is ever lost, that the service *)
(* implements AtLeastOnceRelay, that every repetition takes a fault, and    *)
(* that the events stay in order while no two connections are open.         *)
(***************************************************************************)
EXTENDS QueueService, SequenceTheorems, FiniteSetTheorems, TLAPS

-----------------------------------------------------------------------------
(* Sequences: wires and inboxes, first in, first out.                     *)

\* Removing the head of a non-empty sequence shifts the others down by one; the
\* head of a sequence that repeats nothing is nowhere else in it.
LEMMA TailFacts ==
  ASSUME NEW S, NEW s \in Seq(S), s # <<>>
  PROVE  /\ Head(s) \in S /\ Head(s) = s[1]
         /\ Tail(s) \in Seq(S)
         /\ Len(s) \in Nat \ {0} /\ Len(Tail(s)) = Len(s) - 1
         /\ \A k \in 1..(Len(s) - 1) : Tail(s)[k] = s[k + 1]
         /\ Range(s) = {Head(s)} \cup Range(Tail(s))
         /\ IsInjective(s) => IsInjective(Tail(s)) /\ Head(s) \notin Range(Tail(s))
<1>1. /\ Head(s) \in S /\ Head(s) = s[1]
      /\ Tail(s) \in Seq(S) /\ Len(s) \in Nat \ {0} /\ Len(Tail(s)) = Len(s) - 1
      /\ \A k \in 1..(Len(s) - 1) : Tail(s)[k] = s[k + 1]
      /\ DOMAIN s = 1..Len(s) /\ DOMAIN Tail(s) = 1..(Len(s) - 1)
  OBVIOUS
<1>2. Range(s) = {Head(s)} \cup Range(Tail(s))
  <2>1. \A k \in 1..Len(s) : k = 1 \/ \E n \in 1..(Len(s) - 1) : k = n + 1
    <3>1. \A k \in 1..Len(s) : k # 1 => k - 1 \in 1..(Len(s) - 1) /\ k = (k - 1) + 1
      BY <1>1
    <3> QED
      BY <3>1
  <2>2. 1 \in 1..Len(s) /\ \A k \in 1..(Len(s) - 1) : k + 1 \in 1..Len(s)
    BY <1>1
  <2>3. Range(Tail(s)) \subseteq Range(s) /\ Head(s) \in Range(s)
    BY <1>1, <2>2 DEF Range
  <2>4. \A n \in 1..(Len(s) - 1) : s[n + 1] \in Range(Tail(s))
    BY <1>1 DEF Range
  <2>5. \A k \in 1..Len(s) : s[k] = Head(s) \/ s[k] \in Range(Tail(s))
    BY <1>1, <2>1, <2>4
  <2> QED
    BY <1>1, <2>3, <2>5 DEF Range
<1>3. IsInjective(s) => IsInjective(Tail(s)) /\ Head(s) \notin Range(Tail(s))
  BY <1>1 DEF IsInjective, Range
<1> QED
  BY <1>1, <1>2, <1>3

\* Appending keeps what was there and puts the new element last.
LEMMA AppendFacts ==
  ASSUME NEW S, NEW s \in Seq(S), NEW e \in S
  PROVE  /\ Append(s, e) \in Seq(S)
         /\ Len(s) \in Nat /\ Len(Append(s, e)) = Len(s) + 1
         /\ \A k \in 1..Len(s) : Append(s, e)[k] = s[k]
         /\ Append(s, e)[Len(s) + 1] = e
         /\ Range(Append(s, e)) = Range(s) \cup {e}
         /\ IsInjective(s) /\ e \notin Range(s) => IsInjective(Append(s, e))
<1>1. /\ Append(s, e) \in Seq(S)
      /\ Len(s) \in Nat /\ Len(Append(s, e)) = Len(s) + 1
      /\ \A k \in 1..Len(s) : Append(s, e)[k] = s[k]
      /\ Append(s, e)[Len(s) + 1] = e
      /\ DOMAIN s = 1..Len(s) /\ DOMAIN Append(s, e) = 1..(Len(s) + 1)
  OBVIOUS
<1>2. Range(Append(s, e)) = Range(s) \cup {e}
  BY <1>1 DEF Range
<1> QED
  BY <1>1, <1>2 DEF Range, IsInjective

\* Nothing is in an empty sequence.
LEMMA EmptyFacts ==
  ASSUME NEW S
  PROVE  <<>> \in Seq(S) /\ Range(<<>>) = {} /\ IsInjective(<<>>)
BY DEF Range, IsInjective

\* How often a thing is in a sequence.
Where(s, a)    == {k \in 1..Len(s) : s[k] = a}
CopiesIn(s, a) == Cardinality(Where(s, a))

\* How often a is in a sequence is a number, none of an empty one.
LEMMA CopiesFinite ==
  ASSUME NEW S, NEW s \in Seq(S), NEW a
  PROVE  /\ IsFiniteSet(Where(s, a)) /\ CopiesIn(s, a) \in Nat
         /\ a \notin Range(s) => CopiesIn(s, a) = 0
<1>1. IsFiniteSet(1..Len(s)) /\ Where(s, a) \in SUBSET (1..Len(s)) /\ DOMAIN s = 1..Len(s)
  BY FS_Interval DEF Where
<1>2. a \notin Range(s) => Where(s, a) = {}
  BY <1>1 DEF Where, Range
<1> QED
  BY <1>1, <1>2, FS_Subset, FS_CardinalityType, FS_EmptySet DEF CopiesIn

\* Appending e adds a copy of e, and of nothing else.
LEMMA CopiesAppend ==
  ASSUME NEW S, NEW s \in Seq(S), NEW e \in S, NEW a
  PROVE  CopiesIn(Append(s, e), a) = CopiesIn(s, a) + (IF e = a THEN 1 ELSE 0)
<1>1. Where(Append(s, e), a)
        = IF e = a THEN Where(s, a) \cup {Len(s) + 1} ELSE Where(s, a)
  BY DEF Where
<1>2. Len(s) + 1 \notin Where(s, a) /\ IsFiniteSet(Where(s, a)) /\ CopiesIn(s, a) \in Nat
  BY CopiesFinite DEF Where
<1>3. Cardinality(Where(s, a) \cup {Len(s) + 1}) = Cardinality(Where(s, a)) + 1
  BY <1>2, FS_AddElement
<1> QED
  BY <1>1, <1>2, <1>3 DEF CopiesIn

-----------------------------------------------------------------------------
(* The operators the actions are built from.                               *)

\* Send adds one well-typed frame to i's connection or changes nothing.
LEMMA SendType ==
  ASSUME NEW i \in Instances, wire \in [Instances -> Seq(Frames)],
         cur[i] \in Msgs, NEW op \in {"publish", "ack", "nack"}, Send(i, op)
  PROVE  wire' \in [Instances -> Seq(Frames)]
<1>1. [op |-> op, msg |-> cur[i]] \in Frames
  BY DEF Frames
<1>2. Append(wire[i], [op |-> op, msg |-> cur[i]]) \in Seq(Frames)
  BY <1>1, AppendFacts
<1> QED
  BY <1>2 DEF Send

-----------------------------------------------------------------------------
(* Type correctness.                                                       *)

\* The steps of the broker keep the types.
LEMMA BrokerStepType ==
  ASSUME TypeOK, NEW i \in Instances,
         Deliver(i) \/ BrokerReceive(i)
  PROVE  TypeOK'
<1>1. CASE Deliver(i)
  <2>1. PICK m \in raw :
          /\ raw' = raw \ {m}
          /\ unacked' = [unacked EXCEPT ![i] = @ \cup {m}]
          /\ inbox' = IF pc[i] = "down"
                      THEN inbox
                      ELSE [inbox EXCEPT ![i] = Append(@, m)]
    BY <1>1 DEF Deliver
  <2>2. m \in Msgs
    BY DEF TypeOK
  <2>3. Append(inbox[i], m) \in Seq(Msgs)
    BY <2>2, AppendFacts DEF TypeOK
  <2>4. inbox' \in [Instances -> Seq(Msgs)]
    BY <2>1, <2>3 DEF TypeOK
  <2>5. /\ unacked' \in [Instances -> SUBSET Msgs]
        /\ raw' \subseteq Msgs
    BY <2>1, <2>2 DEF TypeOK
  <2>6. UNCHANGED <<published, up, wire, normalized, acked, discarded,
                    pc, cur, mongo, faults>>
    BY <1>1 DEF Deliver
  <2>7. \A j \in Instances : pc'[j] = "down" => inbox'[j] = <<>>
    BY <2>1, <2>6 DEF TypeOK
  <2> QED
    BY <2>4, <2>5, <2>6, <2>7 DEF TypeOK
<1>2. CASE BrokerReceive(i)
  <2> DEFINE f == Head(wire[i])
  <2>1. /\ f \in Frames
        /\ Tail(wire[i]) \in Seq(Frames)
    BY <1>2, TailFacts DEF BrokerReceive, TypeOK
  <2>2. f.msg \in Msgs
    BY <2>1 DEF Frames
  <2>3. wire' \in [Instances -> Seq(Frames)]
    BY <1>2, <2>1 DEF BrokerReceive, TypeOK
  <2>4. Append(normalized, f.msg) \in Seq(Msgs)
    BY <2>2, AppendFacts DEF TypeOK
  <2>5. /\ normalized' \in Seq(Msgs)
        /\ unacked' \in [Instances -> SUBSET Msgs]
        /\ acked' \subseteq Msgs
        /\ discarded' \subseteq Msgs
    BY <1>2, <2>2, <2>4, ZenonT(30) DEF BrokerReceive, TypeOK
  <2>6. UNCHANGED <<published, raw, up, inbox, pc, cur, mongo, faults>>
    BY <1>2 DEF BrokerReceive, serviceVars
  <2> QED
    BY <2>3, <2>5, <2>6 DEF TypeOK
<1> QED
  BY <1>1, <1>2

\* So do the steps of a running instance.
LEMMA ServiceStepType ==
  ASSUME TypeOK, NEW i \in Instances, ServiceStep(i)
  PROVE  TypeOK'
<1>1. CASE TakeDelivery(i)
  <2>1. /\ Head(inbox[i]) \in Msgs
        /\ Tail(inbox[i]) \in Seq(Msgs)
    BY <1>1, TailFacts DEF TakeDelivery, TypeOK
  <2>2. Head(inbox[i]) # None
    BY <2>1, QueueServiceAssumption DEF Msgs, None
  <2> QED
    BY <1>1, <2>1, <2>2 DEF TakeDelivery, TypeOK, brokerVars
<1>2. CASE StreamEnds(i)
  BY <1>2 DEF StreamEnds, Exit, TypeOK, brokerVars
<1>3. CASE InsertDocument(i)
  BY <1>3 DEF InsertDocument, TypeOK, brokerVars
<1>4. CASE ForwardEvent(i)
  <2>1. CASE /\ Send(i, "publish")
             /\ pc' = [pc EXCEPT ![i] = "ack"]
             /\ UNCHANGED <<inbox, cur>>
    <3>1. cur[i] \in Msgs
      BY <1>4 DEF ForwardEvent, TypeOK
    <3>2. wire' \in [Instances -> Seq(Frames)]
      BY <2>1, <3>1, SendType DEF TypeOK
    <3> QED
      BY <1>4, <2>1, <3>2 DEF ForwardEvent, TypeOK, brokerVars
  <2>2. CASE Exit(i) /\ UNCHANGED wire
    BY <1>4, <2>2 DEF ForwardEvent, Exit, TypeOK, brokerVars
  <2> QED
    BY <1>4, <2>1, <2>2 DEF ForwardEvent
<1>5. CASE AckDelivery(i) \/ NackDelivery(i)
  <2>1. CASE /\ Send(i, "ack") \/ Send(i, "nack")
             /\ pc' = [pc EXCEPT ![i] = "next"]
             /\ cur' = [cur EXCEPT ![i] = None]
             /\ UNCHANGED inbox
    <3>1. cur[i] \in Msgs
      BY <1>5 DEF AckDelivery, NackDelivery, TypeOK
    <3>2. wire' \in [Instances -> Seq(Frames)]
      BY <2>1, <3>1, SendType DEF TypeOK
    <3> QED
      BY <1>5, <2>1, <3>2 DEF AckDelivery, NackDelivery, TypeOK, brokerVars
  <2>2. CASE Exit(i) /\ UNCHANGED wire
    BY <1>5, <2>2
       DEF AckDelivery, NackDelivery, Exit, TypeOK, brokerVars
  <2> QED
    BY <1>5, <2>1, <2>2 DEF AckDelivery, NackDelivery
<1> QED
  BY <1>1, <1>2, <1>3, <1>4, <1>5 DEF ServiceStep

\* So do starting, dying and losing or closing a connection.
LEMMA FaultStepType ==
  ASSUME TypeOK, NEW i \in Instances,
         Start(i) \/ Crash(i) \/ LoseConnection(i) \/ CloseConnection(i)
  PROVE  TypeOK'
<1> USE QueueServiceAssumption
<1>1. CASE Start(i)
  BY <1>1 DEF Start, TypeOK, brokerVars
<1>2. CASE Crash(i)
  BY <1>2 DEF Crash, Exit, TypeOK, brokerVars
<1>3. CASE LoseConnection(i) \/ CloseConnection(i)
  <2>1. /\ up' \in [Instances -> BOOLEAN]
        /\ wire' \in [Instances -> Seq(Frames)]
        /\ raw' \subseteq Msgs
        /\ unacked' \in [Instances -> SUBSET Msgs]
    <3>1. <<>> \in Seq(Frames) /\ FALSE \in BOOLEAN /\ {} \in SUBSET Msgs
      OBVIOUS
    <3>2. DropConnection(i)
      BY <1>3 DEF LoseConnection, CloseConnection
    <3>3. unacked[i] \subseteq Msgs
      BY DEF TypeOK
    <3> QED
      BY <3>1, <3>2, <3>3 DEF DropConnection, TypeOK
  <2>2. /\ faults' \in 0..MaxFaults
        /\ UNCHANGED <<published, normalized, acked, discarded, mongo,
                       inbox, pc, cur>>
    BY <1>3 DEF LoseConnection, CloseConnection, DropConnection, serviceVars,
                TypeOK
  <2> QED
    BY <2>1, <2>2 DEF TypeOK
<1> QED
  BY <1>1, <1>2, <1>3

LEMMA StepTypes == TypeOK /\ [Next]_vars => TypeOK'
<1> SUFFICES ASSUME TypeOK, [Next]_vars
             PROVE  TypeOK'
  OBVIOUS
<1>1. CASE Publish
  BY <1>1, QueueServiceAssumption DEF Publish, TypeOK, Msgs, serviceVars
<1>2. CASE \E i \in Instances : Deliver(i) \/ BrokerReceive(i)
  BY <1>2, BrokerStepType
<1>3. CASE \E i \in Instances : ServiceStep(i)
  BY <1>3, ServiceStepType
<1>4. CASE \E i \in Instances :
             Start(i) \/ Crash(i) \/ LoseConnection(i) \/ CloseConnection(i)
  BY <1>4, FaultStepType
<1>5. CASE UNCHANGED vars
  BY <1>5 DEF vars, TypeOK
<1> QED
  BY <1>1, <1>2, <1>3, <1>4, <1>5 DEF Next

\* Every behaviour of the queue service is well typed: an instance holds a
\* delivery exactly while it handles one, and a dead one holds nothing.
THEOREM TypeCorrect == Spec => []TypeOK
<1>1. Init => TypeOK
  BY QueueServiceAssumption DEF Init, TypeOK, Msgs, None
<1>2. TypeOK /\ [Next]_vars => TypeOK'
  BY StepTypes
<1> QED
  BY <1>1, <1>2, PTL DEF Spec

-----------------------------------------------------------------------------
(* No event is lost.  DeliveryInv is inductive relative to TypeOK; each step *)
(* touches one connection, so the others keep ConnectionInOrder by the next  *)
(* lemma.                                                                    *)

\* What has been routed downstream stays routed.
NormalizedGrows == \A m : InNormalized(m) => InNormalized(m)'

\* A step that leaves j's connection and its place in the handler alone, and
\* takes nothing back from the normalized queue, keeps j's connection in order.
LEMMA OthersInOrder ==
  ASSUME NEW j \in Instances, ConnectionInOrder(j), NormalizedGrows,
         UNCHANGED <<wire[j], up[j], pc[j], cur[j]>>
  PROVE  ConnectionInOrder(j)'
<1>1. ASSUME NEW m, NEW k, ForwardedBefore(j, m, k)
      PROVE  ForwardedBefore(j, m, k)'
  BY <1>1 DEF ForwardedBefore, NormalizedGrows
<1> QED
  BY <1>1 DEF ConnectionInOrder

\* The frames already on the wire stay in order when i sends another, provided
\* an ack follows its publish and a nack is for a malformed message; after a
\* publish its ack may follow.
LEMMA SendInOrder ==
  ASSUME TypeOK, NEW i \in Instances, NEW op \in {"publish", "ack", "nack"},
         ConnectionInOrder(i), cur[i] \in Msgs, Send(i, op),
         UNCHANGED <<normalized, up>>,
         up[i] /\ op = "ack" => ForwardedBefore(i, cur[i], Len(wire[i]) + 1),
         op = "nack" => cur[i] \in Malformed
  PROVE  /\ ~up'[i] => wire'[i] = <<>>
         /\ \A k \in 1..Len(wire'[i]) :
              /\ wire'[i][k].op = "ack" => ForwardedBefore(i, wire[i][k].msg, k)'
              /\ wire'[i][k].op = "nack" => wire'[i][k].msg \in Malformed
         /\ up[i] /\ op = "publish" =>
              \E j \in 1..Len(wire'[i]) :
                j < Len(wire'[i]) + 1 /\ wire'[i][j].op = "publish"
                                      /\ wire'[i][j].msg = cur[i]
<1> DEFINE e == [op |-> op, msg |-> cur[i]]
<1>1. CASE ~up[i]
  BY <1>1 DEF Send, ConnectionInOrder
<1>2. CASE up[i]
  <2>1. wire[i] \in Seq(Frames) /\ e \in Frames
    BY DEF TypeOK, Frames
  <2>2. wire'[i] = Append(wire[i], e)
    BY <1>2 DEF Send, TypeOK
  <2>3. /\ Len(wire[i]) \in Nat
        /\ Len(wire'[i]) = Len(wire[i]) + 1
        /\ \A k \in 1..Len(wire[i]) : wire'[i][k] = wire[i][k]
        /\ wire'[i][Len(wire[i]) + 1] = e
    BY <2>1, <2>2, AppendFacts
  <2>4. ASSUME NEW m, NEW k \in 1..(Len(wire[i]) + 1), ForwardedBefore(i, m, k)
        PROVE  ForwardedBefore(i, m, k)'
    BY <2>3, <2>4 DEF ForwardedBefore, InNormalized
  <2>5. ASSUME NEW k \in 1..Len(wire'[i])
        PROVE  /\ wire'[i][k].op = "ack" => ForwardedBefore(i, wire[i][k].msg, k)'
               /\ wire'[i][k].op = "nack" => wire'[i][k].msg \in Malformed
    <3>1. CASE k \in 1..Len(wire[i])
      BY <2>3, <2>4, <3>1 DEF ConnectionInOrder
    <3>2. CASE k = Len(wire[i]) + 1
      BY <1>2, <2>3, <2>4, <3>2
    <3> QED
      BY <2>3, <3>1, <3>2
  <2> QED
    BY <1>2, <2>3, <2>5, SMTT(30)
<1> QED
  BY <1>1, <1>2

\* When the broker reads a frame, what was forwarded before the frames behind it
\* still is: the frame at the head is routed if it is a forward.
LEMMA ReadKeepsForwards ==
  ASSUME TypeOK, NEW i \in Instances, BrokerReceive(i)
  PROVE  /\ NormalizedGrows
         /\ \A m : \A k \in 1..Len(wire[i]) :
              ForwardedBefore(i, m, k + 1) => ForwardedBefore(i, m, k)'
<1> DEFINE f == Head(wire[i])
<1>1. /\ wire[i] \in Seq(Frames)
      /\ wire[i] # <<>>
      /\ wire'[i] = Tail(wire[i])
  BY DEF BrokerReceive, TypeOK
<1>2. /\ f \in Frames
      /\ f = wire[i][1]
      /\ Len(wire[i]) \in Nat \ {0}
      /\ Len(wire'[i]) = Len(wire[i]) - 1
      /\ \A k \in 1..(Len(wire[i]) - 1) : wire'[i][k] = wire[i][k + 1]
  BY <1>1, TailFacts
<1>3. normalized \in Seq(Msgs) /\ f.msg \in Msgs
  BY <1>2 DEF TypeOK, Frames
<1>4. /\ NormalizedGrows
      /\ f.op = "publish" => \A m : m = f.msg => InNormalized(m)'
  <2>1. CASE f.op = "publish"
    <3>1. normalized' = Append(normalized, f.msg)
      BY <2>1 DEF BrokerReceive
    <3>2. /\ Len(normalized) \in Nat
          /\ Len(normalized') = Len(normalized) + 1
          /\ \A k \in 1..Len(normalized) : normalized'[k] = normalized[k]
          /\ normalized'[Len(normalized) + 1] = f.msg
      BY <1>3, <3>1, AppendFacts
    <3> QED
      BY <3>2 DEF NormalizedGrows, InNormalized
  <2>2. CASE f.op # "publish"
    BY <2>2 DEF BrokerReceive, NormalizedGrows, InNormalized
  <2> QED
    BY <2>1, <2>2
<1>5. ASSUME NEW m, NEW k \in 1..Len(wire[i]), ForwardedBefore(i, m, k + 1)
      PROVE  ForwardedBefore(i, m, k)'
  <2>1. CASE InNormalized(m)
    BY <1>4, <2>1 DEF NormalizedGrows, ForwardedBefore
  <2>2. CASE \E j \in 1..Len(wire[i]) :
               j < k + 1 /\ wire[i][j].op = "publish" /\ wire[i][j].msg = m
    <3>1. PICK j \in 1..Len(wire[i]) :
                 j < k + 1 /\ wire[i][j].op = "publish" /\ wire[i][j].msg = m
      BY <2>2
    <3>2. CASE j = 1
      BY <1>2, <1>4, <3>1, <3>2 DEF ForwardedBefore
    <3>3. CASE j # 1
      <4>1. j - 1 \in 1..(Len(wire[i]) - 1) /\ j - 1 < k /\ (j - 1) + 1 = j
        BY <1>2, <3>1, <3>3, SMTT(30)
      <4>2. j - 1 \in 1..Len(wire'[i]) /\ wire'[i][j - 1] = wire[i][j]
        BY <1>2, <4>1
      <4> QED
        BY <3>1, <4>1, <4>2 DEF ForwardedBefore
    <3> QED
      BY <3>2, <3>3
  <2> QED
    BY <1>5, <2>1, <2>2 DEF ForwardedBefore
<1> QED
  BY <1>4, <1>5

\* The broker reads the head frame of i's connection: the frames behind it move
\* up, and an ack at the head finds its event already routed.
LEMMA BrokerReceiveInOrder ==
  ASSUME TypeOK, NEW i \in Instances, AcksFollowPublishes, BrokerReceive(i)
  PROVE  AcksFollowPublishes'
<1> DEFINE f == Head(wire[i])
<1>1. /\ wire[i] \in Seq(Frames)
      /\ wire[i] # <<>>
      /\ wire'[i] = Tail(wire[i])
      /\ up[i]
      /\ UNCHANGED <<up, pc, cur>>
      /\ \A j \in Instances \ {i} : wire'[j] = wire[j]
  BY DEF BrokerReceive, TypeOK, serviceVars
<1>2. /\ f \in Frames
      /\ f = wire[i][1]
      /\ Len(wire[i]) \in Nat \ {0}
      /\ Len(wire'[i]) = Len(wire[i]) - 1
      /\ \A k \in 1..(Len(wire[i]) - 1) : wire'[i][k] = wire[i][k + 1]
  BY <1>1, TailFacts
<1>3. NormalizedGrows
  BY ReadKeepsForwards
<1>4. \A m : \A k \in 1..Len(wire[i]) :
        ForwardedBefore(i, m, k + 1) => ForwardedBefore(i, m, k)'
  BY ReadKeepsForwards
<1>5. ConnectionInOrder(i)'
  <2>1. ~up'[i] => wire'[i] = <<>>
    BY <1>1
  <2>2. ASSUME NEW k \in 1..Len(wire'[i])
        PROVE  /\ wire'[i][k].op = "ack" => ForwardedBefore(i, wire[i][k].msg, k)'
               /\ wire'[i][k].op = "nack" => wire'[i][k].msg \in Malformed
    <3>1. /\ k \in 1..Len(wire[i])
          /\ k + 1 \in 1..Len(wire[i])
          /\ wire'[i][k] = wire[i][k + 1]
      BY <1>2
    <3>2. /\ wire[i][k + 1].op = "ack" =>
               ForwardedBefore(i, wire[i][k + 1].msg, k + 1)
          /\ wire[i][k + 1].op = "nack" => wire[i][k + 1].msg \in Malformed
      BY <3>1 DEF AcksFollowPublishes, ConnectionInOrder
    <3> QED
      BY <1>4, <3>1, <3>2
  <2>3. pc'[i] = "nack" => cur'[i] \in Malformed
    BY <1>1 DEF AcksFollowPublishes, ConnectionInOrder
  <2>4. ASSUME pc'[i] = "ack"
        PROVE  ForwardedBefore(i, cur[i], Len(wire[i]) + 1)'
    <3>1. ForwardedBefore(i, cur[i], Len(wire[i]) + 1)
      BY <1>1, <2>4 DEF AcksFollowPublishes, ConnectionInOrder
    <3>2. Len(wire'[i]) + 1 = Len(wire[i])
      BY <1>2
    <3>3. PICK m, n : m = cur[i] /\ n = Len(wire[i])
      OBVIOUS
    <3>4. ForwardedBefore(i, m, n)'
      BY <1>2, <1>4, <3>1, <3>3
    <3> QED
      BY <1>1, <3>2, <3>3, <3>4 DEF ForwardedBefore, InNormalized
  <2> QED
    BY <2>1, <2>2, <2>3, <2>4 DEF ConnectionInOrder
<1>6. \A j \in Instances \ {i} : ConnectionInOrder(j)'
  BY <1>1, <1>3, OthersInOrder DEF AcksFollowPublishes
<1>7. \A m \in acked' : InNormalized(m)'
  <2>1. ASSUME f.op = "ack"
        PROVE  InNormalized(f.msg)
    BY <1>2, <2>1
       DEF AcksFollowPublishes, ConnectionInOrder, ForwardedBefore
  <2>2. acked' = acked \/ (f.op = "ack" /\ acked' = acked \cup {f.msg})
    BY DEF BrokerReceive
  <2> QED
    BY <1>3, <2>1, <2>2 DEF AcksFollowPublishes, NormalizedGrows
<1>8. discarded' \subseteq Malformed
  <2>1. f.op = "nack" => f.msg \in Malformed
    BY <1>2 DEF AcksFollowPublishes, ConnectionInOrder
  <2>2. discarded' = discarded
          \/ (f.op = "nack" /\ discarded' = discarded \cup {f.msg})
    BY DEF BrokerReceive
  <2> QED
    BY <2>1, <2>2 DEF AcksFollowPublishes
<1> QED
  BY <1>5, <1>6, <1>7, <1>8 DEF AcksFollowPublishes

\* A step of instance i that routes nothing, settles nothing, and leaves i's own
\* connection in order.
LEMMA OwnConnectionInOrder ==
  ASSUME TypeOK, NEW i \in Instances, AcksFollowPublishes,
         UNCHANGED <<normalized, acked, discarded>>,
         \A j \in Instances \ {i} : UNCHANGED <<wire[j], up[j], pc[j], cur[j]>>,
         ConnectionInOrder(i)'
  PROVE  AcksFollowPublishes'
<1>1. NormalizedGrows
  BY DEF NormalizedGrows, InNormalized
<1>2. \A j \in Instances : ConnectionInOrder(j)'
  BY <1>1, OthersInOrder DEF AcksFollowPublishes
<1> QED
  BY <1>1, <1>2 DEF AcksFollowPublishes, NormalizedGrows

\* A running instance acks only after it published, on the same connection.
LEMMA ServiceStepInOrder ==
  ASSUME TypeOK, NEW i \in Instances, AcksFollowPublishes, ServiceStep(i)
  PROVE  AcksFollowPublishes'
<1>1. /\ UNCHANGED <<up, normalized, acked, discarded>>
      /\ \A j \in Instances \ {i} : UNCHANGED <<wire[j], up[j], pc[j], cur[j]>>
  BY DEF ServiceStep, TakeDelivery, StreamEnds, InsertDocument, ForwardEvent,
         AckDelivery, NackDelivery, Send, Exit, TypeOK, brokerVars
<1>2. ConnectionInOrder(i)
  BY DEF AcksFollowPublishes
<1> SUFFICES ConnectionInOrder(i)'
  BY <1>1, OwnConnectionInOrder
<1>3. ASSUME UNCHANGED wire, pc'[i] # "ack",
             pc'[i] = "nack" => cur'[i] \in Malformed
      PROVE  ConnectionInOrder(i)'
  BY <1>1, <1>2, <1>3 DEF ConnectionInOrder, ForwardedBefore, InNormalized
<1>4. CASE TakeDelivery(i)
  BY <1>3, <1>4 DEF TakeDelivery, TypeOK
<1>5. CASE StreamEnds(i)
  BY <1>3, <1>5 DEF StreamEnds, Exit, TypeOK
<1>6. CASE InsertDocument(i)
  BY <1>3, <1>6 DEF InsertDocument, TypeOK
<1>7. CASE ForwardEvent(i)
  <2>1. CASE /\ Send(i, "publish")
             /\ pc' = [pc EXCEPT ![i] = "ack"]
             /\ UNCHANGED <<inbox, cur>>
    <3>1. cur[i] \in Msgs
      BY <1>7 DEF ForwardEvent, TypeOK
    <3>2. /\ ~up'[i] => wire'[i] = <<>>
          /\ \A k \in 1..Len(wire'[i]) :
              /\ wire'[i][k].op = "ack" => ForwardedBefore(i, wire[i][k].msg, k)'
              /\ wire'[i][k].op = "nack" => wire'[i][k].msg \in Malformed
          /\ up[i] =>
              \E j \in 1..Len(wire'[i]) :
                j < Len(wire'[i]) + 1 /\ wire'[i][j].op = "publish"
                                      /\ wire'[i][j].msg = cur[i]
      BY <1>1, <1>2, <2>1, <3>1, SendInOrder
    <3>3. pc'[i] = "ack" /\ cur'[i] = cur[i]
      BY <2>1 DEF TypeOK
    <3> QED
      BY <1>1, <3>2, <3>3 DEF ConnectionInOrder, ForwardedBefore
  <2>2. CASE Exit(i) /\ UNCHANGED wire
    BY <1>3, <2>2 DEF Exit, TypeOK
  <2> QED
    BY <1>7, <2>1, <2>2 DEF ForwardEvent
<1>8. CASE AckDelivery(i) \/ NackDelivery(i)
  <2>1. CASE Exit(i) /\ UNCHANGED wire
    BY <1>3, <2>1 DEF Exit, TypeOK
  <2>2. ASSUME NEW op \in {"ack", "nack"}, pc[i] = op, Send(i, op),
               pc' = [pc EXCEPT ![i] = "next"]
        PROVE  ConnectionInOrder(i)'
    <3>1. cur[i] \in Msgs
      BY <2>2 DEF TypeOK
    <3>2. /\ ~up'[i] => wire'[i] = <<>>
          /\ \A k \in 1..Len(wire'[i]) :
              /\ wire'[i][k].op = "ack" => ForwardedBefore(i, wire[i][k].msg, k)'
              /\ wire'[i][k].op = "nack" => wire'[i][k].msg \in Malformed
      BY <1>1, <1>2, <2>2, <3>1, SendInOrder DEF ConnectionInOrder
    <3> QED
      BY <2>2, <3>2 DEF ConnectionInOrder, TypeOK
  <2> QED
    BY <1>8, <2>1, <2>2 DEF AckDelivery, NackDelivery
<1> QED
  BY <1>4, <1>5, <1>6, <1>7, <1>8 DEF ServiceStep

\* Starting, dying and losing or closing a connection leave nothing out of
\* order: what a lost connection loses, it loses whole.
LEMMA FaultStepInOrder ==
  ASSUME TypeOK, NEW i \in Instances, AcksFollowPublishes,
         Start(i) \/ Crash(i) \/ LoseConnection(i) \/ CloseConnection(i)
  PROVE  AcksFollowPublishes'
<1>1. ConnectionInOrder(i)
  BY DEF AcksFollowPublishes
<1>2. /\ UNCHANGED <<normalized, acked, discarded>>
      /\ \A j \in Instances \ {i} : UNCHANGED <<wire[j], up[j], pc[j], cur[j]>>
  BY DEF Start, Crash, Exit, LoseConnection, CloseConnection, DropConnection,
         TypeOK, brokerVars, serviceVars
<1>3. CASE Start(i)
  <2>1. wire'[i] = <<>> /\ pc'[i] = "next"
    BY <1>1, <1>3 DEF Start, ConnectionInOrder, TypeOK
  <2> QED
    BY <1>2, <2>1, OwnConnectionInOrder DEF ConnectionInOrder
<1>4. CASE Crash(i)
  <2>1. UNCHANGED <<wire, up, normalized>> /\ pc'[i] = "down"
    BY <1>4 DEF Crash, Exit, TypeOK, brokerVars
  <2>2. ConnectionInOrder(i)'
    BY <1>1, <2>1 DEF ConnectionInOrder, ForwardedBefore, InNormalized
  <2> QED
    BY <1>2, <2>2, OwnConnectionInOrder
<1>5. CASE LoseConnection(i) \/ CloseConnection(i)
  <2>1. wire'[i] = <<>> /\ ~up'[i] /\ UNCHANGED <<pc, cur>>
    BY <1>5
       DEF LoseConnection, CloseConnection, DropConnection, TypeOK, serviceVars
  <2> QED
    BY <1>1, <1>2, <2>1, OwnConnectionInOrder DEF ConnectionInOrder
<1> QED
  BY <1>3, <1>4, <1>5

-----------------------------------------------------------------------------
\* No step lets a published message escape.
LEMMA AccountedStep ==
  ASSUME TypeOK, Accounted, [Next]_vars
  PROVE  Accounted'
<1> DEFINE held == UNION {unacked[i] : i \in Instances}
           known == raw \cup held \cup acked \cup discarded
<1>1. Accounted <=> 1..published \subseteq known
  BY DEF Accounted
<1>2. Accounted' <=> 1..published' \subseteq known'
  BY DEF Accounted
<1>3. CASE Publish
  <2>1. published \in Nat
    BY QueueServiceAssumption DEF TypeOK
  <2>2. /\ published' = published + 1
        /\ raw' = raw \cup {published + 1}
        /\ UNCHANGED <<unacked, acked, discarded>>
    BY <1>3 DEF Publish
  <2>3. known' = known \cup {published + 1}
    BY <2>2
  <2> HIDE DEF known
  <2>4. \A m \in 1..(published + 1) : m \in 1..published \/ m = published + 1
    BY <2>1
  <2> QED
    BY <1>1, <1>2, <2>2, <2>3, <2>4
<1>4. ASSUME NEW i \in Instances, Deliver(i)
      PROVE  known \subseteq known' /\ UNCHANGED published
  <2>1. PICK m \in raw : /\ raw' = raw \ {m}
                         /\ unacked' = [unacked EXCEPT ![i] = @ \cup {m}]
    BY <1>4 DEF Deliver
  <2>2. raw \cup held \subseteq raw' \cup held'
    BY <2>1 DEF TypeOK
  <2>3. UNCHANGED <<published, acked, discarded>>
    BY <1>4 DEF Deliver
  <2> QED
    BY <2>2, <2>3
<1>5. ASSUME NEW i \in Instances, BrokerReceive(i)
      PROVE  known \subseteq known' /\ UNCHANGED published
  <2> DEFINE f == Head(wire[i])
  <2>1. UNCHANGED <<published, raw>>
    BY <1>5 DEF BrokerReceive
  <2>2. held \cup acked \cup discarded
          \subseteq held' \cup acked' \cup discarded'
    BY <1>5 DEF BrokerReceive, TypeOK
  <2> QED
    BY <2>1, <2>2
<1>6. ASSUME NEW i \in Instances, Start(i) \/ ServiceStep(i) \/ Crash(i)
      PROVE  known \subseteq known' /\ UNCHANGED published
  BY <1>6
     DEF Start, ServiceStep, TakeDelivery, StreamEnds,
         InsertDocument, ForwardEvent, AckDelivery, NackDelivery, Crash,
         brokerVars
<1>7. ASSUME NEW i \in Instances, LoseConnection(i) \/ CloseConnection(i)
      PROVE  known \subseteq known' /\ UNCHANGED published
  <2>1. DropConnection(i)
    BY <1>7 DEF LoseConnection, CloseConnection
  <2>2. raw \cup held \subseteq raw' \cup held'
    BY <2>1 DEF DropConnection, TypeOK
  <2> QED
    BY <2>1, <2>2 DEF DropConnection
<1>8. CASE UNCHANGED vars
  BY <1>8 DEF vars, Accounted
<1> HIDE DEF known
<1> QED
  BY <1>1, <1>2, <1>3, <1>4, <1>5, <1>6, <1>7, <1>8 DEF Next

\* Every step keeps acks behind their publishes.
LEMMA AcksFollowPublishesStep ==
  ASSUME TypeOK, AcksFollowPublishes, [Next]_vars
  PROVE  AcksFollowPublishes'
<1>1. ASSUME UNCHANGED <<up, wire, normalized, acked, discarded, pc, cur>>
      PROVE  AcksFollowPublishes'
  BY <1>1 DEF AcksFollowPublishes, ConnectionInOrder, ForwardedBefore,
              InNormalized
<1>2. CASE Publish
  BY <1>1, <1>2 DEF Publish, serviceVars
<1>3. CASE \E i \in Instances : Deliver(i)
  BY <1>1, <1>3 DEF Deliver
<1>4. CASE \E i \in Instances : BrokerReceive(i)
  BY <1>4, BrokerReceiveInOrder
<1>5. CASE \E i \in Instances : ServiceStep(i)
  BY <1>5, ServiceStepInOrder
<1>6. CASE \E i \in Instances :
             Start(i) \/ Crash(i) \/ LoseConnection(i) \/ CloseConnection(i)
  BY <1>6, FaultStepInOrder
<1>7. CASE UNCHANGED vars
  BY <1>1, <1>7 DEF vars
<1> QED
  BY <1>2, <1>3, <1>4, <1>5, <1>6, <1>7 DEF Next

\* Every published message stays accounted for, and none is counted done before
\* its event is downstream.
THEOREM DeliveryInvHolds == Spec => []DeliveryInv
<1>1. Init => DeliveryInv
  BY DEF Init, DeliveryInv, Accounted, AcksFollowPublishes, ConnectionInOrder
<1>2. TypeOK /\ DeliveryInv /\ [Next]_vars => DeliveryInv'
  BY AccountedStep, AcksFollowPublishesStep DEF DeliveryInv
<1> QED
  BY <1>1, <1>2, TypeCorrect, PTL DEF Spec

\* Whatever crashes, lost connections and redeliveries happen, a well-formed
\* event that was published waits on the raw queue, is in some instance's
\* hands, or was routed to device.events.normalized.
THEOREM NoEventIsLost == Spec => []NoEventLost
<1>1. DeliveryInv => NoEventLost
  <2> SUFFICES ASSUME DeliveryInv, NEW m \in 1..published \ Malformed,
                      m \notin raw, \A i \in Instances : m \notin unacked[i]
               PROVE  InNormalized(m)
    BY DEF NoEventLost
  <2>1. m \in acked \cup discarded
    BY DEF DeliveryInv, Accounted
  <2> QED
    BY <2>1 DEF DeliveryInv, AcksFollowPublishes
<1> QED
  BY <1>1, DeliveryInvHolds, PTL

-----------------------------------------------------------------------------
(* Every delivery has one holder.                                          *)

\* What a connection carries when another frame is written to it.
LEMMA WriteFacts ==
  ASSUME NEW w \in Seq(Frames), NEW e \in Frames, InTurn(w),
         e.msg \notin Sent(w, {"ack", "nack"}),
         e.op = "publish" => e.msg \notin Sent(w, {"publish"})
  PROVE  /\ InTurn(Append(w, e))
         /\ \A ops : Sent(Append(w, e), ops)
                       = Sent(w, ops) \cup (IF e.op \in ops THEN {e.msg} ELSE {})
<1> DEFINE v == Append(w, e)
<1>1. /\ Len(w) \in Nat /\ Len(v) = Len(w) + 1
      /\ \A k \in 1..Len(w) : v[k] = w[k]
      /\ v[Len(w) + 1] = e
  BY AppendFacts
<1>2. /\ \A k \in 1..Len(v) : k \in 1..Len(w) \/ k = Len(w) + 1
      /\ \A k \in 1..Len(w) : k \in 1..Len(v) /\ k < Len(w) + 1
      /\ Len(w) + 1 \in 1..Len(v)
      /\ \A k \in 1..Len(v) : ~(Len(w) + 1 < k)
  BY <1>1
<1>3. e.msg \in Msgs /\ e.op \in {"publish", "ack", "nack"}
  BY DEF Frames
<1>4. \A k \in 1..Len(w) : w[k].op \in {"publish", "ack", "nack"}
  <2>1. \A k \in 1..Len(w) : w[k] \in Frames
    BY <1>1, LenProperties
  <2> QED
    BY <2>1 DEF Frames
<1> HIDE DEF v
<1>5. ASSUME NEW j \in 1..Len(v), NEW k \in 1..Len(v), j < k, v[j].msg = v[k].msg
      PROVE  v[j].op = "publish" /\ v[k].op # "publish"
  <2>1. j \in 1..Len(w)
    BY <1>2, <1>5
  <2>2. CASE k \in 1..Len(w)
    BY <1>1, <1>5, <2>1, <2>2 DEF InTurn
  <2>3. CASE k = Len(w) + 1
    <3>1. w[j].msg = e.msg /\ v[j] = w[j] /\ v[k] = e
      BY <1>1, <1>5, <2>1, <2>3
    <3> QED
      BY <1>3, <1>4, <2>1, <3>1 DEF Sent
  <2> QED
    BY <1>2, <2>2, <2>3
<1>6. InTurn(v)
  BY <1>5 DEF InTurn
<1>7. ASSUME NEW ops
      PROVE  Sent(v, ops) = Sent(w, ops) \cup (IF e.op \in ops THEN {e.msg} ELSE {})
  BY <1>1, <1>2, <1>3 DEF Sent
<1> QED
  BY <1>6, <1>7 DEF v

\* What it carries when its first frame has been read.
LEMMA ReadFacts ==
  ASSUME NEW w \in Seq(Frames), w # <<>>, InTurn(w)
  PROVE  /\ InTurn(Tail(w))
         /\ Head(w).msg \in Msgs /\ Head(w).op \in {"publish", "ack", "nack"}
         /\ \A ops : Sent(w, ops)
                       = Sent(Tail(w), ops)
                           \cup (IF Head(w).op \in ops THEN {Head(w).msg} ELSE {})
         /\ Head(w).msg \notin Sent(Tail(w), {"publish"})
         /\ Head(w).op # "publish" => Head(w).msg \notin Sent(Tail(w), {"ack", "nack"})
<1> DEFINE f == Head(w)
           v == Tail(w)
<1>1. /\ f \in Frames /\ f = w[1]
      /\ Len(w) \in Nat \ {0} /\ Len(v) = Len(w) - 1
      /\ \A k \in 1..(Len(w) - 1) : v[k] = w[k + 1]
  BY TailFacts
<1>2. /\ \A k \in 1..Len(v) : k + 1 \in 1..Len(w) /\ 1 < k + 1
      /\ 1 \in 1..Len(w)
      /\ \A k \in 1..Len(w) : k = 1 \/ (k - 1 \in 1..Len(v) /\ k = (k - 1) + 1)
      /\ \A j, k \in 1..Len(v) : j < k => j + 1 < k + 1
  BY <1>1
<1>3. \A k \in 1..Len(v) : v[k] = w[k + 1]
  BY <1>1
<1>4. f.msg \in Msgs /\ f.op \in {"publish", "ack", "nack"}
  BY <1>1 DEF Frames
<1> HIDE DEF f, v
<1>5. InTurn(v)
  <2> SUFFICES ASSUME NEW j \in 1..Len(v), NEW k \in 1..Len(v), j < k, v[j].msg = v[k].msg
               PROVE  v[j].op = "publish" /\ v[k].op # "publish"
    BY DEF InTurn
  <2>1. j + 1 \in 1..Len(w) /\ k + 1 \in 1..Len(w) /\ j + 1 < k + 1
    BY <1>2
  <2>2. v[j] = w[j + 1] /\ v[k] = w[k + 1]
    BY <1>3
  <2> QED
    BY <2>1, <2>2 DEF InTurn
<1>6. ASSUME NEW ops
      PROVE  Sent(w, ops) = Sent(v, ops) \cup (IF f.op \in ops THEN {f.msg} ELSE {})
  <2>1. ASSUME NEW m \in Sent(v, ops)
        PROVE  m \in Sent(w, ops)
    <3>1. PICK k \in 1..Len(v) : v[k].op \in ops /\ v[k].msg = m /\ m \in Msgs
      BY DEF Sent
    <3> QED
      BY <1>2, <1>3, <3>1 DEF Sent
  <2>2. ASSUME NEW m \in Sent(w, ops)
        PROVE  m \in Sent(v, ops) \cup (IF f.op \in ops THEN {f.msg} ELSE {})
    <3>1. PICK k \in 1..Len(w) : w[k].op \in ops /\ w[k].msg = m /\ m \in Msgs
      BY DEF Sent
    <3>2. CASE k = 1
      BY <1>1, <3>1, <3>2
    <3>3. CASE k # 1
      <4>1. k - 1 \in 1..Len(v) /\ k = (k - 1) + 1
        BY <1>2, <3>3
      <4>2. v[k - 1] = w[k]
        BY <1>3, <4>1
      <4> QED
        BY <3>1, <4>1, <4>2 DEF Sent
    <3> QED
      BY <3>2, <3>3
  <2>3. f.op \in ops => f.msg \in Sent(w, ops)
    BY <1>1, <1>2, <1>4 DEF Sent
  <2> QED
    BY <2>1, <2>2, <2>3
<1>7. ASSUME NEW k \in 1..Len(v), v[k].msg = f.msg
      PROVE  f.op = "publish" /\ v[k].op # "publish"
  <2>1. k + 1 \in 1..Len(w) /\ 1 < k + 1 /\ w[k + 1].msg = w[1].msg /\ 1 \in 1..Len(w)
    BY <1>1, <1>2, <1>3, <1>7
  <2> QED
    BY <1>1, <1>3, <2>1 DEF InTurn
<1>8. /\ f.msg \notin Sent(v, {"publish"})
      /\ f.op # "publish" => f.msg \notin Sent(v, {"ack", "nack"})
  BY <1>7 DEF Sent
<1> QED
  BY <1>4, <1>5, <1>6, <1>8 DEF f, v

\* Nothing is on an empty connection.
LEMMA NothingSent == InTurn(<<>>) /\ \A ops : Sent(<<>>, ops) = {}
  BY DEF InTurn, Sent

-----------------------------------------------------------------------------
(* A step touches one instance's deliveries.                               *)

\* An instance that is left alone holds what it held.
LEMMA OthersHold ==
  ASSUME NEW j \in Instances, Holding(j), 1..published \subseteq 1..published',
         UNCHANGED <<unacked[j], up[j], wire[j], inbox[j], pc[j], cur[j]>>
  PROVE  Holding(j)'
  BY DEF Holding, InHand, Settling, Forwarding

\* A step of instance i that moves nothing at the broker: only i's own deliveries
\* can be disturbed.
LEMMA OwnHolding ==
  ASSUME HolderInv, NEW i \in Instances,
         UNCHANGED <<published, raw, unacked, acked, discarded, normalized, mongo>>,
         \A j \in Instances \ {i} :
           UNCHANGED <<up[j], wire[j], inbox[j], pc[j], cur[j]>>,
         Holding(i)'
  PROVE  HolderInv'
<1>1. \A j \in Instances : Holding(j)'
  BY OthersHold DEF HolderInv
<1>2. PublishedOnly' /\ OneHolder'
  BY DEF HolderInv, PublishedOnly, OneHolder
<1> QED
  BY <1>1, <1>2 DEF HolderInv

\* A published message is new everywhere.
LEMMA PublishHolds ==
  ASSUME TypeOK, HolderInv, Publish
  PROVE  /\ HolderInv'
         /\ published + 1 \in Msgs /\ published + 1 \notin 1..published
<1>1. /\ published \in Nat /\ published < MaxPublished
      /\ published' = published + 1 /\ raw' = raw \cup {published + 1}
      /\ UNCHANGED <<unacked, up, wire, normalized, acked, discarded, inbox, pc,
                     cur, mongo>>
  BY QueueServiceAssumption DEF Publish, TypeOK, serviceVars
<1>2. /\ published + 1 \in Msgs /\ published + 1 \notin 1..published
      /\ 1..published \subseteq 1..published' /\ published + 1 \in 1..published'
  BY <1>1, QueueServiceAssumption DEF Msgs
<1>3. PublishedOnly'
  BY <1>1, <1>2 DEF HolderInv, PublishedOnly
<1>4. OneHolder'
  <2>1. /\ published + 1 \notin acked \cup discarded
        /\ \A i \in Instances : published + 1 \notin unacked[i]
    BY <1>2 DEF HolderInv, PublishedOnly, Holding
  <2> QED
    BY <1>1, <2>1 DEF HolderInv, OneHolder
<1>5. \A i \in Instances : Holding(i)'
  BY <1>1, <1>2, OthersHold DEF HolderInv
<1> QED
  BY <1>2, <1>3, <1>4, <1>5 DEF HolderInv

\* A message that is delivered was nobody's, and is the instance's alone.
LEMMA DeliverHolds ==
  ASSUME TypeOK, HolderInv, NEW i \in Instances, Deliver(i)
  PROVE  /\ HolderInv'
         /\ \E m \in raw :
              /\ raw' = raw \ {m} /\ unacked'[i] = unacked[i] \cup {m} /\ up[i]
              /\ \A j \in Instances \ {i} : UNCHANGED <<unacked[j], inbox[j]>>
              /\ Range(inbox'[i]) = Range(inbox[i]) \cup (IF pc[i] = "down" THEN {} ELSE {m})
              /\ pc[i] # "down" => m \notin Range(inbox[i]) \cup InHand(i)
<1>1. PICK m \in raw : /\ raw' = raw \ {m}
                       /\ unacked' = [unacked EXCEPT ![i] = @ \cup {m}]
                       /\ inbox' = IF pc[i] = "down"
                                   THEN inbox
                                   ELSE [inbox EXCEPT ![i] = Append(@, m)]
  BY DEF Deliver
<1>2. /\ up[i]
      /\ UNCHANGED <<published, up, wire, normalized, acked, discarded, pc, cur, mongo>>
      /\ unacked'[i] = unacked[i] \cup {m}
      /\ inbox'[i] = IF pc[i] = "down" THEN inbox[i] ELSE Append(inbox[i], m)
      /\ \A j \in Instances \ {i} : UNCHANGED <<unacked[j], inbox[j]>>
  BY <1>1 DEF Deliver, TypeOK
<1>3. m \in Msgs /\ inbox[i] \in Seq(Msgs) /\ m \in 1..published
  BY DEF TypeOK, HolderInv, PublishedOnly
<1>4. /\ Holding(i)
      /\ m \notin acked \cup discarded
      /\ \A j \in Instances : m \notin unacked[j]
  BY DEF HolderInv, OneHolder
<1>5. m \notin Range(inbox[i]) \cup InHand(i) \cup Settling(i) \cup Forwarding(i)
  BY <1>2, <1>4 DEF Holding
<1>6. /\ Range(inbox'[i]) = Range(inbox[i]) \cup (IF pc[i] = "down" THEN {} ELSE {m})
      /\ IsInjective(inbox'[i])
  BY <1>2, <1>3, <1>4, <1>5, AppendFacts DEF Holding
<1>7. UNCHANGED <<Settling(i), Forwarding(i), InHand(i)>>
  BY <1>2 DEF Settling, Forwarding, InHand
<1>8. cur[i] # m
  BY <1>3, <1>5, QueueServiceAssumption DEF InHand, None, Msgs
<1>9. Holding(i)'
  BY <1>2, <1>3, <1>4, <1>5, <1>6, <1>7, <1>8 DEF Holding
<1>10. \A j \in Instances : Holding(j)'
  BY <1>2, <1>9, OthersHold DEF HolderInv
<1>11. PublishedOnly'
  BY <1>1, <1>2 DEF HolderInv, PublishedOnly
<1>12. OneHolder'
  <2>1. \A j \in Instances : unacked'[j] = unacked[j] \/ (j = i /\ unacked'[j] = unacked[j] \cup {m})
    BY <1>2
  <2> QED
    BY <1>1, <1>2, <1>4, <2>1 DEF HolderInv, OneHolder
<1> QED
  BY <1>1, <1>2, <1>5, <1>6, <1>10, <1>11, <1>12 DEF HolderInv

\* The broker reads a frame: what it settles was i's alone, and what it forwards is.
LEMMA ReceiveHolds ==
  ASSUME TypeOK, HolderInv, NEW i \in Instances, BrokerReceive(i)
  PROVE  /\ HolderInv'
         /\ \E m \in unacked[i] :
              /\ m \in Msgs /\ up[i]
              /\ UNCHANGED <<published, raw, up, inbox, pc, cur, mongo, faults>>
              /\ \A j \in Instances \ {i} : UNCHANGED <<unacked[j], Forwarding(j)>>
              /\ \/ /\ m \in Forwarding(i) /\ Forwarding(i)' = Forwarding(i) \ {m}
                    /\ normalized' = Append(normalized, m) /\ m \notin Malformed
                    /\ UNCHANGED <<unacked, acked, discarded>>
                 \/ /\ Forwarding(i)' = Forwarding(i) /\ m \notin Range(inbox[i]) \cup InHand(i)
                    /\ unacked'[i] = unacked[i] \ {m} /\ normalized' = normalized
                    /\ acked' \cup discarded' = acked \cup discarded \cup {m}
                    /\ \/ wire[i][1].op = "ack" /\ wire[i][1].msg = m /\ wire[i] # <<>>
                       \/ wire[i][1].op = "nack" /\ wire[i][1].msg = m /\ wire[i] # <<>>
<1> DEFINE f == Head(wire[i])
           m == f.msg
<1>1. /\ up[i] /\ wire[i] # <<>> /\ wire[i] \in Seq(Frames) /\ wire'[i] = Tail(wire[i])
      /\ \A j \in Instances \ {i} : UNCHANGED <<wire[j], unacked[j]>>
      /\ UNCHANGED <<published, raw, up, inbox, pc, cur, mongo, faults>>
  BY DEF BrokerReceive, TypeOK, serviceVars
<1>2. Holding(i)
  BY DEF HolderInv
<1>3. /\ InTurn(wire'[i]) /\ f = wire[i][1]
      /\ m \in Msgs /\ f.op \in {"publish", "ack", "nack"}
      /\ \A ops : Sent(wire[i], ops) = Sent(wire'[i], ops) \cup (IF f.op \in ops THEN {m} ELSE {})
      /\ m \notin Sent(wire'[i], {"publish"})
      /\ f.op # "publish" => m \notin Sent(wire'[i], {"ack", "nack"})
  BY <1>1, <1>2, ReadFacts, TailFacts DEF Holding
<1>4. /\ Forwarding(i) = Forwarding(i)' \cup (IF f.op = "publish" THEN {m} ELSE {})
      /\ Settling(i) = Settling(i)' \cup (IF f.op # "publish" THEN {m} ELSE {})
      /\ m \notin Forwarding(i)' /\ (f.op # "publish" => m \notin Settling(i)')
  BY <1>3 DEF Forwarding, Settling
<1>5. /\ f.op = "publish" /\ normalized' = Append(normalized, m)
           /\ UNCHANGED <<unacked, acked, discarded>>
      \/ /\ f.op # "publish" /\ normalized' = normalized
         /\ unacked'[i] = unacked[i] \ {m}
         /\ acked' \cup discarded' = acked \cup discarded \cup {m}
  BY DEF BrokerReceive, TypeOK
<1> HIDE DEF f
<1>6. m \in unacked[i] /\ m \in 1..published
  BY <1>1, <1>2, <1>4 DEF Holding
<1>7. UNCHANGED InHand(i)
  BY <1>1 DEF InHand
<1>8. f.op # "publish" => m \notin Range(inbox[i]) \cup InHand(i)
  BY <1>2, <1>4 DEF Holding, InHand
<1>9. Holding(i)'
  <2>1. CASE f.op = "publish"
    <3>1. unacked'[i] = unacked[i]
      BY <1>5, <2>1
    <3> QED
      BY <1>1, <1>2, <1>3, <1>4, <1>7, <2>1, <3>1 DEF Holding
  <2>2. CASE f.op # "publish"
    <3>1. unacked'[i] = unacked[i] \ {m}
      BY <1>5, <2>2
    <3> QED
      BY <1>1, <1>2, <1>3, <1>4, <1>7, <1>8, <2>2, <3>1 DEF Holding
  <2> QED
    BY <2>1, <2>2
<1>10. \A j \in Instances : Holding(j)'
  BY <1>1, <1>9, OthersHold DEF HolderInv
<1>11. PublishedOnly'
  <2>1. normalized \in Seq(Msgs)
    BY DEF TypeOK
  <2> HIDE DEF m
  <2>2. Range(Append(normalized, m)) = Range(normalized) \cup {m}
    BY <1>3, <2>1, AppendFacts
  <2>3. normalized' = normalized \/ normalized' = Append(normalized, m)
    BY <1>5
  <2>4. Range(normalized') \subseteq 1..published
    BY <1>6, <2>2, <2>3 DEF HolderInv, PublishedOnly
  <2> QED
    BY <1>1, <1>5, <1>6, <2>4 DEF HolderInv, PublishedOnly
<1>12. OneHolder'
  <2>1. CASE f.op = "publish"
    BY <1>1, <1>5, <2>1 DEF HolderInv, OneHolder
  <2>2. CASE f.op # "publish"
    <3>1. \A j \in Instances : unacked'[j] = unacked[j] \/ (j = i /\ unacked'[j] = unacked[j] \ {m})
      BY <1>1, <1>5, <2>2
    <3>2. m \notin raw /\ \A j \in Instances \ {i} : m \notin unacked[j]
      BY <1>6 DEF HolderInv, OneHolder
    <3> QED
      BY <1>1, <1>5, <1>6, <2>2, <3>1, <3>2 DEF HolderInv, OneHolder
  <2> QED
    BY <2>1, <2>2
<1>13. /\ \A j \in Instances \ {i} : UNCHANGED Forwarding(j)
       /\ f.op = "publish" => m \notin Malformed
       /\ f.op = "publish" => m \in Forwarding(i) /\ Forwarding(i)' = Forwarding(i) \ {m}
       /\ f.op # "publish" => Forwarding(i)' = Forwarding(i)
  BY <1>1, <1>2, <1>4, ZenonT(30) DEF Forwarding, Holding
<1>14. HolderInv'
  BY <1>10, <1>11, <1>12 DEF HolderInv
<1> HIDE DEF m
<1>15. CASE f.op = "publish"
  BY <1>1, <1>3, <1>5, <1>6, <1>13, <1>14, <1>15
<1>16. CASE f.op # "publish"
  <2>1. wire[i][1].msg = m
    BY <1>3 DEF m
  <2> QED
    BY <1>1, <1>3, <1>5, <1>6, <1>8, <1>13, <1>14, <1>16, <2>1
<1> QED
  BY <1>15, <1>16

\* A connection that is gone returns its deliveries to the queue.
LEMMA DropHolds ==
  ASSUME TypeOK, HolderInv, NEW i \in Instances, DropConnection(i),
         UNCHANGED serviceVars
  PROVE  HolderInv'
<1>1. /\ ~up'[i] /\ wire'[i] = <<>> /\ unacked'[i] = {}
      /\ raw' = raw \cup unacked[i]
      /\ \A j \in Instances \ {i} : UNCHANGED <<up[j], wire[j], unacked[j]>>
      /\ UNCHANGED <<published, normalized, acked, discarded, mongo, inbox, pc, cur>>
  BY DEF DropConnection, TypeOK, serviceVars
<1>2. Settling(i)' = {} /\ Forwarding(i)' = {} /\ InTurn(wire'[i]) /\ InHand(i)' = InHand(i)
  BY <1>1, NothingSent DEF Settling, Forwarding, InHand
<1>3. Holding(i)'
  BY <1>1, <1>2 DEF HolderInv, Holding
<1>4. \A j \in Instances : Holding(j)'
  BY <1>1, <1>3, OthersHold DEF HolderInv
<1>5. PublishedOnly'
  BY <1>1 DEF HolderInv, PublishedOnly, Holding
<1>6. OneHolder'
  <2>1. \A j \in Instances : unacked'[j] = IF j = i THEN {} ELSE unacked[j]
    BY <1>1
  <2> QED
    BY <1>1, <2>1 DEF HolderInv, OneHolder
<1> QED
  BY <1>4, <1>5, <1>6 DEF HolderInv

\* A process that ends leaves behind what it wrote.
LEMMA ExitHolds ==
  ASSUME TypeOK, HolderInv, NEW i \in Instances, Exit(i),
         UNCHANGED <<published, brokerVars, up, wire, mongo>>
  PROVE  HolderInv'
<1>1. /\ pc'[i] = "down" /\ cur'[i] = None /\ inbox'[i] = <<>>
      /\ \A j \in Instances \ {i} : UNCHANGED <<pc[j], cur[j], inbox[j]>>
      /\ UNCHANGED <<published, raw, unacked, acked, discarded, normalized, up, wire, mongo>>
  BY DEF Exit, TypeOK, brokerVars
<1>2. /\ UNCHANGED <<Settling(i), Forwarding(i)>> /\ InHand(i)' = {}
      /\ Range(inbox'[i]) = {} /\ IsInjective(inbox'[i])
  BY <1>1, EmptyFacts DEF Settling, Forwarding, InHand
<1>3. None \notin Msgs /\ Settling(i) \subseteq Msgs
  BY DEF None, Msgs, Settling, Sent
<1>4. Holding(i)'
  BY <1>1, <1>2, <1>3 DEF HolderInv, Holding
<1> QED
  BY <1>1, <1>4, OwnHolding

\* A step of the handler that writes nothing.
LEMMA HandlerHolds ==
  ASSUME TypeOK, HolderInv, NEW i \in Instances,
         Start(i) \/ TakeDelivery(i) \/ InsertDocument(i)
  PROVE  HolderInv'
<1>1. Holding(i) /\ inbox[i] \in Seq(Msgs) /\ None \notin Msgs
  BY DEF HolderInv, TypeOK, None, Msgs
<1>2. CASE Start(i)
  <2>1. /\ cur[i] = None /\ inbox[i] = <<>> /\ wire[i] = <<>> /\ unacked[i] = {}
        /\ \A j \in Instances \ {i} : UNCHANGED <<up[j], pc[j]>>
        /\ UNCHANGED <<published, raw, unacked, acked, discarded, normalized, wire,
                       inbox, cur, mongo>>
        /\ up'[i] /\ pc'[i] = "next"
    BY <1>1, <1>2 DEF Start, TypeOK, Holding, brokerVars
  <2>2. /\ Settling(i)' = {} /\ Forwarding(i)' = {} /\ InHand(i)' = {}
        /\ Range(inbox'[i]) = {} /\ IsInjective(inbox'[i]) /\ InTurn(wire'[i])
    BY <2>1, EmptyFacts, NothingSent DEF Settling, Forwarding, InHand
  <2>3. Holding(i)'
    BY <2>1, <2>2 DEF Holding
  <2> QED
    BY <2>1, <2>3, OwnHolding
<1>3. CASE TakeDelivery(i)
  <2> DEFINE m == Head(inbox[i])
  <2>1. /\ inbox[i] # <<>> /\ inbox'[i] = Tail(inbox[i]) /\ cur[i] = None /\ cur'[i] = m
        /\ pc'[i] = IF m \in Malformed THEN "nack" ELSE "insert"
        /\ \A j \in Instances \ {i} : UNCHANGED <<inbox[j], pc[j], cur[j]>>
        /\ UNCHANGED <<published, raw, unacked, acked, discarded, normalized, up, wire, mongo>>
    BY <1>3 DEF TakeDelivery, TypeOK, brokerVars
  <2>2. /\ Range(inbox[i]) = {m} \cup Range(inbox'[i])
        /\ IsInjective(inbox'[i]) /\ m \notin Range(inbox'[i]) /\ m \in Msgs
    BY <1>1, <2>1, TailFacts DEF Holding
  <2>3. UNCHANGED <<Settling(i), Forwarding(i)>> /\ InHand(i)' \subseteq {m}
    BY <2>1 DEF Settling, Forwarding, InHand
  <2> HIDE DEF m
  <2>4. Holding(i)'
    BY <1>1, <2>1, <2>2, <2>3 DEF Holding
  <2> QED
    BY <2>1, <2>4, OwnHolding
<1>4. CASE InsertDocument(i)
  <2>1. /\ pc[i] = "insert" /\ pc'[i] = "forward"
        /\ \A j \in Instances \ {i} : UNCHANGED pc[j]
        /\ UNCHANGED <<published, raw, unacked, acked, discarded, normalized, up, wire,
                       inbox, cur>>
    BY <1>4 DEF InsertDocument, TypeOK, brokerVars
  <2>2. UNCHANGED <<Settling(i), Forwarding(i), InHand(i)>>
    BY <2>1 DEF Settling, Forwarding, InHand
  <2>3. Holding(i)'
    BY <1>1, <2>1, <2>2 DEF Holding
  <2>4. \A j \in Instances : Holding(j)'
    BY <2>1, <2>3, OthersHold DEF HolderInv
  <2>5. \A m \in Msgs : mongo'[m] = mongo[m] \/ m \in InHand(i)
    BY <1>4, <2>1, <1>1 DEF InsertDocument, TypeOK, InHand
  <2>6. PublishedOnly' /\ OneHolder'
    BY <1>1, <2>1, <2>5 DEF HolderInv, PublishedOnly, OneHolder, Holding
  <2> QED
    BY <2>4, <2>6 DEF HolderInv
<1> QED
  BY <1>2, <1>3, <1>4

\* What instance i writes about the delivery in its hand, on a live connection; on a
\* dead one nothing is written.
LEMMA SendFacts ==
  ASSUME TypeOK, HolderInv, NEW i \in Instances, NEW op \in {"publish", "ack", "nack"},
         cur[i] \in Msgs, Send(i, op),
         op = "publish" => cur[i] \notin Forwarding(i)
  PROVE  /\ \A j \in Instances \ {i} : wire'[j] = wire[j]
         /\ up[i] =>
              /\ InTurn(wire'[i])
              /\ \A ops : Sent(wire'[i], ops)
                            = Sent(wire[i], ops) \cup (IF op \in ops THEN {cur[i]} ELSE {})
         /\ ~up[i] => wire'[i] = wire[i]
<1> DEFINE e == [op |-> op, msg |-> cur[i]]
<1>1. wire[i] \in Seq(Frames) /\ e \in Frames /\ e.op = op /\ e.msg = cur[i]
  BY DEF TypeOK, Frames
<1>2. wire' = IF up[i] THEN [wire EXCEPT ![i] = Append(@, e)] ELSE wire
  BY DEF Send
<1>3. /\ InTurn(wire[i]) /\ cur[i] \notin Sent(wire[i], {"ack", "nack"})
      /\ op = "publish" => cur[i] \notin Sent(wire[i], {"publish"})
  BY DEF HolderInv, Holding, Settling, Forwarding
<1>4. up[i] => wire'[i] = Append(wire[i], e)
  BY <1>2 DEF TypeOK
<1>5. ~up[i] => wire'[i] = wire[i]
  BY <1>2
<1>6. \A j \in Instances \ {i} : wire'[j] = wire[j]
  BY <1>2 DEF TypeOK
<1> HIDE DEF e
<1>7. /\ InTurn(Append(wire[i], e))
      /\ \A ops : Sent(Append(wire[i], e), ops)
                    = Sent(wire[i], ops) \cup (IF e.op \in ops THEN {e.msg} ELSE {})
  BY <1>1, <1>3, WriteFacts
<1> QED
  BY <1>1, <1>4, <1>5, <1>6, <1>7

\* The forward of an event in hand is the first on its connection.
LEMMA ForwardHolds ==
  ASSUME TypeOK, HolderInv, NEW i \in Instances, ForwardEvent(i),
         Send(i, "publish"), pc' = [pc EXCEPT ![i] = "ack"], UNCHANGED <<inbox, cur>>
  PROVE  /\ HolderInv'
         /\ cur[i] \in Msgs
         /\ Forwarding(i)' = Forwarding(i) \cup (IF up[i] THEN {cur[i]} ELSE {})
         /\ \A j \in Instances \ {i} : UNCHANGED Forwarding(j)
<1>1. /\ pc[i] = "forward" /\ cur[i] \in Msgs /\ pc'[i] = "ack"
      /\ UNCHANGED <<published, raw, unacked, acked, discarded, normalized, up,
                     inbox, cur, mongo>>
      /\ \A j \in Instances \ {i} : UNCHANGED pc[j]
  BY DEF ForwardEvent, TypeOK, brokerVars
<1>2. Holding(i)
  BY DEF HolderInv
<1>3. cur[i] \notin Forwarding(i) /\ cur[i] \notin Malformed
  BY <1>1, <1>2 DEF Holding
<1>4. /\ \A j \in Instances \ {i} : wire'[j] = wire[j]
      /\ up[i] =>
           /\ InTurn(wire'[i])
           /\ \A ops : Sent(wire'[i], ops)
                         = Sent(wire[i], ops) \cup (IF "publish" \in ops THEN {cur[i]} ELSE {})
      /\ ~up[i] => wire'[i] = wire[i]
  BY <1>1, <1>3, SendFacts
<1>5. /\ Settling(i)' = Settling(i) /\ InTurn(wire'[i]) /\ InHand(i)' = InHand(i)
      /\ Forwarding(i)' = Forwarding(i) \cup (IF up[i] THEN {cur[i]} ELSE {})
      /\ \A j \in Instances \ {i} : UNCHANGED Forwarding(j)
  <2>1. InTurn(wire[i])
    BY <1>2 DEF Holding
  <2>2. InHand(i)' = InHand(i) /\ \A j \in Instances \ {i} : UNCHANGED Forwarding(j)
    BY <1>1, <1>4 DEF InHand, Forwarding
  <2>3. CASE up[i]
    <3>1. /\ Sent(wire'[i], {"ack", "nack"}) = Sent(wire[i], {"ack", "nack"})
          /\ Sent(wire'[i], {"publish"}) = Sent(wire[i], {"publish"}) \cup {cur[i]}
      BY <1>4, <2>3
    <3> QED
      BY <1>4, <2>2, <2>3, <3>1 DEF Settling, Forwarding
  <2>4. CASE ~up[i]
    BY <1>4, <2>1, <2>2, <2>4 DEF Settling, Forwarding
  <2> QED
    BY <2>3, <2>4
<1>6. cur[i] \in InHand(i)
  BY <1>1 DEF InHand, None, Msgs
<1>7. Holding(i)'
  BY <1>1, <1>2, <1>3, <1>4, <1>5, <1>6 DEF Holding
<1> QED
  BY <1>1, <1>4, <1>5, <1>7, OwnHolding

\* What settles a delivery is written once.
LEMMA SettleHolds ==
  ASSUME TypeOK, HolderInv, NEW i \in Instances, NEW op \in {"ack", "nack"},
         pc[i] = op, Send(i, op), pc' = [pc EXCEPT ![i] = "next"],
         cur' = [cur EXCEPT ![i] = None],
         UNCHANGED <<published, brokerVars, up, inbox, mongo>>
  PROVE  HolderInv' /\ \A j \in Instances : UNCHANGED Forwarding(j)
<1>1. /\ cur[i] \in Msgs /\ pc'[i] = "next" /\ cur'[i] = None
      /\ UNCHANGED <<published, raw, unacked, acked, discarded, normalized, up,
                     inbox, mongo>>
      /\ \A j \in Instances \ {i} : UNCHANGED <<pc[j], cur[j]>>
  BY DEF TypeOK, brokerVars
<1>2. Holding(i)
  BY DEF HolderInv
<1>3. /\ \A j \in Instances \ {i} : wire'[j] = wire[j]
      /\ up[i] =>
           /\ InTurn(wire'[i])
           /\ \A ops : Sent(wire'[i], ops)
                         = Sent(wire[i], ops) \cup (IF op \in ops THEN {cur[i]} ELSE {})
      /\ ~up[i] => wire'[i] = wire[i]
  BY <1>1, SendFacts
<1>4. /\ Settling(i)' = Settling(i) \cup (IF up[i] THEN {cur[i]} ELSE {})
      /\ Forwarding(i)' = Forwarding(i) /\ InTurn(wire'[i]) /\ InHand(i)' = {}
  <2>1. InTurn(wire[i]) /\ InHand(i)' = {}
    BY <1>1, <1>2 DEF Holding, InHand
  <2>2. CASE up[i]
    <3>1. /\ Sent(wire'[i], {"ack", "nack"}) = Sent(wire[i], {"ack", "nack"}) \cup {cur[i]}
          /\ Sent(wire'[i], {"publish"}) = Sent(wire[i], {"publish"})
      BY <1>3, <2>2, ZenonT(30)
    <3> QED
      BY <1>3, <2>1, <2>2, <3>1 DEF Settling, Forwarding
  <2>3. CASE ~up[i]
    BY <1>3, <2>1, <2>3 DEF Settling, Forwarding
  <2> QED
    BY <2>2, <2>3
<1>5. cur[i] \in InHand(i) /\ None \notin Msgs /\ Settling(i)' \subseteq Msgs
  BY <1>1 DEF InHand, None, Msgs, Settling, Sent
<1>6. cur'[i] \notin Range(inbox[i])
  <2>1. Range(inbox[i]) \subseteq 1..published /\ None \notin 1..published
    BY <1>2 DEF Holding, None
  <2> QED
    BY <1>1, <2>1
<1>7. Holding(i)'
  BY <1>1, <1>2, <1>3, <1>4, <1>5, <1>6 DEF Holding
<1>8. \A j \in Instances : UNCHANGED Forwarding(j)
  BY <1>3, <1>4 DEF Forwarding
<1> QED
  BY <1>1, <1>3, <1>7, <1>8, OwnHolding

\* Every step leaves every message with one holder.
LEMMA StepHolds ==
  TypeOK /\ HolderInv /\ [Next]_vars => HolderInv'
<1> SUFFICES ASSUME TypeOK, HolderInv, [Next]_vars
             PROVE  HolderInv'
  OBVIOUS
<1>1. CASE Publish
  BY <1>1, PublishHolds
<1>2. ASSUME NEW i \in Instances, Deliver(i) \/ BrokerReceive(i)
      PROVE  HolderInv'
  BY <1>2, DeliverHolds, ReceiveHolds
<1>3. ASSUME NEW i \in Instances, Start(i) \/ TakeDelivery(i) \/ InsertDocument(i)
      PROVE  HolderInv'
  BY <1>3, HandlerHolds
<1>4. ASSUME NEW i \in Instances,
             Exit(i), UNCHANGED <<published, brokerVars, up, wire, mongo>>
      PROVE  HolderInv'
  BY <1>4, ExitHolds
<1>5. ASSUME NEW i \in Instances, StreamEnds(i) \/ Crash(i)
      PROVE  HolderInv'
  BY <1>4, <1>5 DEF StreamEnds, Crash
<1>6. ASSUME NEW i \in Instances, ForwardEvent(i)
      PROVE  HolderInv'
  BY <1>4, <1>6, ForwardHolds DEF ForwardEvent
<1>7. ASSUME NEW i \in Instances, AckDelivery(i) \/ NackDelivery(i)
      PROVE  HolderInv'
  BY <1>4, <1>7, SettleHolds DEF AckDelivery, NackDelivery
<1>8. ASSUME NEW i \in Instances, LoseConnection(i) \/ CloseConnection(i)
      PROVE  HolderInv'
  <2>1. DropConnection(i) /\ UNCHANGED serviceVars
    BY <1>8 DEF LoseConnection, CloseConnection, serviceVars
  <2> QED
    BY <2>1, DropHolds
<1>9. CASE UNCHANGED vars
  <2>1. UNCHANGED <<published, raw, unacked, up, wire, normalized, acked, discarded,
                    inbox, pc, cur, mongo>>
    BY <1>9 DEF vars
  <2>2. \A j \in Instances : Holding(j)'
    BY <2>1, OthersHold DEF HolderInv
  <2>3. PublishedOnly' /\ OneHolder'
    BY <2>1 DEF HolderInv, PublishedOnly, OneHolder
  <2> QED
    BY <2>2, <2>3 DEF HolderInv
<1> QED
  BY <1>1, <1>2, <1>3, <1>5, <1>6, <1>7, <1>8, <1>9 DEF Next, ServiceStep

LEMMA InitHolds == Init => HolderInv
<1> SUFFICES ASSUME Init
             PROVE  HolderInv
  OBVIOUS
<1>1. /\ published = 0 /\ raw = {} /\ acked = {} /\ discarded = {} /\ normalized = <<>>
      /\ \A m \in Msgs : mongo[m] = 0
      /\ \A i \in Instances :
           /\ unacked[i] = {} /\ wire[i] = <<>> /\ inbox[i] = <<>>
           /\ pc[i] = "down" /\ cur[i] = None
  BY DEF Init
<1>2. \A i \in Instances :
        /\ Settling(i) = {} /\ Forwarding(i) = {} /\ InHand(i) = {}
        /\ Range(inbox[i]) = {} /\ IsInjective(inbox[i]) /\ InTurn(wire[i])
  BY <1>1, EmptyFacts, NothingSent DEF Settling, Forwarding, InHand
<1>3. \A i \in Instances : Holding(i)
  BY <1>1, <1>2 DEF Holding
<1>4. PublishedOnly /\ OneHolder
  BY <1>1, EmptyFacts DEF PublishedOnly, OneHolder
<1> QED
  BY <1>3, <1>4 DEF HolderInv

\* Every reachable state is typed, has one holder for every message, and keeps acks
\* behind their publishes.
QueueInv == TypeOK /\ HolderInv /\ DeliveryInv

LEMMA InitQueue == Init => QueueInv
<1>1. Init => TypeOK
  BY QueueServiceAssumption DEF Init, TypeOK, Msgs, None
<1>2. Init => DeliveryInv
  BY DEF Init, DeliveryInv, Accounted, AcksFollowPublishes, ConnectionInOrder
<1> QED
  BY <1>1, <1>2, InitHolds DEF QueueInv

LEMMA StepQueue == QueueInv /\ [Next]_vars => QueueInv'
  BY StepTypes, StepHolds, AccountedStep, AcksFollowPublishesStep
     DEF QueueInv, DeliveryInv

-----------------------------------------------------------------------------
(* The refinement of AtLeastOnceRelay.                                     *)

Pending == raw \cup UNION {unacked[i] : i \in Instances}
Settled == acked \cup discarded
Emitted == {m \in Msgs : InNormalized(m)}
Owes(m) == IF m \in Malformed THEN {} ELSE {m}

RelayMoves == Relay!Next \/ UNCHANGED Relay!vars

\* A message accepted, its event routed, a message settled, or none of these.
LEMMA RelaySteps ==
  ASSUME NEW m \in Msgs,
         \/ /\ m \notin Pending \cup Settled /\ Pending' = Pending \cup {m}
            /\ Settled' = Settled /\ Emitted' = Emitted
         \/ /\ m \in Pending /\ m \notin Malformed /\ Emitted' = Emitted \cup {m}
            /\ Pending' = Pending /\ Settled' = Settled
         \/ /\ m \in Pending /\ Owes(m) \subseteq Emitted
            /\ Pending' = Pending \ {m} /\ Settled' = Settled \cup {m}
            /\ Emitted' = Emitted
  PROVE  RelayMoves
<1> DEFINE owed == [n \in Msgs |-> IF n \in Malformed THEN {} ELSE {n}]
<1>1. owed[m] = Owes(m)
  BY DEF Owes
<1>2. CASE /\ m \notin Pending \cup Settled /\ Pending' = Pending \cup {m}
           /\ Settled' = Settled /\ Emitted' = Emitted
  <2>1. Relay!Accept(m)
    BY <1>2 DEF Relay!Accept, Pending, Settled, Emitted
  <2> QED
    BY <2>1 DEF RelayMoves, Relay!Next
<1>3. CASE /\ m \in Pending /\ m \notin Malformed /\ Emitted' = Emitted \cup {m}
           /\ Pending' = Pending /\ Settled' = Settled
  <2>1. m \in owed[m]
    BY <1>1, <1>3 DEF Owes
  <2>2. Relay!Emit(m, m)
    BY <1>3, <2>1 DEF Relay!Emit, Pending, Settled, Emitted
  <2> QED
    BY <2>1, <2>2 DEF RelayMoves, Relay!Next
<1>4. CASE /\ m \in Pending /\ Owes(m) \subseteq Emitted
           /\ Pending' = Pending \ {m} /\ Settled' = Settled \cup {m}
           /\ Emitted' = Emitted
  <2>1. Relay!Settle(m)
    BY <1>1, <1>4 DEF Relay!Settle, Pending, Settled, Emitted
  <2> QED
    BY <2>1 DEF RelayMoves, Relay!Next
<1> QED
  BY <1>2, <1>3, <1>4

LEMMA RelayStutters ==
  ASSUME Pending' = Pending, Settled' = Settled, Emitted' = Emitted
  PROVE  RelayMoves
  BY DEF RelayMoves, Relay!vars, Pending, Settled, Emitted

\* What the broker reads is a forward of an unsettled event, or settles a message
\* that owes nothing any more.
LEMMA ReceiveRelays ==
  ASSUME QueueInv, NEW i \in Instances, BrokerReceive(i)
  PROVE  RelayMoves
<1>1. TypeOK /\ HolderInv /\ AcksFollowPublishes /\ normalized \in Seq(Msgs)
  BY DEF QueueInv, DeliveryInv, TypeOK
<1>2. PICK m \in unacked[i] :
              /\ m \in Msgs
              /\ raw' = raw
              /\ \A j \in Instances \ {i} : UNCHANGED unacked[j]
              /\ \/ /\ normalized' = Append(normalized, m) /\ m \notin Malformed
                    /\ UNCHANGED <<unacked, acked, discarded>>
                 \/ /\ unacked'[i] = unacked[i] \ {m} /\ normalized' = normalized
                    /\ acked' \cup discarded' = acked \cup discarded \cup {m}
                    /\ \/ wire[i][1].op = "ack" /\ wire[i][1].msg = m /\ wire[i] # <<>>
                       \/ wire[i][1].op = "nack" /\ wire[i][1].msg = m /\ wire[i] # <<>>
  BY <1>1, ReceiveHolds
<1>3. m \in Pending
  BY DEF Pending
<1>4. CASE /\ normalized' = Append(normalized, m) /\ m \notin Malformed
           /\ UNCHANGED <<unacked, acked, discarded>>
  <2>1. Pending' = Pending /\ Settled' = Settled
    BY <1>2, <1>4 DEF Pending, Settled
  <2>2. /\ Len(normalized) \in Nat /\ Len(normalized') = Len(normalized) + 1
        /\ \A k \in 1..Len(normalized) : normalized'[k] = normalized[k]
        /\ normalized'[Len(normalized) + 1] = m
    BY <1>1, <1>2, <1>4, AppendFacts
  <2>3. \A n : InNormalized(n)' <=> InNormalized(n) \/ n = m
    BY <2>2 DEF InNormalized
  <2>4. Emitted' = Emitted \cup {m}
    BY <1>2, <2>3 DEF Emitted
  <2> QED
    BY <1>2, <1>3, <1>4, <2>1, <2>4, RelaySteps
<1>5. CASE /\ unacked'[i] = unacked[i] \ {m} /\ normalized' = normalized
           /\ acked' \cup discarded' = acked \cup discarded \cup {m}
           /\ \/ wire[i][1].op = "ack" /\ wire[i][1].msg = m /\ wire[i] # <<>>
              \/ wire[i][1].op = "nack" /\ wire[i][1].msg = m /\ wire[i] # <<>>
  <2>1. Settled' = Settled \cup {m} /\ Emitted' = Emitted
    BY <1>5 DEF Settled, Emitted, InNormalized
  <2>2. m \notin raw /\ \A j \in Instances \ {i} : m \notin unacked[j]
    BY <1>1 DEF HolderInv, OneHolder
  <2>3. \A j \in Instances : unacked'[j] = unacked[j] \ {m}
    BY <1>2, <1>5, <2>2
  <2>4. Pending' = Pending \ {m}
    <3>1. \A n : n \in UNION {unacked'[j] : j \in Instances}
                   <=> n # m /\ n \in UNION {unacked[j] : j \in Instances}
      BY <2>3
    <3> QED
      BY <1>2, <2>2, <3>1 DEF Pending
  <2>5. Owes(m) \subseteq Emitted
    <3>1. ConnectionInOrder(i) /\ wire[i] \in Seq(Frames)
      BY <1>1 DEF AcksFollowPublishes, TypeOK
    <3>2. 1 \in 1..Len(wire[i])
      BY <1>5, <3>1, TailFacts
    <3>3. wire[i][1].op = "ack" => InNormalized(m)
      BY <1>5, <3>1, <3>2 DEF ConnectionInOrder, ForwardedBefore
    <3>4. wire[i][1].op = "nack" => m \in Malformed
      BY <1>5, <3>1, <3>2 DEF ConnectionInOrder
    <3> QED
      BY <1>2, <1>5, <3>3, <3>4 DEF Owes, Emitted
  <2> QED
    BY <1>2, <1>3, <2>1, <2>4, <2>5, RelaySteps
<1> QED
  BY <1>2, <1>4, <1>5

\* Every step of the queue service is a step of the relay, or none.
LEMMA StepRelays == QueueInv /\ [Next]_vars => [Relay!Next]_(Relay!vars)
<1> SUFFICES ASSUME QueueInv, [Next]_vars
             PROVE  RelayMoves
  BY DEF RelayMoves
<1>1. TypeOK /\ HolderInv
  BY DEF QueueInv
<1>2. CASE Publish
  <2>1. published + 1 \in Msgs /\ published + 1 \notin 1..published
    BY <1>1, <1>2, PublishHolds
  <2>2. published + 1 \notin Pending \cup Settled
    BY <1>1, <2>1 DEF HolderInv, PublishedOnly, Holding, Pending, Settled
  <2>3. /\ Pending' = Pending \cup {published + 1}
        /\ Settled' = Settled /\ Emitted' = Emitted
    BY <1>2 DEF Publish, Pending, Settled, Emitted, InNormalized
  <2> QED
    BY <2>1, <2>2, <2>3, RelaySteps
<1>3. ASSUME NEW i \in Instances, Deliver(i)
      PROVE  RelayMoves
  <2>1. PICK m \in raw : /\ raw' = raw \ {m}
                         /\ unacked' = [unacked EXCEPT ![i] = @ \cup {m}]
    BY <1>3 DEF Deliver
  <2>2. unacked'[i] = unacked[i] \cup {m} /\ \A j \in Instances \ {i} : unacked'[j] = unacked[j]
    BY <1>1, <2>1 DEF TypeOK
  <2>3. Pending' = Pending
    BY <2>1, <2>2 DEF Pending
  <2>4. Settled' = Settled /\ Emitted' = Emitted
    BY <1>3 DEF Deliver, Settled, Emitted, InNormalized
  <2> QED
    BY <2>3, <2>4, RelayStutters
<1>4. ASSUME NEW i \in Instances, BrokerReceive(i)
      PROVE  RelayMoves
  BY <1>4, ReceiveRelays
<1>5. ASSUME NEW i \in Instances, LoseConnection(i) \/ CloseConnection(i)
      PROVE  RelayMoves
  <2>1. DropConnection(i)
    BY <1>5 DEF LoseConnection, CloseConnection
  <2>2. /\ raw' = raw \cup unacked[i] /\ unacked'[i] = {}
        /\ \A j \in Instances \ {i} : unacked'[j] = unacked[j]
    BY <1>1, <2>1 DEF DropConnection, TypeOK
  <2>3. Pending' = Pending
    BY <2>2 DEF Pending
  <2>4. Settled' = Settled /\ Emitted' = Emitted
    BY <2>1 DEF DropConnection, Settled, Emitted, InNormalized
  <2> QED
    BY <2>3, <2>4, RelayStutters
<1>6. ASSUME UNCHANGED <<raw, unacked, acked, discarded, normalized>>
      PROVE  RelayMoves
  <2>1. Pending' = Pending /\ Settled' = Settled /\ Emitted' = Emitted
    BY <1>6 DEF Pending, Settled, Emitted, InNormalized
  <2> QED
    BY <2>1, RelayStutters
<1>7. ASSUME NEW i \in Instances, Start(i) \/ ServiceStep(i) \/ Crash(i)
      PROVE  RelayMoves
  BY <1>6, <1>7 DEF Start, ServiceStep, TakeDelivery, StreamEnds, InsertDocument,
     ForwardEvent, AckDelivery, NackDelivery, Crash, brokerVars
<1>8. CASE UNCHANGED vars
  BY <1>6, <1>8 DEF vars
<1> QED
  BY <1>2, <1>3, <1>4, <1>5, <1>7, <1>8 DEF Next

LEMMA InitRelays == Init => Relay!Init
<1> SUFFICES ASSUME Init
             PROVE  Relay!Init
  OBVIOUS
<1>1. Pending = {} /\ Settled = {} /\ Emitted = {}
  BY DEF Init, Pending, Settled, Emitted, InNormalized
<1> QED
  BY <1>1 DEF Relay!Init, Pending, Settled, Emitted

\* However many instances share the raw queue, and whatever crashes and lost
\* connections they meet, they keep the relay's promise: a message is settled once,
\* by the instance that holds it, and only after its event was routed downstream.
THEOREM RelayImplemented == Spec => ImplementsRelay
  BY InitQueue, StepQueue, StepRelays, InitRelays, PTL
     DEF Spec, ImplementsRelay, Relay!Spec

-----------------------------------------------------------------------------
(* Repeated forwards.                                                      *)

LEMMA CopiesType ==
  ASSUME TypeOK, NEW m
  PROVE  /\ Copies(m) = CopiesIn(normalized, m) /\ Copies(m) \in Nat
         /\ m \notin Range(normalized) => Copies(m) = 0
<1>1. normalized \in Seq(Msgs)
  BY DEF TypeOK
<1>2. Copies(m) = CopiesIn(normalized, m)
  BY DEF Copies, CopiesIn, Where
<1> QED
  BY <1>1, <1>2, CopiesFinite

\* The ways in which a step may change what there is of m downstream, and what may
\* yet come.
ForwardsStep(m) ==
  \/ /\ Copies(m)' = Copies(m) /\ faults' = faults
     /\ MayBeForwarded(m)' => MayBeForwarded(m)
     /\ OnItsWay(m)' => OnItsWay(m)
  \/ /\ Copies(m)' = Copies(m) /\ faults' = faults + 1
     /\ OnItsWay(m)' => OnItsWay(m)
  \/ /\ Copies(m)' = Copies(m) /\ faults' = faults
     /\ MayBeForwarded(m) /\ ~MayBeForwarded(m)'
  \/ /\ Copies(m)' = Copies(m) + 1 /\ faults' = faults
     /\ OnItsWay(m) /\ ~OnItsWay(m)'
     /\ MayBeForwarded(m)' => MayBeForwarded(m)
  \/ Copies(m)' = 0 /\ faults' = faults /\ ~OnItsWay(m)'

\* Each of them stays within one repetition for a fault.
LEMMA ForwardsStayBounded ==
  ASSUME TypeOK, TypeOK', NEW m, ForwardsBounded(m), ForwardsStep(m)
  PROVE  ForwardsBounded(m)'
<1>1. Copies(m) \in Nat /\ Copies(m)' \in Nat /\ faults \in Nat /\ faults' \in Nat
  <2>1. Copies(m)' \in Nat
    <3>1. normalized' \in Seq(Msgs)
      BY DEF TypeOK
    <3>2. CopiesIn(normalized', m) \in Nat
      BY <3>1, CopiesFinite
    <3> QED
      BY <3>2 DEF Copies, CopiesIn, Where
  <2> QED
    BY <2>1, CopiesType, QueueServiceAssumption DEF TypeOK
<1>2. PICK c \in Nat, c1 \in Nat, a \in {0, 1}, a1 \in {0, 1}, b \in {0, 1}, b1 \in {0, 1} :
        /\ c = Copies(m) /\ c1 = Copies(m)'
        /\ a = (IF MayBeForwarded(m) THEN 1 ELSE 0)
        /\ a1 = (IF MayBeForwarded(m)' THEN 1 ELSE 0)
        /\ b = (IF OnItsWay(m) THEN 1 ELSE 0)
        /\ b1 = (IF OnItsWay(m)' THEN 1 ELSE 0)
  BY <1>1
<1>3. /\ c \in Nat /\ c1 \in Nat /\ a \in {0, 1} /\ a1 \in {0, 1} /\ b \in {0, 1}
      /\ b1 \in {0, 1} /\ faults \in Nat /\ faults' \in Nat
  BY <1>1, <1>2
<1>4. c + a + b <= 1 + faults
  BY <1>2 DEF ForwardsBounded
<1>5. \/ c1 = c /\ faults' = faults /\ a1 <= a /\ b1 <= b
      \/ c1 = c /\ faults' = faults + 1 /\ b1 <= b
      \/ c1 = c /\ faults' = faults /\ a = 1 /\ a1 = 0
      \/ c1 = c + 1 /\ faults' = faults /\ b = 1 /\ b1 = 0 /\ a1 <= a
      \/ c1 = 0 /\ faults' = faults /\ b1 = 0
  BY <1>2 DEF ForwardsStep
<1>6. c1 + a1 + b1 <= 1 + faults'
  <2>1. (a = 0 \/ a = 1) /\ (a1 = 0 \/ a1 = 1) /\ (b = 0 \/ b = 1) /\ (b1 = 0 \/ b1 = 1)
    BY <1>3
  <2>2. CASE faults' = faults
    BY <1>3, <1>4, <1>5, <2>1, <2>2
  <2>3. CASE faults' = faults + 1
    BY <1>3, <1>4, <1>5, <2>1, <2>3
  <2> QED
    BY <1>5, <2>2, <2>3
<1> QED
  BY <1>2, <1>6 DEF ForwardsBounded

\* A step that leaves the queue, the deliveries and the connections alone, and moves
\* no instance back in its handler.
LEMMA ForwardsUndisturbed ==
  ASSUME NEW m, UNCHANGED <<normalized, faults>>,
         MayBeForwarded(m)' => MayBeForwarded(m),
         \A i \in Instances : m \in Forwarding(i)' => m \in Forwarding(i)
  PROVE  ForwardsStep(m)
<1>1. Copies(m)' = Copies(m)
  BY DEF Copies
<1>2. OnItsWay(m)' => OnItsWay(m)
  BY DEF OnItsWay
<1> QED
  BY <1>1, <1>2 DEF ForwardsStep

\* What the broker's steps do.
LEMMA BrokerForwards ==
  ASSUME QueueInv, NEW m \in Msgs, NEW i \in Instances,
         Deliver(i) \/ BrokerReceive(i) \/ CloseConnection(i)
  PROVE  ForwardsStep(m)
<1>1. TypeOK /\ HolderInv
  BY DEF QueueInv
<1>2. CASE Deliver(i)
  <2>1. PICK n \in raw :
              /\ raw' = raw \ {n} /\ unacked'[i] = unacked[i] \cup {n}
              /\ \A j \in Instances \ {i} : UNCHANGED <<unacked[j], inbox[j]>>
              /\ Range(inbox'[i]) = Range(inbox[i]) \cup (IF pc[i] = "down" THEN {} ELSE {n})
    BY <1>1, <1>2, DeliverHolds
  <2>2. UNCHANGED <<normalized, faults, wire, pc, cur>>
    BY <1>2 DEF Deliver
  <2>3. MayBeForwarded(m)' => MayBeForwarded(m)
    <3>1. ASSUME NEW j \in Instances \ {i},
                 m \in unacked'[j] /\ ((pc[j] = "down" \/ m \in Range(inbox'[j]))
                                       \/ (cur[j] = m /\ pc[j] \in {"insert", "forward"}))
          PROVE  MayBeForwarded(m)
      BY <2>1, <3>1 DEF MayBeForwarded
    <3>2. ASSUME m \in unacked'[i],
                 (pc[i] = "down" \/ m \in Range(inbox'[i]))
                   \/ (cur[i] = m /\ pc[i] \in {"insert", "forward"})
          PROVE  MayBeForwarded(m)
      BY <2>1, <3>2 DEF MayBeForwarded
    <3>3. m \in raw' => MayBeForwarded(m)
      BY <2>1 DEF MayBeForwarded
    <3> QED
      BY <2>2, <3>1, <3>2, <3>3 DEF MayBeForwarded
  <2>4. \A j \in Instances : Forwarding(j)' = Forwarding(j)
    BY <2>2 DEF Forwarding
  <2> QED
    BY <2>2, <2>3, <2>4, ForwardsUndisturbed
<1>3. CASE BrokerReceive(i)
  <2>1. PICK n \in unacked[i] :
              /\ n \in Msgs
              /\ UNCHANGED <<raw, inbox, pc, cur, faults>>
              /\ \A j \in Instances \ {i} : UNCHANGED <<unacked[j], Forwarding(j)>>
              /\ \/ /\ n \in Forwarding(i) /\ Forwarding(i)' = Forwarding(i) \ {n}
                    /\ normalized' = Append(normalized, n)
                    /\ UNCHANGED unacked
                 \/ /\ Forwarding(i)' = Forwarding(i)
                    /\ unacked'[i] = unacked[i] \ {n} /\ normalized' = normalized
    BY <1>1, <1>3, ReceiveHolds
  <2>2. \A j \in Instances : unacked'[j] \subseteq unacked[j] /\ Forwarding(j)' \subseteq Forwarding(j)
    BY <2>1
  <2>3. MayBeForwarded(m)' => MayBeForwarded(m)
    BY <2>1, <2>2 DEF MayBeForwarded
  <2>4. CASE normalized' = normalized
    BY <2>1, <2>2, <2>3, <2>4, ForwardsUndisturbed
  <2>5. CASE /\ n \in Forwarding(i) /\ Forwarding(i)' = Forwarding(i) \ {n}
             /\ normalized' = Append(normalized, n)
    <3>1. CopiesIn(normalized', m) = CopiesIn(normalized, m) + (IF n = m THEN 1 ELSE 0)
      <4>1. normalized \in Seq(Msgs)
        BY <1>1 DEF TypeOK
      <4> QED
        BY <2>1, <2>5, <4>1, CopiesAppend
    <3>2. Copies(m)' = Copies(m) + (IF n = m THEN 1 ELSE 0)
      BY <3>1 DEF Copies, CopiesIn, Where
    <3>3. CASE n = m
      <4>1. \A j \in Instances \ {i} : n \notin Forwarding(j)
        <5>1. ASSUME NEW j \in Instances \ {i}
              PROVE  Forwarding(j) \subseteq unacked[j]
          BY <1>1, NothingSent DEF HolderInv, Holding, Forwarding
        <5> QED
          BY <1>1, <5>1 DEF HolderInv, OneHolder
      <4>2. OnItsWay(m) /\ ~OnItsWay(m)'
        BY <2>1, <2>5, <3>3, <4>1 DEF OnItsWay
      <4> QED
        BY <2>1, <2>3, <3>2, <3>3, <4>2 DEF ForwardsStep
    <3>4. CASE n # m
      <4>1. Copies(m)' = Copies(m)
        BY <1>1, <3>2, <3>4, CopiesType
      <4>2. OnItsWay(m)' => OnItsWay(m)
        BY <2>2 DEF OnItsWay
      <4> QED
        BY <2>1, <2>3, <4>1, <4>2 DEF ForwardsStep
    <3> QED
      BY <3>3, <3>4
  <2> QED
    BY <2>1, <2>4, <2>5
<1>4. CASE CloseConnection(i)
  <2>1. /\ raw' = raw \cup unacked[i] /\ unacked'[i] = {} /\ wire'[i] = <<>>
        /\ \A j \in Instances \ {i} : UNCHANGED <<unacked[j], wire[j]>>
        /\ UNCHANGED <<normalized, faults, inbox, pc, cur>> /\ pc[i] = "down"
    BY <1>1, <1>4 DEF CloseConnection, DropConnection, serviceVars, TypeOK
  <2>2. \A j \in Instances : Forwarding(j)' \subseteq Forwarding(j)
    BY <2>1, NothingSent DEF Forwarding
  <2>3. MayBeForwarded(m)' => MayBeForwarded(m)
    BY <2>1 DEF MayBeForwarded
  <2> QED
    BY <2>1, <2>2, <2>3, ForwardsUndisturbed
<1> QED
  BY <1>2, <1>3, <1>4

\* What the instances' steps do.
LEMMA ServiceForwards ==
  ASSUME QueueInv, NEW m \in Msgs, NEW i \in Instances, Start(i) \/ ServiceStep(i)
  PROVE  ForwardsStep(m)
<1>1. TypeOK /\ HolderInv /\ Holding(i) /\ inbox[i] \in Seq(Msgs) /\ m # None
  BY DEF QueueInv, HolderInv, TypeOK, None, Msgs
<1>2. /\ UNCHANGED <<normalized, faults, raw, unacked>>
      /\ \A j \in Instances \ {i} : UNCHANGED <<pc[j], inbox[j], cur[j]>>
  BY <1>1 DEF Start, ServiceStep, TakeDelivery, StreamEnds, InsertDocument, ForwardEvent,
     AckDelivery, NackDelivery, Exit, TypeOK, brokerVars
<1>3. ASSUME \A j \in Instances : m \in Forwarding(j)' => m \in Forwarding(j),
             m \in unacked[i] =>
               /\ pc'[i] # "down"
               /\ m \in Range(inbox'[i]) => m \in Range(inbox[i])
               /\ cur'[i] = m /\ pc'[i] \in {"insert", "forward"} =>
                    m \in Range(inbox[i]) \/ (cur[i] = m /\ pc[i] \in {"insert", "forward"})
      PROVE  ForwardsStep(m)
  <2>1. MayBeForwarded(m)' => MayBeForwarded(m)
    BY <1>2, <1>3 DEF MayBeForwarded
  <2> QED
    BY <1>2, <1>3, <2>1, ForwardsUndisturbed
<1>4. ASSUME UNCHANGED wire
      PROVE  \A j \in Instances : m \in Forwarding(j)' => m \in Forwarding(j)
  BY <1>4 DEF Forwarding
<1>5. CASE Start(i)
  <2>1. wire' = wire /\ unacked[i] = {}
    BY <1>1, <1>5 DEF Start, Holding
  <2> QED
    BY <1>3, <1>4, <2>1
<1>6. ASSUME ~up[i], UNCHANGED wire
      PROVE  ForwardsStep(m)
  BY <1>1, <1>3, <1>4, <1>6 DEF Holding
<1>7. CASE StreamEnds(i)
  BY <1>6, <1>7 DEF StreamEnds
<1>8. CASE TakeDelivery(i)
  <2>1. /\ inbox[i] # <<>> /\ wire' = wire
        /\ cur'[i] = Head(inbox[i]) /\ inbox'[i] = Tail(inbox[i]) /\ pc'[i] # "down"
    BY <1>1, <1>8 DEF TakeDelivery, TypeOK
  <2>2. Range(inbox[i]) = {cur'[i]} \cup Range(inbox'[i])
    BY <1>1, <2>1, TailFacts
  <2> QED
    BY <1>3, <1>4, <2>1, <2>2
<1>9. CASE InsertDocument(i)
  <2>1. pc[i] = "insert" /\ pc'[i] = "forward" /\ UNCHANGED <<wire, inbox, cur>>
    BY <1>1, <1>9 DEF InsertDocument, TypeOK
  <2> QED
    BY <1>3, <1>4, <2>1
<1>10. ASSUME ForwardEvent(i), Send(i, "publish"), pc' = [pc EXCEPT ![i] = "ack"],
             UNCHANGED <<inbox, cur>>
      PROVE  ForwardsStep(m)
  <2>1. pc[i] = "forward" /\ pc'[i] = "ack"
    BY <1>1, <1>10 DEF ForwardEvent, TypeOK
  <2>2. /\ Forwarding(i)' = Forwarding(i) \cup (IF up[i] THEN {cur[i]} ELSE {})
        /\ \A j \in Instances \ {i} : UNCHANGED Forwarding(j)
        /\ cur[i] \in Msgs
    BY <1>1, <1>10, ForwardHolds
  <2>3. CASE up[i] /\ cur[i] = m
    <3>1. m \in unacked[i] /\ m \notin Range(inbox[i])
      BY <1>1, <2>3 DEF Holding, InHand
    <3>2. m \notin raw /\ \A j \in Instances \ {i} : m \notin unacked[j]
      BY <1>1, <3>1 DEF HolderInv, OneHolder
    <3>3. MayBeForwarded(m) /\ ~MayBeForwarded(m)'
      BY <1>2, <1>10, <2>1, <2>3, <3>1, <3>2 DEF MayBeForwarded
    <3> QED
      BY <1>2, <3>3 DEF ForwardsStep, Copies
  <2>4. CASE ~(up[i] /\ cur[i] = m)
    <3>1. m \in Forwarding(i)' => m \in Forwarding(i)
      BY <2>2, <2>4
    <3> QED
      BY <1>3, <1>10, <2>1, <2>2, <3>1
  <2> QED
    BY <2>3, <2>4
<1>11. CASE ForwardEvent(i)
  BY <1>6, <1>10, <1>11 DEF ForwardEvent
<1>12. ASSUME NEW op \in {"ack", "nack"},
              pc[i] = op, Send(i, op), pc' = [pc EXCEPT ![i] = "next"],
              cur' = [cur EXCEPT ![i] = None],
              UNCHANGED <<published, brokerVars, up, inbox, mongo>>
       PROVE  ForwardsStep(m)
  <2>1. \A j \in Instances : UNCHANGED Forwarding(j)
    BY <1>1, <1>12, SettleHolds
  <2>2. pc'[i] = "next" /\ inbox' = inbox
    BY <1>1, <1>12 DEF TypeOK
  <2> QED
    BY <1>3, <2>1, <2>2
<1>13. CASE AckDelivery(i) \/ NackDelivery(i)
  BY <1>6, <1>12, <1>13 DEF AckDelivery, NackDelivery
<1> QED
  BY <1>5, <1>7, <1>8, <1>9, <1>11, <1>13 DEF ServiceStep

LEMMA StepForwards ==
  ASSUME QueueInv, [Next]_vars, NEW m \in Msgs
  PROVE  ForwardsStep(m)
<1>1. TypeOK /\ HolderInv
  BY DEF QueueInv
<1>2. CASE Publish
  <2>1. /\ raw' = raw \cup {published + 1}
        /\ UNCHANGED <<normalized, faults, unacked, wire, inbox, pc, cur>>
    BY <1>2 DEF Publish, serviceVars
  <2>2. \A j \in Instances : Forwarding(j)' = Forwarding(j)
    BY <2>1 DEF Forwarding
  <2>3. CASE m = published + 1
    <3>1. m \notin 1..published
      BY <1>1, <1>2, <2>3, PublishHolds
    <3>2. Copies(m) = 0 /\ Copies(m)' = Copies(m)
      <4>1. Copies(m) = 0
        BY <1>1, <3>1, CopiesType DEF HolderInv, PublishedOnly
      <4> QED
        BY <2>1, <4>1 DEF Copies
    <3>3. ~OnItsWay(m)'
      <4>1. \A j \in Instances : Forwarding(j) \subseteq 1..published
        BY <1>1, NothingSent DEF HolderInv, Holding, Forwarding
      <4> QED
        BY <2>2, <3>1, <4>1 DEF OnItsWay
    <3> QED
      BY <2>1, <3>2, <3>3 DEF ForwardsStep
  <2>4. CASE m # published + 1
    <3>1. MayBeForwarded(m)' => MayBeForwarded(m)
      BY <2>1, <2>4 DEF MayBeForwarded
    <3> QED
      BY <2>1, <2>2, <3>1, ForwardsUndisturbed
  <2> QED
    BY <2>3, <2>4
<1>3. ASSUME NEW i \in Instances, Crash(i) \/ LoseConnection(i)
      PROVE  ForwardsStep(m)
  <2>1. /\ faults' = faults + 1 /\ normalized' = normalized
        /\ \A j \in Instances : wire'[j] = wire[j] \/ wire'[j] = <<>>
    BY <1>1, <1>3 DEF Crash, LoseConnection, DropConnection, TypeOK, brokerVars
  <2>2. OnItsWay(m)' => OnItsWay(m)
    BY <2>1, NothingSent DEF OnItsWay, Forwarding
  <2>3. Copies(m)' = Copies(m)
    BY <2>1 DEF Copies
  <2> QED
    BY <2>1, <2>2, <2>3 DEF ForwardsStep
<1>4. CASE UNCHANGED vars
  <2>1. UNCHANGED <<normalized, faults, raw, unacked, wire, inbox, pc, cur>>
    BY <1>4 DEF vars
  <2>2. MayBeForwarded(m)' => MayBeForwarded(m)
    BY <2>1 DEF MayBeForwarded
  <2>3. \A i \in Instances : Forwarding(i)' = Forwarding(i)
    BY <2>1 DEF Forwarding
  <2> QED
    BY <2>1, <2>2, <2>3, ForwardsUndisturbed
<1> QED
  BY <1>2, <1>3, <1>4, BrokerForwards, ServiceForwards DEF Next

-----------------------------------------------------------------------------
(* Repeated documents.                                                     *)

\* The ways in which a step may change what there is of m in MongoDB, and what may
\* yet come.
DocumentsStep(m) ==
  \/ /\ mongo'[m] = mongo[m] /\ faults' = faults /\ Storing(m)' \subseteq Storing(m)
     /\ MayBeDelivered(m)' => MayBeDelivered(m)
  \/ /\ mongo'[m] = mongo[m] /\ faults' = faults + 1 /\ Storing(m)' \subseteq Storing(m)
  \/ /\ mongo'[m] = mongo[m] /\ faults' = faults
     /\ MayBeDelivered(m) /\ ~MayBeDelivered(m)'
     /\ \E i : i \notin Storing(m) /\ Storing(m)' = Storing(m) \cup {i}
  \/ /\ mongo'[m] <= mongo[m] + 1 /\ faults' = faults
     /\ MayBeDelivered(m)' => MayBeDelivered(m)
     /\ \E i \in Storing(m) : Storing(m)' = Storing(m) \ {i}
  \/ mongo'[m] = 0 /\ faults' = faults /\ Storing(m)' = {}

\* Each of them stays within one repetition for a fault.
LEMMA DocumentsStayBounded ==
  ASSUME TypeOK, TypeOK', NEW m \in Msgs, DocumentsBounded(m), DocumentsStep(m)
  PROVE  DocumentsBounded(m)'
<1>1. /\ mongo[m] \in Nat /\ mongo'[m] \in Nat /\ faults \in Nat /\ faults' \in Nat
      /\ IsFiniteSet(Storing(m)) /\ Cardinality(Storing(m)) \in Nat
  BY QueueServiceAssumption, FS_CardinalityType DEF TypeOK, DocumentsBounded
<1>2. PICK S, S1 : S = Storing(m) /\ S1 = Storing(m)'
  OBVIOUS
<1>3. /\ IsFiniteSet(S1) /\ Cardinality(S1) \in Nat
      /\ S1 \subseteq S => Cardinality(S1) <= Cardinality(S)
      /\ \A i : i \notin S /\ S1 = S \cup {i} => Cardinality(S1) = Cardinality(S) + 1
      /\ \A i \in S : S1 = S \ {i} => Cardinality(S1) = Cardinality(S) - 1
      /\ S1 = {} => Cardinality(S1) = 0
  <2>1. IsFiniteSet(S)
    BY <1>1, <1>2
  <2>2. \/ S1 \subseteq S
        \/ \E i : i \notin S /\ S1 = S \cup {i}
    BY <1>2 DEF DocumentsStep
  <2>3. S1 \subseteq S => IsFiniteSet(S1) /\ Cardinality(S1) <= Cardinality(S)
    BY <2>1, FS_Subset
  <2>4. \A i : i \notin S /\ S1 = S \cup {i} =>
               IsFiniteSet(S1) /\ Cardinality(S1) = Cardinality(S) + 1
    BY <2>1, FS_AddElement
  <2>5. \A i \in S : S1 = S \ {i} => Cardinality(S1) = Cardinality(S) - 1
    BY <2>1, FS_RemoveElement
  <2>6. IsFiniteSet(S1)
    BY <2>2, <2>3, <2>4
  <2> QED
    BY <2>3, <2>4, <2>5, <2>6, FS_CardinalityType, FS_EmptySet
<1>4. PICK n \in Nat, n1 \in Nat, s \in Nat, s1 \in Nat, d \in {0, 1}, d1 \in {0, 1} :
        /\ n = mongo[m] /\ n1 = mongo'[m]
        /\ s = Cardinality(S) /\ s1 = Cardinality(S1)
        /\ d = (IF MayBeDelivered(m) THEN 1 ELSE 0)
        /\ d1 = (IF MayBeDelivered(m)' THEN 1 ELSE 0)
  BY <1>1, <1>2, <1>3
<1>5. /\ n \in Nat /\ n1 \in Nat /\ s \in Nat /\ s1 \in Nat
      /\ d \in {0, 1} /\ d1 \in {0, 1} /\ faults \in Nat /\ faults' \in Nat
  BY <1>1, <1>4
<1>6. n + d + s <= 1 + faults
  BY <1>2, <1>4 DEF DocumentsBounded
<1>7. \/ n1 = n /\ faults' = faults /\ s1 <= s /\ d1 <= d
      \/ n1 = n /\ faults' = faults + 1 /\ s1 <= s
      \/ n1 = n /\ faults' = faults /\ d = 1 /\ d1 = 0 /\ s1 = s + 1
      \/ n1 <= n + 1 /\ faults' = faults /\ d1 <= d /\ s1 = s - 1
      \/ n1 = 0 /\ faults' = faults /\ s1 = 0
  <2>1. MayBeDelivered(m)' => MayBeDelivered(m) \/ d1 = 1
    BY <1>4
  <2>2. (MayBeDelivered(m)' => MayBeDelivered(m)) => d1 <= d
    BY <1>4
  <2>3. MayBeDelivered(m) /\ ~MayBeDelivered(m)' => d = 1 /\ d1 = 0
    BY <1>4
  <2> QED
    BY <1>2, <1>3, <1>4, <2>2, <2>3 DEF DocumentsStep
<1>8. n1 + d1 + s1 <= 1 + faults'
  <2>1. (d = 0 \/ d = 1) /\ (d1 = 0 \/ d1 = 1)
    BY <1>5
  <2>2. CASE faults' = faults
    BY <1>5, <1>6, <1>7, <2>1, <2>2
  <2>3. CASE faults' = faults + 1
    BY <1>5, <1>6, <1>7, <2>1, <2>3
  <2> QED
    BY <1>7, <2>2, <2>3
<1> QED
  BY <1>2, <1>3, <1>4, <1>8 DEF DocumentsBounded

\* A step that stores nothing and brings no instance nearer to storing m.
LEMMA DocumentsUndisturbed ==
  ASSUME NEW m \in Msgs, UNCHANGED <<mongo, faults>>,
         MayBeDelivered(m)' => MayBeDelivered(m),
         \A i \in Instances : i \in Storing(m)' => i \in Storing(m)
  PROVE  DocumentsStep(m)
<1>1. Storing(m)' \subseteq Storing(m)
  BY DEF Storing
<1> QED
  BY <1>1 DEF DocumentsStep

LEMMA BrokerDocuments ==
  ASSUME QueueInv, NEW m \in Msgs, NEW i \in Instances,
         Deliver(i) \/ BrokerReceive(i) \/ CloseConnection(i)
  PROVE  DocumentsStep(m)
<1>1. TypeOK /\ HolderInv /\ m # None
  BY DEF QueueInv, None, Msgs
<1>2. CASE Deliver(i)
  <2>1. PICK n \in raw :
              /\ raw' = raw \ {n} /\ unacked'[i] = unacked[i] \cup {n}
              /\ \A j \in Instances \ {i} : UNCHANGED <<unacked[j], inbox[j]>>
              /\ Range(inbox'[i]) = Range(inbox[i]) \cup (IF pc[i] = "down" THEN {} ELSE {n})
              /\ pc[i] # "down" => n \notin Range(inbox[i]) \cup InHand(i)
    BY <1>1, <1>2, DeliverHolds
  <2>2. UNCHANGED <<mongo, faults, pc, cur>>
    BY <1>2 DEF Deliver
  <2>3. CASE pc[i] # "down" /\ n = m
    <3>1. i \notin Storing(m)
      BY <1>1, <2>1, <2>3 DEF Storing, InHand
    <3>2. Storing(m)' = Storing(m) \cup {i}
      BY <2>1, <2>2, <2>3 DEF Storing
    <3>3. MayBeDelivered(m) /\ ~MayBeDelivered(m)'
      <4>1. \A j \in Instances : m \notin unacked[j]
        BY <1>1, <2>1, <2>3 DEF HolderInv, OneHolder
      <4> QED
        BY <2>1, <2>2, <2>3, <4>1 DEF MayBeDelivered
    <3> QED
      BY <2>2, <3>1, <3>2, <3>3 DEF DocumentsStep
  <2>4. CASE ~(pc[i] # "down" /\ n = m)
    <3>1. MayBeDelivered(m)' => MayBeDelivered(m)
      BY <2>1, <2>2, <2>4 DEF MayBeDelivered
    <3>2. \A j \in Instances : j \in Storing(m)' => j \in Storing(m)
      BY <2>1, <2>2, <2>4 DEF Storing
    <3> QED
      BY <2>2, <3>1, <3>2, DocumentsUndisturbed
  <2> QED
    BY <2>3, <2>4
<1>3. CASE BrokerReceive(i)
  <2>1. PICK n \in unacked[i] :
              /\ UNCHANGED <<raw, inbox, pc, cur, mongo, faults>>
              /\ \A j \in Instances \ {i} : UNCHANGED unacked[j]
              /\ UNCHANGED unacked \/ unacked'[i] = unacked[i] \ {n}
    BY <1>1, <1>3, ReceiveHolds
  <2>2. \A j \in Instances : unacked'[j] \subseteq unacked[j]
    BY <2>1
  <2>3. MayBeDelivered(m)' => MayBeDelivered(m)
    BY <2>1, <2>2 DEF MayBeDelivered
  <2>4. \A j \in Instances : j \in Storing(m)' => j \in Storing(m)
    BY <2>1 DEF Storing
  <2> QED
    BY <2>1, <2>3, <2>4, DocumentsUndisturbed
<1>4. CASE CloseConnection(i)
  <2>1. /\ raw' = raw \cup unacked[i] /\ unacked'[i] = {}
        /\ \A j \in Instances \ {i} : UNCHANGED unacked[j]
        /\ UNCHANGED <<mongo, faults, inbox, pc, cur>> /\ pc[i] = "down"
    BY <1>1, <1>4 DEF CloseConnection, DropConnection, serviceVars, TypeOK
  <2>2. MayBeDelivered(m)' => MayBeDelivered(m)
    BY <2>1 DEF MayBeDelivered
  <2>3. \A j \in Instances : j \in Storing(m)' => j \in Storing(m)
    BY <2>1 DEF Storing
  <2> QED
    BY <2>1, <2>2, <2>3, DocumentsUndisturbed
<1> QED
  BY <1>2, <1>3, <1>4

LEMMA ServiceDocuments ==
  ASSUME QueueInv, NEW m \in Msgs, NEW i \in Instances, Start(i) \/ ServiceStep(i)
  PROVE  DocumentsStep(m)
<1>1. TypeOK /\ HolderInv /\ Holding(i) /\ inbox[i] \in Seq(Msgs) /\ m # None
  BY DEF QueueInv, HolderInv, TypeOK, None, Msgs
<1>2. /\ UNCHANGED <<faults, raw, unacked>>
      /\ \A j \in Instances \ {i} : UNCHANGED <<pc[j], inbox[j], cur[j]>>
  BY <1>1 DEF Start, ServiceStep, TakeDelivery, StreamEnds, InsertDocument, ForwardEvent,
     AckDelivery, NackDelivery, Exit, TypeOK, brokerVars
<1>3. ASSUME UNCHANGED mongo, m \in unacked[i] => pc'[i] # "down",
             m \in Range(inbox'[i]) => m \in Range(inbox[i]),
             cur'[i] = m /\ pc'[i] = "insert" =>
               m \in Range(inbox[i]) \/ (cur[i] = m /\ pc[i] = "insert")
      PROVE  DocumentsStep(m)
  <2>1. MayBeDelivered(m)' => MayBeDelivered(m)
    BY <1>2, <1>3 DEF MayBeDelivered
  <2>2. \A j \in Instances : j \in Storing(m)' => j \in Storing(m)
    BY <1>2, <1>3 DEF Storing
  <2> QED
    BY <1>2, <1>3, <2>1, <2>2, DocumentsUndisturbed
<1>4. ASSUME ~up[i], Exit(i), UNCHANGED mongo
      PROVE  DocumentsStep(m)
  <2>1. pc'[i] = "down" /\ Range(inbox'[i]) = {}
    BY <1>1, <1>4, EmptyFacts DEF Exit, TypeOK
  <2>2. m \notin unacked[i]
    BY <1>1, <1>4 DEF Holding
  <2> QED
    BY <1>3, <1>4, <2>1, <2>2
<1>5. CASE Start(i)
  <2>1. mongo' = mongo /\ inbox' = inbox /\ pc'[i] = "next"
    BY <1>1, <1>5 DEF Start, TypeOK
  <2> QED
    BY <1>3, <2>1
<1>6. CASE StreamEnds(i)
  BY <1>4, <1>6 DEF StreamEnds
<1>7. CASE TakeDelivery(i)
  <2>1. /\ inbox[i] # <<>> /\ mongo' = mongo
        /\ cur'[i] = Head(inbox[i]) /\ inbox'[i] = Tail(inbox[i]) /\ pc'[i] # "down"
    BY <1>1, <1>7 DEF TakeDelivery, TypeOK
  <2>2. Range(inbox[i]) = {cur'[i]} \cup Range(inbox'[i])
    BY <1>1, <2>1, TailFacts
  <2> QED
    BY <1>3, <2>1, <2>2
<1>8. CASE InsertDocument(i)
  <2>1. /\ pc[i] = "insert" /\ pc'[i] = "forward" /\ UNCHANGED <<inbox, cur>>
        /\ cur[i] \in Msgs
    BY <1>1, <1>8 DEF InsertDocument, TypeOK
  <2>2. mongo'[m] = mongo[m] \/ (cur[i] = m /\ mongo'[m] = mongo[m] + 1)
    BY <1>1, <1>8, <2>1 DEF InsertDocument, TypeOK
  <2>3. MayBeDelivered(m)' => MayBeDelivered(m)
    BY <1>2, <2>1 DEF MayBeDelivered
  <2>4. CASE cur[i] = m
    <3>1. m \notin Range(inbox[i])
      BY <1>1, <2>4 DEF Holding
    <3>2. i \in Storing(m) /\ Storing(m)' = Storing(m) \ {i}
      BY <1>2, <2>1, <2>4, <3>1 DEF Storing
    <3>3. mongo[m] \in Nat /\ mongo'[m] <= mongo[m] + 1
      BY <1>1, <2>2 DEF TypeOK
    <3> QED
      BY <1>2, <2>3, <3>2, <3>3 DEF DocumentsStep
  <2>5. CASE cur[i] # m
    <3>1. Storing(m)' \subseteq Storing(m)
      BY <1>2, <2>1, <2>5 DEF Storing
    <3> QED
      BY <1>2, <2>2, <2>3, <2>5, <3>1 DEF DocumentsStep
  <2> QED
    BY <2>4, <2>5
<1>9. ASSUME UNCHANGED <<mongo, inbox>>, pc'[i] \in {"next", "ack"}
      PROVE  DocumentsStep(m)
  BY <1>3, <1>9
<1>10. CASE ForwardEvent(i) \/ AckDelivery(i) \/ NackDelivery(i)
  BY <1>1, <1>4, <1>9, <1>10 DEF ForwardEvent, AckDelivery, NackDelivery, TypeOK
<1> QED
  BY <1>5, <1>6, <1>7, <1>8, <1>10 DEF ServiceStep

LEMMA StepDocuments ==
  ASSUME QueueInv, [Next]_vars, NEW m \in Msgs
  PROVE  DocumentsStep(m)
<1>1. TypeOK /\ HolderInv /\ m # None
  BY DEF QueueInv, None, Msgs
<1>2. CASE Publish
  <2>1. /\ raw' = raw \cup {published + 1}
        /\ UNCHANGED <<mongo, faults, unacked, inbox, pc, cur>>
    BY <1>2 DEF Publish, serviceVars
  <2>2. CASE m = published + 1
    <3>1. m \notin 1..published
      BY <1>1, <1>2, <2>2, PublishHolds
    <3>2. mongo[m] = 0
      BY <1>1, <3>1 DEF HolderInv, PublishedOnly, TypeOK
    <3>3. Storing(m)' = {}
      BY <1>1, <2>1, <3>1 DEF Storing, HolderInv, Holding, InHand
    <3> QED
      BY <2>1, <3>2, <3>3 DEF DocumentsStep
  <2>3. CASE m # published + 1
    <3>1. MayBeDelivered(m)' => MayBeDelivered(m)
      BY <2>1, <2>3 DEF MayBeDelivered
    <3>2. \A j \in Instances : j \in Storing(m)' => j \in Storing(m)
      BY <2>1 DEF Storing
    <3> QED
      BY <2>1, <3>1, <3>2, DocumentsUndisturbed
  <2> QED
    BY <2>2, <2>3
<1>3. ASSUME NEW i \in Instances, Crash(i) \/ LoseConnection(i)
      PROVE  DocumentsStep(m)
  <2>1. faults' = faults + 1 /\ mongo' = mongo
    BY <1>3 DEF Crash, LoseConnection, DropConnection
  <2>2. Storing(m)' \subseteq Storing(m)
    <3>1. CASE Crash(i)
      <4>1. /\ \A j \in Instances \ {i} : UNCHANGED <<inbox[j], pc[j], cur[j]>>
            /\ Range(inbox'[i]) = {} /\ cur'[i] = None
        BY <1>1, <3>1, EmptyFacts DEF Crash, Exit, TypeOK
      <4> QED
        BY <1>1, <4>1 DEF Storing
    <3>2. CASE LoseConnection(i)
      BY <3>2 DEF LoseConnection, serviceVars, Storing
    <3> QED
      BY <1>3, <3>1, <3>2
  <2> QED
    BY <2>1, <2>2 DEF DocumentsStep
<1>4. CASE UNCHANGED vars
  <2>1. UNCHANGED <<mongo, faults, raw, unacked, inbox, pc, cur>>
    BY <1>4 DEF vars
  <2>2. MayBeDelivered(m)' => MayBeDelivered(m)
    BY <2>1 DEF MayBeDelivered
  <2>3. \A j \in Instances : j \in Storing(m)' => j \in Storing(m)
    BY <2>1 DEF Storing
  <2> QED
    BY <2>1, <2>2, <2>3, DocumentsUndisturbed
<1> QED
  BY <1>2, <1>3, <1>4, BrokerDocuments, ServiceDocuments DEF Next

-----------------------------------------------------------------------------
RepeatInv == QueueInv /\ RepeatsAreFaults

LEMMA InitRepeats == Init => RepeatInv
<1> SUFFICES ASSUME Init
             PROVE  RepeatInv
  OBVIOUS
<1>1. QueueInv
  BY InitQueue
<1>2. ASSUME NEW m \in Msgs
      PROVE  ForwardsBounded(m) /\ DocumentsBounded(m)
  <2>1. /\ normalized = <<>> /\ raw = {} /\ mongo[m] = 0 /\ faults = 0 /\ m # None
        /\ \A i \in Instances :
             unacked[i] = {} /\ wire[i] = <<>> /\ inbox[i] = <<>> /\ cur[i] = None
    BY <1>2 DEF Init, None, Msgs
  <2>2. Copies(m) = 0
    BY <1>1, <2>1, EmptyFacts, CopiesType DEF QueueInv
  <2>3. ~MayBeForwarded(m) /\ ~OnItsWay(m) /\ ~MayBeDelivered(m) /\ Storing(m) = {}
    BY <2>1, EmptyFacts, NothingSent DEF MayBeForwarded, OnItsWay, MayBeDelivered,
       Storing, Forwarding
  <2> QED
    BY <2>1, <2>2, <2>3, FS_EmptySet DEF ForwardsBounded, DocumentsBounded
<1> QED
  BY <1>1, <1>2 DEF RepeatInv, RepeatsAreFaults

LEMMA StepRepeats == RepeatInv /\ [Next]_vars => RepeatInv'
<1> SUFFICES ASSUME RepeatInv, [Next]_vars
             PROVE  RepeatInv'
  OBVIOUS
<1>1. QueueInv /\ QueueInv' /\ TypeOK /\ TypeOK'
  BY StepQueue DEF RepeatInv, QueueInv
<1>2. ASSUME NEW m \in Msgs
      PROVE  ForwardsBounded(m)' /\ DocumentsBounded(m)'
  <2>1. ForwardsBounded(m) /\ DocumentsBounded(m)
    BY DEF RepeatInv, RepeatsAreFaults
  <2>2. ForwardsStep(m) /\ DocumentsStep(m)
    BY <1>1, StepForwards, StepDocuments
  <2> QED
    BY <1>1, <2>1, <2>2, ForwardsStayBounded, DocumentsStayBounded
<1> QED
  BY <1>1, <1>2 DEF RepeatInv, RepeatsAreFaults

LEMMA InvMeansFewRepeats == RepeatInv => DuplicatesNeedFaults
<1> SUFFICES ASSUME RepeatInv, NEW m \in Msgs
             PROVE  Copies(m) <= 1 + faults /\ mongo[m] <= 1 + faults
  BY DEF DuplicatesNeedFaults
<1>1. /\ Copies(m) \in Nat /\ mongo[m] \in Nat /\ faults \in Nat
      /\ ForwardsBounded(m) /\ DocumentsBounded(m)
  BY CopiesType, QueueServiceAssumption DEF RepeatInv, QueueInv, TypeOK, RepeatsAreFaults
<1>2. Cardinality(Storing(m)) \in Nat
  BY <1>1, FS_CardinalityType DEF DocumentsBounded
<1> QED
  BY <1>1, <1>2 DEF ForwardsBounded, DocumentsBounded

\* Each crash and each lost connection repeats an event downstream, and its document
\* in MongoDB, at most once more, however many instances compete for the deliveries.
THEOREM RepeatsNeedFaults == Spec => []DuplicatesNeedFaults
  BY InitRepeats, StepRepeats, InvMeansFewRepeats, PTL DEF Spec

-----------------------------------------------------------------------------
(* The order of the events while the broker holds one connection at most.   *)

\* The head of an increasing sequence is its least element, and a greater one may
\* be appended.
LEMMA IncreasingFacts ==
  ASSUME NEW s \in Seq(Msgs), Increasing(s)
  PROVE  /\ s # <<>> => Increasing(Tail(s)) /\ \A m \in Range(Tail(s)) : Head(s) < m
         /\ \A m \in Msgs : (\A n \in Range(s) : n < m) => Increasing(Append(s, m))
<1>1. ASSUME s # <<>>
      PROVE  Increasing(Tail(s)) /\ \A m \in Range(Tail(s)) : Head(s) < m
  <2>1. /\ Head(s) = s[1] /\ Tail(s) \in Seq(Msgs)
        /\ Len(s) \in Nat \ {0} /\ Len(Tail(s)) = Len(s) - 1
        /\ \A k \in 1..(Len(s) - 1) : Tail(s)[k] = s[k + 1]
    BY <1>1, TailFacts
  <2>2. /\ \A k \in 1..Len(Tail(s)) : k + 1 \in 1..Len(s) /\ 1 < k + 1
        /\ \A j, k \in 1..Len(Tail(s)) : j < k => j + 1 < k + 1
        /\ 1 \in 1..Len(s)
    BY <2>1
  <2>3. \A k \in 1..Len(Tail(s)) : Tail(s)[k] = s[k + 1]
    BY <2>1
  <2>4. Increasing(Tail(s))
    BY <2>2, <2>3 DEF Increasing
  <2>5. \A k \in 1..Len(Tail(s)) : Head(s) < Tail(s)[k]
    BY <2>1, <2>2, <2>3 DEF Increasing
  <2>6. DOMAIN Tail(s) = 1..Len(Tail(s))
    BY <2>1
  <2> QED
    BY <2>4, <2>5, <2>6 DEF Range
<1>2. ASSUME NEW m \in Msgs, \A n \in Range(s) : n < m
      PROVE  Increasing(Append(s, m))
  <2>1. /\ Len(s) \in Nat /\ Len(Append(s, m)) = Len(s) + 1
        /\ \A k \in 1..Len(s) : Append(s, m)[k] = s[k]
        /\ Append(s, m)[Len(s) + 1] = m
    BY AppendFacts
  <2>2. /\ \A k \in 1..(Len(s) + 1) : k \in 1..Len(s) \/ k = Len(s) + 1
        /\ \A k \in 1..(Len(s) + 1) : ~(Len(s) + 1 < k)
    BY <2>1
  <2>3. \A k \in 1..Len(s) : s[k] < m
    <3>1. DOMAIN s = 1..Len(s)
      OBVIOUS
    <3> QED
      BY <1>2, <3>1 DEF Range
  <2> QED
    BY <2>1, <2>2, <2>3 DEF Increasing
<1> QED
  BY <1>1, <1>2

\* What was forwarded before a frame was forwarded before the frames behind it.
LEMMA ForwardedEarlier ==
  ASSUME NEW i \in Instances, NEW m, NEW k \in Nat, NEW n \in Nat, k <= n,
         ForwardedBefore(i, m, k)
  PROVE  ForwardedBefore(i, m, n)
  BY DEF ForwardedBefore

\* A step that routes nothing and writes nothing keeps the order of what was routed
\* and of what is on the connection.
LEMMA NothingForwarded ==
  ASSUME NEW i \in Instances, UNCHANGED <<normalized, wire[i]>>
  PROVE  /\ CopiesInOrder => CopiesInOrder'
         /\ WireInOrder(i) => WireInOrder(i)'
         /\ \A m, k : ForwardedBefore(i, m, k)' <=> ForwardedBefore(i, m, k)
<1>1. \A m, k : ForwardedBefore(i, m, k)' <=> ForwardedBefore(i, m, k)
  BY DEF ForwardedBefore, InNormalized
<1> QED
  BY <1>1 DEF CopiesInOrder, WireInOrder, EarlierForwarded

\* A frame that is written comes after all that was forwarded.
LEMMA WriteKeepsForwards ==
  ASSUME TypeOK, NEW i \in Instances, NEW op \in {"publish", "ack", "nack"},
         cur[i] \in Msgs, up[i], Send(i, op), UNCHANGED normalized,
         WireInOrder(i), op = "publish" => EarlierForwarded(i, cur[i], Len(wire[i]) + 1)
  PROVE  /\ WireInOrder(i)'
         /\ \A m : ForwardedBefore(i, m, Len(wire[i]) + 1)
                     => ForwardedBefore(i, m, Len(wire[i]) + 1)'
         /\ op = "publish" => \A m : m = cur[i] => ForwardedBefore(i, m, Len(wire[i]) + 1)'
<1> DEFINE e == [op |-> op, msg |-> cur[i]]
<1>1. wire[i] \in Seq(Frames) /\ e \in Frames /\ e.op = op /\ e.msg = cur[i]
  BY DEF TypeOK, Frames
<1>2. wire'[i] = Append(wire[i], e)
  BY DEF Send, TypeOK
<1> HIDE DEF e
<1>3. /\ Len(wire[i]) \in Nat /\ Len(wire'[i]) = Len(wire[i]) + 1
      /\ \A k \in 1..Len(wire[i]) : wire'[i][k] = wire[i][k]
      /\ wire'[i][Len(wire[i]) + 1] = e
  BY <1>1, <1>2, AppendFacts
<1>4. /\ \A k \in 1..Len(wire'[i]) : k \in 1..Len(wire[i]) \/ k = Len(wire[i]) + 1
      /\ \A k \in 1..Len(wire[i]) : k \in 1..Len(wire'[i])
      /\ Len(wire[i]) + 1 \in 1..Len(wire'[i])
      /\ Len(wire[i]) + 1 < Len(wire'[i]) + 1
      /\ \A k \in 1..Len(wire[i]) : k < Len(wire'[i]) + 1
  BY <1>3
<1>5. \A m, k : ForwardedBefore(i, m, k) => ForwardedBefore(i, m, k)'
  BY <1>3, <1>4 DEF ForwardedBefore, InNormalized
<1>6. WireInOrder(i)'
  <2> SUFFICES ASSUME NEW k \in 1..Len(wire'[i]), wire'[i][k].op = "publish",
                      NEW n \in Events, n < wire'[i][k].msg
               PROVE  ForwardedBefore(i, n, k)'
    BY DEF WireInOrder, EarlierForwarded
  <2>1. CASE k \in 1..Len(wire[i])
    <3>1. ForwardedBefore(i, n, k)
      BY <1>3, <2>1 DEF WireInOrder, EarlierForwarded
    <3> QED
      BY <1>5, <3>1
  <2>2. CASE k = Len(wire[i]) + 1
    <3>1. ForwardedBefore(i, n, Len(wire[i]) + 1)
      BY <1>1, <1>3, <2>2 DEF EarlierForwarded
    <3> QED
      BY <1>5, <2>2, <3>1
  <2> QED
    BY <1>4, <2>1, <2>2
<1>7. ASSUME NEW m, ForwardedBefore(i, m, Len(wire[i]) + 1)
      PROVE  ForwardedBefore(i, m, Len(wire[i]) + 1)'
  BY <1>3, <1>4, <1>7 DEF ForwardedBefore, InNormalized
<1>8. ASSUME op = "publish", NEW m, m = cur[i]
      PROVE  ForwardedBefore(i, m, Len(wire[i]) + 1)'
  BY <1>1, <1>3, <1>4, <1>8 DEF ForwardedBefore
<1> QED
  BY <1>6, <1>7, <1>8

\* A delivery comes after all that the instance has.
LEMMA DeliverInOrder ==
  ASSUME QueueInv, NEW i \in Instances, CopiesInOrder, ForwardingInOrder(i), Deliver(i)
  PROVE  CopiesInOrder' /\ ForwardingInOrder(i)'
<1>1. TypeOK /\ Holding(i) /\ inbox[i] \in Seq(Msgs) /\ raw \subseteq Msgs /\ unacked[i] \subseteq Msgs
  BY DEF QueueInv, HolderInv, TypeOK
<1>2. PICK m \in raw : /\ \A n \in raw : m <= n
                       /\ raw' = raw \ {m}
                       /\ unacked' = [unacked EXCEPT ![i] = @ \cup {m}]
                       /\ inbox' = IF pc[i] = "down"
                                   THEN inbox
                                   ELSE [inbox EXCEPT ![i] = Append(@, m)]
  BY DEF Deliver
<1>3. /\ unacked'[i] = unacked[i] \cup {m}
      /\ inbox'[i] = IF pc[i] = "down" THEN inbox[i] ELSE Append(inbox[i], m)
      /\ UNCHANGED <<normalized, wire, up, pc, cur>> /\ up[i]
  BY <1>1, <1>2 DEF Deliver, TypeOK
<1>4. m \in Msgs /\ \A n \in unacked[i] : n < m
  BY <1>1 DEF ForwardingInOrder, DeliveredInOrder
<1>5. DeliveredInOrder(i)'
  <2> SUFFICES ASSUME NEW n \in unacked[i] \cup {m}, NEW x \in raw \ {m}
               PROVE  n < x
    BY <1>2, <1>3 DEF DeliveredInOrder
  <2>1. m \in Nat /\ x \in Nat /\ m <= x /\ m # x
    BY <1>1, <1>2, <1>4 DEF Msgs
  <2> QED
    BY <2>1 DEF ForwardingInOrder, DeliveredInOrder
<1>6. CopiesInOrder' /\ WireInOrder(i)'
  BY <1>3, NothingForwarded DEF ForwardingInOrder
<1>7. ASSUME pc[i] # "down"
      PROVE  TakenInOrder(i)'
  <2>1. TakenInOrder(i) /\ inbox'[i] = Append(inbox[i], m)
    BY <1>3, <1>7 DEF ForwardingInOrder
  <2>2. Range(inbox[i]) \cup InHand(i) \subseteq unacked[i]
    BY <1>1, <1>3 DEF Holding
  <2>3. Range(inbox'[i]) = Range(inbox[i]) \cup {m}
    BY <1>1, <1>4, <2>1, AppendFacts
  <2>4. Increasing(inbox'[i])
    BY <1>1, <1>4, <2>1, <2>2, IncreasingFacts DEF TakenInOrder
  <2>5. cur[i] < m
    BY <1>4, <2>2 DEF InHand, None, Msgs
  <2>6. \A x \in Range(inbox'[i]) : cur[i] < x
    BY <2>1, <2>3, <2>5 DEF TakenInOrder
  <2>7. \A n, k : ForwardedBefore(i, n, k)' <=> ForwardedBefore(i, n, k)
    BY <1>3, NothingForwarded
  <2>8. \A n \in unacked'[i] \ Malformed :
          \/ n \in Range(inbox'[i])
          \/ n = cur[i] /\ pc[i] \in {"insert", "forward"}
          \/ ForwardedBefore(i, n, Len(wire[i]) + 1)
    BY <1>3, <2>1, <2>3 DEF TakenInOrder
  <2>9. \A n : ForwardedBefore(i, n, Len(wire[i]) + 1)
                 => ForwardedBefore(i, n, Len(wire[i]) + 1)'
    BY <1>3 DEF ForwardedBefore, InNormalized
  <2> QED
    BY <1>3, <2>4, <2>6, <2>8, <2>9 DEF TakenInOrder
<1> QED
  BY <1>3, <1>5, <1>6, <1>7 DEF ForwardingInOrder

\* A forward that is read finds every earlier event routed.
LEMMA ReceiveInOrder ==
  ASSUME QueueInv, NEW i \in Instances, CopiesInOrder, ForwardingInOrder(i),
         BrokerReceive(i)
  PROVE  CopiesInOrder' /\ ForwardingInOrder(i)'
<1> DEFINE f == Head(wire[i])
<1>1. TypeOK /\ wire[i] \in Seq(Frames) /\ normalized \in Seq(Msgs)
  BY DEF QueueInv, TypeOK
<1>2. /\ wire[i] # <<>> /\ wire'[i] = Tail(wire[i])
      /\ UNCHANGED <<raw, up, inbox, pc, cur>>
      /\ unacked'[i] \subseteq unacked[i]
      /\ normalized' = normalized
         \/ (f.op = "publish" /\ normalized' = Append(normalized, f.msg))
  <2>1. /\ wire[i] # <<>> /\ wire'[i] = Tail(wire[i])
        /\ UNCHANGED <<raw, up, inbox, pc, cur>>
    BY <1>1 DEF BrokerReceive, TypeOK, serviceVars
  <2>2. unacked'[i] \subseteq unacked[i]
    BY <1>1 DEF BrokerReceive, TypeOK
  <2>3. normalized' = normalized
        \/ (f.op = "publish" /\ normalized' = Append(normalized, f.msg))
    BY DEF BrokerReceive
  <2> QED
    BY <2>1, <2>2, <2>3
<1>3. /\ f \in Frames /\ f = wire[i][1]
      /\ Len(wire[i]) \in Nat \ {0} /\ Len(wire'[i]) = Len(wire[i]) - 1
      /\ \A k \in 1..(Len(wire[i]) - 1) : wire'[i][k] = wire[i][k + 1]
  BY <1>1, <1>2, TailFacts
<1>4. f.msg \in Msgs
  BY <1>3 DEF Frames
<1>5. \A m : \A k \in 1..Len(wire[i]) :
        ForwardedBefore(i, m, k + 1) => ForwardedBefore(i, m, k)'
  BY <1>1, ReadKeepsForwards
<1>6. DeliveredInOrder(i)'
  BY <1>2 DEF ForwardingInOrder, DeliveredInOrder
<1>7. WireInOrder(i)'
  <2> SUFFICES ASSUME NEW k \in 1..Len(wire'[i]), wire'[i][k].op = "publish",
                      NEW n \in Events, n < wire'[i][k].msg
               PROVE  ForwardedBefore(i, n, k)'
    BY DEF WireInOrder, EarlierForwarded
  <2>1. k \in 1..Len(wire[i]) /\ k + 1 \in 1..Len(wire[i]) /\ wire'[i][k] = wire[i][k + 1]
    BY <1>3
  <2>2. ForwardedBefore(i, n, k + 1)
    BY <2>1 DEF ForwardingInOrder, WireInOrder, EarlierForwarded
  <2> QED
    BY <1>5, <2>1, <2>2
<1>8. ASSUME up[i] /\ pc[i] # "down"
      PROVE  TakenInOrder(i)'
  <2>1. TakenInOrder(i)
    BY <1>8 DEF ForwardingInOrder
  <2>2. Len(wire[i]) \in 1..Len(wire[i]) /\ Len(wire[i]) = Len(wire'[i]) + 1
    BY <1>3
  <2>3. ASSUME NEW m, ForwardedBefore(i, m, Len(wire[i]) + 1)
        PROVE  ForwardedBefore(i, m, Len(wire[i]) + 1)'
    <3>1. PICK n : n = Len(wire[i])
      OBVIOUS
    <3>2. ForwardedBefore(i, m, n)'
      BY <1>5, <2>2, <2>3, <3>1
    <3> QED
      BY <2>2, <3>1, <3>2 DEF ForwardedBefore, InNormalized
  <2> QED
    BY <1>2, <2>1, <2>3 DEF TakenInOrder
<1>9. CopiesInOrder'
  <2>1. CASE normalized' = normalized
    BY <2>1 DEF CopiesInOrder
  <2>2. CASE f.op = "publish" /\ normalized' = Append(normalized, f.msg)
    <3>1. /\ Len(normalized) \in Nat /\ Len(normalized') = Len(normalized) + 1
          /\ \A k \in 1..Len(normalized) : normalized'[k] = normalized[k]
          /\ normalized'[Len(normalized) + 1] = f.msg
      BY <1>1, <1>4, <2>2, AppendFacts
    <3>2. ASSUME NEW n \in Events, n < f.msg
          PROVE  \E j \in 1..Len(normalized) : normalized[j] = n
      <4>1. 1 \in 1..Len(wire[i]) /\ wire[i][1].op = "publish"
        BY <1>3, <2>2
      <4>2. ForwardedBefore(i, n, 1)
        BY <1>3, <3>2, <4>1 DEF ForwardingInOrder, WireInOrder, EarlierForwarded
      <4> QED
        BY <4>2 DEF ForwardedBefore, InNormalized
    <3>3. ASSUME NEW k \in 1..Len(normalized'), NEW n \in Events, n < normalized'[k]
          PROVE  \E j \in 1..(k - 1) : normalized'[j] = n
      <4>1. CASE k = Len(normalized) + 1
        <5>1. PICK j \in 1..Len(normalized) : normalized[j] = n
          BY <3>1, <3>2, <3>3, <4>1
        <5>2. j \in 1..(k - 1) /\ normalized'[j] = n
          BY <3>1, <4>1, <5>1
        <5> QED
          BY <5>2
      <4>2. CASE k \in 1..Len(normalized)
        <5>1. PICK j \in 1..(k - 1) : normalized[j] = n
          BY <3>1, <3>3, <4>2 DEF CopiesInOrder
        <5>2. j \in 1..Len(normalized)
          BY <3>1, <4>2
        <5> QED
          BY <3>1, <5>1, <5>2
      <4> QED
        BY <3>1, <4>1, <4>2
    <3> QED
      BY <3>3 DEF CopiesInOrder
  <2> QED
    BY <1>2, <2>1, <2>2
<1> QED
  BY <1>2, <1>6, <1>7, <1>8, <1>9 DEF ForwardingInOrder

\* When the one connected instance forwards an event, the earlier ones have been
\* forwarded: each was routed, or is unsettled and was in hand before.
LEMMA ForwardComesLater ==
  ASSUME QueueInv, OneConnection, NEW i \in Instances, ForwardingInOrder(i),
         up[i], pc[i] = "forward"
  PROVE  EarlierForwarded(i, cur[i], Len(wire[i]) + 1)
<1> SUFFICES ASSUME NEW n \in Events, n < cur[i]
             PROVE  ForwardedBefore(i, n, Len(wire[i]) + 1)
  BY DEF EarlierForwarded
<1>1. /\ TypeOK /\ Holding(i) /\ Accounted /\ AcksFollowPublishes
      /\ n \in Msgs /\ n \notin Malformed
  BY DEF QueueInv, HolderInv, DeliveryInv, Events
<1>2. cur[i] \in Msgs /\ cur[i] \in unacked[i] /\ cur[i] \in 1..published
  BY <1>1 DEF TypeOK, Holding, InHand
<1>3. n \in 1..published
  <2>1. n \in Nat /\ 1 <= n /\ published \in Nat
    BY <1>1, QueueServiceAssumption DEF TypeOK, Msgs
  <2> QED
    BY <1>2, <2>1
<1>4. n \in raw \cup unacked[i] \cup acked \cup discarded
  <2>1. \A j \in Instances : j # i => unacked[j] = {}
    BY DEF OneConnection, QueueInv, HolderInv, Holding, TypeOK
  <2> QED
    BY <1>1, <1>3, <2>1 DEF Accounted
<1>5. n \notin raw
  <2>1. n \in raw => cur[i] < n
    BY <1>2 DEF ForwardingInOrder, DeliveredInOrder
  <2> QED
    BY <1>1, <1>2, <2>1 DEF Msgs
<1>6. n \notin discarded /\ (n \in acked => InNormalized(n))
  BY <1>1 DEF AcksFollowPublishes
<1>7. n \in unacked[i] => ForwardedBefore(i, n, Len(wire[i]) + 1)
  <2>1. TakenInOrder(i)
    BY DEF ForwardingInOrder
  <2>2. n # cur[i] /\ n \notin Range(inbox[i])
    <3>1. n \in Nat /\ cur[i] \in Nat
      BY <1>1, <1>2 DEF Msgs
    <3>2. n \in Range(inbox[i]) => cur[i] < n
      BY <2>1 DEF TakenInOrder
    <3> QED
      BY <3>1, <3>2
  <2> QED
    BY <1>1, <2>1, <2>2 DEF TakenInOrder
<1> QED
  BY <1>4, <1>5, <1>6, <1>7 DEF ForwardedBefore

\* A step that moves nothing at the broker and writes nothing.
LEMMA HandlerInOrder ==
  ASSUME NEW i \in Instances, CopiesInOrder, ForwardingInOrder(i),
         UNCHANGED <<raw, unacked, normalized, wire>>,
         up'[i] /\ pc'[i] # "down" => TakenInOrder(i)'
  PROVE  CopiesInOrder' /\ ForwardingInOrder(i)'
<1>1. CopiesInOrder' /\ WireInOrder(i)'
  BY NothingForwarded DEF ForwardingInOrder
<1>2. DeliveredInOrder(i)'
  BY DEF ForwardingInOrder, DeliveredInOrder
<1> QED
  BY <1>1, <1>2 DEF ForwardingInOrder

\* An instance takes its deliveries from the head of its buffer, and goes on to the
\* next when it has forwarded the event in hand.
LEMMA ServiceInOrder ==
  ASSUME QueueInv, OneConnection, NEW i \in Instances,
         CopiesInOrder, ForwardingInOrder(i), Start(i) \/ ServiceStep(i)
  PROVE  CopiesInOrder' /\ ForwardingInOrder(i)'
<1>1. TypeOK /\ Holding(i) /\ inbox[i] \in Seq(Msgs)
  BY DEF QueueInv, HolderInv, TypeOK
<1>2. UNCHANGED <<raw, unacked, normalized>>
  BY DEF Start, ServiceStep, TakeDelivery, StreamEnds, InsertDocument, ForwardEvent,
     AckDelivery, NackDelivery, brokerVars
<1>3. ASSUME UNCHANGED wire, pc'[i] = "down"
      PROVE  CopiesInOrder' /\ ForwardingInOrder(i)'
  BY <1>2, <1>3, HandlerInOrder
<1>4. ASSUME UNCHANGED <<up, wire>>, ~up[i]
      PROVE  CopiesInOrder' /\ ForwardingInOrder(i)'
  BY <1>2, <1>4, HandlerInOrder
<1>5. ASSUME UNCHANGED wire
      PROVE  \A n : ForwardedBefore(i, n, Len(wire[i]) + 1)
                      => ForwardedBefore(i, n, Len(wire[i]) + 1)'
  BY <1>2, <1>5 DEF ForwardedBefore, InNormalized
<1>6. CASE Start(i)
  <2>1. UNCHANGED <<wire, inbox, cur>> /\ inbox[i] = <<>> /\ unacked[i] = {}
    BY <1>1, <1>6 DEF Start, TypeOK, Holding
  <2>2. TakenInOrder(i)'
    BY <1>2, <2>1, EmptyFacts DEF TakenInOrder, Increasing
  <2> QED
    BY <1>2, <2>1, <2>2, HandlerInOrder
<1>7. CASE StreamEnds(i)
  BY <1>4, <1>7 DEF StreamEnds
<1>8. ASSUME up[i], pc[i] # "down"
      PROVE  TakenInOrder(i)
  BY <1>8 DEF ForwardingInOrder
<1>9. CASE TakeDelivery(i)
  <2>1. /\ inbox[i] # <<>> /\ cur'[i] = Head(inbox[i]) /\ inbox'[i] = Tail(inbox[i])
        /\ pc[i] = "next" /\ cur[i] = None
        /\ pc'[i] = IF Head(inbox[i]) \in Malformed THEN "nack" ELSE "insert"
        /\ UNCHANGED <<up, wire>>
    BY <1>1, <1>9 DEF TakeDelivery, TypeOK
  <2>2. Range(inbox[i]) = {cur'[i]} \cup Range(inbox'[i])
    BY <1>1, <2>1, TailFacts
  <2>3. ASSUME up[i]
        PROVE  TakenInOrder(i)'
    <3>1. TakenInOrder(i)
      BY <1>8, <2>1, <2>3
    <3>2. Increasing(inbox'[i]) /\ \A m \in Range(inbox'[i]) : cur'[i] < m
      BY <1>1, <2>1, <3>1, IncreasingFacts DEF TakenInOrder
    <3>3. \A n \in unacked'[i] \ Malformed :
            \/ n \in Range(inbox'[i])
            \/ n = cur'[i] /\ pc'[i] \in {"insert", "forward"}
            \/ ForwardedBefore(i, n, Len(wire[i]) + 1)
      BY <1>2, <2>1, <2>2, <3>1 DEF TakenInOrder
    <3> QED
      BY <1>5, <2>1, <3>2, <3>3 DEF TakenInOrder
  <2> QED
    BY <1>2, <2>1, <2>3, HandlerInOrder
<1>10. CASE InsertDocument(i)
  <2>1. pc[i] = "insert" /\ pc'[i] = "forward" /\ UNCHANGED <<up, wire, inbox, cur>>
    BY <1>1, <1>10 DEF InsertDocument, TypeOK
  <2>2. ASSUME up[i]
        PROVE  TakenInOrder(i)'
    BY <1>2, <1>5, <1>8, <2>1, <2>2 DEF TakenInOrder
  <2> QED
    BY <1>2, <2>1, <2>2, HandlerInOrder
<1>11. ASSUME NEW op \in {"publish", "ack", "nack"}, Send(i, op), up[i], UNCHANGED <<up, inbox>>,
              cur[i] \in Msgs, pc[i] = (IF op = "publish" THEN "forward" ELSE op),
              pc'[i] = (IF op = "publish" THEN "ack" ELSE "next"),
              cur'[i] = (IF op = "publish" THEN cur[i] ELSE None)
       PROVE  CopiesInOrder' /\ ForwardingInOrder(i)'
  <2>1. op = "publish" => EarlierForwarded(i, cur[i], Len(wire[i]) + 1)
    BY <1>11, ForwardComesLater
  <2>2. /\ WireInOrder(i)'
        /\ \A m : ForwardedBefore(i, m, Len(wire[i]) + 1)
                    => ForwardedBefore(i, m, Len(wire[i]) + 1)'
        /\ op = "publish" => \A m : m = cur[i] => ForwardedBefore(i, m, Len(wire[i]) + 1)'
    BY <1>1, <1>2, <1>11, <2>1, WriteKeepsForwards DEF ForwardingInOrder
  <2>3. TakenInOrder(i) /\ DeliveredInOrder(i)'
    BY <1>2, <1>8, <1>11 DEF ForwardingInOrder, DeliveredInOrder
  <2>4. \A m \in Range(inbox[i]) : cur'[i] < m
    <3>1. Range(inbox[i]) \subseteq 1..published
      BY <1>1 DEF Holding
    <3>2. \A m \in Range(inbox[i]) : None < m
      BY <3>1 DEF None
    <3> QED
      BY <1>11, <2>3, <3>2 DEF TakenInOrder
  <2>5. \A n \in unacked'[i] \ Malformed :
          n \in Range(inbox'[i]) \/ ForwardedBefore(i, n, Len(wire[i]) + 1)'
    BY <1>2, <1>11, <2>2, <2>3 DEF TakenInOrder
  <2>6. TakenInOrder(i)'
    BY <1>11, <2>3, <2>4, <2>5 DEF TakenInOrder
  <2>7. CopiesInOrder'
    BY <1>2 DEF CopiesInOrder
  <2> QED
    BY <2>2, <2>3, <2>6, <2>7 DEF ForwardingInOrder
<1>12. ASSUME NEW op \in {"publish", "ack", "nack"}, Send(i, op), ~up[i], UNCHANGED up
       PROVE  CopiesInOrder' /\ ForwardingInOrder(i)'
  BY <1>4, <1>12 DEF Send
<1>13. CASE ForwardEvent(i)
  <2>1. ASSUME Send(i, "publish"), pc' = [pc EXCEPT ![i] = "ack"], UNCHANGED <<inbox, cur>>
        PROVE  CopiesInOrder' /\ ForwardingInOrder(i)'
    <3>1. /\ pc[i] = "forward" /\ pc'[i] = "ack" /\ cur[i] \in Msgs /\ UNCHANGED up
          /\ cur'[i] = cur[i]
      BY <1>1, <1>13, <2>1 DEF ForwardEvent, TypeOK
    <3> QED
      BY <1>11, <1>12, <2>1, <3>1
  <2> QED
    BY <1>4, <1>13, <2>1 DEF ForwardEvent
<1>14. CASE AckDelivery(i) \/ NackDelivery(i)
  <2>1. ASSUME NEW op \in {"ack", "nack"}, Send(i, op), pc[i] = op,
               pc' = [pc EXCEPT ![i] = "next"], cur' = [cur EXCEPT ![i] = None],
               UNCHANGED <<inbox, up>>
        PROVE  CopiesInOrder' /\ ForwardingInOrder(i)'
    <3>1. pc'[i] = "next" /\ cur[i] \in Msgs /\ cur'[i] = None /\ op # "publish"
      BY <1>1, <2>1 DEF TypeOK
    <3> QED
      BY <1>11, <1>12, <2>1, <3>1
  <2> QED
    BY <1>4, <1>14, <2>1 DEF AckDelivery, NackDelivery
<1> QED
  BY <1>6, <1>7, <1>9, <1>10, <1>13, <1>14 DEF ServiceStep

\* A step of an instance keeps the order of what it forwards.
LEMMA ActorInOrder ==
  ASSUME QueueInv, OneConnection, NEW i \in Instances,
         CopiesInOrder, ForwardingInOrder(i),
         \/ Deliver(i) \/ BrokerReceive(i) \/ Start(i) \/ ServiceStep(i)
         \/ Crash(i) \/ LoseConnection(i) \/ CloseConnection(i)
  PROVE  CopiesInOrder' /\ ForwardingInOrder(i)'
<1>1. TypeOK
  BY DEF QueueInv
<1>2. CASE Deliver(i)
  BY <1>2, DeliverInOrder
<1>3. CASE BrokerReceive(i)
  BY <1>3, ReceiveInOrder
<1>4. CASE Start(i) \/ ServiceStep(i)
  BY <1>4, ServiceInOrder
<1>5. CASE Crash(i)
  <2>1. UNCHANGED <<raw, unacked, normalized, wire>> /\ pc'[i] = "down"
    BY <1>1, <1>5 DEF Crash, Exit, TypeOK, brokerVars
  <2> QED
    BY <2>1, HandlerInOrder
<1>6. CASE LoseConnection(i) \/ CloseConnection(i)
  <2>1. /\ ~up'[i] /\ unacked'[i] = {} /\ wire'[i] = <<>> /\ normalized' = normalized
    BY <1>1, <1>6 DEF LoseConnection, CloseConnection, DropConnection, TypeOK
  <2>2. CopiesInOrder' /\ DeliveredInOrder(i)' /\ WireInOrder(i)'
    BY <2>1 DEF CopiesInOrder, DeliveredInOrder, WireInOrder
  <2> QED
    BY <2>1, <2>2 DEF ForwardingInOrder
<1> QED
  BY <1>2, <1>3, <1>4, <1>5, <1>6

\* A step of one instance does not disturb the others: those that are not connected
\* have nothing out, and if another is, the one that moves is not and reaches nobody.
LEMMA BystanderInOrder ==
  ASSUME QueueInv, QueueInv', OneConnection, OneConnection',
         NEW i \in Instances, NEW j \in Instances \ {i},
         CopiesInOrder, ForwardingInOrder(j),
         \/ Deliver(i) \/ BrokerReceive(i) \/ Start(i) \/ ServiceStep(i)
         \/ Crash(i) \/ LoseConnection(i) \/ CloseConnection(i)
  PROVE  ForwardingInOrder(j)'
<1>1. TypeOK /\ Holding(j)'
  BY DEF QueueInv, HolderInv
<1>2. CASE ~up'[j]
  <2>1. unacked'[j] = {} /\ wire'[j] = <<>>
    BY <1>1, <1>2 DEF Holding
  <2> QED
    BY <1>2, <2>1 DEF ForwardingInOrder, DeliveredInOrder, WireInOrder
<1>3. CASE up'[j]
  <2>1. ~up'[i]
    BY <1>3 DEF OneConnection
  <2>2. up'[j] = up[j] /\ pc'[j] = pc[j] /\ cur'[j] = cur[j] /\ inbox'[j] = inbox[j]
    BY <1>1 DEF Deliver, BrokerReceive, Start, ServiceStep, TakeDelivery, StreamEnds,
       InsertDocument, ForwardEvent, AckDelivery, NackDelivery, Crash, LoseConnection,
       CloseConnection, DropConnection, Exit, serviceVars, TypeOK
  <2>3. ~up[i]
    BY <1>3, <2>2 DEF OneConnection
  <2>4. UNCHANGED <<raw, unacked, normalized, wire>>
    <3>1. ServiceStep(i) \/ Crash(i)
      BY <1>1, <2>1, <2>3 DEF Deliver, BrokerReceive, Start, LoseConnection,
         CloseConnection, TypeOK
    <3> QED
      BY <2>3, <3>1 DEF ServiceStep, TakeDelivery, StreamEnds, InsertDocument,
         ForwardEvent, AckDelivery, NackDelivery, Send, Crash, brokerVars
  <2>5. \A n : ForwardedBefore(j, n, Len(wire[j]) + 1)'
                 <=> ForwardedBefore(j, n, Len(wire[j]) + 1)
    BY <2>4 DEF ForwardedBefore, InNormalized
  <2>6. TakenInOrder(j) => TakenInOrder(j)'
    BY <2>2, <2>4, <2>5 DEF TakenInOrder
  <2> QED
    BY <2>2, <2>4, <2>6, HandlerInOrder DEF ForwardingInOrder
<1> QED
  BY <1>1, <1>2, <1>3 DEF TypeOK

\* Publish, and a step that changes nothing, keep the order.
LEMMA PublishInOrder ==
  ASSUME QueueInv, OrderInv, Publish \/ UNCHANGED vars
  PROVE  OrderInv'
<1>1. /\ UNCHANGED <<up, unacked, normalized, wire, inbox, pc, cur>>
      /\ raw' = raw \/ Publish
  BY DEF Publish, serviceVars, vars
<1>2. CopiesInOrder'
  BY <1>1 DEF OrderInv, CopiesInOrder
<1>3. ASSUME NEW i \in Instances
      PROVE  ForwardingInOrder(i)'
  <2>1. ForwardingInOrder(i) /\ TypeOK
    BY DEF OrderInv, QueueInv
  <2>2. WireInOrder(i)'
    BY <1>1, <2>1, NothingForwarded DEF ForwardingInOrder
  <2>3. DeliveredInOrder(i)'
    <3>1. CASE raw' = raw
      BY <1>1, <2>1, <3>1 DEF ForwardingInOrder, DeliveredInOrder
    <3>2. CASE Publish
      <4>1. /\ raw' = raw \cup {published + 1} /\ published \in Nat
            /\ unacked[i] \subseteq 1..published
        BY <2>1, <3>2, QueueServiceAssumption
           DEF Publish, TypeOK, QueueInv, HolderInv, Holding
      <4>2. \A n \in unacked[i] : n < published + 1
        BY <4>1
      <4> QED
        BY <1>1, <2>1, <4>1, <4>2 DEF ForwardingInOrder, DeliveredInOrder
    <3> QED
      BY <1>1, <3>1, <3>2
  <2>4. \A n : ForwardedBefore(i, n, Len(wire[i]) + 1)'
                 <=> ForwardedBefore(i, n, Len(wire[i]) + 1)
    BY <1>1 DEF ForwardedBefore, InNormalized
  <2>5. TakenInOrder(i) => TakenInOrder(i)'
    BY <1>1, <2>4 DEF TakenInOrder
  <2> QED
    BY <1>1, <2>1, <2>2, <2>3, <2>5 DEF ForwardingInOrder
<1> QED
  BY <1>2, <1>3 DEF OrderInv

\* While the broker holds one connection at most, every step keeps the order.
LEMMA StepInOrder ==
  ASSUME QueueInv, QueueInv', OneConnection, OneConnection', OrderInv, [Next]_vars
  PROVE  OrderInv'
<1>1. CopiesInOrder /\ \A i \in Instances : ForwardingInOrder(i)
  BY DEF OrderInv
<1>2. CASE Publish \/ UNCHANGED vars
  BY <1>2, PublishInOrder
<1>3. ASSUME NEW i \in Instances,
             \/ Deliver(i) \/ BrokerReceive(i) \/ Start(i) \/ ServiceStep(i)
             \/ Crash(i) \/ LoseConnection(i) \/ CloseConnection(i)
      PROVE  OrderInv'
  <2>1. CopiesInOrder' /\ ForwardingInOrder(i)'
    BY <1>1, <1>3, ActorInOrder
  <2>2. \A j \in Instances \ {i} : ForwardingInOrder(j)'
    BY <1>1, <1>3, BystanderInOrder
  <2> QED
    BY <2>1, <2>2 DEF OrderInv
<1> QED
  BY <1>2, <1>3 DEF Next

\* However many times the service is started, crashes and loses its connection, the
\* events' first copies are forwarded in the order in which they were published, if no
\* start finds the broker holding the connection of an earlier one.
THEOREM UnsharedQueueInOrder == Spec => FirstCopiesInOrder
<1>1. Init => OrderInv
  <2> SUFFICES ASSUME Init
               PROVE  OrderInv
    OBVIOUS
  <2>1. /\ normalized = <<>> /\ raw = {}
        /\ \A i \in Instances : wire[i] = <<>> /\ pc[i] = "down"
    BY DEF Init
  <2> QED
    BY <2>1 DEF OrderInv, CopiesInOrder, ForwardingInOrder, DeliveredInOrder, WireInOrder
<1>2. /\ QueueInv /\ QueueInv' /\ OneConnection /\ OneConnection'
      /\ OrderInv /\ [Next]_vars
      => OrderInv'
  BY StepInOrder
<1>3. OrderInv => CopiesInOrder
  BY DEF OrderInv
<1> QED
  BY <1>1, <1>2, <1>3, InitQueue, StepQueue, PTL DEF Spec, FirstCopiesInOrder
=============================================================================
