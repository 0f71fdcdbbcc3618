----------------------- MODULE ProcessingServiceProofs ------------------------
(***************************************************************************)
(* Proofs about ProcessingService, for any queue, any rules with any        *)
(* verdicts, any prefetch limit and any number of signals and faults.       *)
(***************************************************************************)
EXTENDS ProcessingService, SequenceTheorems, FiniteSetTheorems, TLAPS

-----------------------------------------------------------------------------
(* Sequences: wires and inboxes, first in, first out.                     *)

\* Removing the head of a non-empty sequence shifts the others down by one; the
\* head of a sequence that repeats nothing is nowhere else in it.
LEMMA TailFacts ==
  ASSUME NEW S, NEW s \in Seq(S), s # <<>>
  PROVE  /\ Head(s) \in S /\ Head(s) = s[1]
         /\ Tail(s) \in Seq(S)
         /\ Len(s) \in Nat \ {0} /\ Len(Tail(s)) = Len(s) - 1
         /\ \A k \in 1..(Len(s) - 1) : Tail(s)[k] = s[k + 1]
         /\ Range(s) = {Head(s)} \cup Range(Tail(s))
         /\ IsInjective(s) => IsInjective(Tail(s)) /\ Head(s) \notin Range(Tail(s))
<1>1. /\ Head(s) \in S /\ Head(s) = s[1]
      /\ Tail(s) \in Seq(S) /\ Len(s) \in Nat \ {0} /\ Len(Tail(s)) = Len(s) - 1
      /\ \A k \in 1..(Len(s) - 1) : Tail(s)[k] = s[k + 1]
      /\ DOMAIN s = 1..Len(s) /\ DOMAIN Tail(s) = 1..(Len(s) - 1)
  OBVIOUS
<1>2. Range(s) = {Head(s)} \cup Range(Tail(s))
  <2>1. \A k \in 1..Len(s) : k = 1 \/ \E n \in 1..(Len(s) - 1) : k = n + 1
    <3>1. \A k \in 1..Len(s) : k # 1 => k - 1 \in 1..(Len(s) - 1) /\ k = (k - 1) + 1
      BY <1>1
    <3> QED
      BY <3>1
  <2>2. 1 \in 1..Len(s) /\ \A k \in 1..(Len(s) - 1) : k + 1 \in 1..Len(s)
    BY <1>1
  <2>3. Range(Tail(s)) \subseteq Range(s) /\ Head(s) \in Range(s)
    BY <1>1, <2>2 DEF Range
  <2>4. \A n \in 1..(Len(s) - 1) : s[n + 1] \in Range(Tail(s))
    BY <1>1 DEF Range
  <2>5. \A k \in 1..Len(s) : s[k] = Head(s) \/ s[k] \in Range(Tail(s))
    BY <1>1, <2>1, <2>4
  <2> QED
    BY <1>1, <2>3, <2>5 DEF Range
<1>3. IsInjective(s) => IsInjective(Tail(s)) /\ Head(s) \notin Range(Tail(s))
  BY <1>1 DEF IsInjective, Range
<1> QED
  BY <1>1, <1>2, <1>3

\* Appending keeps what was there and puts the new element last.
LEMMA AppendFacts ==
  ASSUME NEW S, NEW s \in Seq(S), NEW e \in S
  PROVE  /\ Append(s, e) \in Seq(S)
         /\ Len(s) \in Nat /\ Len(Append(s, e)) = Len(s) + 1
         /\ \A k \in 1..Len(s) : Append(s, e)[k] = s[k]
         /\ Append(s, e)[Len(s) + 1] = e
         /\ Range(Append(s, e)) = Range(s) \cup {e}
         /\ IsInjective(s) /\ e \notin Range(s) => IsInjective(Append(s, e))
<1>1. /\ Append(s, e) \in Seq(S)
      /\ Len(s) \in Nat /\ Len(Append(s, e)) = Len(s) + 1
      /\ \A k \in 1..Len(s) : Append(s, e)[k] = s[k]
      /\ Append(s, e)[Len(s) + 1] = e
      /\ DOMAIN s = 1..Len(s) /\ DOMAIN Append(s, e) = 1..(Len(s) + 1)
  OBVIOUS
<1>2. Range(Append(s, e)) = Range(s) \cup {e}
  BY <1>1 DEF Range
<1> QED
  BY <1>1, <1>2 DEF Range, IsInjective

\* Nothing is in an empty sequence.
LEMMA EmptyFacts ==
  ASSUME NEW S
  PROVE  <<>> \in Seq(S) /\ Range(<<>>) = {} /\ IsInjective(<<>>)
BY DEF Range, IsInjective

\* How often a thing is in a sequence.
Where(s, a)    == {k \in 1..Len(s) : s[k] = a}
CopiesIn(s, a) == Cardinality(Where(s, a))

\* How often a is in a sequence is a number, none of an empty one.
LEMMA CopiesFinite ==
  ASSUME NEW S, NEW s \in Seq(S), NEW a
  PROVE  /\ IsFiniteSet(Where(s, a)) /\ CopiesIn(s, a) \in Nat
         /\ a \notin Range(s) => CopiesIn(s, a) = 0
<1>1. IsFiniteSet(1..Len(s)) /\ Where(s, a) \in SUBSET (1..Len(s)) /\ DOMAIN s = 1..Len(s)
  BY FS_Interval DEF Where
<1>2. a \notin Range(s) => Where(s, a) = {}
  BY <1>1 DEF Where, Range
<1> QED
  BY <1>1, <1>2, FS_Subset, FS_CardinalityType, FS_EmptySet DEF CopiesIn

\* Appending e adds a copy of e, and of nothing else.
LEMMA CopiesAppend ==
  ASSUME NEW S, NEW s \in Seq(S), NEW e \in S, NEW a
  PROVE  CopiesIn(Append(s, e), a) = CopiesIn(s, a) + (IF e = a THEN 1 ELSE 0)
<1>1. Where(Append(s, e), a)
        = IF e = a THEN Where(s, a) \cup {Len(s) + 1} ELSE Where(s, a)
  BY DEF Where
<1>2. Len(s) + 1 \notin Where(s, a) /\ IsFiniteSet(Where(s, a)) /\ CopiesIn(s, a) \in Nat
  BY CopiesFinite DEF Where
<1>3. Cardinality(Where(s, a) \cup {Len(s) + 1}) = Cardinality(Where(s, a)) + 1
  BY <1>2, FS_AddElement
<1> QED
  BY <1>1, <1>2, <1>3 DEF CopiesIn

\* Removing the head removes a copy of it, and of nothing else.
LEMMA CopiesTail ==
  ASSUME NEW S, NEW s \in Seq(S), s # <<>>, NEW a
  PROVE  CopiesIn(s, a) = CopiesIn(Tail(s), a) + (IF Head(s) = a THEN 1 ELSE 0)
<1> DEFINE T == Where(Tail(s), a)
           U == Where(s, a) \ {1}
<1>1. [k \in T |-> k + 1] \in Bijection(T, U)
  <2>1. T = {k \in 1..(Len(s) - 1) : s[k + 1] = a} /\ U = {k \in 2..Len(s) : s[k] = a}
    BY TailFacts DEF Where
  <2>2. \A k \in T : k \in Nat /\ k + 1 \in U
    BY <2>1, TailFacts
  <2>3. \A n \in U : n - 1 \in T /\ n = (n - 1) + 1
    BY <2>1, TailFacts
  <2> HIDE DEF T, U
  <2> QED
    BY <2>2, <2>3 DEF Bijection, Injection, Surjection, IsInjective
<1>2. IsFiniteSet(T) /\ IsFiniteSet(Where(s, a)) /\ CopiesIn(Tail(s), a) \in Nat
  BY TailFacts, CopiesFinite
<1>3. Cardinality(U) = CopiesIn(Tail(s), a)
  BY <1>1, <1>2, FS_Bijection DEF ExistsBijection, CopiesIn
<1>4. 1 \in Where(s, a) <=> Head(s) = a
  BY TailFacts DEF Where
<1>5. Cardinality(U) = IF 1 \in Where(s, a) THEN CopiesIn(s, a) - 1 ELSE CopiesIn(s, a)
  BY <1>2, FS_RemoveElement DEF CopiesIn
<1> QED
  BY <1>2, <1>3, <1>4, <1>5, CopiesFinite

-----------------------------------------------------------------------------
(* The operators the actions are built from.                               *)

Settlements == [op : {"ack", "nack"}, msg : Msgs]

\* A settlement that is written, or read, is one event more, or one less, on the
\* consumer's wire.
LEMMA SettlingFacts ==
  ASSUME TypeOK
  PROVE  /\ Settling \in Seq(Msgs)
         /\ \A f \in Settlements :
              conWire' = Append(conWire, f) => Settling' = Append(Settling, f.msg)
         /\ conWire # <<>> /\ conWire' = Tail(conWire) =>
              /\ Settling # <<>> /\ Settling' = Tail(Settling)
              /\ Head(conWire) \in Settlements /\ Head(Settling) = Head(conWire).msg
         /\ conWire = <<>> => Settling = <<>>
         /\ conWire' = <<>> => Settling' = <<>>
         /\ conWire' = conWire => Settling' = Settling
<1>1. /\ conWire \in Seq(Settlements) /\ Len(conWire) \in Nat
      /\ \A k \in 1..Len(conWire) : conWire[k] \in Settlements /\ conWire[k].msg \in Msgs
  <2>1. conWire \in Seq(Settlements)
    BY DEF TypeOK, Settlements
  <2>2. Len(conWire) \in Nat /\ \A k \in 1..Len(conWire) : conWire[k] \in Settlements
    BY <2>1, LenProperties, ElementOfSeq
  <2> QED
    BY <2>1, <2>2 DEF Settlements
<1>2. /\ Settling \in Seq(Msgs) /\ Len(Settling) = Len(conWire)
      /\ \A k \in 1..Len(conWire) : Settling[k] = conWire[k].msg
  <2>1. \A k \in 1..Len(conWire) : conWire[k].msg \in Msgs
    BY <1>1
  <2>2. [k \in 1..Len(conWire) |-> conWire[k].msg] \in Seq(Msgs)
    BY <1>1, <2>1, IsASeq
  <2>3. DOMAIN Settling = 1..Len(conWire) /\ Settling \in Seq(Msgs)
    BY <2>2 DEF Settling
  <2>4. Len(Settling) = Len(conWire)
    BY <1>1, <2>3, LenProperties
  <2> QED
    BY <2>3, <2>4 DEF Settling
<1>3. ASSUME NEW f \in Settlements, conWire' = Append(conWire, f)
      PROVE  Settling' = Append(Settling, f.msg)
  <2>1. /\ Len(conWire') = Len(conWire) + 1 /\ conWire' \in Seq(Settlements)
        /\ \A k \in 1..Len(conWire) : conWire'[k] = conWire[k]
        /\ conWire'[Len(conWire) + 1] = f
    BY <1>1, <1>3, AppendFacts
  <2>2. f.msg \in Msgs
    BY DEF Settlements
  <2>3. /\ Append(Settling, f.msg) \in Seq(Msgs)
        /\ Len(Append(Settling, f.msg)) = Len(conWire) + 1
        /\ \A k \in 1..Len(conWire) : Append(Settling, f.msg)[k] = conWire[k].msg
        /\ Append(Settling, f.msg)[Len(conWire) + 1] = f.msg
    BY <1>2, <2>2, AppendFacts
  <2>4. DOMAIN Append(Settling, f.msg) = 1..(Len(conWire) + 1)
    BY <2>3, LenProperties
  <2>5. \A k \in 1..(Len(conWire) + 1) : Append(Settling, f.msg)[k] = conWire'[k].msg
    <3>1. \A k \in 1..(Len(conWire) + 1) : k \in 1..Len(conWire) \/ k = Len(conWire) + 1
      BY <1>1
    <3> QED
      BY <2>1, <2>3, <3>1
  <2>6. Append(Settling, f.msg)
          = [k \in 1..(Len(conWire) + 1) |-> Append(Settling, f.msg)[k]]
    BY <2>3, <2>4, LenProperties
  <2> QED
    BY <2>1, <2>5, <2>6 DEF Settling
<1>4. ASSUME conWire # <<>>, conWire' = Tail(conWire)
      PROVE  /\ Settling # <<>> /\ Settling' = Tail(Settling)
             /\ Head(conWire) \in Settlements /\ Head(Settling) = Head(conWire).msg
  <2>1. /\ Len(conWire) \in Nat \ {0} /\ Len(conWire') = Len(conWire) - 1
        /\ \A k \in 1..(Len(conWire) - 1) : conWire'[k] = conWire[k + 1]
        /\ Head(conWire) = conWire[1] /\ Head(conWire) \in Settlements
    BY <1>1, <1>4, TailFacts
  <2>2. Settling # <<>>
    BY <1>2, <2>1, EmptySeq
  <2>3. /\ Tail(Settling) \in Seq(Msgs) /\ Len(Tail(Settling)) = Len(conWire) - 1
        /\ \A k \in 1..(Len(conWire) - 1) : Tail(Settling)[k] = Settling[k + 1]
        /\ Head(Settling) = Settling[1]
    BY <1>2, <2>2, TailFacts
  <2>4. /\ 1 \in 1..Len(conWire)
        /\ \A k \in 1..(Len(conWire) - 1) : k + 1 \in 1..Len(conWire)
    BY <2>1
  <2>5. \A k \in 1..(Len(conWire) - 1) : Tail(Settling)[k] = conWire'[k].msg
    BY <1>2, <2>1, <2>3, <2>4
  <2>6. Tail(Settling) = [k \in 1..(Len(conWire) - 1) |-> Tail(Settling)[k]]
    BY <2>1, <2>3, LenProperties
  <2> QED
    BY <1>2, <2>1, <2>2, <2>3, <2>4, <2>5, <2>6 DEF Settling
<1>5. \A s : s = <<>> => [k \in 1..Len(s) |-> s[k].msg] = <<>>
  OBVIOUS
<1>6. /\ conWire = <<>> => Settling = <<>>
      /\ conWire' = <<>> => Settling' = <<>>
      /\ conWire' = conWire => Settling' = Settling
  BY <1>5 DEF Settling
<1> QED
  BY <1>2, <1>3, <1>4, <1>6

-----------------------------------------------------------------------------
(* Type correctness.                                                       *)

Places == {"down", "check", "consume", "evaluate", "nack", "close", "closePublisher"}

\* Every step of the broker keeps the types.
LEMMA BrokerTypes ==
  ASSUME TypeOK, Publish \/ BrokerStep
  PROVE  TypeOK'
<1> USE ProcessingServiceAssumption
<1>1. CASE Publish
  <2>1. published + 1 \in Msgs /\ published' \in 0..MaxPublished
    BY <1>1 DEF Publish, TypeOK, Msgs
  <2>2. ready' \subseteq Msgs
    BY <1>1, <2>1 DEF Publish, TypeOK
  <2> QED
    BY <1>1, <2>1, <2>2 DEF Publish, TypeOK, pubVars, processVars
<1>2. CASE Deliver
  <2>1. PICK m \in ready :
          /\ ready' = ready \ {m}
          /\ unacked' = unacked \cup {m}
          /\ inbox' = IF pc = "down" THEN inbox ELSE Append(inbox, m)
    BY <1>2 DEF Deliver
  <2>2. m \in Msgs
    BY DEF TypeOK
  <2>3. inbox' \in Seq(Msgs)
    BY <2>1, <2>2, AppendFacts DEF TypeOK
  <2>4. pc \in {"closePublisher", "down"} => inbox' = inbox
    BY <1>2, <2>1 DEF Deliver, TypeOK
  <2> QED
    BY <1>2, <2>1, <2>2, <2>3, <2>4 DEF Deliver, TypeOK, pubVars, envVars
<1>3. CASE ReceiveSettlement
  <2>1. conWire # <<>> /\ conWire \in Seq(Settlements)
    BY <1>3 DEF ReceiveSettlement, TypeOK, Settlements
  <2>2. Head(conWire) \in Settlements /\ Tail(conWire) \in Seq(Settlements)
    BY <2>1, TailFacts
  <2>3. Head(conWire).msg \in Msgs
    BY <2>2 DEF Settlements
  <2>4. acked' \subseteq Msgs /\ dropped' \subseteq Msgs /\ unacked' \subseteq Msgs
    BY <1>3, <2>3 DEF ReceiveSettlement, TypeOK
  <2>5. conWire' \in Seq(Settlements) /\ conUp
    BY <1>3, <2>2 DEF ReceiveSettlement
  <2>6. UNCHANGED <<published, ready, conUp, pubUp, pubWire, alarms, running, inbox,
                    pc, cur, rule, declared, stops, faults, pubFaults, unseen>>
    BY <1>3 DEF ReceiveSettlement, pubVars, envVars, processVars
  <2> QED
    BY <2>4, <2>5, <2>6 DEF TypeOK, Settlements
<1>4. CASE ReceiveAlarm
  <2>1. /\ pubUp /\ pubWire \in Seq(Alarms) /\ pubWire # <<>>
        /\ alarms \in Seq(Alarms)
        /\ pubWire' = Tail(pubWire) /\ alarms' = Append(alarms, Head(pubWire))
    BY <1>4 DEF ReceiveAlarm, TypeOK
  <2>2. Head(pubWire) \in Alarms /\ pubWire' \in Seq(Alarms)
    BY <2>1, TailFacts
  <2>3. alarms' \in Seq(Alarms)
    BY <2>1, <2>2, AppendFacts
  <2> QED
    BY <1>4, <2>1, <2>2, <2>3
    DEF ReceiveAlarm, TypeOK, consumerVars, queueVars, envVars, processVars
<1>5. CASE NoticeConsumerGone
  <2>1. <<>> \in Seq([op : {"ack", "nack"}, msg : Msgs])
    OBVIOUS
  <2> QED
    BY <1>5, <2>1 DEF NoticeConsumerGone, DropConsumer, TypeOK, pubVars, envVars, processVars
<1>6. CASE NoticePublisherGone
  BY <1>6 DEF NoticePublisherGone, TypeOK, consumerVars, queueVars, envVars, processVars
<1> QED
  BY <1>1, <1>2, <1>3, <1>4, <1>5, <1>6 DEF BrokerStep

\* Every step of the service keeps the types.
LEMMA ServiceTypes ==
  ASSUME TypeOK, Start \/ ServiceStep
  PROVE  TypeOK'
<1> USE ProcessingServiceAssumption
<1>1. None \notin Msgs
  BY DEF None, Msgs
<1>2. CASE Start
  BY <1>2 DEF Start, TypeOK, queueVars, envVars
<1>3. CASE CheckRunning \/ ConsumeTimeout \/ ConsumerError
  BY <1>3 DEF CheckRunning, ConsumeTimeout, ConsumerError, TypeOK, consumerVars,
              queueVars, pubVars, envVars
<1>4. CASE ConsumeMessage
  <2>1. Head(inbox) \in Msgs /\ Tail(inbox) \in Seq(Msgs)
    BY <1>4, TailFacts DEF ConsumeMessage, TypeOK
  <2>2. 1 \in 1..(NumRules + 1)
    OBVIOUS
  <2>3. /\ cur' \in Msgs /\ inbox' \in Seq(Msgs) /\ rule' \in 1..(NumRules + 1)
        /\ pc' \in {"evaluate", "nack"}
    BY <1>4, <2>1, <2>2 DEF ConsumeMessage
  <2>4. UNCHANGED <<published, ready, unacked, conUp, conWire, pubUp, pubWire, alarms,
                    acked, dropped, running, declared, stops, faults, pubFaults,
                    unseen>>
    BY <1>4 DEF ConsumeMessage, consumerVars, queueVars, pubVars, envVars
  <2>5. cur' # None /\ pc' \in Places /\ pc' # "down"
    BY <1>1, <2>3 DEF Places
  <2> QED
    BY <2>3, <2>4, <2>5 DEF TypeOK, Places
<1>5. CASE EvaluateRule
  <2>1. cur \in Msgs /\ rule \in Rules /\ rule + 1 \in 1..(NumRules + 1)
    BY <1>1, <1>5 DEF EvaluateRule, TypeOK, Rules
  <2>2. <<cur, rule>> \in Alarms
    BY <2>1 DEF Alarms
  <2>3. pubWire' \in Seq(Alarms) /\ (~pubUp => pubWire' = <<>>)
    <3>1. pubWire' = pubWire \/ (pubUp /\ pubWire' = Append(pubWire, <<cur, rule>>))
      BY <1>5 DEF EvaluateRule, PublishAlarm
    <3>2. pubWire \in Seq(Alarms) /\ (~pubUp => pubWire = <<>>) /\ pubUp \in BOOLEAN
      BY DEF TypeOK
    <3>3. Append(pubWire, <<cur, rule>>) \in Seq(Alarms)
      BY <2>2, <3>2, AppendFacts
    <3> QED
      BY <3>1, <3>2, <3>3
  <2>4. rule' \in 1..(NumRules + 1) /\ pc' \in {"evaluate", "nack"} /\ declared' \in BOOLEAN
    BY <1>5, <2>1 DEF EvaluateRule, PublishAlarm, TypeOK
  <2>5. UNCHANGED <<published, ready, unacked, conUp, conWire, pubUp, alarms, acked,
                    dropped, running, inbox, cur, stops, faults, pubFaults, unseen>>
    BY <1>5 DEF EvaluateRule, consumerVars, queueVars, envVars
  <2>6. pc' \in Places /\ pc' # "down" /\ cur' # None
    BY <1>1, <2>1, <2>4, <2>5 DEF Places
  <2> QED
    BY <2>3, <2>4, <2>5, <2>6 DEF TypeOK, Places
<1>6. CASE AckEvent \/ NackEvent
  <2>1. PICK op \in {"ack", "nack"} : Settle(op)
    BY <1>6 DEF AckEvent, NackEvent
  <2>2. cur \in Msgs
    BY <1>1, <1>6 DEF AckEvent, NackEvent, TypeOK
  <2>3. [op |-> op, msg |-> cur] \in [op : {"ack", "nack"}, msg : Msgs]
    BY <2>2
  <2>4. Append(conWire, [op |-> op, msg |-> cur]) \in Seq([op : {"ack", "nack"}, msg : Msgs])
    BY <2>3, AppendFacts DEF TypeOK
  <2>5. conWire' \in Seq([op : {"ack", "nack"}, msg : Msgs]) /\ (~conUp => conWire' = <<>>)
    BY <2>1, <2>4 DEF Settle, TypeOK
  <2>6. UNCHANGED <<published, ready, unacked, conUp, pubUp, pubWire, alarms, acked,
                    dropped, running, inbox, rule, declared, stops, faults, pubFaults,
                    unseen>>
        /\ cur' = None /\ pc' = "check"
    BY <2>1 DEF Settle, queueVars, pubVars, envVars
  <2> QED
    BY <2>5, <2>6 DEF TypeOK
<1>7. CASE CloseConsumer
  <2>1. <<>> \in Seq([op : {"ack", "nack"}, msg : Msgs]) /\ <<>> \in Seq(Msgs)
    OBVIOUS
  <2> QED
    BY <1>7, <2>1 DEF CloseConsumer, DropConsumer, TypeOK, pubVars, envVars
<1>8. CASE ClosePublisher
  BY <1>8 DEF ClosePublisher, TypeOK, consumerVars, queueVars, envVars
<1> QED
  BY <1>2, <1>3, <1>4, <1>5, <1>6, <1>7, <1>8 DEF ServiceStep

\* Every signal and fault keeps the types.
LEMMA FaultTypes ==
  ASSUME TypeOK, Signal \/ Crash \/ LoseConsumer \/ LosePublisher \/ LossShows
  PROVE  TypeOK'
<1> USE ProcessingServiceAssumption
<1>1. /\ <<>> \in Seq([op : {"ack", "nack"}, msg : Msgs]) /\ <<>> \in Seq(Msgs)
      /\ <<>> \in Seq(Alarms)
  OBVIOUS
<1>2. CASE Signal
  <2>1. stops' \in 0..MaxStops /\ running' = FALSE
    BY <1>2 DEF Signal, TypeOK
  <2>2. UNCHANGED <<published, ready, unacked, conUp, conWire, pubUp, pubWire, alarms,
                    acked, dropped, inbox, pc, cur, rule, declared, faults, pubFaults,
                    unseen>>
    BY <1>2 DEF Signal, consumerVars, queueVars, pubVars
  <2> QED
    BY <2>1, <2>2 DEF TypeOK
<1>3. CASE Crash
  <2>1. faults' \in 0..MaxFaults /\ pc' = "down" /\ inbox' = <<>> /\ cur' = None
        /\ unseen' = {}
    BY <1>3, SMTT(30) DEF Crash, TypeOK
  <2>2. UNCHANGED <<published, ready, unacked, conUp, conWire, pubUp, pubWire, alarms,
                    acked, dropped, running, rule, declared, stops, pubFaults>>
    BY <1>3 DEF Crash, consumerVars, queueVars, pubVars
  <2> QED
    BY <1>1, <2>1, <2>2 DEF TypeOK
<1>4. CASE LoseConsumer
  <2>1. faults' \in 0..MaxFaults
    BY <1>4, SMTT(30) DEF LoseConsumer, TypeOK
  <2>2. conUp' = FALSE /\ conWire' = <<>> /\ ready' \subseteq Msgs /\ unacked' = {}
        /\ unseen' \subseteq {"consumer", "publisher"}
    BY <1>4 DEF LoseConsumer, DropConsumer, Notice, TypeOK
  <2>3. UNCHANGED <<published, pubUp, pubWire, alarms, acked, dropped, running, inbox,
                    pc, cur, rule, declared, stops, pubFaults>>
    BY <1>4 DEF LoseConsumer, DropConsumer, pubVars, processVars
  <2> QED
    BY <1>1, <2>1, <2>2, <2>3 DEF TypeOK
<1>5. CASE LosePublisher
  <2>1. pubFaults' \in 0..MaxPubFaults /\ pubUp' = FALSE /\ pubWire' = <<>>
    BY <1>5 DEF LosePublisher, TypeOK
  <2>2. UNCHANGED <<published, ready, unacked, conUp, conWire, alarms, acked, dropped,
                    running, inbox, pc, cur, rule, declared, stops, faults>>
    BY <1>5 DEF LosePublisher, consumerVars, queueVars, processVars
  <2>3. unseen' \subseteq {"consumer", "publisher"}
    BY <1>5 DEF LosePublisher, Notice, TypeOK
  <2> QED
    BY <1>1, <2>1, <2>2, <2>3 DEF TypeOK
<1>6. CASE LossShows
  <2>1. unseen' \subseteq {"consumer", "publisher"}
    BY <1>6 DEF LossShows, TypeOK
  <2>2. UNCHANGED <<published, ready, unacked, conUp, conWire, pubUp, pubWire, alarms,
                    acked, dropped, running, inbox, pc, cur, rule, declared, stops,
                    faults, pubFaults>>
    BY <1>6 DEF LossShows, consumerVars, queueVars, pubVars, processVars
  <2> QED
    BY <2>1, <2>2 DEF TypeOK
<1> QED
  BY <1>2, <1>3, <1>4, <1>5, <1>6

\* Every step keeps the types.
LEMMA StepTypes ==
  TypeOK /\ [Next]_vars => TypeOK'
<1> SUFFICES ASSUME TypeOK, [Next]_vars
             PROVE  TypeOK'
  OBVIOUS
<1>1. CASE UNCHANGED vars
  BY <1>1 DEF vars, consumerVars, queueVars, pubVars, envVars, processVars, TypeOK
<1> QED
  BY <1>1, BrokerTypes, ServiceTypes, FaultTypes DEF Next

\* The empty queue, before the service has started, has its types.
LEMMA InitTypes == Init => TypeOK
<1> SUFFICES ASSUME Init
             PROVE  TypeOK
  OBVIOUS
<1>1. /\ <<>> \in Seq([op : {"ack", "nack"}, msg : Msgs]) /\ <<>> \in Seq(Msgs)
      /\ <<>> \in Seq(Alarms)
  OBVIOUS
<1>2. /\ 0 \in 0..MaxPublished /\ 0 \in 0..MaxStops /\ 0 \in 0..MaxFaults
      /\ 0 \in 0..MaxPubFaults /\ 1 \in 1..(NumRules + 1)
  BY ProcessingServiceAssumption
<1> QED
  BY <1>1, <1>2 DEF Init, TypeOK

\* Every behaviour is well typed: an envelope is in hand exactly while it is
\* handled, and a process that closed its consumer's connection holds nothing.
THEOREM TypeCorrect == Spec => []TypeOK
  BY InitTypes, StepTypes, PTL DEF Spec

-----------------------------------------------------------------------------
(* Who holds an event.                                                     *)

\* A rule that is evaluated is one of the rules, for an event of the queue.
LEMMA AlarmAtHand ==
  ASSUME TypeOK, EvaluateRule
  PROVE  cur \in Msgs /\ rule \in Rules /\ <<cur, rule>> \in Alarms
<1>1. pc = "evaluate" /\ rule <= NumRules
  BY DEF EvaluateRule
<1>2. cur \in Msgs
  BY <1>1 DEF TypeOK
<1>3. rule \in Rules
  <2>1. rule \in 1..(NumRules + 1) /\ NumRules \in Nat
    BY ProcessingServiceAssumption DEF TypeOK
  <2> QED
    BY <1>1, <2>1 DEF Rules
<1> QED
  BY <1>2, <1>3 DEF Alarms

\* An alarm is emitted only by publishing it for the event in hand, and is taken
\* back only when the publisher's connection is lost.
LEMMA StepEmits ==
  ASSUME TypeOK, [Next]_vars
  PROVE  \/ Emitted' = Emitted
         \/ LosePublisher /\ Emitted' \subseteq Emitted
         \/ /\ EvaluateRule /\ pubUp /\ Verdict[cur][rule] = "match"
            /\ cur \in Msgs /\ rule \in Rules
            /\ Emitted' = Emitted \cup {<<cur, rule>>}
<1>1. CASE UNCHANGED <<pubWire, alarms>>
  BY <1>1 DEF Emitted
<1>2. CASE ReceiveAlarm
  <2>1. /\ pubWire \in Seq(Alarms) /\ pubWire # <<>> /\ alarms \in Seq(Alarms)
        /\ pubWire' = Tail(pubWire) /\ alarms' = Append(alarms, Head(pubWire))
    BY <1>2 DEF ReceiveAlarm, TypeOK
  <2>2. Head(pubWire) \in Alarms /\ Range(pubWire) = {Head(pubWire)} \cup Range(pubWire')
    BY <2>1, TailFacts
  <2>3. Range(alarms') = Range(alarms) \cup {Head(pubWire)}
    BY <2>1, <2>2, AppendFacts
  <2> QED
    BY <2>2, <2>3 DEF Emitted
<1>3. CASE EvaluateRule /\ pubWire' # pubWire
  <2>1. /\ pubUp /\ Verdict[cur][rule] = "match" /\ alarms' = alarms
        /\ pubWire' = Append(pubWire, <<cur, rule>>)
    BY <1>3 DEF EvaluateRule, PublishAlarm
  <2>2. cur \in Msgs /\ rule \in Rules /\ <<cur, rule>> \in Alarms
    BY <1>3, AlarmAtHand
  <2>3. Range(pubWire') = Range(pubWire) \cup {<<cur, rule>>}
    <3>1. pubWire \in Seq(Alarms)
      BY DEF TypeOK
    <3> QED
      BY <2>1, <2>2, <3>1, AppendFacts
  <2>4. Emitted' = Emitted \cup {<<cur, rule>>}
    BY <2>1, <2>3 DEF Emitted
  <2> QED
    BY <1>3, <2>1, <2>2, <2>4
<1>4. CASE LosePublisher
  <2>1. alarms' = alarms /\ pubWire' = <<>>
    BY <1>4 DEF LosePublisher
  <2>2. Range(pubWire') = {}
    BY <2>1, EmptyFacts
  <2> QED
    BY <1>4, <2>1, <2>2 DEF Emitted
<1>5. CASE EvaluateRule
  BY <1>1, <1>3, <1>5 DEF EvaluateRule
<1>6. CASE ~(ReceiveAlarm \/ EvaluateRule \/ LosePublisher)
  <2>1. UNCHANGED <<pubWire, alarms>>
    BY <1>6 DEF Next, BrokerStep, ServiceStep, Publish, Deliver, ReceiveSettlement,
       NoticeConsumerGone, NoticePublisherGone, Start, CheckRunning, ConsumeMessage,
       ConsumeTimeout, ConsumerError, AckEvent, NackEvent, Settle, CloseConsumer,
       ClosePublisher, Signal, Crash, LoseConsumer, LossShows, vars, pubVars
  <2> QED
    BY <1>1, <2>1
<1> QED
  BY <1>2, <1>4, <1>5, <1>6

\* A step that changes nothing about who holds an event.
LEMMA NothingMoves ==
  ASSUME TypeOK, HoldInv, Emitted' \subseteq (1..published) \X Rules,
         UNCHANGED <<published, queueVars, conUp, conWire, inbox, cur>>,
         pc' # "down" => pc # "down"
  PROVE  HoldInv'
<1>1. Settling' = Settling /\ UNCHANGED <<ready, unacked, acked, dropped>>
  BY SettlingFacts DEF queueVars
<1> QED
  BY <1>1 DEF HoldInv, PublishedOnly, Holding, Accounted

\* A new event is on the queue, and nowhere else.
LEMMA PublishHolds ==
  ASSUME TypeOK, HoldInv, Publish
  PROVE  /\ HoldInv'
         /\ published + 1 \in Msgs
         /\ published + 1 \notin ready \cup unacked \cup acked \cup dropped
         /\ published + 1 \notin Range(inbox) /\ cur # published + 1
<1>1. /\ published \in Nat /\ published < MaxPublished /\ MaxPublished \in Nat
      /\ published' = published + 1 /\ ready' = ready \cup {published + 1}
      /\ UNCHANGED <<unacked, acked, dropped, conUp, conWire, inbox, cur, pc>>
      /\ UNCHANGED <<pubWire, alarms>>
  BY ProcessingServiceAssumption DEF Publish, TypeOK, pubVars, processVars
<1>2. /\ \A m \in 1..published : m \in 1..published' /\ m # published + 1
      /\ published + 1 \in 1..published' /\ published + 1 # None
      /\ \A m \in 1..published' : m \in 1..published \/ m = published + 1
  BY <1>1 DEF None
<1>3. published + 1 \in Msgs
  BY <1>1 DEF Msgs
<1>4. Settling' = Settling /\ Emitted' = Emitted
  BY <1>1, SettlingFacts DEF Emitted
<1>5. /\ published + 1 \notin ready \cup unacked \cup acked \cup dropped
      /\ published + 1 \notin Range(inbox) /\ cur # published + 1
  BY <1>2 DEF HoldInv, PublishedOnly
<1>6. PublishedOnly'
  BY <1>1, <1>2, <1>4 DEF HoldInv, PublishedOnly
<1>7. Holding'
  BY <1>1, <1>4, <1>5 DEF HoldInv, Holding
<1>8. Accounted'
  BY <1>1, <1>2 DEF HoldInv, Accounted
<1> QED
  BY <1>3, <1>5, <1>6, <1>7, <1>8 DEF HoldInv

\* The broker hands a ready event to the consumer, behind those it has.
LEMMA DeliverHolds ==
  ASSUME TypeOK, HoldInv, Deliver
  PROVE  HoldInv'
<1>1. PICK m \in ready :
        /\ ready' = ready \ {m}
        /\ unacked' = unacked \cup {m}
        /\ inbox' = IF pc = "down" THEN inbox ELSE Append(inbox, m)
  BY DEF Deliver
<1>2. /\ conUp /\ m \in Msgs
      /\ UNCHANGED <<published, acked, dropped, conUp, conWire, pc, cur, pubWire, alarms>>
  BY DEF Deliver, TypeOK, pubVars, envVars
<1>3. /\ m \in 1..published /\ m \notin unacked
      /\ m \notin Range(inbox) \cup Range(Settling) /\ m # cur
  BY <1>2 DEF HoldInv, PublishedOnly, Holding, None, Msgs
<1>4. /\ Range(inbox') = IF pc = "down" THEN Range(inbox) ELSE Range(inbox) \cup {m}
      /\ IsInjective(inbox')
  <2>1. inbox \in Seq(Msgs) /\ IsInjective(inbox) /\ m \notin Range(inbox)
    BY <1>3 DEF TypeOK, HoldInv, Holding
  <2>2. /\ Range(Append(inbox, m)) = Range(inbox) \cup {m}
        /\ IsInjective(Append(inbox, m))
    BY <1>2, <2>1, AppendFacts
  <2> QED
    BY <1>1, <2>1, <2>2
<1>5. Settling' = Settling /\ Emitted' = Emitted
  BY <1>2, SettlingFacts DEF Emitted
<1>6. PublishedOnly'
  BY <1>1, <1>2, <1>3, <1>4, <1>5 DEF HoldInv, PublishedOnly
<1>7. Holding'
  BY <1>1, <1>2, <1>3, <1>4, <1>5 DEF HoldInv, Holding
<1>8. Accounted'
  BY <1>1, <1>2 DEF HoldInv, Accounted
<1> QED
  BY <1>6, <1>7, <1>8 DEF HoldInv

\* The broker reads the settlement of an event that it has down for the consumer,
\* and which the process has nowhere else.
LEMMA ReceiveHolds ==
  ASSUME TypeOK, HoldInv, ReceiveSettlement
  PROVE  /\ HoldInv'
         /\ Head(conWire).msg \in Msgs \cap unacked \cap Range(Settling)
         /\ Head(conWire).msg \notin Range(inbox) \cup {cur}
         /\ Range(Settling') \subseteq Range(Settling)
<1> DEFINE m == Head(conWire).msg
<1>1. /\ conUp /\ conWire # <<>> /\ conWire' = Tail(conWire)
      /\ unacked' = unacked \ {m}
      /\ acked' \cup dropped' = acked \cup dropped \cup {m}
      /\ UNCHANGED <<published, ready, conUp, inbox, pc, cur, pubWire, alarms>>
  BY DEF ReceiveSettlement, pubVars, envVars, processVars
<1>2. /\ Settling \in Seq(Msgs) /\ Settling # <<>> /\ Settling' = Tail(Settling)
      /\ Head(Settling) = m /\ Emitted' = Emitted
  BY <1>1, SettlingFacts DEF Emitted
<1>3. /\ Range(Settling) = {m} \cup Range(Settling') /\ m \in Msgs
      /\ IsInjective(Settling') /\ m \notin Range(Settling')
  BY <1>2, TailFacts DEF HoldInv, Holding
<1> HIDE DEF m
<1>4. m \in unacked /\ m \notin ready /\ m \notin Range(inbox) /\ m # cur
  BY <1>1, <1>3 DEF HoldInv, Holding
<1>5. PublishedOnly'
  BY <1>1, <1>2, <1>4 DEF HoldInv, PublishedOnly
<1>6. Holding'
  BY <1>1, <1>2, <1>3, <1>4 DEF HoldInv, Holding
<1>7. Accounted'
  BY <1>1, <1>4 DEF HoldInv, Accounted
<1> QED
  BY <1>3, <1>4, <1>5, <1>6, <1>7 DEF HoldInv, m

\* The consumer's connection goes: what the broker had down for it is ready again.
LEMMA DropHolds ==
  ASSUME TypeOK, HoldInv, DropConsumer, UNCHANGED <<published, cur, pubWire, alarms>>,
         inbox' = inbox \/ inbox' = <<>>
  PROVE  HoldInv'
<1>1. /\ ~conUp' /\ conWire' = <<>> /\ unacked' = {} /\ ready' = ready \cup unacked
      /\ UNCHANGED <<acked, dropped>>
  BY DEF DropConsumer
<1>2. /\ Range(Settling') = {} /\ IsInjective(Settling') /\ Emitted' = Emitted
  BY <1>1, SettlingFacts, EmptyFacts DEF Emitted
<1>3. Range(inbox') \subseteq Range(inbox) /\ IsInjective(inbox')
  BY EmptyFacts DEF HoldInv, Holding
<1>4. PublishedOnly'
  BY <1>1, <1>2, <1>3 DEF HoldInv, PublishedOnly
<1>5. Holding'
  BY <1>1, <1>2, <1>3 DEF HoldInv, Holding
<1>6. Accounted'
  BY <1>1 DEF HoldInv, Accounted
<1> QED
  BY <1>4, <1>5, <1>6 DEF HoldInv

\* The delivery that main takes in hand leaves its inbox.
LEMMA ConsumeHolds ==
  ASSUME TypeOK, HoldInv, ConsumeMessage
  PROVE  HoldInv'
<1>1. /\ inbox # <<>> /\ inbox \in Seq(Msgs) /\ cur' = Head(inbox) /\ inbox' = Tail(inbox)
      /\ UNCHANGED <<published, ready, unacked, acked, dropped, conUp, conWire,
                     pubWire, alarms>>
      /\ cur = None /\ pc # "down"
  BY DEF ConsumeMessage, TypeOK, consumerVars, queueVars, pubVars, envVars
<1>2. /\ Range(inbox) = {cur'} \cup Range(inbox')
      /\ IsInjective(inbox') /\ cur' \notin Range(inbox') /\ cur' \in Msgs
  BY <1>1, TailFacts DEF HoldInv, Holding
<1>3. Settling' = Settling /\ Emitted' = Emitted /\ None \notin Msgs
  BY <1>1, SettlingFacts DEF Emitted, None, Msgs
<1>4. PublishedOnly'
  BY <1>1, <1>2, <1>3 DEF HoldInv, PublishedOnly
<1>5. unacked \subseteq Msgs
  BY DEF TypeOK
<1>6. Holding'
  BY <1>1, <1>2, <1>3, <1>5 DEF HoldInv, Holding
<1>7. Accounted'
  BY <1>1 DEF HoldInv, Accounted
<1> QED
  BY <1>4, <1>6, <1>7 DEF HoldInv

\* What main settles, on a live connection, goes from its hand to the wire.
LEMMA SettleHolds ==
  ASSUME TypeOK, HoldInv, NEW op \in {"ack", "nack"}, Settle(op), cur # None
  PROVE  /\ HoldInv'
         /\ Range(Settling') \subseteq Range(Settling) \cup {cur}
         /\ Emitted' = Emitted
<1>1. /\ conWire' = IF conUp THEN Append(conWire, [op |-> op, msg |-> cur]) ELSE conWire
      /\ UNCHANGED <<published, ready, unacked, acked, dropped, conUp, inbox,
                     pubWire, alarms>>
      /\ cur' = None /\ pc' = "check" /\ pc # "down"
  BY DEF Settle, TypeOK, queueVars, pubVars, envVars
<1>2. [op |-> op, msg |-> cur] \in Settlements /\ cur \in Msgs /\ None \notin Msgs
  BY DEF TypeOK, Settlements, None, Msgs
<1>3. Settling' = (IF conUp THEN Append(Settling, cur) ELSE Settling) /\ Emitted' = Emitted
  BY <1>1, <1>2, SettlingFacts DEF Emitted
<1>4. /\ Range(Settling') = (IF conUp THEN Range(Settling) \cup {cur} ELSE Range(Settling))
      /\ IsInjective(Settling')
  <2>1. Settling \in Seq(Msgs) /\ IsInjective(Settling) /\ cur \notin Range(Settling)
    BY SettlingFacts DEF HoldInv, Holding
  <2>2. /\ Range(Append(Settling, cur)) = Range(Settling) \cup {cur}
        /\ IsInjective(Append(Settling, cur))
    BY <1>2, <2>1, AppendFacts
  <2> QED
    BY <1>3, <2>1, <2>2
<1>5. PublishedOnly'
  BY <1>1, <1>3 DEF HoldInv, PublishedOnly
<1>6. None \notin Range(inbox') \cup Range(Settling')
  <2>1. Range(inbox) \subseteq Msgs /\ Range(Settling) \subseteq Msgs
    BY SettlingFacts, RangeOfSeq DEF TypeOK
  <2> QED
    BY <1>1, <1>2, <1>4, <2>1
<1>7. Holding'
  BY <1>1, <1>4, <1>6 DEF HoldInv, Holding
<1>8. Accounted'
  BY <1>1 DEF HoldInv, Accounted
<1> QED
  BY <1>3, <1>4, <1>5, <1>7, <1>8 DEF HoldInv

\* A process that dies holds nothing.
LEMMA CrashHolds ==
  ASSUME TypeOK, HoldInv, Crash
  PROVE  HoldInv'
<1>1. /\ inbox' = <<>> /\ cur' = None /\ pc' = "down"
      /\ UNCHANGED <<published, ready, unacked, acked, dropped, conUp, conWire,
                     pubWire, alarms>>
  BY DEF Crash, consumerVars, queueVars, pubVars
<1>2. /\ Range(inbox') = {} /\ IsInjective(inbox')
      /\ Settling' = Settling /\ Emitted' = Emitted
  BY <1>1, SettlingFacts, EmptyFacts DEF Emitted
<1>3. None \notin Range(Settling)
  <2>1. Range(Settling) \subseteq Msgs
    BY SettlingFacts, RangeOfSeq
  <2> QED
    BY <2>1 DEF None, Msgs
<1>4. PublishedOnly'
  BY <1>1, <1>2 DEF HoldInv, PublishedOnly
<1>5. Holding'
  BY <1>1, <1>2, <1>3 DEF HoldInv, Holding
<1>6. Accounted'
  BY <1>1 DEF HoldInv, Accounted
<1> QED
  BY <1>4, <1>5, <1>6 DEF HoldInv

\* A process that starts finds nothing of its own on the queue.
LEMMA StartHolds ==
  ASSUME TypeOK, HoldInv, Start
  PROVE  HoldInv'
<1>1. /\ ~conUp /\ conUp' /\ unacked = {} /\ conWire = <<>> /\ inbox = <<>> /\ cur = None
      /\ UNCHANGED <<published, ready, unacked, acked, dropped, conWire, inbox, cur,
                     pubWire, alarms>>
  BY DEF Start, TypeOK, HoldInv, Holding, queueVars, envVars
<1>2. Settling = <<>> /\ Settling' = Settling /\ Emitted' = Emitted
  BY <1>1, SettlingFacts DEF Emitted
<1>3. Range(inbox) = {} /\ Range(Settling) = {}
  BY <1>1, <1>2, EmptyFacts
<1>4. PublishedOnly' /\ Accounted'
  BY <1>1, <1>2 DEF HoldInv, PublishedOnly, Accounted
<1>5. Holding'
  BY <1>1, <1>2, <1>3 DEF HoldInv, Holding
<1> QED
  BY <1>4, <1>5 DEF HoldInv

\* Every step keeps every event with one holder.
LEMMA StepHolds ==
  ASSUME TypeOK, HoldInv, [Next]_vars
  PROVE  HoldInv'
<1>1. CASE CloseConsumer \/ LoseConsumer \/ NoticeConsumerGone
  BY <1>1, DropHolds
  DEF CloseConsumer, LoseConsumer, NoticeConsumerGone, pubVars, envVars, processVars
<1>2. CASE AckEvent \/ NackEvent
  <2>1. cur # None
    BY <1>2 DEF AckEvent, NackEvent, TypeOK
  <2> QED
    BY <1>2, <2>1, SettleHolds DEF AckEvent, NackEvent
<1>3. CASE \/ CheckRunning \/ ConsumeTimeout \/ ConsumerError \/ EvaluateRule
           \/ ClosePublisher \/ ReceiveAlarm \/ NoticePublisherGone
           \/ Signal \/ LosePublisher \/ LossShows \/ UNCHANGED vars
  <2>1. UNCHANGED <<published, queueVars, conUp, conWire, inbox, cur>>
    BY <1>3 DEF CheckRunning, ConsumeTimeout, ConsumerError, EvaluateRule, ClosePublisher,
       ReceiveAlarm, NoticePublisherGone, Signal, LosePublisher, LossShows, vars, consumerVars,
       envVars, processVars
  <2>2. pc' # "down" => pc # "down"
    BY <1>3 DEF CheckRunning, ConsumeTimeout, ConsumerError, EvaluateRule, ClosePublisher,
       ReceiveAlarm, NoticePublisherGone, Signal, LosePublisher, LossShows, vars, processVars
  <2>3. Emitted' \subseteq (1..published) \X Rules
    <3>1. Emitted \subseteq (1..published) \X Rules
      BY DEF HoldInv, PublishedOnly
    <3>2. cur \in Msgs => cur \in 1..published
      BY DEF HoldInv, PublishedOnly, None, Msgs
    <3> QED
      BY <3>1, <3>2, StepEmits
  <2> QED
    BY <2>1, <2>2, <2>3, NothingMoves
<1> QED
  BY <1>1, <1>2, <1>3, PublishHolds, DeliverHolds, ReceiveHolds, ConsumeHolds, CrashHolds,
     StartHolds DEF Next, BrokerStep, ServiceStep

\* Nobody holds anything before the first event is published.
LEMMA InitHolds == Init => HoldInv
<1> SUFFICES ASSUME Init
             PROVE  HoldInv
  OBVIOUS
<1>1. /\ published = 0 /\ ready = {} /\ unacked = {} /\ ~conUp /\ conWire = <<>>
      /\ pubWire = <<>> /\ alarms = <<>> /\ acked = {} /\ dropped = {}
      /\ inbox = <<>> /\ cur = None
  BY DEF Init
<1>2. Settling = <<>>
  BY <1>1, InitTypes, SettlingFacts
<1>3. /\ Range(inbox) = {} /\ IsInjective(inbox)
      /\ Range(Settling) = {} /\ IsInjective(Settling)
  BY <1>1, <1>2, EmptyFacts
<1>4. Emitted = {}
  BY <1>1, EmptyFacts DEF Emitted
<1> QED
  BY <1>1, <1>3, <1>4 DEF HoldInv, PublishedOnly, Holding, Accounted

-----------------------------------------------------------------------------
(* No alarm is lost.                                                       *)

\* An event that is not JSON calls for no alarm, another one for that of each
\* matching rule before the first that throws.
LEMMA OwedFacts ==
  ASSUME NEW m
  PROVE  \A a : a \in AlarmsOwed(m) <=>
           /\ m \notin Malformed
           /\ \E r \in Rules : /\ a = <<m, r>> /\ Verdict[m][r] = "match"
                               /\ \A p \in 1..(r - 1) : Verdict[m][p] # "throw"
  BY DEF AlarmsOwed

\* Once evaluate is past the last rule, or at a rule that throws, the event in hand
\* has all its alarms.
LEMMA EvaluatedHasAll ==
  ASSUME TypeOK, EmittedBeforeSettled, pc = "evaluate",
         rule > NumRules \/ Verdict[cur][rule] = "throw"
  PROVE  AlarmsOwed(cur) \subseteq Emitted
<1> SUFFICES ASSUME NEW a \in AlarmsOwed(cur)
             PROVE  a \in Emitted
  OBVIOUS
<1>1. PICK r \in Rules : /\ a = <<cur, r>> /\ Verdict[cur][r] = "match"
                         /\ \A p \in 1..(r - 1) : Verdict[cur][p] # "throw"
  BY OwedFacts
<1>2. NumRules \in Nat /\ rule \in 1..(NumRules + 1) /\ r \in 1..NumRules
  BY ProcessingServiceAssumption DEF TypeOK, Rules
<1>3. CASE r < rule
  <2>1. r \in 1..(rule - 1)
    BY <1>2, <1>3
  <2> QED
    BY <1>1, <2>1 DEF EmittedBeforeSettled
<1>4. CASE r = rule
  BY <1>1, <1>2, <1>4
<1>5. CASE r > rule
  <2>1. rule \in 1..(r - 1) /\ ~(rule > NumRules)
    BY <1>2, <1>5
  <2> QED
    BY <1>1, <2>1
<1> QED
  BY <1>2, <1>3, <1>4, <1>5

\* As long as the publisher's connection is not lost, nothing emitted is taken back.
LEMMA StepKeepsEmitted ==
  ASSUME TypeOK, [Next]_vars, pubFaults' = 0
  PROVE  pubFaults = 0 /\ Emitted \subseteq Emitted'
<1>1. ~LosePublisher
  BY DEF LosePublisher, TypeOK
<1>2. pubFaults' = pubFaults
  BY <1>1 DEF Next, BrokerStep, ServiceStep, Publish, Deliver, ReceiveSettlement,
     ReceiveAlarm, NoticeConsumerGone, NoticePublisherGone, Start, CheckRunning,
     ConsumeMessage, ConsumeTimeout, ConsumerError, EvaluateRule, AckEvent, NackEvent,
     Settle, CloseConsumer, ClosePublisher, Signal, Crash, LoseConsumer, LossShows, vars,
     envVars
<1> QED
  BY <1>1, <1>2, StepEmits

\* A step that takes no event in hand, moves to no other rule and settles nothing.
LEMMA NothingEvaluated ==
  ASSUME EmittedBeforeSettled, Emitted \subseteq Emitted',
         acked' \cup dropped' \cup Range(Settling')
           \subseteq acked \cup dropped \cup Range(Settling),
         pc' # "down" => pubUp',
         pc' \in {"evaluate", "nack"} => UNCHANGED <<pc, cur, rule>>
  PROVE  EmittedBeforeSettled'
<1>1. \A m : AlarmsOwed(m)' = AlarmsOwed(m)
  BY DEF AlarmsOwed
<1>2. \A m \in acked' \cup dropped' \cup Range(Settling') : AlarmsOwed(m)' \subseteq Emitted'
  BY <1>1 DEF EmittedBeforeSettled
<1>3. CASE pc' \in {"evaluate", "nack"}
  BY <1>1, <1>2, <1>3 DEF EmittedBeforeSettled
<1>4. CASE pc' \notin {"evaluate", "nack"}
  BY <1>2, <1>4 DEF EmittedBeforeSettled
<1> QED
  BY <1>3, <1>4

\* A turn of evaluate's loop publishes the alarm of a rule that matches before it
\* goes on to the next.
LEMMA EvaluateEmits ==
  ASSUME TypeOK, EmittedBeforeSettled, EvaluateRule, Emitted \subseteq Emitted'
  PROVE  EmittedBeforeSettled'
<1>1. /\ UNCHANGED <<acked, dropped, conWire, pubUp, alarms, cur>>
      /\ pc = "evaluate" /\ rule \in 1..NumRules /\ pubUp
  BY ProcessingServiceAssumption
  DEF EvaluateRule, EmittedBeforeSettled, consumerVars, queueVars, TypeOK
<1>2. Settling' = Settling /\ \A m : AlarmsOwed(m)' = AlarmsOwed(m)
  BY <1>1, SettlingFacts DEF AlarmsOwed
<1>3. \A m \in acked' \cup dropped' \cup Range(Settling') : AlarmsOwed(m)' \subseteq Emitted'
  BY <1>1, <1>2 DEF EmittedBeforeSettled
<1>4. CASE pc' = "nack"
  <2>1. Verdict[cur][rule] = "throw"
    BY <1>1, <1>4 DEF EvaluateRule, PublishThrows
  <2>2. AlarmsOwed(cur) \subseteq Emitted
    BY <1>1, <2>1, EvaluatedHasAll
  <2> QED
    BY <1>1, <1>2, <1>3, <1>4, <2>2 DEF EmittedBeforeSettled
<1>5. CASE pc' # "nack"
  <2>1. /\ pc' = "evaluate" /\ rule' = rule + 1 /\ Verdict[cur][rule] # "throw"
        /\ Verdict[cur][rule] = "match" => pubWire' = Append(pubWire, <<cur, rule>>)
    BY <1>1, <1>5 DEF EvaluateRule, PublishAlarm
  <2>2. Verdict[cur][rule] = "match" => <<cur, rule>> \in Emitted'
    <3>1. <<cur, rule>> \in Alarms /\ pubWire \in Seq(Alarms)
      BY <1>1 DEF TypeOK, Alarms, Rules
    <3>2. Range(Append(pubWire, <<cur, rule>>)) = Range(pubWire) \cup {<<cur, rule>>}
      BY <3>1, AppendFacts
    <3> QED
      BY <2>1, <3>2 DEF Emitted
  <2>3. \A r \in 1..(rule' - 1) : r \in 1..(rule - 1) \/ r = rule
    BY <1>1, <2>1, ProcessingServiceAssumption
  <2>4. \A r \in 1..(rule' - 1) :
          /\ Verdict[cur][r] # "throw"
          /\ Verdict[cur][r] = "match" => <<cur, r>> \in Emitted'
    BY <1>1, <2>1, <2>2, <2>3 DEF EmittedBeforeSettled
  <2>5. cur \notin Malformed
    BY <1>1 DEF EmittedBeforeSettled
  <2> QED
    BY <1>1, <1>3, <2>1, <2>4, <2>5 DEF EmittedBeforeSettled
<1> QED
  BY <1>4, <1>5

\* Every step that loses no publisher connection keeps what is settled emitted.
LEMMA StepEmitsFirst ==
  ASSUME TypeOK, HoldInv, EmittedBeforeSettled, [Next]_vars, pubFaults' = 0
  PROVE  EmittedBeforeSettled'
<1>1. Emitted \subseteq Emitted'
  BY StepKeepsEmitted
<1>2. CASE EvaluateRule
  BY <1>1, <1>2, EvaluateEmits
<1>3. CASE AckEvent \/ NackEvent
  <2>1. AlarmsOwed(cur) \subseteq Emitted
    BY <1>3, EvaluatedHasAll DEF AckEvent, NackEvent, EmittedBeforeSettled
  <2>2. PICK op \in {"ack", "nack"} : Settle(op) /\ cur # None
    BY <1>3 DEF AckEvent, NackEvent, TypeOK
  <2>3. /\ Range(Settling') \subseteq Range(Settling) \cup {cur} /\ Emitted' = Emitted
        /\ UNCHANGED <<acked, dropped, pubUp>> /\ pc' = "check" /\ pc # "down"
    BY <2>2, SettleHolds DEF Settle, queueVars, pubVars, TypeOK
  <2>4. \A m : AlarmsOwed(m)' = AlarmsOwed(m)
    BY DEF AlarmsOwed
  <2> QED
    BY <2>1, <2>3, <2>4 DEF EmittedBeforeSettled
<1>4. CASE ConsumeMessage
  <2>1. /\ UNCHANGED <<acked, dropped, conWire, pubUp>> /\ pc # "down" /\ rule' = 1
        /\ pc' = IF cur' \in Malformed THEN "nack" ELSE "evaluate"
    BY <1>4 DEF ConsumeMessage, consumerVars, queueVars, pubVars
  <2>2. Settling' = Settling
    BY <2>1, SettlingFacts
  <2>3. /\ \A m : AlarmsOwed(m)' = AlarmsOwed(m)
        /\ \A m \in Malformed : AlarmsOwed(m) = {}
    BY DEF AlarmsOwed
  <2>4. 1..(rule' - 1) = {}
    BY <2>1
  <2> QED
    BY <1>1, <2>1, <2>2, <2>3, <2>4 DEF EmittedBeforeSettled
<1>5. CASE ReceiveSettlement
  <2>1. /\ Range(Settling') \subseteq Range(Settling)
        /\ Head(conWire).msg \in Range(Settling)
    BY <1>5, ReceiveHolds
  <2>2. /\ acked' \cup dropped' = acked \cup dropped \cup {Head(conWire).msg}
        /\ UNCHANGED <<pubUp, pc, cur, rule>>
    BY <1>5 DEF ReceiveSettlement, pubVars, processVars
  <2> QED
    BY <1>1, <2>1, <2>2, NothingEvaluated DEF EmittedBeforeSettled
<1>6. CASE CloseConsumer \/ LoseConsumer \/ NoticeConsumerGone
  <2>1. /\ UNCHANGED <<acked, dropped, pubUp>> /\ conWire' = <<>>
        /\ pc' # "down" => pc # "down"
        /\ pc' \in {"evaluate", "nack"} => UNCHANGED <<pc, cur, rule>>
    BY <1>6 DEF CloseConsumer, LoseConsumer, NoticeConsumerGone, DropConsumer,
       pubVars, processVars
  <2>2. Range(Settling') = {}
    BY <2>1, SettlingFacts, EmptyFacts
  <2>3. pc' # "down" => pubUp'
    BY <2>1 DEF EmittedBeforeSettled
  <2> QED
    BY <1>1, <2>1, <2>2, <2>3, NothingEvaluated
<1>7. CASE \/ Publish \/ Deliver \/ ReceiveAlarm \/ NoticePublisherGone \/ Start
           \/ CheckRunning \/ ConsumeTimeout \/ ConsumerError \/ ClosePublisher
           \/ Signal \/ Crash \/ LossShows \/ UNCHANGED vars
  <2>1. UNCHANGED <<acked, dropped, conWire>>
    BY <1>7 DEF Publish, Deliver, ReceiveAlarm, NoticePublisherGone, Start, CheckRunning,
       ConsumeTimeout, ConsumerError, ClosePublisher, Signal, Crash, LossShows, vars,
       consumerVars, queueVars
  <2>2. pc' \in {"evaluate", "nack"} => UNCHANGED <<pc, cur, rule>>
    BY <1>7 DEF Publish, Deliver, ReceiveAlarm, NoticePublisherGone, Start, CheckRunning,
       ConsumeTimeout, ConsumerError, ClosePublisher, Signal, Crash, LossShows, vars,
       processVars
  <2>3. pc' # "down" => pubUp'
    BY <1>7 DEF Publish, Deliver, ReceiveAlarm, NoticePublisherGone, Start, CheckRunning,
       ConsumeTimeout, ConsumerError, ClosePublisher, Signal, Crash, LossShows, vars, pubVars,
       processVars, EmittedBeforeSettled
  <2>4. Settling' = Settling
    BY <2>1, SettlingFacts
  <2> QED
    BY <1>1, <2>1, <2>2, <2>3, <2>4, NothingEvaluated
<1>8. ~LosePublisher
  BY DEF LosePublisher, TypeOK
<1> QED
  BY <1>2, <1>3, <1>4, <1>5, <1>6, <1>7, <1>8 DEF Next, BrokerStep, ServiceStep

\* The invariant holds at the start, and every step keeps it.
LEMMA InitAlarms == Init => AlarmInv
<1> SUFFICES ASSUME Init
             PROVE  AlarmInv
  OBVIOUS
<1>1. TypeOK /\ HoldInv
  BY InitTypes, InitHolds
<1>2. Range(Settling) = {}
  BY <1>1, SettlingFacts, EmptyFacts DEF Init
<1>3. EmittedBeforeSettled
  BY <1>2 DEF Init, EmittedBeforeSettled
<1> QED
  BY <1>1, <1>3 DEF AlarmInv

LEMMA StepAlarms ==
  AlarmInv /\ [Next]_vars => AlarmInv'
<1> SUFFICES ASSUME AlarmInv, [Next]_vars
             PROVE  AlarmInv'
  OBVIOUS
<1>1. TypeOK' /\ HoldInv'
  BY StepTypes, StepHolds DEF AlarmInv
<1>2. ASSUME pubFaults' = 0
      PROVE  EmittedBeforeSettled'
  BY <1>2, StepKeepsEmitted, StepEmitsFirst DEF AlarmInv
<1> QED
  BY <1>1, <1>2 DEF AlarmInv

\* What the invariant is for.
LEMMA InvMeansNoneLost == AlarmInv => NoAlarmLost
  BY DEF AlarmInv, HoldInv, Accounted, EmittedBeforeSettled, NoAlarmLost

\* Crashes, signals and lost consumer connections lose no alarm: while no publisher
\* connection was lost, an event leaves the queue only with all its alarms emitted.
THEOREM NoAlarmIsLost == Spec => []NoAlarmLost
  BY InitAlarms, StepAlarms, InvMeansNoneLost, PTL DEF Spec

-----------------------------------------------------------------------------
(* The steps of the relay.                                                 *)

Pending == ready \cup unacked
Settled == acked \cup dropped

RelayMoves == Relay!Next \/ UNCHANGED Relay!vars

\* An event accepted, an alarm emitted, an event settled, or none of these.
LEMMA RelaySteps ==
  ASSUME NEW m \in Msgs,
         \/ /\ m \notin Pending \cup Settled /\ Pending' = Pending \cup {m}
            /\ Settled' = Settled /\ Emitted' = Emitted
         \/ \E a \in AlarmsOwed(m) :
              /\ m \in Pending /\ Emitted' = Emitted \cup {a}
              /\ Pending' = Pending /\ Settled' = Settled
         \/ /\ m \in Pending /\ AlarmsOwed(m) \subseteq Emitted
            /\ Pending' = Pending \ {m} /\ Settled' = Settled \cup {m}
            /\ Emitted' = Emitted
  PROVE  RelayMoves
<1> DEFINE owed == [n \in Msgs |-> AlarmsOwed(n)]
<1>1. owed[m] = AlarmsOwed(m)
  OBVIOUS
<1>2. CASE /\ m \notin Pending \cup Settled /\ Pending' = Pending \cup {m}
           /\ Settled' = Settled /\ Emitted' = Emitted
  <2>1. Relay!Accept(m)
    BY <1>2 DEF Relay!Accept, Pending, Settled
  <2> QED
    BY <2>1 DEF RelayMoves, Relay!Next
<1>3. ASSUME NEW a \in AlarmsOwed(m),
             m \in Pending, Emitted' = Emitted \cup {a},
             Pending' = Pending, Settled' = Settled
      PROVE  RelayMoves
  <2>1. Relay!Emit(m, a)
    BY <1>1, <1>3 DEF Relay!Emit, Pending, Settled
  <2> QED
    BY <1>1, <2>1 DEF RelayMoves, Relay!Next
<1>4. CASE /\ m \in Pending /\ AlarmsOwed(m) \subseteq Emitted
           /\ Pending' = Pending \ {m} /\ Settled' = Settled \cup {m}
           /\ Emitted' = Emitted
  <2>1. Relay!Settle(m)
    BY <1>1, <1>4 DEF Relay!Settle, Pending, Settled
  <2> QED
    BY <2>1 DEF RelayMoves, Relay!Next
<1> QED
  BY <1>2, <1>3, <1>4

LEMMA RelayStutters ==
  ASSUME Pending' = Pending, Settled' = Settled, Emitted' = Emitted
  PROVE  RelayMoves
  BY DEF RelayMoves, Relay!vars, Pending, Settled

\* The alarm that evaluate publishes is owed for the event in hand; if it was not
\* emitted before, that event is not settled yet.
LEMMA EvaluateRelays ==
  ASSUME AlarmInv, EvaluateRule, pubFaults = 0,
         cur \in Msgs, rule \in Rules, Verdict[cur][rule] = "match",
         Emitted' = Emitted \cup {<<cur, rule>>}
  PROVE  RelayMoves
<1>1. Pending' = Pending /\ Settled' = Settled /\ pc = "evaluate"
  BY DEF EvaluateRule, consumerVars, queueVars, Pending, Settled
<1>2. EmittedBeforeSettled /\ HoldInv
  BY DEF AlarmInv
<1>3. <<cur, rule>> \in AlarmsOwed(cur)
  BY <1>1, <1>2, OwedFacts DEF EmittedBeforeSettled
<1>4. CASE <<cur, rule>> \in Emitted
  BY <1>1, <1>4, RelayStutters
<1>5. CASE <<cur, rule>> \notin Emitted
  <2>1. cur \in 1..published
    BY <1>2 DEF HoldInv, PublishedOnly, None, Msgs
  <2>2. cur \notin acked \cup dropped
    BY <1>2, <1>3, <1>5 DEF EmittedBeforeSettled
  <2>3. cur \in Pending
    BY <1>2, <2>1, <2>2 DEF HoldInv, Accounted, Pending
  <2> QED
    BY <1>1, <1>3, <2>3, RelaySteps
<1> QED
  BY <1>4, <1>5

\* As long as the publisher's connection holds, every step of the service is a step
\* of the relay, or none.
LEMMA StepRelays ==
  AlarmInv /\ [Next]_vars => [pubFaults' = 0 => Relay!Next]_(Relay!vars)
<1> SUFFICES ASSUME AlarmInv, [Next]_vars, pubFaults' = 0
             PROVE  RelayMoves
  BY DEF RelayMoves
<1>1. TypeOK /\ HoldInv
  BY DEF AlarmInv
<1>2. pubFaults = 0 /\ EmittedBeforeSettled /\ ~LosePublisher
  BY <1>1, StepKeepsEmitted DEF AlarmInv, LosePublisher, TypeOK
<1>3. CASE Emitted' # Emitted
  BY <1>1, <1>2, <1>3, StepEmits, EvaluateRelays
<1>4. CASE Publish /\ Emitted' = Emitted
  <2>1. /\ published + 1 \in Msgs
        /\ published + 1 \notin Pending \cup Settled
    BY <1>1, <1>4, PublishHolds DEF Pending, Settled
  <2>2. Pending' = Pending \cup {published + 1} /\ Settled' = Settled
    BY <1>4 DEF Publish, Pending, Settled
  <2> QED
    BY <1>4, <2>1, <2>2, RelaySteps
<1>5. CASE ReceiveSettlement /\ Emitted' = Emitted
  <2> DEFINE m == Head(conWire).msg
  <2>1. m \in Msgs \cap unacked \cap Range(Settling)
    BY <1>1, <1>5, ReceiveHolds
  <2>2. /\ unacked' = unacked \ {m} /\ ready' = ready
        /\ acked' \cup dropped' = acked \cup dropped \cup {m}
    BY <1>5 DEF ReceiveSettlement
  <2> HIDE DEF m
  <2>3. AlarmsOwed(m) \subseteq Emitted /\ m \notin ready
    BY <1>1, <1>2, <2>1 DEF EmittedBeforeSettled, HoldInv, Holding
  <2>4. m \in Pending /\ Pending' = Pending \ {m} /\ Settled' = Settled \cup {m}
    BY <2>1, <2>2, <2>3 DEF Pending, Settled
  <2> QED
    BY <1>5, <2>1, <2>3, <2>4, RelaySteps
<1>6. CASE ~(Publish \/ ReceiveSettlement) /\ Emitted' = Emitted
  <2>1. \/ UNCHANGED queueVars
        \/ Deliver
        \/ DropConsumer
    BY <1>6 DEF Next, BrokerStep, ServiceStep, ReceiveAlarm, NoticeConsumerGone,
       NoticePublisherGone, Start, CheckRunning, ConsumeMessage, ConsumeTimeout,
       ConsumerError, EvaluateRule, AckEvent, NackEvent, Settle, CloseConsumer,
       ClosePublisher, Signal, Crash, LoseConsumer, LosePublisher, LossShows, vars,
       consumerVars
  <2>2. Pending' = Pending /\ Settled' = Settled
    BY <2>1 DEF queueVars, Deliver, DropConsumer, Pending, Settled
  <2> QED
    BY <1>6, <2>2, RelayStutters
<1> QED
  BY <1>3, <1>4, <1>5, <1>6

LEMMA InitRelays == Init => Relay!Init
  BY InitHolds, EmptyFacts DEF Init, Relay!Init, Emitted

\* As long as the publisher's connection holds, the service keeps the relay's promise:
\* whatever signals, crashes and lost consumer connections it meets, an event is
\* settled once, and only after all its alarms are at the broker or on their way.
THEOREM RelayImplemented == Spec => ImplementsRelay
  BY InitRelays, InitAlarms, StepAlarms, StepRelays, PTL DEF Spec, ImplementsRelay

-----------------------------------------------------------------------------
(* Repeated alarms.                                                        *)

LEMMA CopiesType ==
  ASSUME TypeOK, NEW a
  PROVE  /\ AlarmCopies(a) = CopiesIn(alarms, a) + CopiesIn(pubWire, a)
         /\ CopiesIn(alarms, a) \in Nat /\ CopiesIn(pubWire, a) \in Nat
         /\ AlarmCopies(a) \in Nat
         /\ a \notin Emitted => AlarmCopies(a) = 0
<1>1. alarms \in Seq(Alarms) /\ pubWire \in Seq(Alarms)
  BY DEF TypeOK
<1>2. AlarmCopies(a) = CopiesIn(alarms, a) + CopiesIn(pubWire, a)
  BY DEF AlarmCopies, CopiesIn, Where
<1>3. /\ CopiesIn(alarms, a) \in Nat /\ CopiesIn(pubWire, a) \in Nat
      /\ a \notin Range(alarms) => CopiesIn(alarms, a) = 0
      /\ a \notin Range(pubWire) => CopiesIn(pubWire, a) = 0
  BY <1>1, CopiesFinite
<1> QED
  BY <1>2, <1>3 DEF Emitted

\* Only evaluate adds a copy of an alarm: one, of the rule it is at.
LEMMA StepCopies ==
  ASSUME TypeOK, [Next]_vars, NEW a
  PROVE  /\ AlarmCopies(a) \in Nat /\ AlarmCopies(a)' \in Nat
         /\ \/ AlarmCopies(a)' <= AlarmCopies(a)
            \/ /\ EvaluateRule /\ a = <<cur, rule>> /\ rule' = rule + 1
               /\ AlarmCopies(a)' = AlarmCopies(a) + 1
<1>1. TypeOK' /\ alarms \in Seq(Alarms) /\ pubWire \in Seq(Alarms)
  BY StepTypes DEF TypeOK
<1>2. /\ AlarmCopies(a) = CopiesIn(alarms, a) + CopiesIn(pubWire, a)
      /\ CopiesIn(alarms, a) \in Nat /\ CopiesIn(pubWire, a) \in Nat
      /\ AlarmCopies(a) \in Nat
  BY CopiesType
<1>3. /\ AlarmCopies(a)' = CopiesIn(alarms', a) + CopiesIn(pubWire', a)
      /\ CopiesIn(alarms', a) \in Nat /\ CopiesIn(pubWire', a) \in Nat
  <2>1. AlarmCopies(a)' = CopiesIn(alarms', a) + CopiesIn(pubWire', a)
    BY DEF AlarmCopies, CopiesIn, Where
  <2>2. alarms' \in Seq(Alarms) /\ pubWire' \in Seq(Alarms)
    BY <1>1 DEF TypeOK
  <2> QED
    BY <2>1, <2>2, CopiesFinite
<1>4. CASE UNCHANGED <<pubWire, alarms>>
  BY <1>2, <1>3, <1>4
<1>5. CASE ReceiveAlarm
  <2>1. /\ pubWire # <<>>
        /\ pubWire' = Tail(pubWire) /\ alarms' = Append(alarms, Head(pubWire))
    BY <1>5 DEF ReceiveAlarm
  <2>2. /\ Head(pubWire) \in Alarms
        /\ CopiesIn(pubWire, a)
             = CopiesIn(pubWire', a) + (IF Head(pubWire) = a THEN 1 ELSE 0)
    BY <1>1, <2>1, TailFacts, CopiesTail
  <2>3. CopiesIn(alarms', a) = CopiesIn(alarms, a) + (IF Head(pubWire) = a THEN 1 ELSE 0)
    BY <1>1, <2>1, <2>2, CopiesAppend
  <2> QED
    BY <1>2, <1>3, <2>2, <2>3
<1>6. CASE EvaluateRule /\ pubWire' # pubWire
  <2>1. /\ alarms' = alarms /\ rule' = rule + 1
        /\ pubWire' = Append(pubWire, <<cur, rule>>)
    BY <1>6 DEF EvaluateRule, PublishAlarm
  <2>2. cur \in Msgs /\ rule \in Rules /\ <<cur, rule>> \in Alarms
    BY <1>6, AlarmAtHand
  <2>3. CopiesIn(pubWire', a) = CopiesIn(pubWire, a) + (IF <<cur, rule>> = a THEN 1 ELSE 0)
    BY <1>1, <2>1, <2>2, CopiesAppend
  <2> QED
    BY <1>2, <1>3, <1>6, <2>1, <2>3
<1>7. CASE LosePublisher
  <2>1. alarms' = alarms /\ pubWire' = <<>>
    BY <1>7 DEF LosePublisher
  <2>2. CopiesIn(pubWire', a) = 0
    BY <2>1, EmptyFacts, CopiesFinite
  <2> QED
    BY <1>2, <1>3, <2>1, <2>2
<1>8. CASE EvaluateRule
  BY <1>4, <1>6, <1>8 DEF EvaluateRule
<1>9. CASE ~(ReceiveAlarm \/ EvaluateRule \/ LosePublisher)
  <2>1. UNCHANGED <<pubWire, alarms>>
    BY <1>9 DEF Next, BrokerStep, ServiceStep, Publish, Deliver, ReceiveSettlement,
       NoticeConsumerGone, NoticePublisherGone, Start, CheckRunning, ConsumeMessage,
       ConsumeTimeout, ConsumerError, AckEvent, NackEvent, Settle, CloseConsumer,
       ClosePublisher, Signal, Crash, LoseConsumer, LossShows, vars, pubVars
  <2> QED
    BY <1>4, <2>1
<1> QED
  BY <1>5, <1>7, <1>8, <1>9

RepeatInv == AlarmInv /\ RepeatsAreFaults

\* A fault may put an event that the process has back on the queue; otherwise no step
\* adds a way in which one of its alarms may yet be published, and publishing uses one.
LEMMA StepRepeats ==
  ASSUME AlarmInv, [Next]_vars, NEW m \in Msgs, NEW r \in Rules, RepeatsBounded(m, r)
  PROVE  RepeatsBounded(m, r)'
<1>1. TypeOK /\ HoldInv /\ TypeOK' /\ Holding
  BY StepTypes DEF AlarmInv, HoldInv
<1>2. PICK n \in Nat, n1 \in Nat, d \in {0, 1}, d1 \in {0, 1}, p \in {0, 1}, p1 \in {0, 1} :
        /\ n = AlarmCopies(<<m, r>>) /\ n1 = AlarmCopies(<<m, r>>)'
        /\ d = (IF MayBeDelivered(m) THEN 1 ELSE 0)
        /\ d1 = (IF MayBeDelivered(m)' THEN 1 ELSE 0)
        /\ p = (IF MayBePublished(m, r) THEN 1 ELSE 0)
        /\ p1 = (IF MayBePublished(m, r)' THEN 1 ELSE 0)
  BY <1>1, StepCopies
<1>3. /\ n \in Nat /\ n1 \in Nat
      /\ d \in {0, 1} /\ d1 \in {0, 1} /\ p \in {0, 1} /\ p1 \in {0, 1}
      /\ faults \in Nat /\ faults' \in Nat /\ rule \in Nat /\ r \in Nat /\ m # None
      /\ \/ n1 <= n
         \/ EvaluateRule /\ cur = m /\ rule = r /\ rule' = r + 1 /\ n1 = n + 1
  <2>1. \/ n1 <= n
        \/ EvaluateRule /\ <<m, r>> = <<cur, rule>> /\ rule' = rule + 1 /\ n1 = n + 1
    BY <1>1, <1>2, StepCopies
  <2>2. /\ n \in Nat /\ n1 \in Nat
        /\ d \in {0, 1} /\ d1 \in {0, 1} /\ p \in {0, 1} /\ p1 \in {0, 1}
    BY <1>2
  <2>3. faults \in Nat /\ faults' \in Nat /\ rule \in Nat /\ r \in Nat /\ m # None
    BY <1>1, ProcessingServiceAssumption DEF TypeOK, None, Msgs, Rules
  <2> QED
    BY <2>1, <2>2, <2>3
<1>4. n + d + p <= 1 + faults
  BY <1>2 DEF RepeatsBounded
<1>5. SUFFICES n1 + d1 + p1 <= 1 + faults'
  BY <1>2 DEF RepeatsBounded
<1>6. CASE Publish
  <2>1. /\ ready' = ready \cup {published + 1}
        /\ UNCHANGED <<unacked, faults, pc, inbox, cur, rule>>
    BY <1>6 DEF Publish, processVars
  <2>2. n1 <= n
    BY <1>3, <2>1
  <2>3. CASE m # published + 1
    <3>1. d1 = d /\ p1 = p
      BY <1>2, <2>1, <2>3 DEF MayBeDelivered, MayBePublished
    <3> QED
      BY <1>3, <1>4, <2>1, <2>2, <3>1
  <2>4. CASE m = published + 1
    <3>1. p1 = 0
      BY <1>1, <1>2, <1>6, <2>1, <2>4, PublishHolds DEF MayBePublished
    <3>2. n = 0
      <4>1. m \notin 1..published
        BY <1>1, <2>4 DEF TypeOK
      <4>2. <<m, r>> \notin Emitted
        BY <1>1, <4>1 DEF HoldInv, PublishedOnly
      <4> QED
        BY <1>1, <1>2, <4>2, CopiesType
    <3> QED
      BY <1>3, <2>1, <2>2, <3>1, <3>2
  <2> QED
    BY <2>3, <2>4
<1>7. CASE Deliver
  <2>1. PICK x \in ready :
          /\ ready' = ready \ {x}
          /\ unacked' = unacked \cup {x}
          /\ inbox' = IF pc = "down" THEN inbox ELSE Append(inbox, x)
    BY <1>7 DEF Deliver
  <2>2. UNCHANGED <<faults, pc, cur, rule>> /\ x \in Msgs
    BY <1>1, <1>7 DEF Deliver, envVars, TypeOK
  <2>3. n1 <= n
    BY <1>3, <2>2
  <2>4. pc # "down" => Range(inbox') = Range(inbox) \cup {x}
    <3>1. inbox \in Seq(Msgs)
      BY <1>1 DEF TypeOK
    <3> QED
      BY <2>1, <2>2, <3>1, AppendFacts
  <2>5. CASE pc = "down" \/ m # x
    <3>1. d1 <= d /\ p1 <= p
      BY <1>2, <2>1, <2>2, <2>4, <2>5 DEF MayBeDelivered, MayBePublished
    <3> QED
      BY <1>3, <1>4, <2>2, <2>3, <3>1
  <2>6. CASE pc # "down" /\ m = x
    <3>1. d = 1 /\ d1 = 0
      BY <1>2, <2>1, <2>2, <2>6 DEF MayBeDelivered
    <3> QED
      BY <1>3, <1>4, <2>2, <2>3, <3>1
  <2> QED
    BY <2>5, <2>6
<1>8. CASE Crash
  <2>1. /\ faults' = faults + 1 /\ inbox' = <<>> /\ pc' = "down" /\ n1 <= n
    BY <1>2, <1>3, <1>8 DEF Crash, EvaluateRule
  <2>2. p1 = 0
    BY <1>2, <2>1, EmptyFacts DEF MayBePublished
  <2> QED
    BY <1>3, <1>4, <2>1, <2>2
<1>9. CASE LoseConsumer
  <2>1. faults' = faults + 1 /\ UNCHANGED <<inbox, pc, cur, rule>>
    BY <1>9 DEF LoseConsumer, processVars
  <2>2. n1 <= n /\ p1 = p
    BY <1>2, <1>3, <2>1 DEF MayBePublished
  <2> QED
    BY <1>3, <1>4, <2>1, <2>2
<1>10. CASE CloseConsumer
  <2>1. /\ pc = "close" /\ conWire = <<>> /\ cur = None
        /\ inbox' = <<>> /\ pc' = "closePublisher"
        /\ ready' = ready \cup unacked /\ UNCHANGED <<faults, rule>>
    BY <1>1, <1>10 DEF CloseConsumer, DropConsumer, TypeOK, envVars
  <2>2. n1 <= n
    BY <1>3, <2>1
  <2>3. p1 = 0
    BY <1>2, <2>1, EmptyFacts DEF MayBePublished
  <2>4. unacked \subseteq Range(inbox) \cup {None}
    <3>1. Range(Settling) = {}
      BY <1>1, <2>1, SettlingFacts, EmptyFacts
    <3> QED
      BY <1>1, <2>1, <3>1 DEF Holding
  <2>5. d1 <= d \/ p = 1
    <3>1. MayBeDelivered(m)' => MayBeDelivered(m) \/ MayBePublished(m, r)
      BY <1>3, <2>1, <2>4 DEF MayBeDelivered, MayBePublished
    <3> QED
      BY <1>2, <3>1
  <2> QED
    BY <1>3, <1>4, <2>1, <2>2, <2>3, <2>5
<1>11. CASE ConsumeMessage
  <2>1. /\ inbox # <<>> /\ inbox \in Seq(Msgs) /\ cur' = Head(inbox) /\ inbox' = Tail(inbox)
        /\ pc = "consume" /\ pc' # "down" /\ UNCHANGED <<ready, unacked, faults>>
    BY <1>1, <1>11 DEF ConsumeMessage, TypeOK, consumerVars, queueVars, envVars
  <2>2. n1 <= n /\ d1 <= d
    BY <1>2, <1>3, <1>11, <2>1 DEF ConsumeMessage, EvaluateRule, MayBeDelivered
  <2>3. Range(inbox) = {cur'} \cup Range(inbox')
    BY <2>1, TailFacts
  <2>4. p1 <= p
    BY <1>2, <2>3 DEF MayBePublished
  <2> QED
    BY <1>3, <1>4, <2>1, <2>2, <2>4
<1>12. CASE EvaluateRule
  <2>1. UNCHANGED <<ready, unacked, faults, inbox, cur>> /\ pc = "evaluate" /\ pc' # "down"
    BY <1>12 DEF EvaluateRule, consumerVars, queueVars, envVars
  <2>2. d1 <= d
    BY <1>2, <2>1 DEF MayBeDelivered
  <2>3. CASE n1 <= n
    <3>1. rule' = rule \/ rule' = rule + 1
      BY <1>12 DEF EvaluateRule
    <3>2. MayBePublished(m, r)' => MayBePublished(m, r)
      BY <1>3, <2>1, <3>1 DEF MayBePublished
    <3>3. p1 <= p
      BY <1>2, <3>2
    <3> QED
      BY <1>3, <1>4, <2>1, <2>2, <2>3, <3>3
  <2>4. CASE cur = m /\ rule = r /\ rule' = r + 1 /\ n1 = n + 1
    <3>1. p = 1
      <4>1. MayBePublished(m, r)
        BY <1>3, <2>1, <2>4 DEF MayBePublished
      <4> QED
        BY <1>2, <4>1
    <3>2. p1 = 0
      <4>1. ~MayBePublished(m, r)'
        BY <1>1, <1>3, <2>1, <2>4 DEF MayBePublished, Holding
      <4> QED
        BY <1>2, <4>1
    <3> QED
      BY <1>3, <1>4, <2>1, <2>2, <2>4, <3>1, <3>2
  <2> QED
    BY <1>3, <2>3, <2>4
<1>13. CASE \/ ReceiveSettlement \/ ReceiveAlarm \/ NoticeConsumerGone
            \/ NoticePublisherGone \/ Start \/ CheckRunning \/ ConsumeTimeout
            \/ ConsumerError \/ AckEvent \/ NackEvent \/ ClosePublisher
            \/ Signal \/ LosePublisher \/ LossShows \/ UNCHANGED vars
  <2>1. /\ faults' = faults /\ inbox' = inbox /\ rule' = rule
        /\ pc' = "evaluate" => pc = "evaluate" /\ cur' = cur
    BY <1>13 DEF ReceiveSettlement, ReceiveAlarm, NoticeConsumerGone, NoticePublisherGone,
       Start, CheckRunning, ConsumeTimeout, ConsumerError, AckEvent, NackEvent, Settle,
       ClosePublisher, Signal, LosePublisher, LossShows, vars, envVars, processVars
  <2>2. n1 <= n /\ p1 <= p
    BY <1>2, <1>3, <2>1 DEF MayBePublished
  <2>3. d1 <= d
    <3>1. CASE \/ ReceiveAlarm \/ NoticePublisherGone \/ Start \/ CheckRunning
               \/ ConsumeTimeout \/ ConsumerError \/ AckEvent \/ NackEvent
               \/ Signal \/ LosePublisher \/ LossShows \/ UNCHANGED vars
      <4>1. UNCHANGED <<ready, unacked>> /\ (pc' = "down" => pc = "down")
        BY <3>1 DEF ReceiveAlarm, NoticePublisherGone, Start, CheckRunning,
           ConsumeTimeout, ConsumerError, AckEvent, NackEvent, Settle, Signal,
           LosePublisher, LossShows, vars, consumerVars, queueVars, processVars
      <4> QED
        BY <1>2, <4>1 DEF MayBeDelivered
    <3>2. CASE ReceiveSettlement \/ NoticeConsumerGone
      BY <1>2, <3>2 DEF ReceiveSettlement, NoticeConsumerGone, DropConsumer, processVars,
         MayBeDelivered
    <3>3. CASE ClosePublisher
      <4>1. unacked = {} /\ UNCHANGED <<ready, unacked>>
        BY <1>1, <3>3 DEF ClosePublisher, TypeOK, Holding, consumerVars, queueVars
      <4> QED
        BY <1>2, <4>1 DEF MayBeDelivered
    <3> QED
      BY <1>13, <3>1, <3>2, <3>3
  <2> QED
    BY <1>3, <1>4, <2>1, <2>2, <2>3
<1> QED
  BY <1>6, <1>7, <1>8, <1>9, <1>10, <1>11, <1>12, <1>13 DEF Next, BrokerStep, ServiceStep

\* With nothing published, nothing is repeated.
LEMMA InitRepeats == Init => RepeatInv
<1> SUFFICES ASSUME Init
             PROVE  RepeatInv
  OBVIOUS
<1>1. AlarmInv
  BY InitAlarms
<1>2. ASSUME NEW m \in Msgs, NEW r \in Rules
      PROVE  RepeatsBounded(m, r)
  <2>1. <<m, r>> \notin Emitted
    BY EmptyFacts DEF Init, Emitted
  <2>2. AlarmCopies(<<m, r>>) = 0
    BY <1>1, <2>1, CopiesType DEF AlarmInv
  <2>3. ~MayBeDelivered(m) /\ ~MayBePublished(m, r)
    BY EmptyFacts DEF Init, MayBeDelivered, MayBePublished
  <2> QED
    BY <2>2, <2>3 DEF RepeatsBounded, Init
<1> QED
  BY <1>1, <1>2 DEF RepeatInv, RepeatsAreFaults

LEMMA StepKeepsRepeats ==
  RepeatInv /\ [Next]_vars => RepeatInv'
  BY StepAlarms, StepRepeats DEF RepeatInv, RepeatsAreFaults

LEMMA InvMeansFewRepeats == RepeatInv => DuplicatesNeedFaults
<1> SUFFICES ASSUME RepeatInv, NEW a \in Alarms
             PROVE  AlarmCopies(a) <= 1 + faults
  BY DEF DuplicatesNeedFaults
<1>1. PICK m \in Msgs, r \in Rules : a = <<m, r>>
  BY DEF Alarms
<1>2. RepeatsBounded(m, r) /\ TypeOK
  BY DEF RepeatInv, RepeatsAreFaults, AlarmInv
<1>3. AlarmCopies(a) \in Nat /\ faults \in Nat
  BY <1>2, CopiesType DEF TypeOK
<1> QED
  BY <1>1, <1>2, <1>3 DEF RepeatsBounded

\* An alarm reaches the broker at most once more than there were crashes and lost
\* consumer connections: no signal and no failed evaluation repeats one.
THEOREM RepeatsNeedFaults == Spec => []DuplicatesNeedFaults
  BY InitRepeats, StepKeepsRepeats, InvMeansFewRepeats, PTL DEF Spec
=============================================================================
