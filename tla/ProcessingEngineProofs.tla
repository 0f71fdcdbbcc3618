------------------------ MODULE ProcessingEngineProofs -------------------------
(***************************************************************************)
(* Proofs about ProcessingEngine, for any threads, publishers and programs, *)
(* for files of any length, and whatever it is that rules decide.           *)
(***************************************************************************)
EXTENDS ProcessingEngine, SequenceTheorems, TLAPS

-----------------------------------------------------------------------------
(* The alarms of the first rules of a file.                                 *)

LEMMA NoAlarmsOfNoRules ==
  ASSUME NEW event, NEW source
  PROVE  AlarmsOf(<<>>, event, source, 0)
<1> DEFINE at == [i \in DOMAIN <<>> |-> 0]
<1>1. DOMAIN <<>> = {} /\ 1..0 = {}
  OBVIOUS
<1>2. at \in [DOMAIN <<>> -> 1..0]
  BY <1>1
<1> QED
  BY <1>1, <1>2 DEF AlarmsOf

\* A rule that does not match adds no alarm.
LEMMA SkippedRule ==
  ASSUME NEW event, NEW source, NEW n \in Nat, NEW ids,
         AlarmsOf(ids, event, source, n),
         Decides(event, source[n + 1]) # "match"
  PROVE  AlarmsOf(ids, event, source, n + 1)
<1>1. PICK at \in [DOMAIN ids -> 1..n] :
        /\ \A i, j \in DOMAIN ids : i < j => at[i] < at[j]
        /\ {at[i] : i \in DOMAIN ids}
             = {k \in 1..n : Decides(event, source[k]) = "match"}
        /\ \A i \in DOMAIN ids : ids[i] = source[at[i]].id
  BY DEF AlarmsOf
<1>2. 1..n \subseteq 1..(n + 1)
  OBVIOUS
<1>3. at \in [DOMAIN ids -> 1..(n + 1)]
  BY <1>2
<1>4. {k \in 1..(n + 1) : Decides(event, source[k]) = "match"}
        = {k \in 1..n : Decides(event, source[k]) = "match"}
  <2>1. \A k \in 1..(n + 1) : k \in 1..n \/ k = n + 1
    OBVIOUS
  <2> QED
    BY <2>1, <1>2
<1> QED
  BY <1>1, <1>3, <1>4 DEF AlarmsOf

\* One that matches adds its own.
LEMMA MatchingRule ==
  ASSUME NEW event, NEW source, NEW n \in Nat, NEW S, NEW ids \in Seq(S),
         source[n + 1].id \in S,
         AlarmsOf(ids, event, source, n),
         Decides(event, source[n + 1]) = "match"
  PROVE  AlarmsOf(Append(ids, source[n + 1].id), event, source, n + 1)
<1> DEFINE more == Append(ids, source[n + 1].id)
<1>1. PICK at \in [DOMAIN ids -> 1..n] :
        /\ \A i, j \in DOMAIN ids : i < j => at[i] < at[j]
        /\ {at[i] : i \in DOMAIN ids}
             = {k \in 1..n : Decides(event, source[k]) = "match"}
        /\ \A i \in DOMAIN ids : ids[i] = source[at[i]].id
  BY DEF AlarmsOf
<1> DEFINE last == Len(ids) + 1
           to   == [i \in 1..last |-> IF i = last THEN n + 1 ELSE at[i]]
<1>2. /\ DOMAIN ids = 1..Len(ids) /\ Len(ids) \in Nat
      /\ DOMAIN more = 1..last
      /\ more[last] = source[n + 1].id
      /\ \A i \in 1..Len(ids) : more[i] = ids[i]
  OBVIOUS
<1>3. /\ \A i \in 1..last : i = last \/ i \in DOMAIN ids
      /\ DOMAIN ids \subseteq 1..last /\ last \in 1..last /\ last \notin DOMAIN ids
  BY <1>2
<1>4. \A k \in 1..(n + 1) : k \in 1..n \/ k = n + 1
  OBVIOUS
<1>5. \A i \in DOMAIN ids : to[i] = at[i] /\ at[i] \in 1..n
  BY <1>3
<1>6. to[last] = n + 1
  BY <1>3
<1>7. 1..n \subseteq 1..(n + 1) /\ n + 1 \in 1..(n + 1) /\ n + 1 \notin 1..n
  OBVIOUS
<1> HIDE DEF to, last, more
<1>8. to \in [DOMAIN more -> 1..(n + 1)]
  <2>1. \A i \in 1..last : to[i] \in 1..(n + 1)
    BY <1>3, <1>5, <1>6, <1>7
  <2> QED
    BY <2>1, <1>2 DEF to
<1>9. \A i, j \in DOMAIN more : i < j => to[i] < to[j]
  <2> SUFFICES ASSUME NEW i \in 1..last, NEW j \in 1..last, i < j
               PROVE  to[i] < to[j]
    BY <1>2
  <2>1. i \in DOMAIN ids
    BY <1>2 DEF last
  <2>2. CASE j = last
    <3>1. to[i] \in 1..n /\ to[j] = n + 1
      BY <2>1, <2>2, <1>5, <1>6
    <3> QED
      BY <3>1
  <2>3. CASE j \in DOMAIN ids
    BY <2>1, <2>3, <1>5, <1>1
  <2> QED
    BY <2>2, <2>3, <1>3
<1>10. {to[i] : i \in DOMAIN more}
         = {k \in 1..(n + 1) : Decides(event, source[k]) = "match"}
  <2>1. {to[i] : i \in DOMAIN more} = {to[i] : i \in DOMAIN ids} \cup {to[last]}
    BY <1>2, <1>3
  <2>2. {to[i] : i \in DOMAIN ids} = {at[i] : i \in DOMAIN ids}
    BY <1>5
  <2>3. {k \in 1..(n + 1) : Decides(event, source[k]) = "match"}
          = {k \in 1..n : Decides(event, source[k]) = "match"} \cup {n + 1}
    BY <1>4, <1>7
  <2> QED
    BY <2>1, <2>2, <2>3, <1>1, <1>6
<1>11. \A i \in DOMAIN more : more[i] = source[to[i]].id
  BY <1>1, <1>2, <1>3, <1>5, <1>6
<1> QED
  BY <1>8, <1>9, <1>10, <1>11 DEF AlarmsOf, more

-----------------------------------------------------------------------------
(* Files and rules.                                                         *)

LEMMA FileFacts ==
  ASSUME NEW f \in Seq(Entries)
  PROVE  /\ Len(f) \in Nat /\ DOMAIN f = 1..Len(f)
         /\ \A k \in DOMAIN f : f[k].id \in Ids
BY DEF Ids

\* What the loader keeps has the types that it checks.
LEMMA LoadedTyped ==
  ASSUME NEW json, Loads(json)
  PROVE  /\ Loaded(json).id = json.id
         /\ Is("str", Loaded(json).id) /\ Is("str", Loaded(json).event_type)
         /\ Is("obj", Loaded(json).condition)
         /\ Loaded(json).enabled \in BOOLEAN
BY DEF Loads, Loaded, Is, EmptyObject, Obj

LEMMA RulesLength ==
  ASSUME RulesAreLoaded
  PROVE  /\ Len(file) \in Nat /\ DOMAIN file = 1..Len(file)
         /\ Len(rules) = Len(file)
<1>1. file \in Seq(Entries) /\ rules = [k \in DOMAIN file |-> Loaded(file[k])]
  BY DEF RulesAreLoaded
<1>2. Len(file) \in Nat /\ DOMAIN file = 1..Len(file)
  BY <1>1
<1> QED
  BY <1>1, <1>2

LEMMA CallFields ==
  ASSUME NEW c \in Calls
  PROVE  /\ c.op \in {"load", "evaluate", "publisher"}
         /\ c.op = "load" => c.file \in Seq(Entries)
         /\ c.op = "evaluate" => c.event \in Events /\ c.callback \in Callbacks
         /\ c.op = "publisher" => c.publisher \in Publishers \cup {None}
BY DEF Calls

LEMMA TakeCall ==
  ASSUME NEW s \in Seq(Calls), s # <<>>
  PROVE  Head(s) \in Calls /\ Tail(s) \in Seq(Calls)
OBVIOUS
-----------------------------------------------------------------------------
(* The invariant.                                                           *)

LEMMA NoneFresh == None \notin Threads /\ None \notin Publishers
BY ProcessingEngineAssumption

LEMMA InitEngineInv == Init => EngineInv
<1> SUFFICES ASSUME Init PROVE EngineInv
  OBVIOUS
<1>1. PICK program \in Programs :
        publisher = program.publisher /\ todo = program.calls
  BY DEF Init
<1>2. TypeOK
  BY <1>1, ProcessingEngineAssumption DEF Init, TypeOK, InEvaluate
<1>3. CallsTyped
  <2>1. SetTo(None) \in Calls
    BY DEF SetTo, Calls
  <2>2. todo \in [Threads -> Seq(Calls)]
    BY <1>1, ProcessingEngineAssumption
  <2>3. call \in [Threads -> Calls]
    BY <2>1 DEF Init
  <2>4. raised \in [Threads -> Seq(Ids)]
    BY DEF Init
  <2> QED
    BY <2>2, <2>3, <2>4 DEF Init, CallsTyped, InEvaluate
<1>4. RulesAreLoaded
  BY DEF Init, RulesAreLoaded
<1>5. SoFar /\ PublisherHeld /\ AlarmsOfOneRuleSet
  BY DEF Init, SoFar, SoFarOf, PublisherHeld, AlarmsOfOneRuleSet, Evaluated, InEvaluate
<1> QED
  BY <1>2, <1>3, <1>4, <1>5 DEF EngineInv

LEMMA StepTypeOK ==
  ASSUME EngineInv, NEW t \in Threads, Step(t)
  PROVE  TypeOK'
<1> USE NoneFresh DEF EngineInv, TypeOK, InEvaluate
<1>1. CASE Begin(t)
  BY <1>1, TakeCall, CallFields DEF CallsTyped, vars, engine, history, Goto, Begin
<1>2. CASE Load(t)
  BY <1>2, CallFields, FileFacts, LoadedTyped DEF CallsTyped, vars, engine, history, Goto, Load
<1>3. CASE SetPublisher(t)
  BY <1>3, CallFields DEF CallsTyped, vars, engine, history, Goto, SetPublisher
<1>4. CASE LockRules(t)
  BY <1>4 DEF vars, engine, history, Goto, LockRules
<1>5. CASE EvaluateRule(t)
  BY <1>5 DEF vars, engine, history, Goto, EvaluateRule, EndEvaluation
<1>6. CASE RunCallback(t)
  BY <1>6 DEF vars, engine, history, Goto, RunCallback, EndEvaluation
<1>7. CASE TestPublisher(t)
  BY <1>7 DEF vars, engine, history, Goto, TestPublisher
<1>8. CASE Publish(t)
  BY <1>8 DEF vars, engine, history, Goto, Publish
<1>9. CASE PublishReturn(t)
  BY <1>9 DEF vars, engine, history, Goto, PublishReturn, EndEvaluation
<1> QED
  BY <1>1, <1>2, <1>3, <1>4, <1>5, <1>6, <1>7, <1>8, <1>9 DEF Step

\* A step of one thread leaves the others where they are.
LEMMA OthersStay ==
  ASSUME TypeOK, CallsTyped, NEW t \in Threads, Step(t), NEW u \in Threads \ {t}
  PROVE  /\ pc'[u] = pc[u] /\ call'[u] = call[u] /\ using'[u] = using[u]
         /\ raised'[u] = raised[u] /\ ended'[u] = ended[u]
<1> USE DEF TypeOK, CallsTyped
<1>1. CASE Begin(t)
  BY <1>1 DEF history, engine, Goto, Begin
<1>2. CASE Load(t)
  BY <1>2 DEF history, engine, Goto, Load
<1>3. CASE SetPublisher(t)
  BY <1>3 DEF history, engine, Goto, SetPublisher
<1>4. CASE LockRules(t)
  BY <1>4 DEF history, engine, Goto, LockRules
<1>5. CASE EvaluateRule(t)
  BY <1>5 DEF history, engine, Goto, EvaluateRule, EndEvaluation
<1>6. CASE RunCallback(t)
  BY <1>6 DEF history, engine, Goto, RunCallback, EndEvaluation
<1>7. CASE TestPublisher(t)
  BY <1>7 DEF history, engine, Goto, TestPublisher
<1>8. CASE Publish(t)
  BY <1>8 DEF history, engine, Goto, Publish
<1>9. CASE PublishReturn(t)
  BY <1>9 DEF history, engine, Goto, PublishReturn, EndEvaluation
<1> QED
  BY <1>1, <1>2, <1>3, <1>4, <1>5, <1>6, <1>7, <1>8, <1>9 DEF Step

LEMMA StepCallsTyped ==
  ASSUME EngineInv, NEW t \in Threads, Step(t)
  PROVE  CallsTyped'
<1>1. /\ todo' \in [Threads -> Seq(Calls)]
      /\ call' \in [Threads -> Calls]
      /\ raised' \in [Threads -> Seq(Ids)]
      /\ DOMAIN inForce' = Threads
      /\ replaced' \in BOOLEAN
  <2> USE DEF EngineInv, CallsTyped
  <2>1. CASE Begin(t)
    <3>1. Head(todo[t]) \in Calls /\ Tail(todo[t]) \in Seq(Calls)
      BY <2>1, TakeCall DEF Begin
    <3>2. todo' \in [Threads -> Seq(Calls)] /\ call' \in [Threads -> Calls]
      BY <2>1, <3>1 DEF Begin
    <3>3. raised' \in [Threads -> Seq(Ids)]
      BY <2>1 DEF Begin
    <3> QED
      BY <2>1, <3>2, <3>3 DEF Begin
  <2>2. CASE Load(t)
    BY <2>2 DEF history, engine, Load
  <2>3. CASE SetPublisher(t)
    BY <2>3 DEF history, engine, SetPublisher
  <2>4. CASE LockRules(t)
    BY <2>4 DEF history, engine, LockRules
  <2>5. CASE EvaluateRule(t)
    <3>1. raised' \in [Threads -> Seq(Ids)]
      <4>1. CASE UNCHANGED raised
        BY <4>1
      <4>2. CASE raised # raised'
        <5>1. rule \in DOMAIN file
          BY <2>5, <4>2, RulesLength DEF EvaluateRule, TypeOK, SoFar, SoFarOf
        <5>2. rules[rule].id \in Ids
          BY <5>1, FileFacts, LoadedTyped DEF RulesAreLoaded
        <5>3. raised' = [raised EXCEPT ![t] = Append(@, rules[rule].id)]
          BY <2>5, <4>2 DEF EvaluateRule
        <5> QED
          BY <5>2, <5>3
      <4> QED
        BY <4>1, <4>2
    <3> QED
      BY <2>5, <3>1 DEF EvaluateRule
  <2>6. CASE RunCallback(t)
    BY <2>6 DEF history, engine, RunCallback
  <2>7. CASE TestPublisher(t)
    BY <2>7 DEF history, engine, TestPublisher
  <2>8. CASE Publish(t)
    BY <2>8 DEF history, engine, Publish
  <2>9. CASE PublishReturn(t)
    BY <2>9 DEF history, engine, PublishReturn
  <2> QED
    BY <2>1, <2>2, <2>3, <2>4, <2>5, <2>6, <2>7, <2>8, <2>9 DEF Step
<1>2. /\ pc'[t] \in {"load", "evaluate", "publisher"} => call'[t].op = pc'[t]
      /\ pc'[t] \in InEvaluate \/ ended'[t] # "no" => call'[t].op = "evaluate"
  <2> USE DEF EngineInv, CallsTyped, TypeOK, InEvaluate
  <2>1. CASE Begin(t)
    BY <2>1, TakeCall, CallFields DEF history, engine, Goto, Begin
  <2>2. CASE Load(t)
    BY <2>2 DEF history, engine, Goto, Load
  <2>3. CASE SetPublisher(t)
    BY <2>3 DEF history, engine, Goto, SetPublisher
  <2>4. CASE LockRules(t)
    BY <2>4 DEF history, engine, Goto, LockRules
  <2>5. CASE EvaluateRule(t)
    BY <2>5 DEF history, engine, Goto, EvaluateRule, EndEvaluation
  <2>6. CASE RunCallback(t)
    BY <2>6 DEF history, engine, Goto, RunCallback, EndEvaluation
  <2>7. CASE TestPublisher(t)
    BY <2>7 DEF history, engine, Goto, TestPublisher
  <2>8. CASE Publish(t)
    BY <2>8 DEF history, engine, Goto, Publish
  <2>9. CASE PublishReturn(t)
    BY <2>9 DEF history, engine, Goto, PublishReturn, EndEvaluation
  <2> QED
    BY <2>1, <2>2, <2>3, <2>4, <2>5, <2>6, <2>7, <2>8, <2>9 DEF Step
<1>3. \A u \in Threads \ {t} :
        /\ pc'[u] \in {"load", "evaluate", "publisher"} => call'[u].op = pc'[u]
        /\ pc'[u] \in InEvaluate \/ ended'[u] # "no" => call'[u].op = "evaluate"
  <2> SUFFICES ASSUME NEW u \in Threads \ {t}
               PROVE  /\ pc'[u] \in {"load", "evaluate", "publisher"} => call'[u].op = pc'[u]
                      /\ pc'[u] \in InEvaluate \/ ended'[u] # "no" => call'[u].op = "evaluate"
    OBVIOUS
  <2>1. pc'[u] = pc[u] /\ call'[u] = call[u] /\ ended'[u] = ended[u]
    BY OthersStay DEF EngineInv
  <2> QED
    BY <2>1 DEF EngineInv, CallsTyped
<1> QED
  BY <1>1, <1>2, <1>3 DEF CallsTyped, InEvaluate

LEMMA StepRulesAreLoaded ==
  ASSUME EngineInv, NEW t \in Threads, Step(t)
  PROVE  RulesAreLoaded'
<1> USE NoneFresh DEF EngineInv, RulesAreLoaded, CallsTyped, TypeOK
<1>1. CASE Begin(t)
  BY <1>1, TakeCall, CallFields DEF history, engine, Goto, Begin
<1>2. CASE Load(t)
  <2>1. CASE UNCHANGED <<rules, file, inForce>>
    BY <1>2, <2>1 DEF Goto, Load
  <2>2. CASE ~UNCHANGED <<rules, file, inForce>>
    <3> DEFINE f == call[t].file
    <3>1. f \in Seq(Entries)
      BY <1>2, CallFields DEF Load
    <3>2. /\ \A k \in DOMAIN f : Loads(f[k])
          /\ rules' = [k \in DOMAIN f |-> Loaded(f[k])]
          /\ file' = f
          /\ inForce' = [u \in Threads |-> inForce[u] \cup {f}]
          /\ UNCHANGED ended
          /\ pc' = [pc EXCEPT ![t] = "idle"]
      BY <1>2, <2>2 DEF Load, Goto
    <3> HIDE DEF f
    <3> QED
      BY <3>1, <3>2
  <2> QED
    BY <2>1, <2>2
<1>3. CASE SetPublisher(t)
  BY <1>3 DEF history, engine, Goto, SetPublisher
<1>4. CASE LockRules(t)
  BY <1>4 DEF history, engine, Goto, LockRules
<1>5. CASE EvaluateRule(t)
  BY <1>5 DEF history, engine, Goto, EvaluateRule, EndEvaluation
<1>6. CASE RunCallback(t)
  BY <1>6 DEF history, engine, Goto, RunCallback, EndEvaluation
<1>7. CASE TestPublisher(t)
  BY <1>7 DEF history, engine, Goto, TestPublisher
<1>8. CASE Publish(t)
  BY <1>8 DEF history, engine, Goto, Publish
<1>9. CASE PublishReturn(t)
  BY <1>9 DEF history, engine, Goto, PublishReturn, EndEvaluation
<1> QED
  BY <1>1, <1>2, <1>3, <1>4, <1>5, <1>6, <1>7, <1>8, <1>9 DEF Step

LEMMA StepPublisherHeld ==
  ASSUME EngineInv, crash = "no", NEW t \in Threads, Step(t)
  PROVE  PublisherHeld'
<1> USE NoneFresh DEF EngineInv, PublisherHeld, CallsTyped, TypeOK, InEvaluate
<1>1. CASE Begin(t)
  BY <1>1, TakeCall, CallFields DEF history, engine, Goto, Begin
<1>2. CASE Load(t)
  BY <1>2 DEF history, engine, Goto, Load
<1>3. CASE SetPublisher(t)
  <2>1. \A u \in Threads : using'[u] # None => pc'[u] = "publishing"
    BY <1>3 DEF SetPublisher, Goto
  <2>2. ASSUME ~replaced'
        PROVE  /\ crash' = "no"
               /\ \A u \in Threads : pc'[u] \notin {"publish", "publishing"}
    <3>1. mutex = None /\ crash' = "no"
      BY <1>3, <2>2 DEF SetPublisher
    <3>2. \A u \in Threads : pc[u] \notin InEvaluate
      BY <3>1
    <3> QED
      BY <1>3, <3>1, <3>2 DEF SetPublisher, Goto
  <2> QED
    BY <2>1, <2>2
<1>4. CASE LockRules(t)
  BY <1>4 DEF history, engine, Goto, LockRules
<1>5. CASE EvaluateRule(t)
  BY <1>5 DEF history, engine, Goto, EvaluateRule, EndEvaluation
<1>6. CASE RunCallback(t)
  BY <1>6 DEF history, engine, Goto, RunCallback, EndEvaluation
<1>7. CASE TestPublisher(t)
  BY <1>7 DEF history, engine, Goto, TestPublisher
<1>8. CASE Publish(t)
  <2>1. CASE publisher = None
    BY <1>8, <2>1 DEF Publish, history
  <2>2. CASE publisher # None
    <3>1. /\ pc' = [pc EXCEPT ![t] = "publishing"]
          /\ using' = [using EXCEPT ![t] = publisher]
          /\ UNCHANGED <<publisher, replaced, crash>>
      BY <1>8, <2>2 DEF Publish, history, Goto
    <3>2. \A u \in Threads \ {t} : pc'[u] = pc[u] /\ using'[u] = using[u]
      BY <3>1
    <3>3. pc'[t] = "publishing" /\ using'[t] = publisher
      BY <3>1
    <3> QED
      BY <3>1, <3>2, <3>3
  <2> QED
    BY <2>1, <2>2
<1>9. CASE PublishReturn(t)
  BY <1>9 DEF history, engine, Goto, PublishReturn, EndEvaluation
<1> QED
  BY <1>1, <1>2, <1>3, <1>4, <1>5, <1>6, <1>7, <1>8, <1>9 DEF Step

\* Only the thread that holds the mutex is in evaluate.
LEMMA OneEvaluates ==
  ASSUME TypeOK, NEW t \in Threads, NEW u \in Threads \ {t}, pc[t] \in InEvaluate
  PROVE  pc[u] \notin InEvaluate
BY DEF TypeOK

\* The rule at hand decides what the entry of the file that it comes from does.
LEMMA RuleOfFile ==
  ASSUME EngineInv, rule \in DOMAIN file
  PROVE  /\ rules[rule] = Loaded(file[rule])
         /\ rules[rule].id = file[rule].id
         /\ file[rule].id \in Ids
BY FileFacts, LoadedTyped DEF EngineInv, RulesAreLoaded

\* The rules and the rule at hand change only at the hands of the thread that
\* evaluates, or while none does.
LEMMA OthersSoFar ==
  ASSUME EngineInv, NEW t \in Threads, Step(t), NEW u \in Threads \ {t}
  PROVE  SoFarOf(u)'
<1>1. /\ pc'[u] = pc[u] /\ call'[u] = call[u] /\ raised'[u] = raised[u]
  BY OthersStay DEF EngineInv
<1>2. pc[u] \in InEvaluate => UNCHANGED <<rule, file>>
  <2> SUFFICES ASSUME pc[u] \in InEvaluate PROVE UNCHANGED <<rule, file>>
    OBVIOUS
  <2>1. mutex = u /\ mutex # None /\ pc[t] \notin InEvaluate
    BY OneEvaluates, NoneFresh DEF EngineInv, TypeOK
  <2> QED
    BY <2>1 DEF Step, InEvaluate, Begin, Load, SetPublisher, LockRules, EvaluateRule,
                RunCallback, TestPublisher, Publish, PublishReturn, engine, history
<1>3. SoFarOf(u)
  BY DEF EngineInv, SoFar, SoFarOf
<1> QED
  BY <1>1, <1>2, <1>3 DEF SoFarOf, InEvaluate

LEMMA NextRule ==
  ASSUME EngineInv, rule \in DOMAIN file
  PROVE  rule + 1 \in 1..(Len(file) + 1) /\ (rule + 1) - 1 = rule
BY RulesLength DEF EngineInv

LEMMA StepSoFar ==
  ASSUME EngineInv, NEW t \in Threads, Step(t)
  PROVE  SoFar'
<1>1. SoFarOf(t)'
  <2> DEFINE e == call[t].event
             ids == raised[t]
  <2>1. SoFarOf(t)
    BY DEF EngineInv, SoFar, SoFarOf
  <2>2. /\ ids \in Seq(Ids)
        /\ pc \in [Threads -> {"idle", "load", "evaluate", "publisher"} \cup InEvaluate]
        /\ raised \in [Threads -> Seq(Ids)]
        /\ DOMAIN call = Threads
        /\ Len(file) \in Nat /\ DOMAIN file = 1..Len(file) /\ Len(rules) = Len(file)
        /\ rule \in Nat
    BY RulesLength DEF EngineInv, CallsTyped, TypeOK
  <2>3. CASE Begin(t)
    BY <2>2, <2>3, CallFields, TakeCall DEF Begin, Goto, SoFarOf, InEvaluate, EngineInv, CallsTyped
  <2>4. CASE Load(t)
    BY <2>2, <2>4 DEF Load, Goto, SoFarOf, InEvaluate
  <2>5. CASE SetPublisher(t)
    BY <2>2, <2>5 DEF SetPublisher, Goto, SoFarOf, InEvaluate
  <2>6. CASE LockRules(t)
    <3>1. AlarmsOf(ids, e, file, 0)
      BY <2>1, <2>6, NoAlarmsOfNoRules DEF LockRules, SoFarOf
    <3> QED
      BY <2>2, <2>6, <3>1 DEF LockRules, Goto, SoFarOf, InEvaluate, history
  <2>7. CASE EvaluateRule(t)
    <3>1. CASE pc'[t] = "idle"
      BY <3>1 DEF SoFarOf, InEvaluate
    <3>2. CASE pc'[t] # "idle"
      <4>1. /\ pc[t] = "rule" /\ rule \in DOMAIN file
            /\ AlarmsOf(ids, e, file, rule - 1)
            /\ UNCHANGED <<call, file>>
        BY <2>1, <2>2, <2>7, <3>2 DEF EvaluateRule, EndEvaluation, Goto, SoFarOf
      <4>2. /\ rule - 1 \in Nat /\ (rule - 1) + 1 = rule /\ (rule + 1) - 1 = rule
            /\ rule + 1 \in 1..(Len(file) + 1)
        BY <2>2, <4>1
      <4>3. Verdict(e, rules[rule]) = Decides(e, file[rule])
        BY <4>1, RuleOfFile DEF Decides
      <4>4. CASE Decides(e, file[rule]) = "match"
        <5>1. /\ pc'[t] = "callback" /\ rule' = rule
              /\ raised'[t] = Append(ids, file[rule].id)
          BY <2>2, <2>7, <3>2, <4>1, <4>3, <4>4, RuleOfFile DEF EvaluateRule, Goto
        <5>2. AlarmsOf(Append(ids, file[rule].id), e, file, rule)
          BY <2>2, <4>1, <4>2, <4>4, RuleOfFile, MatchingRule
        <5> QED
          BY <4>1, <4>4, <5>1, <5>2 DEF SoFarOf, InEvaluate
      <4>5. CASE Decides(e, file[rule]) # "match"
        <5>1. pc'[t] = "rule" /\ rule' = rule + 1 /\ raised' = raised
          BY <2>2, <2>7, <3>2, <4>1, <4>3, <4>5 DEF EvaluateRule, EndEvaluation, Goto
        <5>2. AlarmsOf(ids, e, file, rule)
          BY <4>1, <4>2, <4>5, SkippedRule
        <5> QED
          BY <4>1, <4>2, <5>1, <5>2 DEF SoFarOf, InEvaluate
      <4> QED
        BY <4>4, <4>5
    <3> QED
      BY <3>1, <3>2
  <2>8. CASE RunCallback(t)
    BY <2>1, <2>2, <2>8 DEF RunCallback, EndEvaluation, Goto, SoFarOf, InEvaluate
  <2>9. CASE TestPublisher(t)
    <3>1. /\ pc[t] = "test" /\ UNCHANGED <<call, file, raised>>
          /\ \/ pc'[t] = "rule" /\ rule' = rule + 1
             \/ pc'[t] = "publish" /\ rule' = rule
      BY <2>2, <2>9 DEF TestPublisher, Goto, history
    <3> QED
      BY <2>1, <3>1, NextRule DEF SoFarOf, InEvaluate
  <2>10. CASE Publish(t)
    BY <2>1, <2>2, <2>10 DEF Publish, Goto, SoFarOf, InEvaluate, history
  <2>11. CASE PublishReturn(t)
    <3>1. /\ pc[t] = "publishing" /\ UNCHANGED <<call, file, raised>>
          /\ \/ pc'[t] = "rule" /\ rule' = rule + 1
             \/ pc'[t] = "publishing" /\ rule' = rule
             \/ pc'[t] = "idle"
      BY <2>2, <2>11 DEF PublishReturn, EndEvaluation, Goto
    <3> QED
      BY <2>1, <3>1, NextRule DEF SoFarOf, InEvaluate
  <2> QED
    BY <2>3, <2>4, <2>5, <2>6, <2>7, <2>8, <2>9, <2>10, <2>11 DEF Step
<1> QED
  BY <1>1, OthersSoFar DEF SoFar, SoFarOf

\* What AlarmsOfOneRuleSet says of one thread.
AlarmsRight(t) ==
  Evaluated(t) =>
    \E source \in inForce[t] : \E n \in 0..Len(source) :
      /\ AlarmsOf(raised[t], call[t].event, source, n)
      /\ EndsAfter(ended[t], call[t].event, source, n)

\* An evaluation that ends has dealt with the first n rules of the file that is in
\* force, and has the reason to end there.
LEMMA EvaluationEnds ==
  ASSUME EngineInv, NEW t \in Threads, Step(t), pc[t] # "idle", Evaluated(t)'
  PROVE  /\ UNCHANGED <<call, raised, file, inForce>>
         /\ \E n \in 0..Len(file) :
              /\ AlarmsOf(raised[t], call[t].event, file, n)
              /\ EndsAfter(ended'[t], call[t].event, file, n)
<1>1. /\ DOMAIN pc = Threads /\ DOMAIN ended = Threads /\ DOMAIN raised = Threads
      /\ Len(file) \in Nat /\ DOMAIN file = 1..Len(file) /\ Len(rules) = Len(file)
      /\ rule \in Nat /\ ended[t] = "no"
  BY RulesLength DEF EngineInv, CallsTyped, TypeOK, RulesAreLoaded
<1>2. SoFarOf(t)
  BY DEF EngineInv, SoFar, SoFarOf
<1>3. pc'[t] = "idle" /\ ended'[t] # "no"
  BY DEF Evaluated
<1>4. CASE Begin(t)
  BY <1>4, <1>1, <1>3 DEF Begin
<1>5. CASE Load(t) \/ SetPublisher(t) \/ LockRules(t) \/ TestPublisher(t) \/ Publish(t)
  BY <1>5, <1>1, <1>3
     DEF Load, SetPublisher, LockRules, TestPublisher, Publish, history
<1>6. CASE EvaluateRule(t)
  <2>1. /\ pc[t] = "rule" /\ UNCHANGED <<call, file, inForce, raised>>
        /\ \/ rule > Len(rules) /\ ended'[t] = "returned"
           \/ /\ rule <= Len(rules) /\ ended'[t] = "rule"
              /\ Verdict(call[t].event, rules[rule]) = "throw"
    BY <1>1, <1>3, <1>6 DEF EvaluateRule, EndEvaluation, Goto
  <2>2. /\ rule \in 1..(Len(file) + 1) /\ rule - 1 \in 0..Len(file)
        /\ (rule - 1) + 1 = rule
        /\ AlarmsOf(raised[t], call[t].event, file, rule - 1)
    BY <1>1, <1>2, <2>1 DEF SoFarOf
  <2>3. EndsAfter(ended'[t], call[t].event, file, rule - 1)
    <3>1. CASE ended'[t] = "returned"
      BY <1>1, <2>1, <2>2, <3>1 DEF EndsAfter
    <3>2. CASE ended'[t] = "rule"
      <4>1. rule \in DOMAIN file /\ Verdict(call[t].event, rules[rule]) = "throw"
        BY <1>1, <2>1, <2>2, <3>2
      <4>2. Decides(call[t].event, file[rule]) = "throw"
        BY <4>1, RuleOfFile DEF Decides
      <4> QED
        BY <1>1, <2>2, <3>2, <4>1, <4>2 DEF EndsAfter
    <3> QED
      BY <2>1, <3>1, <3>2
  <2> QED
    BY <2>1, <2>2, <2>3
<1>7. CASE RunCallback(t) \/ PublishReturn(t)
  <2>1. /\ pc[t] \in {"callback", "publishing"}
        /\ UNCHANGED <<call, file, inForce, raised>>
        /\ ended'[t] \in {"callback", "publisher"}
    BY <1>1, <1>3, <1>7 DEF RunCallback, PublishReturn, EndEvaluation, Goto
  <2>2. /\ rule \in DOMAIN file /\ rule \in 0..Len(file) /\ rule > 0
        /\ Decides(call[t].event, file[rule]) = "match"
        /\ AlarmsOf(raised[t], call[t].event, file, rule)
    BY <1>1, <1>2, <2>1 DEF SoFarOf, InEvaluate
  <2>3. EndsAfter(ended'[t], call[t].event, file, rule)
    BY <2>1, <2>2 DEF EndsAfter
  <2> QED
    BY <2>1, <2>2, <2>3
<1> QED
  BY <1>4, <1>5, <1>6, <1>7 DEF Step

\* What was in force in a call that goes on, or is over, stays so.
LEMMA InForceGrows ==
  ASSUME EngineInv, NEW t \in Threads, Step(t), NEW u \in Threads, u # t
  PROVE  inForce[u] \subseteq inForce'[u]
<1>1. DOMAIN inForce = Threads
  BY DEF EngineInv, CallsTyped
<1> QED
  BY <1>1 DEF Step, Begin, Load, SetPublisher, LockRules, EvaluateRule, RunCallback,
              TestPublisher, Publish, PublishReturn, history

LEMMA StepAlarmsOfOneRuleSet ==
  ASSUME EngineInv, NEW t \in Threads, Step(t)
  PROVE  AlarmsOfOneRuleSet'
<1>1. \A u \in Threads \ {t} : AlarmsRight(u)'
  <2> SUFFICES ASSUME NEW u \in Threads \ {t} PROVE AlarmsRight(u)'
    OBVIOUS
  <2>1. /\ pc'[u] = pc[u] /\ call'[u] = call[u]
        /\ raised'[u] = raised[u] /\ ended'[u] = ended[u]
    BY OthersStay DEF EngineInv
  <2>2. AlarmsRight(u)
    BY DEF EngineInv, AlarmsOfOneRuleSet, AlarmsRight
  <2> QED
    BY <2>1, <2>2, InForceGrows DEF AlarmsRight, Evaluated
<1>2. AlarmsRight(t)'
  <2>1. CASE pc[t] # "idle" /\ Evaluated(t)'
    <3>1. file \in inForce[t]
      BY <2>1 DEF EngineInv, RulesAreLoaded
    <3> QED
      BY <2>1, <3>1, EvaluationEnds DEF AlarmsRight
  <2>2. CASE pc[t] = "idle"
    <3>1. Begin(t)
      BY <2>2 DEF Step, Begin, Load, SetPublisher, LockRules, EvaluateRule, RunCallback,
                  TestPublisher, Publish, PublishReturn
    <3>2. ended'[t] = "no"
      BY <3>1 DEF Begin, EngineInv, TypeOK
    <3> QED
      BY <3>2 DEF AlarmsRight, Evaluated
  <2>3. CASE ~Evaluated(t)'
    BY <2>3 DEF AlarmsRight
  <2> QED
    BY <2>1, <2>2, <2>3
<1> QED
  BY <1>1, <1>2 DEF AlarmsOfOneRuleSet, AlarmsRight

\* The inductive invariant holds of every reachable state.
THEOREM EngineInvariant == Spec => []EngineInv
<1>1. EngineInv /\ [Next]_vars => EngineInv'
  <2> SUFFICES ASSUME EngineInv, [Next]_vars PROVE EngineInv'
    OBVIOUS
  <2>1. CASE Next
    <3>1. PICK t \in Threads : Step(t)
      BY <2>1 DEF Next
    <3> QED
      BY <2>1, <3>1, StepTypeOK, StepCallsTyped, StepRulesAreLoaded, StepSoFar,
         StepPublisherHeld, StepAlarmsOfOneRuleSet DEF Next, EngineInv
  <2>2. CASE UNCHANGED vars
    BY <2>2 DEF vars, engine, history, EngineInv, TypeOK, CallsTyped, RulesAreLoaded, SoFar, SoFarOf,
                PublisherHeld, AlarmsOfOneRuleSet, Evaluated, InEvaluate
  <2> QED
    BY <2>1, <2>2
<1> QED
  BY <1>1, InitEngineInv, PTL DEF Spec

-----------------------------------------------------------------------------
(* The theorems.                                                            *)

\* The state of the engine keeps its types: every rule it holds has those that the
\* loader checks, and the mutex is held exactly by a thread that is in evaluate.
THEOREM TypeCorrect == Spec => []TypeOK
BY EngineInvariant, PTL DEF EngineInv

\* An evaluation raises the alarms of one set of rules, one in force during the call,
\* in the order of the rules, up to where it ended.
THEOREM AlarmsFromOneRuleSet == Spec => []AlarmsOfOneRuleSet
BY EngineInvariant, PTL DEF EngineInv

\* No publisher is in use by two threads, and the process dies of its publisher only
\* when that was replaced during an evaluation.
THEOREM PublisherIsSafe == Spec => []PublisherSafe
<1>1. EngineInv => PublisherNotShared
  <2> SUFFICES ASSUME EngineInv, NEW t \in Threads, NEW u \in Threads,
                      using[t] # None, using[t] = using[u]
               PROVE  t = u
    BY DEF PublisherNotShared
  <2>1. pc[t] = "publishing" /\ pc[u] = "publishing"
    BY DEF EngineInv, PublisherHeld
  <2> QED
    BY <2>1 DEF EngineInv, TypeOK, InEvaluate
<1>2. EngineInv => CrashNeedsReplacement
  BY DEF EngineInv, PublisherHeld, CrashNeedsReplacement, CallsTyped
<1> QED
  BY <1>1, <1>2, EngineInvariant, PTL DEF PublisherSafe
=============================================================================
