-------------------------- MODULE MqttAdapterProofs ---------------------------
(***************************************************************************)
(* Proofs about MqttAdapter, for any threads that control the adapter, any  *)
(* messages in any number and any number of starts and faults.             *)
(***************************************************************************)
EXTENDS MqttAdapter, SequenceTheorems, TLAPS

-----------------------------------------------------------------------------
(* Types.                                                                   *)

Steps        == {"idle", "start", "connect", "subscribe", "amqp", "stop", "reset"}
HandlerSteps == {"idle", "parse", "copy", "call", "test", "declare", "write"}
Sessions     == {"closed", "connecting", "connected", "subscribing", "subscribed"}
Items        == Messages \cup {"connack", "suback"}

AdapterOf(n) == [running : BOOLEAN, on_event : BOOLEAN, mqtt : 0..n, client : 0..n]
HandlerOf(n) == [at : HandlerSteps, msg : Messages \cup {"none"}, mqtt : 0..n, client : 0..n]

\* Who holds callback_mutex_.
ExcludedBy(f) ==
  \A c, d \in Controllers : {f[c], f[d]} \cap {"idle", "start", "stop"} = {} => c = d

LEMMA TypeFacts ==
  ASSUME TypeOK
  PROVE  /\ starts \in starts..MaxStarts /\ starts \in Nat /\ starts \in 0..starts
         /\ 0 \in 0..starts
         /\ adapter \in AdapterOf(starts) /\ lib \in HandlerOf(starts)
         /\ pc \in [Controllers -> Steps] /\ ExcludedBy(pc)
         /\ session \in Sessions /\ inbox \in Seq(Items)
         /\ conn \in {"up", "closed", "silent"} /\ crash \in {"no", "freed", "uncaught"}
         /\ {dying, overtook, late, lost} \subseteq BOOLEAN /\ faults \in 0..MaxFaults
BY DEF TypeOK, AdapterOf, HandlerOf, HandlerSteps, Steps, Sessions, Items, ExcludedBy

\* A controller that moves takes the mutex only when it is free.
LEMMA Moves ==
  ASSUME TypeOK, NEW c \in Controllers, NEW step \in Steps, Goto(c, step),
         step \in {"connect", "subscribe", "amqp", "reset"} =>
           pc[c] \in {"connect", "subscribe", "amqp", "reset"} \/ CallbackMutexFree
  PROVE  /\ pc' \in [Controllers -> Steps] /\ ExcludedBy(pc')
         /\ pc'[c] = step /\ \A d \in Controllers \ {c} : pc'[d] = pc[d]
<1>1. /\ pc' \in [Controllers -> Steps]
      /\ pc'[c] = step /\ \A d \in Controllers \ {c} : pc'[d] = pc[d]
  BY TypeFacts DEF Goto
<1>2. ASSUME NEW d \in Controllers, NEW e \in Controllers,
             {pc'[d], pc'[e]} \cap {"idle", "start", "stop"} = {}
      PROVE  d = e
  <2>1. {pc'[d], pc'[e]} \subseteq {"connect", "subscribe", "amqp", "reset"}
    BY <1>1, <1>2 DEF Steps
  <2> QED
    BY <1>1, <2>1 DEF TypeOK, CallbackMutexFree
<1> QED
  BY <1>1, <1>2 DEF ExcludedBy

LEMMA TypeKept ==
  ASSUME TypeOK, Stage',
         UNCHANGED pc \/ (pc' \in [Controllers -> Steps] /\ ExcludedBy(pc')),
         starts' \in starts..MaxStarts, adapter' \in AdapterOf(starts'),
         session' \in Sessions, inbox' \in Seq(Items), lib' \in HandlerOf(starts),
         conn' \in {"up", "closed", "silent"}, crash' \in {"no", "freed", "uncaught"},
         {dying', overtook', late', lost'} \subseteq BOOLEAN, faults' \in 0..MaxFaults
  PROVE  TypeOK'
<1>1. pc' \in [Controllers -> Steps] /\ ExcludedBy(pc')
  BY TypeFacts
<1>2. lib' \in HandlerOf(starts')
  <2>1. starts \in Nat /\ 0..starts \subseteq 0..starts'
    BY TypeFacts
  <2> QED
    BY <2>1 DEF HandlerOf
<1>3. starts' \in 0..MaxStarts
  BY TypeFacts
<1>4. RunningOrStopped'
  BY DEF RunningOrStopped, Stage, CallbackMutexFree
<1> QED
  BY <1>1, <1>2, <1>3, <1>4
  DEF TypeOK, AdapterOf, HandlerOf, HandlerSteps, Steps, Sessions, Items, ExcludedBy

LEMMA InvInit ==
  Init => TypeOK /\ AdapterInv
<1> HAVE Init
<1>1. /\ adapter \in AdapterOf(0) /\ starts = 0 /\ 0 \in 0..MaxStarts
      /\ lib \in HandlerOf(0) /\ faults \in 0..MaxFaults
  BY MqttAdapterAssumption DEF Init, AdapterOf, HandlerOf, HandlerSteps, Resting, Messages, None
<1>2. /\ pc \in [Controllers -> {"idle"}] /\ session = "closed" /\ inbox = <<>>
      /\ conn = "up" /\ crash = "no" /\ {dying, overtook, late, lost} \subseteq BOOLEAN
      /\ lib.at = "idle" /\ ~adapter.running /\ adapter.client = None
  BY DEF Init, Resting
<1>3. inbox \in Seq(Items)
  BY <1>2
<1>4. \A c \in Controllers : pc[c] = "idle"
  BY <1>2
<1>5. AdapterInv
  BY <1>2, <1>4 DEF AdapterInv, Stage, SessionHeld, HandlerInStep, CrashNeedsCause, Handling,
                    Starting, CallbackMutexFree
<1>6. RunningOrStopped
  BY <1>2 DEF RunningOrStopped
<1> QED
  BY <1>1, <1>2, <1>3, <1>4, <1>5, <1>6
  DEF TypeOK, AdapterOf, HandlerOf, HandlerSteps, Items

-----------------------------------------------------------------------------
(* Steps that leave the members alone.                                      *)

LEMMA InvCall ==
  ASSUME TypeOK, AdapterInv, crash = "no", NEW c \in Controllers,
         NEW step \in {"start", "stop"}, Call(c, step), dying' \in BOOLEAN
  PROVE  TypeOK' /\ AdapterInv'
<1>1. /\ pc[c] = "idle" /\ Goto(c, step)
      /\ UNCHANGED <<adapter, starts, session, inbox, lib, conn, crash, overtook, late, lost, faults>>
  BY DEF Call, history
<1>2. pc' \in [Controllers -> Steps] /\ ExcludedBy(pc')
      /\ pc'[c] = step /\ \A d \in Controllers \ {c} : pc'[d] = pc[d]
  BY <1>1, Moves DEF Steps
<1>3. \A d \in Controllers : /\ Starting(d)' <=> Starting(d)
                             /\ pc'[d] = "reset" <=> pc[d] = "reset"
  BY <1>1, <1>2 DEF Starting
<1>4. CallbackMutexFree' <=> CallbackMutexFree
  BY <1>3 DEF CallbackMutexFree, Starting
<1>5. Stage'
  BY <1>1, <1>3, <1>4 DEF AdapterInv, Stage
<1>6. SessionHeld' /\ HandlerInStep'
  BY <1>1, <1>3 DEF AdapterInv, SessionHeld, HandlerInStep, Handling
<1>7. CrashNeedsCause'
  BY <1>1 DEF CrashNeedsCause
<1> QED
  BY <1>1, <1>2, <1>5, <1>6, <1>7, TypeFacts, TypeKept DEF AdapterInv

\* The broker and the library's thread, between two messages, touch only the session and
\* what is on its way.
LEMMA InvBroker ==
  ASSUME TypeOK, AdapterInv, crash = "no", BrokerAnswer \/ BrokerSend
  PROVE  TypeOK' /\ AdapterInv'
<1>1. /\ session \in {"subscribing", "subscribed"}
      /\ UNCHANGED <<adapter, starts, pc, session, lib, conn, dying, crash,
                     overtook, late, lost, faults>>
  BY DEF BrokerAnswer, BrokerSend, history
<1>2. inbox' \in Seq(Items)
  <2>1. PICK m \in Items : inbox' = Append(inbox, m)
    BY DEF BrokerAnswer, BrokerSend, Items
  <2> QED
    BY <2>1, TypeFacts, AppendProperties
<1>3. Stage' /\ SessionHeld' /\ HandlerInStep'
  BY <1>1 DEF AdapterInv, Stage, SessionHeld, HandlerInStep, Handling, Starting,
              CallbackMutexFree
<1> QED
  BY <1>1, <1>2, <1>3, TypeFacts, TypeKept DEF AdapterInv, CrashNeedsCause

LEMMA InvRead ==
  ASSUME TypeOK, AdapterInv, crash = "no", LibraryRead
  PROVE  TypeOK' /\ AdapterInv'
<1>1. /\ ~Handling /\ inbox # <<>> /\ inbox' = Tail(inbox) /\ adapter.mqtt # None
      /\ UNCHANGED <<adapter, starts, pc, conn, dying, crash, lost, faults>>
  BY DEF LibraryRead, AdapterInv, SessionHeld
<1>2. inbox' \in Seq(Items)
  BY <1>1, TypeFacts, HeadTailProperties
<1>3. session' \in Sessions /\ overtook' \in BOOLEAN /\ late' \in BOOLEAN
  BY TypeFacts DEF LibraryRead, Sessions
<1>4. \/ lib' = lib
      \/ /\ lib' \in HandlerOf(starts) /\ lib'.at = "parse" /\ lib'.mqtt = adapter.mqtt
  <2>1. CASE lib' = lib
    BY <2>1
  <2>2. CASE lib' # lib
    <3>1. PICK m \in Messages :
            lib' = [at |-> "parse", msg |-> m, mqtt |-> adapter.mqtt, client |-> None]
      BY <2>2 DEF LibraryRead
    <3>2. adapter.mqtt \in 0..starts /\ None \in 0..starts
      BY TypeFacts DEF AdapterOf, None
    <3> QED
      BY <3>1, <3>2 DEF HandlerOf, HandlerSteps
  <2> QED
    BY <2>1, <2>2
<1>5. Stage' /\ SessionHeld'
  BY <1>1 DEF AdapterInv, Stage, SessionHeld, Starting, CallbackMutexFree
<1>6. HandlerInStep'
  BY <1>1, <1>4 DEF HandlerInStep, Handling
<1> QED
  BY <1>1, <1>2, <1>3, <1>4, <1>5, <1>6, TypeFacts, TypeKept DEF AdapterInv, CrashNeedsCause

LEMMA InvLoss ==
  ASSUME TypeOK, AdapterInv, crash = "no", LoseConnection \/ LoseSession
  PROVE  TypeOK' /\ AdapterInv'
<1>1. /\ UNCHANGED <<adapter, starts, pc, lib, dying, crash, overtook, late, lost>>
      /\ conn' \in {"up", "closed", "silent"}
      /\ \/ UNCHANGED <<session, inbox>>
         \/ session' = "closed" /\ inbox' = <<>>
  BY TypeFacts DEF LoseConnection, LoseSession, history
<1>2. faults' \in 0..MaxFaults
  BY TypeFacts, MqttAdapterAssumption DEF LoseConnection, LoseSession
<1>3. session' \in Sessions /\ inbox' \in Seq(Items)
  <2>1. <<>> \in Seq(Items)
    OBVIOUS
  <2> QED
    BY <1>1, <2>1, TypeFacts DEF Sessions
<1>4. Stage' /\ SessionHeld' /\ HandlerInStep'
  BY <1>1 DEF AdapterInv, Stage, SessionHeld, HandlerInStep, Handling, Starting,
              CallbackMutexFree
<1> QED
  BY <1>1, <1>2, <1>3, <1>4, TypeFacts, TypeKept DEF AdapterInv, CrashNeedsCause

-----------------------------------------------------------------------------
(* The handler of a message.                                                *)

\* A step of the handler goes on to the next statement, or returns, or kills the process.
LEMMA HandlerFacts ==
  ASSUME TypeOK, crash = "no", HandlerStep
  PROVE  /\ Handling
         /\ UNCHANGED <<adapter, starts, pc, session, inbox, conn, dying, overtook, late, faults>>
         /\ \/ lib' = lib /\ crash' = "uncaught" /\ lost' = lost
               /\ \/ lib.msg = "odd" /\ lib.at = "parse"
                  \/ lib.msg = "mangled" /\ lib.at = "write"
                  \/ conn = "closed" /\ lib.at = "declare"
            \/ /\ lib' = lib /\ crash' = "freed" /\ lost' = lost
               /\ lib.at \in {"declare", "write"} /\ adapter.client # lib.client
            \/ /\ lib' \in HandlerOf(starts) /\ lib'.mqtt = lib.mqtt /\ lib'.at # "idle"
               /\ crash' = "no" /\ lost' = lost
               /\ lib'.at \in {"declare", "write"} =>
                    \/ lib'.client = adapter.client /\ adapter.client # None
                    \/ lib'.client = lib.client /\ lib.at = "declare"
               /\ lib'.at \in {"call", "test", "declare", "write"} =>
                    \/ lib.at \in {"call", "test", "declare", "write"}
                    \/ CallbackMutexFree
            \/ /\ lib' = Resting /\ lost' \in BOOLEAN
               /\ crash' \in IF lib.mqtt = adapter.mqtt THEN {"no"} ELSE {"no", "freed"}
               /\ \/ lib.at = "test" /\ adapter.client = None /\ lost'
                  \/ lib.at = "write" /\ lost' = (conn # "up")
<1>1. /\ Handling
      /\ UNCHANGED <<adapter, starts, pc, session, inbox, conn, dying, overtook, late, faults>>
  BY DEF HandlerStep, Parse, CopyCallback, RunCallback, TestClient, DeclareQueue, BasicPublish,
         HandlerUnchanged, Handling
<1>2. \A step \in HandlerSteps :
        /\ [lib EXCEPT !.at = step] \in HandlerOf(starts)
        /\ [lib EXCEPT !.at = step].at = step
        /\ [lib EXCEPT !.at = step].mqtt = lib.mqtt
        /\ [lib EXCEPT !.at = step].client = lib.client
  BY TypeFacts DEF HandlerOf
<1>3. CASE Parse
  BY <1>1, <1>2, <1>3, ZenonT(30) DEF Parse, HandlerGoto, HandlerSteps
<1>4. CASE CopyCallback
  BY <1>1, <1>2, <1>4 DEF CopyCallback, HandlerGoto, HandlerSteps
<1>5. CASE RunCallback
  BY <1>1, <1>2, <1>5 DEF RunCallback, HandlerGoto, HandlerSteps
<1>6. CASE TestClient
  <2>1. CASE adapter.client = None
    BY <1>1, <1>6, <2>1 DEF TestClient, HandlerReturn
  <2>2. CASE adapter.client # None
    <3>1. /\ lib.at = "test" /\ crash' = "no" /\ lost' = lost
          /\ lib' = [lib EXCEPT !.at = "declare", !.client = adapter.client]
      BY <1>6, <2>2 DEF TestClient
    <3>2. /\ lib' \in HandlerOf(starts) /\ lib'.mqtt = lib.mqtt /\ lib'.at = "declare"
          /\ lib'.client = adapter.client
      <4>1. adapter.client \in 0..starts /\ "declare" \in HandlerSteps
        BY TypeFacts DEF AdapterOf, HandlerSteps
      <4> QED
        BY <3>1, <4>1, TypeFacts DEF HandlerOf
    <3> QED
      BY <1>1, <2>2, <3>1, <3>2
  <2> QED
    BY <2>1, <2>2
<1>7. CASE DeclareQueue
  BY <1>1, <1>2, <1>7 DEF DeclareQueue, HandlerGoto, HandlerSteps
<1>8. CASE BasicPublish
  <2>1. CASE lib.msg = "mangled"
    BY <1>1, <1>8, <2>1 DEF BasicPublish
  <2>2. CASE lib.msg # "mangled" /\ adapter.client # lib.client
    BY <1>1, <1>8, <2>2 DEF BasicPublish, HandlerReturn
  <2>3. CASE lib.msg # "mangled" /\ adapter.client = lib.client
    BY <1>1, <1>8, <2>3 DEF BasicPublish, HandlerReturn
  <2> QED
    BY <2>1, <2>2, <2>3
<1> QED
  BY <1>3, <1>4, <1>5, <1>6, <1>7, <1>8 DEF HandlerStep

LEMMA InvHandler ==
  ASSUME TypeOK, AdapterInv, crash = "no", HandlerStep
  PROVE  TypeOK' /\ AdapterInv'
<1>1. /\ Handling
      /\ UNCHANGED <<adapter, starts, pc, session, inbox, conn, dying, overtook, late, faults>>
  BY HandlerFacts
<1>2. /\ lib' \in HandlerOf(starts) /\ crash' \in {"no", "freed", "uncaught"}
      /\ lost' \in BOOLEAN
  <2>1. Resting \in HandlerOf(starts)
    BY TypeFacts DEF Resting, HandlerOf, HandlerSteps, None
  <2> QED
    BY <2>1, HandlerFacts, TypeFacts
<1>3. Stage' /\ SessionHeld'
  BY <1>1 DEF AdapterInv, Stage, SessionHeld, Starting, CallbackMutexFree
<1>4. HandlerInStep'
  <2>1. CASE lib' = lib
    BY <1>1, <2>1 DEF AdapterInv, HandlerInStep, Handling, Starting
  <2>2. CASE lib' = Resting
    BY <2>2 DEF HandlerInStep, Handling, Resting
  <2>3. CASE /\ lib'.mqtt = lib.mqtt /\ lib'.at # "idle"
             /\ lib'.at \in {"declare", "write"} =>
                  \/ lib'.client = adapter.client /\ adapter.client # None
                  \/ lib'.client = lib.client /\ lib.at = "declare"
             /\ lib'.at \in {"call", "test", "declare", "write"} =>
                  \/ lib.at \in {"call", "test", "declare", "write"}
                  \/ CallbackMutexFree
    BY <1>1, <2>3 DEF AdapterInv, HandlerInStep, Handling, Starting, CallbackMutexFree
  <2> QED
    BY <2>1, <2>2, <2>3, HandlerFacts
<1>5. CrashNeedsCause'
  <2>1. CASE crash' = "uncaught"
    BY <1>1, <2>1, HandlerFacts DEF CrashNeedsCause
  <2>2. CASE crash' = "freed"
    <3>1. late
      BY <1>1, <2>2, HandlerFacts DEF AdapterInv, HandlerInStep
    <3> QED
      BY <1>1, <2>2, <3>1 DEF CrashNeedsCause
  <2>3. CASE crash' = "no"
    BY <2>3 DEF CrashNeedsCause
  <2> QED
    BY <1>2, <2>1, <2>2, <2>3
<1> QED
  BY <1>1, <1>2, <1>3, <1>4, <1>5, TypeFacts, TypeKept DEF AdapterInv

\* With the AMQP connection up, a handler that returns without having written either
\* outlived its MQTT client or found no AMQP client; and that one is missing only after
\* a start failed.
LEMMA AckStep ==
  ASSUME TypeOK, AdapterInv, crash = "no", HandlerStep, ~Handling', lost'
  PROVE  conn # "up" \/ late \/ LeftOver
<1>1. SUFFICES ASSUME conn = "up", ~late
               PROVE  LeftOver
  OBVIOUS
<1>2. lib.at = "test" /\ adapter.client = None
  BY <1>1, HandlerFacts DEF Handling
<1>3. /\ adapter.mqtt # None /\ \A c \in Controllers : ~Starting(c)
      /\ \A c \in Controllers : pc[c] # "reset"
  BY <1>1, <1>2 DEF AdapterInv, HandlerInStep, Handling, Stage
<1>4. /\ CallbackMutexFree
      /\ \A c \in Controllers : pc[c] \in {"idle", "start", "stop"}
  BY <1>3, TypeFacts DEF CallbackMutexFree, Starting, Steps
<1>5. ~adapter.running
  BY <1>2, <1>4 DEF AdapterInv, Stage, None
<1> QED
  BY <1>3, <1>4, <1>5 DEF LeftOver

-----------------------------------------------------------------------------
(* start and stop.                                                          *)

\* A controller that moves does so with the mutex in its hands.
LEMMA Alone ==
  ASSUME TypeOK, NEW c \in Controllers, ControllerStep(c)
  PROVE  /\ pc' \in [Controllers -> Steps] /\ ExcludedBy(pc')
         /\ \A d \in Controllers \ {c} : pc[d] \in {"idle", "start", "stop"} /\ pc'[d] = pc[d]
         /\ \A d \in Controllers \ {c} : ~Starting(d)' /\ pc'[d] # "reset"
<1>1. \A d \in Controllers \ {c} : pc[d] \in {"idle", "start", "stop"}
  <2>1. CASE pc[c] \in {"idle", "start", "stop"}
    BY <2>1, TypeFacts DEF ControllerStep, StartConnect, StartSubscribe, StartSubscribed,
                           StartClient, StopDisconnect, StopReset, CallbackMutexFree, Steps
  <2>2. CASE pc[c] \notin {"idle", "start", "stop"}
    BY <2>2 DEF TypeOK
  <2> QED
    BY <2>1, <2>2
<1>2. \E step \in Steps :
        /\ Goto(c, step)
        /\ step \in {"connect", "subscribe", "amqp", "reset"} =>
             pc[c] \in {"connect", "subscribe", "amqp", "reset"} \/ CallbackMutexFree
  BY DEF ControllerStep, StartConnect, StartSubscribe, StartSubscribed, StartClient,
         StopDisconnect, StopReset, StopReturn, Steps
<1>3. /\ pc' \in [Controllers -> Steps] /\ ExcludedBy(pc')
      /\ \A d \in Controllers \ {c} : pc'[d] = pc[d]
  BY <1>2, Moves
<1> QED
  BY <1>1, <1>3 DEF Starting

\* The two ways a step of a controller leaves the members: at a step that holds the
\* mutex, or between calls.
LEMMA StageFrom ==
  ASSUME TypeOK, NEW c \in Controllers, ControllerStep(c),
         Starting(c)' => /\ ~adapter'.running /\ adapter'.client = None
                         /\ adapter'.mqtt = starts' /\ starts' # 0,
         pc'[c] = "reset" => adapter'.mqtt = None,
         ~Starting(c)' /\ pc'[c] # "reset" =>
           IF adapter'.running
           THEN adapter'.mqtt = starts' /\ adapter'.client = starts' /\ starts' # 0
           ELSE adapter'.client = None
  PROVE  Stage'
BY Alone DEF Stage, Starting, CallbackMutexFree

LEMMA InvStartConnect ==
  ASSUME TypeOK, AdapterInv, crash = "no", NEW c \in Controllers, StartConnect(c)
  PROVE  TypeOK' /\ AdapterInv'
<1> USE DEF None
<1>1. /\ pc[c] = "start" /\ CallbackMutexFree /\ ControllerStep(c)
      /\ UNCHANGED <<lib, conn, dying, crash, lost, faults>>
  BY DEF StartConnect, ControllerStep
<1>2. IF adapter.running
      THEN adapter.mqtt = starts /\ adapter.client = starts /\ starts # 0
      ELSE adapter.client = None
  BY <1>1 DEF AdapterInv, Stage
<1>3. CASE starts' = starts
  <2>1. /\ adapter' \in AdapterOf(starts') /\ pc'[c] = "idle"
        /\ adapter'.running = adapter.running /\ adapter'.mqtt = adapter.mqtt
        /\ adapter'.client = adapter.client
        /\ UNCHANGED <<session, inbox, late, overtook>>
    <3>1. /\ \/ adapter' = adapter
             \/ \E b \in BOOLEAN : adapter' = [adapter EXCEPT !.on_event = b]
          /\ Goto(c, "idle") /\ UNCHANGED <<session, inbox, late, overtook>>
      <4>1. starts' # starts + 1
        BY <1>3, TypeFacts
      <4> QED
        BY <4>1 DEF StartConnect
    <3>2. pc'[c] = "idle"
      BY <3>1, TypeFacts DEF Goto
    <3> QED
      BY <1>3, <3>1, <3>2, TypeFacts DEF AdapterOf
  <2>2. Stage'
    BY <1>1, <1>2, <1>3, <2>1, StageFrom DEF Starting
  <2>3. SessionHeld'
    BY <2>1 DEF AdapterInv, SessionHeld
  <2>4. \A d \in Controllers : ~Starting(d)'
    BY <1>1, <2>1, Alone DEF Starting
  <2>5. HandlerInStep'
    BY <1>1, <2>1, <2>4 DEF AdapterInv, HandlerInStep, Handling
  <2> QED
    BY <1>1, <1>3, <2>1, <2>2, <2>3, <2>5, Alone, TypeFacts, TypeKept
    DEF AdapterInv, CrashNeedsCause
<1>4. CASE starts' # starts
  <2>1. /\ ~adapter.running /\ starts' = starts + 1 /\ starts < MaxStarts
        /\ \E b \in BOOLEAN : adapter' = [adapter EXCEPT !.on_event = b, !.mqtt = starts + 1]
        /\ late' = (late \/ (Handling /\ adapter.mqtt # None))
        /\ session' = "connecting" /\ inbox' = <<"connack">> /\ overtook' = FALSE
        /\ Goto(c, "connect")
    BY <1>4 DEF StartConnect
  <2>2. /\ starts' \in starts..MaxStarts /\ starts' # 0 /\ pc'[c] = "connect"
        /\ session' \in Sessions /\ {overtook', late'} \subseteq BOOLEAN
    <3>1. starts' \in starts..MaxStarts /\ starts' # 0
      BY <2>1, TypeFacts, MqttAdapterAssumption
    <3>2. pc'[c] = "connect"
      BY <2>1, TypeFacts DEF Goto
    <3> QED
      BY <2>1, <3>1, <3>2, TypeFacts DEF Sessions
  <2>3. inbox' \in Seq(Items)
    BY <2>1 DEF Items
  <2>4. /\ adapter' \in AdapterOf(starts') /\ ~adapter'.running /\ adapter'.client = None
        /\ adapter'.mqtt = starts'
    <3>1. starts + 1 \in 0..(starts + 1) /\ 0..starts \subseteq 0..(starts + 1)
      BY TypeFacts
    <3> QED
      BY <1>2, <2>1, <3>1, TypeFacts DEF AdapterOf
  <2>5. Stage'
    BY <1>1, <2>2, <2>4, StageFrom DEF Starting
  <2>6. SessionHeld'
    BY <2>2, <2>4 DEF SessionHeld
  <2>7. Handling' => late'
    BY <1>1, <2>1 DEF AdapterInv, HandlerInStep, Handling
  <2>8. HandlerInStep'
    BY <2>7 DEF HandlerInStep
  <2> QED
    BY <1>1, <2>2, <2>3, <2>4, <2>5, <2>6, <2>8, Alone, TypeFacts, TypeKept
    DEF AdapterInv, CrashNeedsCause
<1> QED
  BY <1>3, <1>4

LEMMA InvStartWait ==
  ASSUME TypeOK, AdapterInv, crash = "no", NEW c \in Controllers,
         StartSubscribe(c) \/ StartSubscribed(c)
  PROVE  TypeOK' /\ AdapterInv'
<1>1. /\ Starting(c) /\ ControllerStep(c) /\ pc'[c] \in {"subscribe", "amqp", "idle"}
      /\ session' \in Sessions /\ (session = "closed" => session' = "closed")
      /\ UNCHANGED <<adapter, starts, inbox, lib, conn, dying, crash, overtook, late, lost, faults>>
  BY TypeFacts DEF StartSubscribe, StartSubscribed, Goto, Starting, ControllerStep, Sessions,
                   history
<1>2. Stage'
  BY <1>1, StageFrom DEF AdapterInv, Stage, Starting
<1>3. SessionHeld'
  BY <1>1 DEF AdapterInv, SessionHeld
<1>4. HandlerInStep'
  BY <1>1, Alone DEF AdapterInv, HandlerInStep, Handling
<1> QED
  BY <1>1, <1>2, <1>3, <1>4, Alone, TypeFacts, TypeKept DEF AdapterInv, CrashNeedsCause

LEMMA InvStartClient ==
  ASSUME TypeOK, AdapterInv, crash = "no", NEW c \in Controllers, StartClient(c)
  PROVE  TypeOK' /\ AdapterInv'
<1> USE DEF None
<1>1. /\ Starting(c) /\ ControllerStep(c) /\ pc'[c] = "idle" /\ conn' \in {"up", conn}
      /\ UNCHANGED <<starts, session, inbox, lib, dying, crash, overtook, late, lost, faults>>
  BY TypeFacts DEF StartClient, Goto, Starting, ControllerStep, history
<1>2. /\ ~adapter.running /\ adapter.client = None /\ adapter.mqtt = starts /\ starts # 0
  BY <1>1 DEF AdapterInv, Stage
<1>3. /\ adapter' \in AdapterOf(starts) /\ adapter'.mqtt = starts
      /\ IF adapter'.running THEN adapter'.client = starts ELSE adapter'.client = None
  <2>1. \/ adapter' = [adapter EXCEPT !.client = starts, !.running = TRUE]
        \/ adapter' = adapter
    BY DEF StartClient
  <2> QED
    BY <1>2, <2>1, TypeFacts DEF AdapterOf
<1>4. Stage'
  BY <1>1, <1>2, <1>3, StageFrom DEF Starting
<1>5. SessionHeld'
  BY <1>1, <1>2, <1>3 DEF SessionHeld
<1>6. HandlerInStep'
  BY <1>1, <1>2, <1>3, Alone DEF AdapterInv, HandlerInStep, Handling, Starting
<1> QED
  BY <1>1, <1>3, <1>4, <1>5, <1>6, Alone, TypeFacts, TypeKept DEF AdapterInv, CrashNeedsCause

\* The destruction of an adapter takes what a handler is in away from it only where that
\* handler outlived its client already, or a failed start left it subscribed.
LEMMA InvStop ==
  ASSUME TypeOK, AdapterInv, crash = "no", NEW c \in Controllers,
         StopDisconnect(c) \/ StopReset(c)
  PROVE  TypeOK' /\ AdapterInv'
<1> USE DEF None
<1>1. /\ ControllerStep(c)
      /\ UNCHANGED <<starts, lib, conn, dying, overtook, lost, faults>>
  BY DEF StopDisconnect, StopReset, ControllerStep, history
<1>2. CASE StopDisconnect(c) /\ adapter.running
  <2>1. /\ adapter' = [adapter EXCEPT !.mqtt = None] /\ session' = "closed" /\ inbox' = <<>>
        /\ late' = (late \/ Handling) /\ crash' = crash /\ pc'[c] = "reset"
    BY <1>2, TypeFacts DEF StopDisconnect, Goto
  <2>2. adapter' \in AdapterOf(starts) /\ adapter'.mqtt = None
    BY <2>1, TypeFacts DEF AdapterOf
  <2>3. Stage'
    BY <1>1, <2>1, <2>2, StageFrom DEF Starting
  <2>4. SessionHeld' /\ HandlerInStep'
    BY <1>1, <2>1 DEF SessionHeld, HandlerInStep, Handling
  <2>5. session' \in Sessions /\ inbox' \in Seq(Items) /\ late' \in BOOLEAN
    BY <2>1, TypeFacts DEF Sessions
  <2> QED
    BY <1>1, <2>1, <2>2, <2>3, <2>4, <2>5, Alone, TypeFacts, TypeKept
    DEF AdapterInv, CrashNeedsCause
<1>3. CASE StopDisconnect(c) /\ ~adapter.running
  <2>1. /\ CallbackMutexFree /\ pc'[c] = "idle" /\ StopReturn(c)
        /\ UNCHANGED <<adapter, session, inbox, late>>
    BY <1>3, TypeFacts DEF StopDisconnect, StopReturn, Goto
  <2>2. adapter.client = None
    BY <1>3, <2>1 DEF AdapterInv, Stage
  <2>3. Stage'
    BY <1>1, <1>3, <2>1, <2>2, StageFrom DEF Starting
  <2>4. SessionHeld'
    BY <2>1 DEF AdapterInv, SessionHeld
  <2>5. HandlerInStep'
    BY <1>1, <2>1, Alone DEF AdapterInv, HandlerInStep, Handling, Starting
  <2>6. crash' = "freed" => late' \/ (dying' /\ LeftOver')
    <3>1. ASSUME crash' = "freed", ~late
          PROVE  dying /\ adapter.mqtt # None
      BY <2>1, <3>1 DEF StopReturn, AdapterInv, HandlerInStep
    <3>2. \A d \in Controllers : pc'[d] \in {"idle", "start", "stop"}
      BY <1>1, <2>1, Alone
    <3> QED
      BY <1>1, <1>3, <2>1, <3>1, <3>2 DEF LeftOver
  <2>7. crash' \in {"no", "freed"}
    BY <2>1 DEF StopReturn
  <2> QED
    BY <1>1, <2>1, <2>3, <2>4, <2>5, <2>6, <2>7, Alone, TypeFacts, TypeKept
    DEF AdapterInv, CrashNeedsCause
<1>4. CASE StopReset(c)
  <2>1. /\ pc[c] = "reset" /\ pc'[c] = "idle" /\ StopReturn(c)
        /\ adapter' = [adapter EXCEPT !.client = None, !.running = FALSE]
        /\ UNCHANGED <<session, inbox, late>>
    BY <1>4, TypeFacts DEF StopReset, StopReturn, Goto, history
  <2>2. adapter.mqtt = None
    BY <2>1 DEF AdapterInv, Stage
  <2>3. /\ adapter' \in AdapterOf(starts) /\ adapter'.mqtt = None /\ adapter'.client = None
        /\ ~adapter'.running
    BY <2>1, <2>2, TypeFacts DEF AdapterOf
  <2>4. Stage'
    BY <1>1, <2>1, <2>3, StageFrom DEF Starting
  <2>5. SessionHeld'
    BY <2>1, <2>2, <2>3 DEF AdapterInv, SessionHeld
  <2>6. Handling => late
    BY <2>2 DEF AdapterInv, HandlerInStep
  <2>7. HandlerInStep'
    BY <1>1, <2>1, <2>6 DEF HandlerInStep, Handling
  <2>8. crash' \in {"no", "freed"} /\ (crash' = "freed" => late')
    BY <2>1, <2>2, <2>6 DEF StopReturn
  <2> QED
    BY <1>1, <2>1, <2>3, <2>4, <2>5, <2>7, <2>8, Alone, TypeFacts, TypeKept
    DEF AdapterInv, CrashNeedsCause
<1> QED
  BY <1>2, <1>3, <1>4

-----------------------------------------------------------------------------

LEMMA InvStep ==
  ASSUME TypeOK, AdapterInv, [Next]_vars
  PROVE  TypeOK' /\ AdapterInv'
<1>1. CASE UNCHANGED vars
  <2>1. UNCHANGED <<adapter, starts, pc, session, inbox, lib, conn, dying, crash,
                    overtook, late, lost, faults>>
    BY <1>1 DEF vars, history
  <2>2. Stage' /\ SessionHeld' /\ HandlerInStep'
    BY <2>1 DEF AdapterInv, Stage, SessionHeld, HandlerInStep, Handling, Starting,
                CallbackMutexFree
  <2>3. CrashNeedsCause'
    BY <2>1 DEF AdapterInv, CrashNeedsCause, LeftOver
  <2> QED
    BY <2>1, <2>2, <2>3, TypeFacts, TypeKept DEF AdapterInv
<1>2. ASSUME crash = "no", NEW c \in Controllers,
             CallStart(c) \/ CallStop(c) \/ CallDestructor(c)
      PROVE  TypeOK' /\ AdapterInv'
  <2>1. dying' \in BOOLEAN /\ (Call(c, "start") \/ Call(c, "stop"))
    BY <1>2, TypeFacts DEF CallStart, CallStop, CallDestructor
  <2> QED
    BY <1>2, <2>1, InvCall
<1>3. ASSUME crash = "no", NEW c \in Controllers, ControllerStep(c)
      PROVE  TypeOK' /\ AdapterInv'
  BY <1>3, InvStartConnect, InvStartWait, InvStartClient, InvStop DEF ControllerStep
<1> QED
  BY <1>1, <1>2, <1>3, InvBroker, InvRead, InvHandler, InvLoss DEF Next

LEMMA AdapterInvHolds == Spec => [](TypeOK /\ AdapterInv)
BY InvInit, InvStep, PTL DEF Spec

\* Every variable has its type, callback_mutex_ excludes, and between calls the adapter
\* is all running or all stopped.
THEOREM TypeCorrect == Spec => []TypeOK
BY AdapterInvHolds, PTL

\* Nothing but the listed causes ends the process, however many messages come and
\* however the calls of start, stop and the destructor interleave with them.
THEOREM CrashesHaveCauses == Spec => []CrashNeedsCause
BY AdapterInvHolds, PTL DEF AdapterInv

\* What the adapter acknowledges to the MQTT broker it has written to RabbitMQ, with the
\* exceptions that AckedIsPublished lists.
THEOREM AcksArePublished == Spec => AckedIsPublished
<1>1. ASSUME TypeOK, AdapterInv, [Next]_vars
      PROVE  [Handling /\ ~Handling' /\ lost' => conn # "up" \/ late \/ LeftOver]_vars
  <2>1. CASE UNCHANGED vars
    BY <2>1
  <2>2. CASE Next /\ ~HandlerStep
    <3>1. Handling => Handling'
      BY <2>2 DEF Next, CallStart, CallStop, CallDestructor, Call, ControllerStep, StartConnect,
                  StartSubscribe, StartSubscribed, StartClient, StopDisconnect, StopReset,
                  BrokerAnswer, BrokerSend, LibraryRead, LoseConnection, LoseSession, Handling
    <3> QED
      BY <3>1
  <2>3. CASE Next /\ HandlerStep
    <3>1. crash = "no"
      BY <2>3 DEF Next
    <3> QED
      BY <1>1, <2>3, <3>1, AckStep
  <2> QED
    BY <1>1, <2>1, <2>2, <2>3
<1> QED
  BY <1>1, AdapterInvHolds, PTL DEF Spec, AckedIsPublished
=============================================================================
