-------------------------- MODULE HttpAdapterProofs ---------------------------
(***************************************************************************)
(* Proofs about HttpAdapter, for any threads that control the adapter, any  *)
(* pool of requests, any callbacks and any number of starts and faults.     *)
(***************************************************************************)
EXTENDS HttpAdapter, FiniteSetTheorems, TLAPS

-----------------------------------------------------------------------------
(* Types.                                                                   *)

Steps == {"idle", "copy", "plain", "stops", "test"} \cup StartSteps \cup StopSteps \cup Inside

ListenSteps == {"unborn", "born", "listening", "closed", "done"}

AdapterOf(n) == [running : BOOLEAN, on_event : {"none"} \cup Callbacks,
                 client : 0..n, server : 0..n, thread : 0..n]

\* Who is between the first and the last statement of a start.
ExcludedBy(f) ==
  \A c, d \in Controllers : {f[c], f[d]} \subseteq {"connected", "set"} => c = d

LEMMA MaxLostFacts == MaxLost \in Nat /\ MaxLost # 0 /\ Cardinality(Requests) \in Nat
BY HttpAdapterAssumption, FS_CardinalityType DEF MaxLost

LEMMA LostFacts ==
  ASSUME TypeOK
  PROVE  lost \in Nat /\ OneMoreLost \in 0..MaxLost /\ OneMoreLost <= lost + 1
BY MaxLostFacts DEF TypeOK, OneMoreLost

LEMMA TypeInit ==
  Init => TypeOK
<1> HAVE Init
<1>1. /\ adapter \in AdapterOf(starts) /\ starts \in 0..MaxStarts
      /\ lost \in 0..MaxLost /\ faults \in 0..MaxFaults
  BY HttpAdapterAssumption, MaxLostFacts DEF Init, AdapterOf, None
<1>2. /\ pc \in [Threads -> Steps] /\ ExcludedBy(pc)
  BY DEF Init, Steps, Controllers, Threads, ExcludedBy
<1>3. /\ listen \in [Servers -> ListenSteps]
      /\ \A n \in Servers : listen[n] = "unborn"
  BY DEF Init, ListenSteps
<1>4. via \in [Requests -> [server : 0..starts, client : 0..starts]]
  BY DEF Init, NoRequest, None
<1>5. conn = "up" /\ crash = "no" /\ {dying, overlapped, premature} \subseteq BOOLEAN
  BY DEF Init
<1> QED
  BY <1>1, <1>2, <1>3, <1>4, <1>5 DEF TypeOK, Steps, ListenSteps, AdapterOf, ExcludedBy

\* A thread that moves into a start only if nobody is in one.
LEMMA Moves ==
  ASSUME TypeOK, NEW t \in Threads, NEW step \in Steps, Goto(t, step),
         step \in {"connected", "set"} => pc[t] \in {"connected", "set"} \/ CallbackMutexFree
  PROVE  /\ pc' \in [Threads -> Steps] /\ ExcludedBy(pc')
         /\ pc'[t] = step /\ \A u \in Threads \ {t} : pc'[u] = pc[u]
BY DEF Goto, TypeOK, Steps, ExcludedBy, CallbackMutexFree, Threads

LEMMA TypeKept ==
  ASSUME TypeOK,
         UNCHANGED pc \/ (pc' \in [Threads -> Steps] /\ ExcludedBy(pc')),
         starts' \in starts..MaxStarts, adapter' \in AdapterOf(starts'),
         listen' \in [Servers -> ListenSteps],
         \A n \in Servers : n > starts' => listen'[n] = "unborn",
         via' \in [Requests -> [server : 0..starts, client : 0..starts]],
         conn' \in {"up", "closed", "silent"},
         crash' \in {"no", "joinable", "joinedTwice", "freed", "raced"},
         {dying', overlapped', premature'} \subseteq BOOLEAN,
         lost' \in 0..MaxLost, faults' \in 0..MaxFaults
  PROVE  TypeOK'
<1>1. pc' \in [Threads -> Steps] /\ ExcludedBy(pc')
  BY DEF TypeOK, Steps, ExcludedBy
<1>2. via' \in [Requests -> [server : 0..starts', client : 0..starts']]
  <2>1. starts \in Nat /\ 0..starts \subseteq 0..starts'
    BY DEF TypeOK
  <2>2. \A r \in Requests : via'[r] \in [server : 0..starts', client : 0..starts']
    BY <2>1
  <2> QED
    BY <2>2
<1>3. starts' \in 0..MaxStarts
  BY DEF TypeOK
<1> QED
  BY <1>1, <1>2, <1>3 DEF TypeOK, Steps, ListenSteps, AdapterOf, ExcludedBy

LEMMA TypeFacts ==
  ASSUME TypeOK
  PROVE  /\ starts \in starts..MaxStarts /\ starts \in Nat /\ adapter \in AdapterOf(starts)
         /\ listen \in [Servers -> ListenSteps]
         /\ \A n \in Servers : n > starts => listen[n] = "unborn"
         /\ via \in [Requests -> [server : 0..starts, client : 0..starts]]
         /\ conn \in {"up", "closed", "silent"}
         /\ crash \in {"no", "joinable", "joinedTwice", "freed", "raced"}
         /\ {dying, overlapped, premature} \subseteq BOOLEAN
         /\ lost \in 0..MaxLost /\ faults \in 0..MaxFaults
         /\ pc \in [Threads -> Steps]
         /\ Requests \subseteq Threads /\ Controllers \subseteq Threads
BY HttpAdapterAssumption DEF TypeOK, AdapterOf, ListenSteps, Steps, Threads

LEMMA AdapterUpdates ==
  ASSUME TypeOK, NEW k \in {starts, None}
  PROVE  /\ [adapter EXCEPT !.running = FALSE] \in AdapterOf(starts)
         /\ [adapter EXCEPT !.client = k] \in AdapterOf(starts)
         /\ [adapter EXCEPT !.server = k] \in AdapterOf(starts)
         /\ [adapter EXCEPT !.thread = k] \in AdapterOf(starts)
         /\ [adapter EXCEPT !.server = k, !.running = TRUE] \in AdapterOf(starts)
<1>1. k \in 0..starts
  BY TypeFacts DEF None
<1>2. adapter \in AdapterOf(starts)
  BY TypeFacts
<1> QED
  BY <1>1, <1>2 DEF AdapterOf

LEMMA TypeCall ==
  ASSUME TypeOK, NEW t \in Threads, NEW step \in {"start", "stop"}, NEW S,
         Call(t, step, S), dying' \in BOOLEAN
  PROVE  TypeOK'
<1>1. /\ Goto(t, step) /\ overlapped' \in BOOLEAN
      /\ UNCHANGED <<adapter, starts, listen, via, conn, crash, premature, lost, faults>>
  BY DEF Call, TypeOK
<1>2. step \in Steps
  BY DEF Steps, StartSteps, StopSteps
<1>3. pc' \in [Threads -> Steps] /\ ExcludedBy(pc')
  BY <1>1, <1>2, Moves
<1> QED
  BY <1>1, <1>3, TypeFacts, TypeKept

LEMMA TypeStartStep ==
  ASSUME TypeOK, NEW c \in Starters, StartStep(c)
  PROVE  TypeOK'
<1> USE DEF None
<1>1. c \in Threads
  BY DEF Threads, Controllers
<1>2. CASE StartConnect(c)
  <2>1. /\ starts' \in starts..MaxStarts /\ adapter' \in AdapterOf(starts')
        /\ conn' \in {"up", "closed", "silent"} /\ lost' \in 0..MaxLost
    <3>1. CASE adapter' = adapter /\ UNCHANGED <<starts, conn, lost>>
      BY <3>1, TypeFacts
    <3>2. CASE ~(adapter' = adapter /\ UNCHANGED <<starts, conn, lost>>)
      <4>1. PICK callback \in Callbacks :
              \/ /\ starts < MaxStarts /\ starts' = starts + 1
                 /\ adapter' = [adapter EXCEPT !.on_event = callback, !.client = starts + 1]
                 /\ conn' = "up" /\ lost' = 0
              \/ /\ adapter' = [adapter EXCEPT !.on_event = callback]
                 /\ UNCHANGED <<starts, conn, lost>>
        BY <1>2, <3>2 DEF StartConnect
      <4>2. CASE starts' = starts + 1
        <5>1. starts + 1 \in starts..MaxStarts /\ starts + 1 \in 0..(starts + 1)
              /\ 0..starts \subseteq 0..(starts + 1) /\ starts # starts + 1
          BY <4>1, <4>2, HttpAdapterAssumption, TypeFacts
        <5>2. [adapter EXCEPT !.on_event = callback, !.client = starts + 1]
                \in AdapterOf(starts + 1)
          BY <5>1, TypeFacts DEF AdapterOf
        <5> QED
          BY <4>1, <4>2, <5>1, <5>2, MaxLostFacts
      <4>3. CASE starts' # starts + 1
        <5>1. [adapter EXCEPT !.on_event = callback] \in AdapterOf(starts)
          BY TypeFacts DEF AdapterOf
        <5> QED
          BY <4>1, <4>3, <5>1, TypeFacts
      <4> QED
        BY <4>2, <4>3
    <3> QED
      BY <3>1, <3>2
  <2>2. pc' \in [Threads -> Steps] /\ ExcludedBy(pc')
    BY <1>1, <1>2, Moves DEF StartConnect, Steps, StartSteps
  <2>3. UNCHANGED <<listen, via, dying, crash, overlapped, premature, faults>>
    BY <1>2 DEF StartConnect
  <2>4. \A n \in Servers : n > starts' => listen'[n] = "unborn"
    BY <2>1, <2>3 DEF TypeOK, Servers
  <2> QED
    BY <2>1, <2>2, <2>3, <2>4, TypeFacts, TypeKept
<1>3. CASE StartServer(c)
  <2>1. adapter' \in AdapterOf(starts) /\ crash' \in {"freed", "no"}
    <3>1. [adapter EXCEPT !.server = starts, !.running = TRUE] \in AdapterOf(starts)
      BY AdapterUpdates
    <3>2. /\ adapter' = [adapter EXCEPT !.server = starts, !.running = TRUE]
          /\ crash' \in {"freed", "no"}
      BY <1>3 DEF StartServer
    <3> QED
      BY <3>1, <3>2
  <2>2. pc' \in [Threads -> Steps] /\ ExcludedBy(pc')
    BY <1>1, <1>3, Moves DEF StartServer, Steps, StartSteps
  <2>3. UNCHANGED <<starts, listen, via, conn, dying, overlapped, premature, lost, faults>>
    BY <1>3 DEF StartServer, history
  <2> QED
    BY <2>1, <2>2, <2>3, TypeFacts, TypeKept
<1>4. CASE StartSpawn(c)
  <2>1. adapter' \in AdapterOf(starts) /\ crash' \in {"joinable", "no"}
    <3>1. [adapter EXCEPT !.thread = starts] \in AdapterOf(starts)
      BY AdapterUpdates
    <3>2. adapter' = [adapter EXCEPT !.thread = starts] /\ crash' \in {"joinable", "no"}
      BY <1>4 DEF StartSpawn
    <3> QED
      BY <3>1, <3>2
  <2>2. pc' \in [Threads -> Steps] /\ ExcludedBy(pc')
    BY <1>1, <1>4, Moves DEF StartSpawn, Steps
  <2>3. UNCHANGED <<starts, via, conn, dying, overlapped, premature, lost, faults>>
    BY <1>4 DEF StartSpawn, history
  <2>4. /\ listen' \in [Servers -> ListenSteps]
        /\ \A n \in Servers : n > starts => listen'[n] = "unborn"
    <3>1. listen' = [listen EXCEPT ![starts] = "born"]
      BY <1>4 DEF StartSpawn
    <3>2. \A n \in Servers : n > starts => n # starts
      BY TypeFacts DEF Servers
    <3> QED
      BY <3>1, <3>2, TypeFacts DEF ListenSteps
  <2> QED
    BY <2>1, <2>2, <2>3, <2>4, TypeFacts, TypeKept
<1> QED
  BY <1>2, <1>3, <1>4 DEF StartStep

LEMMA TypeStopStep ==
  ASSUME TypeOK, NEW t \in Threads, StopStep(t)
  PROVE  TypeOK'
<1> USE DEF None
<1>1. UNCHANGED <<starts, via, conn, dying, overlapped, lost, faults>>
  BY DEF StopStep, StopTest, StopClear, StopServer, StopJoin, StopResetClient,
         StopResetServer, history
<1>2. adapter' \in AdapterOf(starts)
  <2>1. /\ [adapter EXCEPT !.running = FALSE] \in AdapterOf(starts)
        /\ [adapter EXCEPT !.thread = None] \in AdapterOf(starts)
        /\ [adapter EXCEPT !.client = None] \in AdapterOf(starts)
        /\ [adapter EXCEPT !.server = None] \in AdapterOf(starts)
    BY AdapterUpdates
  <2>2. \/ adapter' = adapter
        \/ adapter' = [adapter EXCEPT !.running = FALSE]
        \/ adapter' = [adapter EXCEPT !.thread = None]
        \/ adapter' = [adapter EXCEPT !.client = None]
        \/ adapter' = [adapter EXCEPT !.server = None]
    BY DEF StopStep, StopTest, StopClear, StopServer, StopJoin, StopResetClient,
           StopResetServer
  <2> QED
    BY <2>1, <2>2, TypeFacts
<1>3. UNCHANGED pc \/ (pc' \in [Threads -> Steps] /\ ExcludedBy(pc'))
  BY Moves DEF StopStep, StopTest, StopClear, StopServer, StopJoin, StopResetClient,
               StopResetServer, StopReturn, Steps, StopSteps
<1>4. /\ listen' \in [Servers -> ListenSteps]
      /\ \A n \in Servers : n > starts => listen'[n] = "unborn"
  BY DEF StopStep, StopTest, StopClear, StopServer, StopJoin, StopResetClient,
         StopResetServer, TypeOK, ListenSteps
<1>5. /\ crash' \in {"no", "joinable", "joinedTwice", "freed", crash}
      /\ premature' \in BOOLEAN
  BY DEF StopStep, StopTest, StopClear, StopServer, StopJoin, StopResetClient,
         StopResetServer, StopReturn, history, TypeOK
<1> QED
  BY <1>1, <1>2, <1>3, <1>4, <1>5, TypeFacts, TypeKept

LEMMA TypeServerStep ==
  ASSUME TypeOK, NEW n \in Servers, ServerStep(n)
  PROVE  TypeOK'
<1>1. /\ listen[n] # "unborn"
      /\ \E step \in {"listening", "done"} : listen' = [listen EXCEPT ![n] = step]
      /\ UNCHANGED <<adapter, starts, pc, via, conn, dying, crash, overlapped, premature,
                     lost, faults>>
  BY DEF ServerStep, ListenBegin, ListenEnd, ListenGoto, history
<1>2. /\ listen' \in [Servers -> ListenSteps]
      /\ \A k \in Servers : k > starts => listen'[k] = "unborn"
  BY <1>1 DEF TypeOK, ListenSteps
<1> QED
  BY <1>1, <1>2, TypeFacts, TypeKept

LEMMA TypeRequestStep ==
  ASSUME TypeOK, NEW r \in Requests, Accept(r) \/ RequestStep(r) \/ MisuseClient(r)
  PROVE  TypeOK'
<1> USE DEF None
<1>1. r \in Threads
  BY TypeFacts
<1>2. CASE pc[r] = "stops" /\ RunCallback(r)
  BY <1>1, <1>2, TypeCall, TypeFacts DEF RunCallback
<1>3. CASE ~(pc[r] = "stops" /\ RunCallback(r))
  <2>1. UNCHANGED <<adapter, starts, listen, dying, overlapped, premature, faults>>
    BY <1>3 DEF Accept, RequestStep, CopyCallback, RunCallback, TestClient, DeclareQueue,
                BasicPublish, MisuseClient, history
  <2>2. UNCHANGED pc \/ (pc' \in [Threads -> Steps] /\ ExcludedBy(pc'))
    <3>1. \/ UNCHANGED pc
          \/ \E step \in {"idle", "copy", "plain", "stops", "test"} \cup Inside :
               Goto(r, step)
      <4>1. adapter.on_event \in {"none", "plain", "stops"}
        BY HttpAdapterAssumption DEF TypeOK
      <4> QED
        BY <1>3, <4>1 DEF Accept, RequestStep, CopyCallback, RunCallback, TestClient, Inside,
                          DeclareQueue, BasicPublish, MisuseClient, Answer
    <3> QED
      BY <1>1, <3>1, Moves DEF Steps, Inside
  <2>3. via' \in [Requests -> [server : 0..starts, client : 0..starts]]
    <3>1. \/ via' = via
          \/ via' = [via EXCEPT ![r] = NoRequest]
          \/ via' = [via EXCEPT ![r].client = adapter.client]
          \/ \E n \in Servers : listen[n] = "listening" /\ via' = [via EXCEPT ![r].server = n]
      BY <1>3 DEF Accept, RequestStep, CopyCallback, RunCallback, TestClient, DeclareQueue,
                  BasicPublish, MisuseClient, Answer
    <3>2. /\ NoRequest \in [server : 0..starts, client : 0..starts]
          /\ \A n \in 0..starts :
               /\ [via[r] EXCEPT !.client = n] \in [server : 0..starts, client : 0..starts]
               /\ [via[r] EXCEPT !.server = n] \in [server : 0..starts, client : 0..starts]
      BY TypeFacts DEF NoRequest
    <3>3. /\ adapter.client \in 0..starts
          /\ \A n \in Servers : listen[n] = "listening" => n \in 0..starts
      BY DEF TypeOK, Servers
    <3> QED
      BY <3>1, <3>2, <3>3, TypeFacts
  <2>4. conn' \in {"up", "closed", "silent"}
    BY <1>3 DEF Accept, RequestStep, CopyCallback, RunCallback, TestClient, DeclareQueue,
                BasicPublish, MisuseClient, TypeOK
  <2>5. crash' \in {"no", "freed", "raced", crash}
    BY <1>3 DEF Accept, RequestStep, CopyCallback, RunCallback, TestClient, DeclareQueue,
                BasicPublish, MisuseClient
  <2>6. lost' \in 0..MaxLost
    BY <1>3, LostFacts DEF Accept, RequestStep, CopyCallback, RunCallback, TestClient,
                           DeclareQueue, BasicPublish, MisuseClient, history, TypeOK
  <2> QED
    BY <2>1, <2>2, <2>3, <2>4, <2>5, <2>6, TypeFacts, TypeKept
<1> QED
  BY <1>2, <1>3

LEMMA TypeTakeReply ==
  ASSUME TypeOK, NEW r \in Requests, TakeReply(r)
  PROVE  TypeOK'
<1>1. PICK q \in Requests : pc' = [pc EXCEPT ![r] = "write", ![q] = "starved"]
  BY DEF TakeReply
<1>2. pc' \in [Threads -> Steps] /\ ExcludedBy(pc')
  <2>1. {"write", "starved"} \subseteq Steps
    BY DEF Steps, Inside
  <2>2. \A t \in Threads : pc'[t] = pc[t] \/ pc'[t] \in {"write", "starved"}
    BY <1>1, TypeFacts
  <2>3. ExcludedBy(pc)
    BY DEF TypeOK, ExcludedBy
  <2> QED
    BY <1>1, <2>1, <2>2, <2>3, TypeFacts DEF ExcludedBy
<1>3. UNCHANGED <<adapter, starts, listen, via, conn, dying, crash, overlapped, premature,
                  lost, faults>>
  BY DEF TakeReply, history
<1> QED
  BY <1>2, <1>3, TypeFacts, TypeKept

LEMMA TypeStep ==
  ASSUME TypeOK, [Next]_vars
  PROVE  TypeOK'
<1>1. CASE LoseConnection
  <2>1. faults' \in 0..MaxFaults /\ conn' \in {"up", "closed", "silent"}
    BY <1>1, HttpAdapterAssumption DEF LoseConnection, TypeOK
  <2>2. UNCHANGED <<adapter, starts, pc, listen, via, dying, crash, overlapped, premature, lost>>
    BY <1>1 DEF LoseConnection, history
  <2> QED
    BY <2>1, <2>2, TypeFacts, TypeKept
<1>2. CASE UNCHANGED vars
  BY <1>2 DEF vars, history, TypeOK
<1>3. ASSUME NEW c \in Stoppers, CallStop(c) \/ CallDestructor(c)
      PROVE  TypeOK'
  <2>1. c \in Threads /\ Call(c, "stop", StartSteps \cup StopSteps) /\ dying' \in BOOLEAN
    BY <1>3 DEF CallStop, CallDestructor, Threads, Controllers, TypeOK
  <2> QED
    BY <2>1, TypeCall
<1>4. ASSUME NEW c \in Starters, CallStart(c)
      PROVE  TypeOK'
  <2>1. c \in Threads /\ Call(c, "start", StopSteps) /\ dying' \in BOOLEAN
    BY <1>4 DEF CallStart, Threads, Controllers, TypeOK
  <2> QED
    BY <2>1, TypeCall
<1> QED
  BY <1>1, <1>2, <1>3, <1>4, TypeStartStep, TypeStopStep, TypeServerStep, TypeRequestStep,
     TypeTakeReply DEF Next

\* Every variable has its type, callback_mutex_ excludes, and a server that listens has
\* been started.
THEOREM TypeCorrect == Spec => []TypeOK
BY TypeInit, TypeStep, PTL DEF Spec

-----------------------------------------------------------------------------
(* The adapter in step with the calls that start and stop it.               *)

SameMembers ==
  /\ adapter'.running = adapter.running /\ adapter'.client = adapter.client
  /\ adapter'.server = adapter.server /\ adapter'.thread = adapter.thread
  /\ starts' = starts

LEMMA InvInit ==
  Init => AdapterInv
<1> HAVE Init
<1>1. CallsApart
  BY DEF Init, CallsApart, StartSteps, StopSteps, Midway, Threads
<1>2. InStep
  BY DEF Init, InStep, Stage, OneServer, OneClient, WholeBetween, Midway, Threads, Inside, None
<1> QED
  BY <1>1, <1>2 DEF Init, AdapterInv, CrashNeedsOverlap, LossesToCome

\* Where nobody moves to or from a write, what is lost is what was lost.
LEMMA WritesUnchanged ==
  ASSUME AdapterInv, overlapped => overlapped',
         \A r \in Requests : pc'[r] = "write" <=> pc[r] = "write",
         UNCHANGED <<conn, lost>> \/ (conn' = "up" /\ lost' = 0)
  PROVE  LossesToCome'
<1>1. Writing' = Writing
  BY DEF Writing
<1> QED
  BY <1>1 DEF AdapterInv, LossesToCome

LEMMA InvCall ==
  ASSUME TypeOK, AdapterInv, crash = "no", NEW t \in Threads,
         NEW step \in {"start", "stop"},
         Call(t, step, IF step = "start" THEN StopSteps ELSE StartSteps \cup StopSteps),
         IF t \in Requests THEN pc[t] = "stops" /\ step = "stop" ELSE pc[t] = "idle"
  PROVE  AdapterInv'
<1>1. /\ pc'[t] = step /\ \A u \in Threads \ {t} : pc'[u] = pc[u]
      /\ UNCHANGED <<adapter, starts, listen, via, conn, crash, lost>>
      /\ overlapped => overlapped'
      /\ ~overlapped' => \A u \in Threads : /\ pc[u] \notin StopSteps
                                            /\ step = "stop" => pc[u] \notin StartSteps
  BY DEF Call, Goto, TypeOK
<1>2. \A u \in Threads : (Midway(u)' <=> Midway(u)) /\ (Midway(u) => u # t)
  BY <1>1 DEF Midway
<1>3. CallsApart'
  <2>1. \A r \in Requests : pc'[r] \notin StartSteps
    BY <1>1, TypeFacts DEF AdapterInv, CallsApart, StartSteps
  <2>2. ~overlapped' =>
          \A u, v \in Threads :
            /\ pc'[u] \in StopSteps => pc'[v] \notin StartSteps
            /\ pc'[u] \in StopSteps /\ pc'[v] \in StopSteps => u = v
    BY <1>1 DEF StartSteps, StopSteps
  <2>3. ~overlapped' => \A u, v \in Threads : Midway(u)' /\ Midway(v)' => u = v
    BY <1>1, <1>2 DEF AdapterInv, CallsApart
  <2> QED
    BY <2>1, <2>2, <2>3 DEF CallsApart
<1>4. InStep'
  <2>1. \A u \in Threads : Stage(u) => Stage(u)'
    BY <1>1, <1>2 DEF Stage, Midway
  <2>2. OneServer => OneServer'
    BY <1>1 DEF OneServer
  <2>3. OneClient => OneClient'
    BY <1>1, TypeFacts DEF OneClient, Inside
  <2>4. WholeBetween => WholeBetween'
    BY <1>1, <1>2 DEF WholeBetween
  <2> QED
    BY <1>1, <2>1, <2>2, <2>3, <2>4 DEF AdapterInv, InStep
<1>5. LossesToCome'
  <2>1. \A r \in Requests : pc'[r] = "write" <=> pc[r] = "write"
    BY <1>1, TypeFacts
  <2> QED
    BY <1>1, <2>1, WritesUnchanged
<1> QED
  BY <1>1, <1>3, <1>4, <1>5 DEF AdapterInv, CrashNeedsOverlap

ControlStep(t) == (t \in Starters /\ StartStep(t)) \/ StopStep(t)

\* A thread that starts or stops keeps to its call, and is midway alone.
LEMMA KeepsApart ==
  ASSUME TypeOK, AdapterInv, crash = "no", NEW t \in Threads, ControlStep(t)
  PROVE  /\ \A u \in Threads \ {t} : pc'[u] = pc[u]
         /\ pc[t] \in StartSteps \cup StopSteps
         /\ pc'[t] \notin Inside /\ (t \in Requests => pc'[t] # "idle")
         /\ UNCHANGED <<overlapped, dying, via>>
         /\ ~overlapped /\ (Midway(t) \/ Midway(t)') =>
              \A u \in Threads \ {t} : ~Midway(u) /\ ~Midway(u)'
         /\ CallsApart'
<1>1. /\ \A u \in Threads \ {t} : pc'[u] = pc[u]
      /\ UNCHANGED <<overlapped, dying, via>>
  BY ZenonT(30) DEF ControlStep, StartStep, StartConnect, StartServer, StartSpawn, StopStep,
         StopTest, StopClear, StopServer, StopJoin, StopResetClient, StopResetServer, StopReturn, Goto,
         history, TypeOK
<1>2. /\ pc[t] \in StartSteps \cup StopSteps
      /\ pc'[t] \in StartSteps => pc[t] \in StartSteps
      /\ pc'[t] \in StopSteps => pc[t] \in StopSteps
      /\ pc'[t] \in {"idle", "test"} \cup StartSteps \cup StopSteps
      /\ t \in Requests => pc'[t] # "idle"
  <2>1. CASE StopStep(t)
    <3>1. /\ pc[t] \in StopSteps
          /\ \/ UNCHANGED pc
             \/ \E step \in {"idle", "test"} \cup StopSteps :
                  Goto(t, step) /\ (t \in Requests => step # "idle")
      BY <2>1 DEF StopStep, StopTest, StopClear, StopServer, StopJoin, StopResetClient,
                  StopResetServer, StopReturn, StopSteps
    <3>2. \/ pc'[t] = pc[t]
          \/ pc'[t] \in {"idle", "test"} \cup StopSteps /\ (t \in Requests => pc'[t] # "idle")
      BY <3>1 DEF Goto, TypeOK
    <3>3. pc[t] \in StopSteps
      BY <3>1
    <3>4. pc'[t] \notin StartSteps /\ pc'[t] \in {"idle", "test"} \cup StopSteps
      BY <3>2, <3>3 DEF StartSteps, StopSteps
    <3>5. t \in Requests => pc'[t] # "idle"
      BY <3>2, <3>3 DEF StopSteps
    <3> QED
      BY <3>3, <3>4, <3>5
  <2>2. CASE t \in Starters /\ StartStep(t)
    <3>1. t \notin Requests
      BY <2>2, HttpAdapterAssumption
    <3>2. /\ pc[t] \in StartSteps
          /\ \E step \in {"idle", "connected", "set"} : Goto(t, step)
      BY <2>2 DEF StartStep, StartConnect, StartServer, StartSpawn, StartSteps
    <3>3. pc[t] \in StartSteps /\ pc'[t] \in {"idle", "connected", "set"}
      BY <3>2 DEF Goto, TypeOK
    <3> QED
      BY <3>1, <3>3 DEF StartSteps, StopSteps
  <2> QED
    BY <2>1, <2>2 DEF ControlStep
<1>3. ~overlapped /\ Midway(t)' => Midway(t) \/ \A u \in Threads \ {t} : ~Midway(u)
  <2>1. CASE pc[t] = "start"
    BY <2>1 DEF ControlStep, StartStep, StartConnect, StartServer, StartSpawn, StopStep,
                StopTest, StopClear, StopServer, StopJoin, StopResetClient, StopResetServer,
                Goto, TypeOK, CallbackMutexFree, AdapterInv, CallsApart, Midway,
                StartSteps, StopSteps
  <2>2. CASE pc[t] = "stop"
    BY <2>2 DEF AdapterInv, CallsApart, Midway, StartSteps, StopSteps
  <2>3. CASE pc[t] \notin {"start", "stop"}
    BY <1>2, <2>3 DEF Midway, StartSteps, StopSteps
  <2> QED
    BY <2>1, <2>2, <2>3
<1>4. ~overlapped =>
        /\ Midway(t) \/ Midway(t)' => \A u \in Threads \ {t} : ~Midway(u)
        /\ \A u \in Threads \ {t} : Midway(u)' <=> Midway(u)
  BY <1>1, <1>3 DEF AdapterInv, CallsApart, Midway
<1>5. ~overlapped => \A u, v \in Threads : Midway(u)' /\ Midway(v)' => u = v
  BY <1>4 DEF AdapterInv, CallsApart
<1>6. \A r \in Requests : pc'[r] \notin StartSteps
  BY <1>1, <1>2, TypeFacts DEF AdapterInv, CallsApart
<1>7. CallsApart'
  BY <1>1, <1>2, <1>5, <1>6 DEF AdapterInv, CallsApart
<1> QED
  BY <1>1, <1>2, <1>4, <1>7 DEF StartSteps, StopSteps, Inside

\* What is left to show of a step of a thread that starts or stops: the members in step
\* with it, as far as no call overlaps another.
LEMMA InvControl ==
  ASSUME TypeOK, AdapterInv, crash = "no", NEW t \in Threads, ControlStep(t),
         crash' \notin {"no", "raced"} => overlapped,
         UNCHANGED <<conn, lost>> \/ (conn' = "up" /\ lost' = 0),
         ~overlapped /\ crash' = "no" => Stage(t)' /\ OneServer' /\ OneClient' /\ WholeBetween',
         (SameMembers /\ UNCHANGED listen) \/ Midway(t) \/ Midway(t)'
  PROVE  AdapterInv'
<1>1. \A u \in Threads \ {t} : pc'[u] = pc[u]
  BY KeepsApart
<1>2. ~overlapped => \A u \in Threads \ {t} : Stage(u)'
  <2>1. SUFFICES ASSUME ~overlapped, NEW u \in Threads \ {t}
                 PROVE  Stage(u)'
    OBVIOUS
  <2>2. CASE ~Midway(u)'
    BY <2>2 DEF Stage, Midway
  <2>3. CASE Midway(u)'
    <3>1. SameMembers /\ UNCHANGED listen /\ pc'[u] = pc[u] /\ Stage(u)
      BY <1>1, <2>1, <2>3, KeepsApart DEF AdapterInv, InStep
    <3> QED
      BY <3>1 DEF Stage, SameMembers, Midway
  <2> QED
    BY <2>2, <2>3
<1>3. CallsApart' /\ overlapped' = overlapped
  BY KeepsApart
<1>4. InStep'
  BY <1>2, <1>3 DEF InStep
<1>5. LossesToCome'
  <2>1. \A r \in Requests : pc'[r] = "write" <=> pc[r] = "write"
    BY <1>1, KeepsApart, TypeFacts DEF StartSteps, StopSteps, Inside
  <2> QED
    BY <1>3, <2>1, WritesUnchanged
<1> QED
  BY <1>3, <1>4, <1>5 DEF AdapterInv, CrashNeedsOverlap

\* The requests are where they were, and so is what they use, unless none is handled.
LEMMA ClientKept ==
  ASSUME TypeOK, AdapterInv, crash = "no", ~overlapped, NEW t \in Threads, ControlStep(t),
         \/ /\ adapter'.client = adapter.client
            /\ \A n \in Servers : listen[n] \in {"listening", "closed"} =>
                                    listen'[n] \in {"listening", "closed"}
         \/ \A n \in Servers : listen[n] \in {"unborn", "done"}
  PROVE  OneClient'
<1>1. /\ via' = via /\ pc[t] # "idle" /\ pc'[t] \notin Inside
      /\ \A r \in Requests : r # t => pc'[r] = pc[r]
  BY KeepsApart, TypeFacts DEF StartSteps, StopSteps, Inside
<1>2. OneClient
  BY DEF AdapterInv, InStep
<1>3. CASE \A n \in Servers : listen[n] \in {"unborn", "done"}
  <2>1. \A r \in Requests : pc[r] = "idle"
    BY <1>2, <1>3 DEF OneClient
  <2> QED
    BY <1>1, <2>1 DEF OneClient, Inside
<1>4. CASE /\ adapter'.client = adapter.client
           /\ \A n \in Servers : listen[n] \in {"listening", "closed"} =>
                                   listen'[n] \in {"listening", "closed"}
  BY <1>1, <1>2, <1>4 DEF OneClient
<1> QED
  BY <1>3, <1>4

LEMMA InvStartStep ==
  ASSUME TypeOK, AdapterInv, crash = "no", NEW t \in Starters, StartStep(t)
  PROVE  AdapterInv'
<1> USE DEF None
<1>1. t \in Threads /\ ControlStep(t)
  BY DEF Threads, Controllers, ControlStep
<1>2. ~overlapped => Stage(t) /\ OneServer /\ WholeBetween
  BY <1>1 DEF AdapterInv, InStep
<1>3. CASE StartConnect(t)
  <2>1. CASE pc'[t] = "connected"
    <3>1. /\ pc[t] = "start" /\ ~adapter.running /\ starts' = starts + 1
          /\ adapter'.running = adapter.running /\ adapter'.client = starts + 1
          /\ adapter'.server = adapter.server /\ adapter'.thread = adapter.thread
          /\ conn' = "up" /\ lost' = 0
          /\ UNCHANGED <<listen, crash>>
      BY <1>1, <1>3, <2>1 DEF StartConnect, Goto, TypeOK
    <3>2. ~overlapped => \A u \in Threads : ~Midway(u)
      BY <1>1, <2>1, <3>1, KeepsApart DEF Midway
    <3>3. ~overlapped => /\ adapter.thread = None /\ adapter.server = None
                         /\ \A n \in Servers : listen[n] \in {"unborn", "done"}
      BY <1>2, <3>1, <3>2 DEF WholeBetween, OneServer, Servers
    <3>4. starts' # 0
      BY <3>1, TypeFacts
    <3>5. ~overlapped => Stage(t)' /\ OneServer' /\ WholeBetween'
      BY <1>1, <2>1, <3>1, <3>3, <3>4 DEF Stage, OneServer, WholeBetween, Midway
    <3>6. ~overlapped => OneClient'
      BY <1>1, <3>3, ClientKept
    <3> QED
      BY <1>1, <2>1, <3>1, <3>5, <3>6, InvControl DEF Midway
  <2>2. CASE pc'[t] # "connected"
    <3>1. /\ pc[t] = "start" /\ pc'[t] = "idle" /\ SameMembers
          /\ UNCHANGED <<listen, crash, conn, lost>>
      BY <1>1, <1>3, <2>2 DEF StartConnect, Goto, SameMembers, TypeOK
    <3>2. ~overlapped => Stage(t)' /\ OneServer' /\ WholeBetween'
      <4>1. \A u \in Threads : Midway(u)' <=> Midway(u)
        BY <1>1, <3>1, KeepsApart DEF Midway
      <4> QED
        BY <1>2, <3>1, <4>1 DEF Stage, OneServer, WholeBetween, Midway, SameMembers
    <3>3. ~overlapped => OneClient'
      BY <1>1, <3>1, ClientKept DEF SameMembers
    <3> QED
      BY <1>1, <3>1, <3>2, <3>3, InvControl
  <2> QED
    BY <2>1, <2>2
<1>4. CASE StartServer(t)
  <2>1. /\ pc[t] = "connected" /\ pc'[t] = "set" /\ adapter'.running /\ starts' = starts
        /\ adapter'.client = adapter.client /\ adapter'.server = starts
        /\ adapter'.thread = adapter.thread
        /\ crash' = IF adapter.server # None /\ listen[adapter.server] # "done"
                    THEN "freed" ELSE "no"
        /\ UNCHANGED <<listen, conn, lost>>
    BY <1>1, <1>4 DEF StartServer, Goto, TypeOK, history
  <2>2. ~overlapped => /\ adapter.server = None /\ adapter.thread = None
                       /\ adapter.client = starts /\ starts # 0
                       /\ \A n \in Servers : listen[n] \in {"unborn", "done"}
    BY <1>2, <2>1 DEF Stage, OneServer, Servers, Midway
  <2>3. ~overlapped => Stage(t)' /\ OneServer' /\ WholeBetween'
    BY <1>1, <2>1, <2>2 DEF Stage, OneServer, WholeBetween, Midway
  <2>4. ~overlapped => OneClient'
    BY <1>1, <2>2, ClientKept
  <2> QED
    BY <1>1, <2>1, <2>2, <2>3, <2>4, InvControl DEF Midway
<1>5. CASE StartSpawn(t)
  <2>1. /\ pc[t] = "set" /\ pc'[t] = "idle" /\ starts' = starts
        /\ adapter'.running = adapter.running
        /\ adapter'.client = adapter.client /\ adapter'.server = adapter.server
        /\ adapter'.thread = starts
        /\ crash' = IF adapter.thread # None THEN "joinable" ELSE "no"
        /\ \A n \in Servers : listen'[n] = IF n = starts THEN "born" ELSE listen[n]
        /\ UNCHANGED <<conn, lost>>
    BY <1>1, <1>5 DEF StartSpawn, Goto, TypeOK, history
  <2>2. ~overlapped => /\ adapter.running /\ adapter.server = starts /\ adapter.thread = None
                       /\ adapter.client = starts /\ starts # 0
                       /\ \A n \in Servers : listen[n] \in {"unborn", "done"}
    BY <1>2, <2>1 DEF Stage, OneServer, Servers, Midway
  <2>3. starts # 0 => starts \in Servers
    BY TypeFacts DEF TypeOK, Servers
  <2>4. ~overlapped => Stage(t)' /\ OneServer' /\ WholeBetween'
    BY <1>1, <2>1, <2>2, <2>3 DEF Stage, OneServer, WholeBetween, Midway
  <2>5. ~overlapped => OneClient'
    BY <1>1, <2>2, ClientKept
  <2> QED
    BY <1>1, <2>1, <2>2, <2>4, <2>5, InvControl DEF Midway
<1> QED
  BY <1>3, <1>4, <1>5 DEF StartStep

LEMMA InvStopStep ==
  ASSUME TypeOK, AdapterInv, crash = "no", NEW t \in Threads, StopStep(t)
  PROVE  AdapterInv'
<1> USE DEF None
<1>1. ControlStep(t)
  BY DEF ControlStep
<1>2. ~overlapped =>
        /\ Stage(t) /\ OneServer /\ WholeBetween
        /\ \A u \in Threads \ {t} : ~Midway(u) /\ ~Midway(u)'
  <2>1. ~overlapped => \A u \in Threads \ {t} : ~Midway(u)
    BY DEF AdapterInv, CallsApart, Midway, StartSteps, StopSteps, StopStep, StopTest, StopClear,
           StopServer, StopJoin, StopResetClient, StopResetServer
  <2>2. \A u \in Threads \ {t} : pc'[u] = pc[u]
    BY <1>1, KeepsApart
  <2> QED
    BY <2>1, <2>2 DEF AdapterInv, InStep, Midway
<1>3. CASE StopTest(t)
  <2>1. /\ pc[t] = "stop" /\ SameMembers
        /\ UNCHANGED <<adapter, listen, conn, lost>>
        /\ \/ adapter.running /\ pc'[t] = "clear" /\ crash' = crash
           \/ /\ ~adapter.running /\ pc'[t] \in {"idle", "test"}
              /\ crash' \in IF adapter.thread # None THEN {"joinable", "no"} ELSE {"no"}
    BY <1>3 DEF StopTest, StopReturn, Goto, TypeOK, history, SameMembers
  <2>2. ~overlapped => \A u \in Threads : ~Midway(u)
    BY <1>2, <2>1 DEF Midway
  <2>3. ~overlapped => Stage(t)' /\ OneServer' /\ WholeBetween'
    BY <1>2, <2>1, <2>2 DEF Stage, OneServer, WholeBetween, Midway, SameMembers
  <2>4. ~overlapped => OneClient'
    BY <1>1, <2>1, ClientKept
  <2>5. ~overlapped => crash' = "no"
    BY <1>2, <2>1, <2>2 DEF WholeBetween
  <2> QED
    BY <1>1, <2>1, <2>3, <2>4, <2>5, InvControl
<1>4. CASE StopClear(t)
  <2>1. /\ pc[t] = "clear" /\ pc'[t] = "close" /\ starts' = starts /\ ~adapter'.running
        /\ adapter'.client = adapter.client /\ adapter'.server = adapter.server
        /\ adapter'.thread = adapter.thread
        /\ UNCHANGED <<listen, crash, conn, lost>>
    BY <1>4 DEF StopClear, Goto, TypeOK, history
  <2>2. ~overlapped => Stage(t)' /\ OneServer' /\ WholeBetween'
    BY <1>1, <1>2, <2>1 DEF Stage, OneServer, WholeBetween, Midway
  <2>3. ~overlapped => OneClient'
    BY <1>1, <2>1, ClientKept
  <2> QED
    BY <1>1, <2>1, <2>2, <2>3, InvControl DEF Midway
<1>5. CASE StopServer(t)
  <2>1. /\ pc[t] = "close" /\ pc'[t] = "join" /\ SameMembers
        /\ \A n \in Servers : listen'[n] = IF n = adapter.server /\ listen[n] = "listening"
                                           THEN "closed" ELSE listen[n]
        /\ UNCHANGED <<adapter, crash, conn, lost>>
    BY <1>5 DEF StopServer, Goto, TypeOK, SameMembers
  <2>2. ~overlapped => ~adapter.running /\ adapter.thread = starts /\ starts # 0
    BY <1>2, <2>1 DEF Stage, Midway
  <2>3. ~overlapped => Stage(t)' /\ WholeBetween'
    BY <1>1, <2>1, <2>2 DEF Stage, WholeBetween, Midway, SameMembers
  <2>4. ~overlapped => OneServer'
    <3>1. adapter.thread # None => adapter.thread \in Servers
      <4>1. adapter.thread \in 0..starts /\ starts \in 0..MaxStarts
        BY DEF TypeOK
      <4> QED
        BY <4>1, HttpAdapterAssumption DEF Servers
    <3> QED
      BY <1>2, <2>1, <2>2, <3>1 DEF OneServer, SameMembers
  <2>5. ~overlapped => OneClient'
    BY <1>1, <2>1, ClientKept
  <2> QED
    BY <1>1, <2>1, <2>3, <2>4, <2>5, InvControl DEF Midway
<1>6. CASE StopJoin(t)
  <2>1. CASE crash' = "no"
    <3>1. /\ pc[t] = "join" /\ pc'[t] = "resetClient" /\ starts' = starts
          /\ adapter'.running = adapter.running /\ adapter'.client = adapter.client
          /\ adapter'.server = adapter.server /\ adapter'.thread = None
          /\ adapter.thread # None => listen[adapter.thread] = "done"
          /\ UNCHANGED <<listen, conn, lost>>
      BY <1>6, <2>1 DEF StopJoin, Goto, TypeOK, history
    <3>2. ~overlapped =>
            /\ ~adapter.running /\ adapter.thread = starts /\ starts # 0
            /\ adapter.server = starts /\ listen[starts] = "done"
            /\ \A n \in Servers : listen[n] \in {"unborn", "done"}
      BY <1>2, <3>1 DEF Stage, OneServer, Midway
    <3>3. ~overlapped => Stage(t)' /\ OneServer' /\ WholeBetween'
      BY <1>1, <3>1, <3>2 DEF Stage, OneServer, WholeBetween, Midway
    <3>4. ~overlapped => OneClient'
      BY <1>1, <3>2, ClientKept
    <3> QED
      BY <1>1, <2>1, <3>1, <3>3, <3>4, InvControl DEF Midway
  <2>2. CASE crash' # "no"
    <3>1. /\ pc[t] = "join" /\ \E u \in Threads \ {t} : pc[u] = "join"
          /\ SameMembers /\ UNCHANGED <<listen, conn, lost>>
      BY <1>6, <2>2 DEF StopJoin, SameMembers, history
    <3>2. overlapped
      BY <1>2, <3>1 DEF Midway
    <3> QED
      BY <1>1, <2>2, <3>1, <3>2, InvControl
  <2> QED
    BY <2>1, <2>2
<1>7. CASE StopResetClient(t)
  <2>1. /\ pc[t] = "resetClient" /\ pc'[t] = "resetServer" /\ starts' = starts
        /\ adapter'.running = adapter.running /\ adapter'.client = None
        /\ adapter'.server = adapter.server /\ adapter'.thread = adapter.thread
        /\ UNCHANGED <<listen, crash, conn, lost>>
    BY <1>7 DEF StopResetClient, Goto, TypeOK, history
  <2>2. ~overlapped => /\ adapter.thread = None
                       /\ \A n \in Servers : listen[n] \in {"unborn", "done"}
    BY <1>2, <2>1 DEF Stage, OneServer, Servers
  <2>3. ~overlapped => Stage(t)' /\ OneServer' /\ WholeBetween'
    BY <1>1, <1>2, <2>1, <2>2 DEF Stage, OneServer, WholeBetween, Midway
  <2>4. ~overlapped => OneClient'
    BY <1>1, <2>2, ClientKept
  <2> QED
    BY <1>1, <2>1, <2>3, <2>4, InvControl DEF Midway
<1>8. CASE StopResetServer(t)
  <2>1. /\ pc[t] = "resetServer" /\ starts' = starts
        /\ adapter'.running = adapter.running /\ adapter'.client = adapter.client
        /\ adapter'.server = None /\ adapter'.thread = adapter.thread
        /\ \/ adapter.server # None /\ listen[adapter.server] # "done" /\ crash' = "freed"
           \/ /\ pc'[t] \in {"idle", "test"}
              /\ crash' \in IF adapter.thread # None THEN {"joinable", "no"} ELSE {"no"}
        /\ UNCHANGED <<listen, conn, lost>>
    BY <1>8 DEF StopResetServer, StopReturn, Goto, TypeOK, history
  <2>2. ~overlapped =>
          /\ ~adapter.running /\ adapter.client = None /\ adapter.thread = None
          /\ adapter.server = starts /\ listen[starts] = "done"
          /\ \A n \in Servers : listen[n] \in {"unborn", "done"}
    BY <1>2, <2>1 DEF Stage, OneServer, Servers, Midway
  <2>3. ~overlapped => pc'[t] \in {"idle", "test"} /\ crash' = "no"
    BY <2>1, <2>2
  <2>4. ~overlapped => Stage(t)' /\ OneServer' /\ WholeBetween'
    BY <1>1, <2>1, <2>2, <2>3 DEF Stage, OneServer, WholeBetween, Midway
  <2>5. ~overlapped => OneClient'
    BY <1>1, <2>2, ClientKept
  <2> QED
    BY <1>1, <2>1, <2>3, <2>4, <2>5, InvControl DEF Midway
<1> QED
  BY <1>3, <1>4, <1>5, <1>6, <1>7, <1>8 DEF StopStep

LEMMA InvServerStep ==
  ASSUME TypeOK, AdapterInv, crash = "no", NEW n \in Servers, ServerStep(n)
  PROVE  AdapterInv'
<1>1. /\ UNCHANGED <<adapter, starts, pc, via, conn, crash, overlapped, lost>>
      /\ \A k \in Servers \ {n} : listen'[k] = listen[k]
      /\ \/ listen[n] = "born" /\ listen'[n] \in {"listening", "done"}
         \/ /\ listen[n] = "closed" /\ listen'[n] = "done"
            /\ \A r \in Requests : via[r].server = n => pc[r] = "idle"
  BY DEF ServerStep, ListenBegin, ListenEnd, ListenGoto, history, TypeOK
<1>2. (\A t \in Threads : Stage(t)) => \A t \in Threads : Stage(t)'
  <2>1. starts # 0 => starts \in Servers
    <3>1. starts \in 0..MaxStarts
      BY DEF TypeOK
    <3> QED
      BY <3>1, HttpAdapterAssumption DEF Servers
  <2>2. starts # 0 /\ listen[starts] = "done" => listen'[starts] = "done"
    BY <1>1, <2>1
  <2> QED
    BY <1>1, <2>2 DEF Stage, Midway
<1>3. OneServer => OneServer'
  BY <1>1 DEF OneServer
<1>4. OneClient => OneClient'
  BY <1>1 DEF OneClient
<1>5. WholeBetween => WholeBetween'
  BY <1>1 DEF WholeBetween, Midway
<1>6. CallsApart' /\ LossesToCome'
  BY <1>1 DEF AdapterInv, CallsApart, LossesToCome, Writing, Midway
<1> QED
  BY <1>1, <1>2, <1>3, <1>4, <1>5, <1>6 DEF AdapterInv, InStep, CrashNeedsOverlap

LEMMA WritingFacts ==
  /\ IsFiniteSet(Writing) /\ Cardinality(Writing) \in Nat
  /\ Cardinality(Writing) <= Cardinality(Requests)
BY HttpAdapterAssumption, FS_Subset, FS_CardinalityType DEF Writing

\* What a request loses it loses at its write, and it gets there only over a connection
\* that is up: between calls that do not overlap, it finds a client.
LEMMA LossOfRequest ==
  ASSUME TypeOK, AdapterInv, crash = "no", NEW r \in Requests,
         Accept(r) \/ RequestStep(r) \/ MisuseClient(r),
         UNCHANGED overlapped,
         \A q \in Requests \ {r} : pc'[q] = pc[q]
  PROVE  LossesToCome'
<1> USE DEF None
<1>1. SUFFICES ASSUME ~overlapped
               PROVE  IF conn' = "up" THEN lost' = 0
                      ELSE lost' + Cardinality(Writing') <= Cardinality(Requests)
  BY DEF LossesToCome
<1>2. IF conn = "up" THEN lost = 0 ELSE lost + Cardinality(Writing) <= Cardinality(Requests)
  BY <1>1 DEF AdapterInv, LossesToCome
<1>3. pc[r] = "test" => adapter.client # None
  BY <1>1 DEF AdapterInv, InStep, OneServer, OneClient, Servers
<1>4. r \in Threads /\ lost \in Nat /\ OneMoreLost \in Nat /\ OneMoreLost <= lost + 1
  BY TypeFacts, LostFacts
<1>5. \/ /\ UNCHANGED <<lost, conn>>
         /\ pc'[r] = "write" => pc[r] = "write" \/ conn = "up"
         /\ pc[r] = "write" => pc'[r] = "write"
      \/ lost' = lost /\ conn' = "closed" /\ pc' = pc
      \/ /\ pc[r] = "write" /\ pc'[r] # "write" /\ conn' = conn
         /\ lost' = IF conn = "up" THEN lost ELSE OneMoreLost
  <2>1. CASE Accept(r) \/ CopyCallback(r) \/ RunCallback(r)
    <3>1. adapter.on_event \in {"none", "plain", "stops"}
      BY HttpAdapterAssumption DEF TypeOK
    <3> QED
      BY <1>4, <2>1, <3>1 DEF Accept, CopyCallback, RunCallback, Call, Answer, Goto, TypeOK, history
  <2>2. CASE TestClient(r)
    BY <1>3, <1>4, <2>2 DEF TestClient, Goto, TypeOK
  <2>3. CASE DeclareQueue(r)
    BY <1>4, <2>3 DEF DeclareQueue, Answer, Goto, TypeOK, history
  <2>4. CASE BasicPublish(r)
    BY <1>4, <2>4 DEF BasicPublish, Answer, Goto, TypeOK
  <2>5. CASE MisuseClient(r)
    BY <1>4, <2>5 DEF MisuseClient, Inside, Goto, TypeOK, history
  <2> QED
    BY <2>1, <2>2, <2>3, <2>4, <2>5 DEF RequestStep
<1>6. CASE UNCHANGED <<lost, conn>> /\ (pc'[r] = "write" <=> pc[r] = "write")
  <2>1. Writing' = Writing
    BY <1>6 DEF Writing
  <2> QED
    BY <1>2, <1>6, <2>1
<1>7. CASE UNCHANGED <<lost, conn>> /\ conn = "up"
  BY <1>2, <1>7
<1>8. CASE lost' = lost /\ conn' = "closed" /\ pc' = pc
  <2>1. Writing' = Writing
    BY <1>8 DEF Writing
  <2> QED
    BY <1>2, <1>4, <1>8, <2>1, WritingFacts, MaxLostFacts
<1>9. CASE /\ pc[r] = "write" /\ pc'[r] # "write" /\ conn' = conn
           /\ lost' = IF conn = "up" THEN lost ELSE OneMoreLost
  <2>1. r \in Writing /\ Writing' = Writing \ {r}
    BY <1>9 DEF Writing
  <2>2. Cardinality(Writing') = Cardinality(Writing) - 1
    BY <2>1, WritingFacts, FS_RemoveElement
  <2> QED
    BY <1>2, <1>4, <1>9, <2>2, WritingFacts, MaxLostFacts
<1> QED
  BY <1>5, <1>6, <1>7, <1>8, <1>9

\* A request's own step changes neither the members nor the calls.
LEMMA InvRequestStep ==
  ASSUME TypeOK, AdapterInv, crash = "no", NEW r \in Requests,
         Accept(r) \/ RequestStep(r) \/ MisuseClient(r)
  PROVE  AdapterInv'
<1> USE DEF None
<1>1. r \in Threads
  BY TypeFacts
<1>2. CASE pc[r] = "stops" /\ RunCallback(r)
  BY <1>1, <1>2, InvCall DEF RunCallback
<1>3. CASE ~(pc[r] = "stops" /\ RunCallback(r))
  <2>1. UNCHANGED <<adapter, starts, listen, dying, overlapped, faults>>
    BY <1>3 DEF Accept, RequestStep, CopyCallback, RunCallback, TestClient, DeclareQueue,
                BasicPublish, MisuseClient, history
  <2>2. /\ \A t \in Threads \ {r} : pc'[t] = pc[t]
        /\ pc[r] \in {"idle", "copy", "plain", "stops", "test"} \cup Inside
        /\ pc'[r] \in {"idle", "copy", "plain", "stops", "test"} \cup Inside
    <3>1. adapter.on_event \in {"none", "plain", "stops"}
      BY HttpAdapterAssumption DEF TypeOK
    <3>2. /\ pc[r] \in {"idle", "copy", "plain", "stops", "test"} \cup Inside
          /\ \/ UNCHANGED pc
             \/ \E step \in {"idle", "copy", "plain", "stops", "test"} \cup Inside :
                  Goto(r, step)
      BY <1>3, <3>1 DEF Accept, RequestStep, CopyCallback, RunCallback, TestClient,
                        DeclareQueue, BasicPublish, MisuseClient, Answer, Inside
    <3> QED
      BY <1>1, <3>2 DEF Goto, TypeOK
  <2>3. \A t \in Threads : /\ Midway(t)' <=> Midway(t)
                           /\ Stage(t) => Stage(t)'
                           /\ pc'[t] \in StartSteps <=> pc[t] \in StartSteps
                           /\ pc'[t] \in StopSteps <=> pc[t] \in StopSteps
    BY <2>1, <2>2 DEF Midway, Stage, StartSteps, StopSteps, Inside
  <2>4. CallsApart'
    BY <2>1, <2>3, TypeFacts DEF AdapterInv, CallsApart
  <2>5. /\ OneServer => OneServer'
        /\ WholeBetween => WholeBetween'
    BY <2>1, <2>3 DEF OneServer, WholeBetween
  <2>6. /\ \A q \in Requests \ {r} : via'[q] = via[q]
        /\ \/ pc'[r] = "idle"
           \/ pc'[r] = "copy" /\ \E n \in Servers : via'[r].server = n /\ listen[n] = "listening"
           \/ /\ pc[r] # "idle" /\ via'[r].server = via[r].server
              /\ pc'[r] \in Inside => \/ via'[r].client = adapter.client
                                      \/ pc[r] \in Inside /\ via'[r] = via[r]
    <3>1. CASE Accept(r)
      BY <1>1, <3>1 DEF Accept, Goto, TypeOK
    <3>2. CASE CopyCallback(r) \/ RunCallback(r) \/ MisuseClient(r)
      <4>1. \/ via' = via /\ pc[r] # "idle" /\ (pc'[r] \in Inside => pc[r] \in Inside)
            \/ via' = [via EXCEPT ![r] = NoRequest] /\ pc'[r] = "idle"
        <5>1. adapter.on_event \in {"none", "plain", "stops"}
          BY HttpAdapterAssumption DEF TypeOK
        <5>2. CASE CopyCallback(r)
          BY <1>1, <5>1, <5>2 DEF CopyCallback, Goto, Inside, TypeOK
        <5>3. CASE RunCallback(r)
          BY <1>1, <1>3, <5>3 DEF RunCallback, Answer, Goto, Inside, TypeOK
        <5>4. CASE MisuseClient(r)
          BY <1>1, <5>4 DEF MisuseClient, Inside, Goto, TypeOK
        <5> QED
          BY <3>2, <5>2, <5>3, <5>4
      <4> QED
        BY <4>1 DEF TypeOK
    <3>3. CASE TestClient(r)
      BY <1>1, <3>3 DEF TestClient, Answer, Goto, TypeOK
    <3>4. CASE DeclareQueue(r) \/ BasicPublish(r)
      BY <1>1, <3>4 DEF DeclareQueue, BasicPublish, Answer, Goto, Inside, TypeOK
    <3> QED
      BY <3>1, <3>2, <3>3, <3>4 DEF RequestStep
  <2>7. OneClient => OneClient'
    BY <2>1, <2>2, <2>6, TypeFacts DEF OneClient, Inside
  <2>8. ~overlapped => crash' \in {"no", "raced"}
    <3>1. \/ crash' \in {"no", "raced"}
          \/ pc[r] \in Inside /\ adapter.client # via[r].client
      BY <1>3 DEF Accept, RequestStep, CopyCallback, RunCallback, TestClient, DeclareQueue,
                  BasicPublish, MisuseClient
    <3> QED
      BY <3>1 DEF AdapterInv, InStep, OneClient
  <2>9. LossesToCome'
    BY <2>1, <2>2, LossOfRequest, TypeFacts
  <2> QED
    BY <2>1, <2>3, <2>4, <2>5, <2>7, <2>8, <2>9 DEF AdapterInv, InStep, CrashNeedsOverlap
<1> QED
  BY <1>2, <1>3

\* A reply that goes to another request moves two of them, both inside the client.
LEMMA InvTakeReply ==
  ASSUME TypeOK, AdapterInv, crash = "no", NEW r \in Requests, TakeReply(r)
  PROVE  AdapterInv'
<1>1. PICK q \in Requests : /\ pc[r] = "starved" /\ pc[q] = "declare"
                            /\ pc' = [pc EXCEPT ![r] = "write", ![q] = "starved"]
  BY DEF TakeReply
<1>2. /\ conn = "up"
      /\ UNCHANGED <<adapter, starts, listen, via, conn, crash, overlapped, lost>>
  BY DEF TakeReply, history
<1>3. \A t \in Threads : \/ pc'[t] = pc[t]
                         \/ t \in {r, q} /\ pc[t] \in Inside /\ pc'[t] \in Inside
  BY <1>1, TypeFacts DEF Inside
<1>4. \A t \in Threads : /\ Midway(t)' <=> Midway(t)
                         /\ Stage(t) => Stage(t)'
                         /\ pc'[t] \in StartSteps <=> pc[t] \in StartSteps
                         /\ pc'[t] \in StopSteps <=> pc[t] \in StopSteps
                         /\ pc'[t] \in Inside <=> pc[t] \in Inside
                         /\ pc'[t] = "idle" <=> pc[t] = "idle"
  BY <1>2, <1>3 DEF Midway, Stage, StartSteps, StopSteps, Inside
<1>5. CallsApart'
  BY <1>2, <1>4, TypeFacts DEF AdapterInv, CallsApart
<1>6. InStep'
  BY <1>2, <1>4, TypeFacts DEF AdapterInv, InStep, OneServer, OneClient, WholeBetween
<1>7. LossesToCome'
  BY <1>2 DEF AdapterInv, LossesToCome
<1> QED
  BY <1>2, <1>5, <1>6, <1>7 DEF AdapterInv, CrashNeedsOverlap

LEMMA InvStep ==
  ASSUME TypeOK, AdapterInv, [Next]_vars
  PROVE  AdapterInv'
<1>1. CASE LoseConnection
  <2>1. /\ UNCHANGED <<adapter, starts, pc, listen, via, crash, overlapped, lost>>
        /\ conn = "up" /\ conn' # "up"
    BY <1>1 DEF LoseConnection, history
  <2>2. LossesToCome'
    <3>1. lost \in Nat /\ Writing' = Writing
      BY <2>1, LostFacts DEF Writing
    <3> QED
      BY <2>1, <3>1, WritingFacts, MaxLostFacts DEF AdapterInv, LossesToCome
  <2> QED
    BY <2>1, <2>2 DEF AdapterInv, CallsApart, InStep, Stage, OneServer, OneClient,
                      WholeBetween, Midway, CrashNeedsOverlap
<1>2. CASE UNCHANGED vars
  BY <1>2 DEF vars, history, AdapterInv, CallsApart, InStep, Stage, OneServer, OneClient,
              WholeBetween, Midway, CrashNeedsOverlap, LossesToCome, Writing
<1>3. ASSUME crash = "no", NEW c \in Starters, CallStart(c)
      PROVE  AdapterInv'
  <2>1. c \in Threads /\ c \notin Requests
    BY HttpAdapterAssumption DEF Threads, Controllers
  <2> QED
    BY <1>3, <2>1, InvCall DEF CallStart
<1>4. ASSUME crash = "no", NEW c \in Stoppers, CallStop(c) \/ CallDestructor(c)
      PROVE  AdapterInv'
  <2>1. c \in Threads /\ c \in Controllers /\ c \notin Requests
    BY HttpAdapterAssumption DEF Threads, Controllers
  <2>2. pc[c] = "idle" /\ Call(c, "stop", StartSteps \cup StopSteps)
    BY <1>4, <2>1 DEF CallStop, CallDestructor
  <2> QED
    BY <1>4, <2>1, <2>2, InvCall
<1> QED
  BY <1>1, <1>2, <1>3, <1>4, InvStartStep, InvStopStep, InvServerStep, InvRequestStep,
     InvTakeReply DEF Next

LEMMA AdapterInvHolds == Spec => []AdapterInv
BY TypeCorrect, InvInit, InvStep, PTL DEF Spec

\* As long as no stop overlaps another call, no thread is abandoned or joined twice and
\* neither the server nor the client is used after it is destroyed, whatever requests
\* are under way and whatever their callbacks do.
THEOREM CrashesNeedOverlap == Spec => []CrashNeedsOverlap
BY AdapterInvHolds, PTL DEF AdapterInv

\* Between calls that did not overlap the adapter runs with its newest server, thread and
\* client, or is stopped with no server listening and no request under way.
THEOREM RunsOrIsStopped == Spec => []RunningOrStopped
<1>1. TypeOK /\ AdapterInv => RunningOrStopped
  <2> SUFFICES ASSUME TypeOK, AdapterInv, crash = "no", ~overlapped,
                      \A t \in Threads : pc[t] \notin StartSteps \cup StopSteps
               PROVE  RunningOrStopped
    BY DEF RunningOrStopped
  <2>1. OneServer /\ OneClient /\ WholeBetween /\ \A t \in Threads : ~Midway(t)
    BY DEF AdapterInv, InStep, Midway, StartSteps, StopSteps
  <2>2. CASE adapter.running
    <3>1. adapter.thread = starts /\ starts # 0 /\ starts \in Servers
      <4>1. starts \in 0..MaxStarts
        BY DEF TypeOK
      <4> QED
        BY <2>1, <2>2, <4>1, HttpAdapterAssumption DEF WholeBetween, Servers
    <3>2. listen[starts] \in {"born", "listening", "done"}
      BY <2>1, <2>2, <3>1, TypeFacts DEF OneServer, ListenSteps, None
    <3> QED
      BY <2>1, <2>2, <3>1, <3>2 DEF RunningOrStopped, OneServer, None
  <2>3. CASE ~adapter.running
    <3>1. adapter.thread = None /\ \A n \in Servers : listen[n] \in {"unborn", "done"}
      BY <2>1, <2>3 DEF WholeBetween, OneServer, Servers, None
    <3>2. \A r \in Requests : pc[r] = "idle"
      BY <2>1, <3>1 DEF OneClient
    <3> QED
      BY <2>1, <2>3, <3>1, <3>2 DEF RunningOrStopped, WholeBetween
  <2> QED
    BY <2>2, <2>3
<1> QED
  BY <1>1, TypeCorrect, AdapterInvHolds, PTL

\* A connection that is lost costs at most one event for each thread of the pool, for
\* pools of any size.
THEOREM LossesAreBounded == Spec => []LossIsBounded
<1>1. TypeOK /\ AdapterInv => LossIsBounded
  <2> SUFFICES ASSUME TypeOK, AdapterInv
               PROVE  LossIsBounded
    OBVIOUS
  <2> QED
    BY LostFacts, WritingFacts, MaxLostFacts DEF AdapterInv, LossesToCome, LossIsBounded
<1> QED
  BY <1>1, TypeCorrect, AdapterInvHolds, PTL
=============================================================================
