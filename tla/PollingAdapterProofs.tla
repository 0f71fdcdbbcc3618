------------------------ MODULE PollingAdapterProofs -------------------------
(***************************************************************************)
(* Proofs about PollingAdapter, for any threads that control the adapter,   *)
(* any callbacks and any number of starts and faults.                      *)
(***************************************************************************)
EXTENDS PollingAdapter, TLAPS

-----------------------------------------------------------------------------
(* Types.                                                                   *)

LEMMA TypeInit ==
  Init => TypeOK
<1> HAVE Init
<1>1. /\ running = FALSE /\ on_event = "none"
      /\ client = 0 /\ worker = 0 /\ starts = 0 /\ faults = 0
  BY DEF Init, None
<1>2. 0 \in 0..MaxStarts /\ 0 \in 0..MaxFaults /\ 0 \in 0..0
  BY PollingAdapterAssumption
<1>3. using \in [Workers -> 0..starts]
  BY DEF Init, None
<1>4. /\ cpc \in [Controllers -> {"idle"} \cup StartSteps \cup StopSteps]
      /\ \A c, d \in Controllers : {cpc[c], cpc[d]} \subseteq {"connected", "set"} => c = d
  BY DEF Init
<1>5. \A n \in Workers : wpc[n] = "unborn" /\ conn[n] = "up"
  BY DEF Init
<1>6. /\ wpc \in [Workers -> {"unborn"}] /\ conn \in [Workers -> {"up"}]
      /\ dying \in BOOLEAN /\ overlapped \in BOOLEAN /\ crash = "no"
  BY DEF Init
<1> QED
  BY <1>1, <1>4, <1>5, <1>6, <1>3, <1>2 DEF TypeOK, HoldsWorkerMutex

LEMMA TypeCallStep ==
  ASSUME TypeOK, NEW c \in Controllers, CallStep(c)
  PROVE  TypeOK'
<1>1. /\ cpc[c] = "idle"
      /\ \E step \in {"start", "stop"} : cpc' = [cpc EXCEPT ![c] = step]
      /\ dying' \in BOOLEAN /\ overlapped' \in BOOLEAN
      /\ UNCHANGED <<members, starts, wpc, using, conn, crash, faults>>
  BY DEF CallStep, CallStart, CallStop, CallDestructor, Call, TypeOK
<1> QED
  BY <1>1 DEF TypeOK, members, StartSteps, StopSteps, HoldsWorkerMutex

LEMMA TypeControllerStep ==
  ASSUME TypeOK, NEW c \in Controllers, ControllerStep(c)
  PROVE  TypeOK'
<1> USE PollingAdapterAssumption DEF None
<1>1. CASE StartConnect(c)
  <2>1. /\ starts' \in 0..MaxStarts /\ starts <= starts'
        /\ client' \in 0..starts' /\ on_event' \in {"none"} \cup Callbacks
    BY <1>1 DEF StartConnect, TypeOK
  <2>2. \E step \in {"idle", "connected"} : cpc' = [cpc EXCEPT ![c] = step]
    BY <1>1 DEF StartConnect
  <2>3. /\ cpc' \in [Controllers -> {"idle"} \cup StartSteps \cup StopSteps]
        /\ \A d, e \in Controllers : {cpc'[d], cpc'[e]} \subseteq {"connected", "set"} => d = e
    BY <1>1, <2>2 DEF StartConnect, CallbackMutexFree, TypeOK, StartSteps, StopSteps
  <2>4. UNCHANGED <<running, worker, wpc, using, conn, dying, crash, overlapped, faults>>
    BY <1>1 DEF StartConnect
  <2>5. /\ worker' \in 0..starts' /\ using' \in [Workers -> 0..starts']
        /\ \A n \in Workers : n > starts' => wpc'[n] = "unborn" /\ conn'[n] = "up"
    BY <2>1, <2>4 DEF TypeOK, Workers
  <2> QED
    BY <2>1, <2>3, <2>4, <2>5 DEF TypeOK, HoldsWorkerMutex
<1>2. CASE StartSetRunning(c)
  BY <1>2 DEF StartSetRunning, TypeOK, Workers, StartSteps, StopSteps, HoldsWorkerMutex
<1>3. CASE StartSpawn(c)
  <2>1. /\ cpc' = [cpc EXCEPT ![c] = "idle"] /\ wpc' = [wpc EXCEPT ![starts] = "lock"]
        /\ worker' = starts /\ crash' \in {"no", "joinable"}
        /\ UNCHANGED <<running, on_event, client, starts, using, conn,
                       dying, overlapped, faults>>
    BY <1>3 DEF StartSpawn
  <2>2. \A n \in Workers : wpc'[n] = IF n = starts THEN "lock" ELSE wpc[n]
    BY <2>1 DEF TypeOK
  <2>3. \A n \in Workers : HoldsWorkerMutex(n)' => HoldsWorkerMutex(n)
    BY <2>2 DEF HoldsWorkerMutex
  <2>4. \A n, k \in Workers : HoldsWorkerMutex(n)' /\ HoldsWorkerMutex(k)' => n = k
    BY <2>3 DEF TypeOK
  <2>5. /\ cpc' \in [Controllers -> {"idle"} \cup StartSteps \cup StopSteps]
        /\ \A d, e \in Controllers : {cpc'[d], cpc'[e]} \subseteq {"connected", "set"} => d = e
    BY <2>1 DEF TypeOK
  <2>6. \A n \in Workers : n > starts' => wpc'[n] = "unborn" /\ conn'[n] = "up"
    BY <2>1, <2>2 DEF TypeOK, Workers
  <2>7. /\ wpc' \in [Workers -> {"unborn", "lock", "loop", "wait", "asleep", "timedOut",
                                 "notified", "copy", "call", "callStops", "publish",
                                 "publishing", "done"}]
    BY <2>1 DEF TypeOK
  <2>8. worker' \in 0..starts'
    BY <2>1 DEF TypeOK
  <2>9. /\ crash' \in {"no", "joinable"}
        /\ UNCHANGED <<running, on_event, client, starts, using, conn,
                       dying, overlapped, faults>>
    BY <2>1
  <2> QED
    BY <2>4, <2>5, <2>6, <2>7, <2>8, <2>9 DEF TypeOK, HoldsWorkerMutex
<1>4. CASE StopClear(c)
  <2>1. /\ \E step \in {"idle", "cleared"} : cpc' = [cpc EXCEPT ![c] = step]
        /\ running' \in BOOLEAN /\ crash' \in {"no", "joinable", crash}
        /\ UNCHANGED <<on_event, client, worker, starts, wpc, using, conn,
                       dying, overlapped, faults>>
    BY <1>4 DEF StopClear, StopReturn, TypeOK
  <2>2. /\ cpc' \in [Controllers -> {"idle"} \cup StartSteps \cup StopSteps]
        /\ \A d, e \in Controllers : {cpc'[d], cpc'[e]} \subseteq {"connected", "set"} => d = e
    BY <2>1 DEF TypeOK, StopSteps
  <2> QED
    BY <2>1, <2>2 DEF TypeOK, HoldsWorkerMutex
<1>5. CASE StopNotify(c)
  <2>1. /\ wpc' = [n \in Workers |-> IF wpc[n] = "asleep" THEN "notified" ELSE wpc[n]]
        /\ cpc' = [cpc EXCEPT ![c] = "join"]
        /\ UNCHANGED <<members, starts, using, conn, dying, crash, overlapped, faults>>
    BY <1>5 DEF StopNotify
  <2>2. \A n \in Workers : /\ HoldsWorkerMutex(n)' => HoldsWorkerMutex(n)
                           /\ wpc[n] = "unborn" => wpc'[n] = "unborn"
    BY <2>1 DEF HoldsWorkerMutex
  <2>3. \A n, k \in Workers : HoldsWorkerMutex(n)' /\ HoldsWorkerMutex(k)' => n = k
    BY <2>2 DEF TypeOK
  <2>4. /\ cpc' \in [Controllers -> {"idle"} \cup StartSteps \cup StopSteps]
        /\ \A d, e \in Controllers : {cpc'[d], cpc'[e]} \subseteq {"connected", "set"} => d = e
    BY <2>1 DEF TypeOK, StopSteps
  <2>5. wpc' \in [Workers -> {"unborn", "lock", "loop", "wait", "asleep", "timedOut",
                              "notified", "copy", "call", "callStops", "publish",
                              "publishing", "done"}]
    BY <2>1 DEF TypeOK
  <2>6. \A n \in Workers : n > starts' => wpc'[n] = "unborn" /\ conn'[n] = "up"
    BY <2>1, <2>2 DEF TypeOK
  <2> QED
    BY <2>1, <2>3, <2>4, <2>5, <2>6 DEF TypeOK, members
<1>6. CASE StopJoin(c)
  BY <1>6 DEF StopJoin, TypeOK, Workers, StartSteps, StopSteps, HoldsWorkerMutex
<1>7. CASE StopReset(c)
  BY <1>7 DEF StopReset, StopReturn, TypeOK, Workers, StartSteps, StopSteps, HoldsWorkerMutex
<1> QED
  BY <1>1, <1>2, <1>3, <1>4, <1>5, <1>6, <1>7 DEF ControllerStep

LEMMA TypeWorkerStep ==
  ASSUME TypeOK, NEW n \in Workers, WorkerStep(n) \/ WorkerWake(n)
  PROVE  TypeOK'
<1>1. /\ \E step \in {"loop", "wait", "asleep", "timedOut", "notified", "copy", "call",
                      "callStops", "publish", "publishing", "done", wpc[n]} :
           wpc' = [wpc EXCEPT ![n] = step]
      /\ HoldsWorkerMutex(n)' => HoldsWorkerMutex(n) \/ WorkerMutexFree
      /\ wpc[n] # "unborn"
      /\ crash' \in {"no", "uncaught", "freed", crash}
      /\ using' \in [Workers -> 0..starts]
  <2>1. CASE WorkerLock(n) \/ WorkerRelock(n)
    BY <2>1 DEF WorkerLock, WorkerRelock, WorkerGoto, TypeOK
  <2>2. CASE WorkerTest(n) \/ WorkerWait(n) \/ WorkerWake(n) \/ WorkerCopyCallback(n)
             \/ WorkerCallback(n)
    BY <2>2 DEF WorkerTest, WorkerWait, WorkerWake, WorkerCopyCallback, WorkerCallback,
                WorkerGoto, HoldsWorkerMutex, TypeOK
  <2>3. CASE WorkerTestClient(n)
    BY <2>3 DEF WorkerTestClient, WorkerGoto, HoldsWorkerMutex, TypeOK
  <2>4. CASE WorkerPublish(n)
    BY <2>4 DEF WorkerPublish, WorkerGoto, HoldsWorkerMutex, TypeOK, None
  <2> QED
    BY <2>1, <2>2, <2>3, <2>4 DEF WorkerStep
<1>2. UNCHANGED <<members, starts, cpc, conn, dying, overlapped, faults>>
  BY DEF WorkerStep, WorkerLock, WorkerTest, WorkerWait, WorkerWake, WorkerRelock,
         WorkerCopyCallback, WorkerCallback, WorkerTestClient, WorkerPublish, WorkerUnchanged
<1>3. \A k \in Workers \ {n} : wpc'[k] = wpc[k]
  BY <1>1 DEF TypeOK
<1>4. \A j, k \in Workers : HoldsWorkerMutex(j)' /\ HoldsWorkerMutex(k)' => j = k
  <2>1. \A k \in Workers \ {n} : HoldsWorkerMutex(k)' => HoldsWorkerMutex(k)
    BY <1>3 DEF HoldsWorkerMutex
  <2> QED
    BY <1>1, <2>1 DEF TypeOK, WorkerMutexFree
<1>5. \A k \in Workers : k > starts' => wpc'[k] = "unborn" /\ conn'[k] = "up"
  BY <1>1, <1>2, <1>3 DEF TypeOK
<1>6. wpc' \in [Workers -> {"unborn", "lock", "loop", "wait", "asleep", "timedOut",
                            "notified", "copy", "call", "callStops", "publish",
                            "publishing", "done"}]
  BY <1>1 DEF TypeOK
<1> QED
  BY <1>1, <1>2, <1>4, <1>5, <1>6 DEF TypeOK, members

LEMMA TypeStep ==
  ASSUME TypeOK, [Next]_vars
  PROVE  TypeOK'
<1>1. CASE LoseConnection
  <2>1. PICK state \in {"closed", "silent"} : conn' = [conn EXCEPT ![client] = state]
    BY <1>1 DEF LoseConnection
  <2>2. faults' \in 0..MaxFaults
    BY <1>1, PollingAdapterAssumption DEF LoseConnection, TypeOK
  <2>3. UNCHANGED <<running, on_event, client, worker, starts, cpc, wpc, using, dying,
                    crash, overlapped>>
    BY <1>1 DEF LoseConnection, members
  <2>4. conn' \in [Workers -> {"up", "closed", "silent"}]
    BY <2>1 DEF TypeOK
  <2>5. \A n \in Workers : n > starts' => wpc'[n] = "unborn" /\ conn'[n] = "up"
    <3>1. starts \in Nat /\ client \in Nat /\ client <= starts
      BY DEF TypeOK
    <3>2. \A n \in Workers : n > starts => n # client
      BY <3>1 DEF Workers
    <3> QED
      BY <2>1, <2>3, <3>2 DEF TypeOK
  <2> QED
    BY <2>3, <2>5, <2>2, <2>4 DEF TypeOK, HoldsWorkerMutex
<1>2. CASE UNCHANGED vars
  BY <1>2 DEF vars, members, TypeOK, HoldsWorkerMutex
<1> QED
  BY <1>1, <1>2, TypeCallStep, TypeControllerStep, TypeWorkerStep DEF Next

\* Every variable has its type, the two mutexes exclude, and threads and clients are
\* those that some start made.
THEOREM TypeCorrect == Spec => []TypeOK
BY TypeInit, TypeStep, PTL DEF Spec

-----------------------------------------------------------------------------
(* The adapter in step with the calls that start and stop it.               *)

LEMMA InvInit ==
  Init => AdapterInv
BY DEF Init, AdapterInv, CallsApart, InStep, CrashNeedsOverlap, Stage, OneThread,
       WholeBetween, Midway, Ended, StartSteps, None

LEMMA InvCallStep ==
  ASSUME TypeOK, AdapterInv, crash = "no", NEW c \in Controllers, CallStep(c)
  PROVE  AdapterInv'
<1>1. /\ cpc[c] = "idle" /\ ~dying
      /\ \E step \in {"start", "stop"} : cpc' = [cpc EXCEPT ![c] = step]
      /\ overlapped => overlapped'
  <2>1. CASE CallStart(c)
    BY <2>1 DEF CallStart, Call
  <2>2. CASE CallStop(c)
    BY <2>2 DEF CallStop, Call
  <2>3. CASE CallDestructor(c)
    BY <2>3 DEF CallDestructor, Call
  <2> QED
    BY <2>1, <2>2, <2>3 DEF CallStep
<1>2. UNCHANGED <<running, on_event, client, worker, starts, wpc, using, conn, crash, faults>>
  BY DEF CallStep, CallStart, CallStop, CallDestructor, Call, members
<1>3. /\ cpc'[c] \in {"start", "stop"}
      /\ \A d \in Controllers \ {c} : cpc'[d] = cpc[d]
  BY <1>1 DEF TypeOK
<1>4. \A d \in Controllers : (Midway(d)' <=> Midway(d)) /\ (Midway(d) => d # c)
  BY <1>1, <1>3 DEF Midway
<1>5. CallsApart'
  <2>1. \A d, e \in Controllers : Midway(d)' /\ Midway(e)' /\ ~overlapped' => d = e
    BY <1>1, <1>4 DEF AdapterInv, CallsApart
  <2>2. CASE CallStart(c)
    <3>1. /\ cpc'[c] = "start" /\ ~dying'
          /\ ~overlapped' => \A d \in Controllers : cpc[d] \notin StopSteps
      BY <2>2 DEF CallStart, Call, TypeOK
    <3> QED
      BY <1>1, <1>3, <2>1, <3>1 DEF AdapterInv, CallsApart, StopSteps
  <2>3. CASE CallStop(c)
    <3>1. /\ cpc'[c] = "stop" /\ ~dying'
          /\ ~overlapped' => \A d \in Controllers : cpc[d] \notin StartSteps
      BY <2>3 DEF CallStop, Call, TypeOK
    <3> QED
      BY <1>1, <1>3, <2>1, <3>1 DEF AdapterInv, CallsApart, StartSteps
  <2>4. CASE CallDestructor(c)
    <3>1. cpc'[c] = "stop" /\ \A d \in Controllers \ {c} : cpc'[d] = "idle"
      BY <1>3, <2>4 DEF CallDestructor, Call, TypeOK
    <3> QED
      BY <2>1, <3>1 DEF CallsApart, StartSteps, StopSteps
  <2> QED
    BY <2>2, <2>3, <2>4 DEF CallStep
<1>6. overlapped => overlapped'
  BY <1>1
<1>7. InStep'
  <2>1. \A d \in Controllers : Stage(d) => Stage(d)'
    BY <1>2, <1>3 DEF Stage
  <2>2. OneThread => OneThread'
    BY <1>2 DEF OneThread, Ended
  <2>3. WholeBetween => WholeBetween'
    BY <1>2, <1>4 DEF WholeBetween
  <2> QED
    BY <1>2, <1>6, <2>1, <2>2, <2>3 DEF AdapterInv, InStep
<1> QED
  BY <1>2, <1>5, <1>7 DEF AdapterInv, CrashNeedsOverlap

\* A controller that moves keeps to its call, and becomes midway only when nobody is.
LEMMA KeepsApart ==
  ASSUME TypeOK, AdapterInv, ~overlapped, crash = "no",
         NEW c \in Controllers, ControllerStep(c)
  PROVE  /\ \A d \in Controllers \ {c} : cpc'[d] = cpc[d]
         /\ Midway(c) \/ Midway(c)' => \A d \in Controllers \ {c} : ~Midway(d) /\ ~Midway(d)'
         /\ CallsApart'
<1>1. /\ \A d \in Controllers \ {c} : cpc'[d] = cpc[d]
      /\ UNCHANGED <<dying, overlapped>>
  BY DEF ControllerStep, StartConnect, StartSetRunning, StartSpawn, StopClear,
         StopNotify, StopJoin, StopReset, StopReturn, TypeOK
<1>2. /\ cpc[c] # "idle"
      /\ cpc'[c] \in StartSteps => cpc[c] \in StartSteps
      /\ cpc'[c] \in StopSteps => cpc[c] \in StopSteps
  BY DEF ControllerStep, StartConnect, StartSetRunning, StartSpawn, StopClear,
         StopNotify, StopJoin, StopReset, StopReturn, TypeOK, StartSteps, StopSteps
<1>3. Midway(c)' => Midway(c) \/ \A d \in Controllers : ~Midway(d)
  <2>1. CASE StartConnect(c)
    BY <2>1 DEF StartConnect, CallbackMutexFree, AdapterInv, CallsApart, StartSteps,
                StopSteps, Midway
  <2>2. CASE StopClear(c)
    <3>1. CASE running
      BY <2>2, <3>1 DEF StopClear, AdapterInv, CallsApart, InStep, Stage, StartSteps,
                        StopSteps, Midway
    <3>2. CASE ~running
      BY <2>2, <3>2 DEF StopClear, StopReturn, Midway, TypeOK
    <3> QED
      BY <3>1, <3>2
  <2>3. CASE cpc[c] \in {"connected", "set", "cleared", "join", "reset"}
    BY <2>3 DEF Midway
  <2> QED
    BY <2>1, <2>2, <2>3 DEF ControllerStep, StartSetRunning, StartSpawn, StopNotify,
                            StopJoin, StopReset
<1>4. /\ Midway(c) \/ Midway(c)' => \A d \in Controllers \ {c} : ~Midway(d)
      /\ \A d \in Controllers \ {c} : Midway(d)' <=> Midway(d)
  BY <1>1, <1>3 DEF AdapterInv, CallsApart, Midway
<1>5. \A d, e \in Controllers : Midway(d)' /\ Midway(e)' => d = e
  BY <1>4 DEF AdapterInv, CallsApart
<1>6. CallsApart'
  BY <1>1, <1>2, <1>5 DEF AdapterInv, CallsApart
<1> QED
  BY <1>1, <1>4, <1>6

\* A step of c from one statement to another.
LEMMA InvControllerStep ==
  ASSUME TypeOK, AdapterInv, crash = "no", NEW c \in Controllers, ControllerStep(c)
  PROVE  AdapterInv'
<1>1. overlapped' = overlapped
  BY DEF ControllerStep, StartConnect, StartSetRunning, StartSpawn, StopClear,
         StopNotify, StopJoin, StopReset
<1> SUFFICES ASSUME ~overlapped
             PROVE  /\ crash' \notin {"joinable", "freed"}
                    /\ \A d \in Controllers : Stage(d)'
                    /\ OneThread' /\ WholeBetween'
  BY <1>1, KeepsApart DEF AdapterInv, CallsApart, InStep, CrashNeedsOverlap
<1>2. /\ \A d \in Controllers \ {c} : cpc'[d] = cpc[d]
      /\ Midway(c) \/ Midway(c)' => \A d \in Controllers \ {c} : ~Midway(d) /\ ~Midway(d)'
  BY KeepsApart
<1>3. /\ \A d \in Controllers : Stage(d)
      /\ OneThread /\ WholeBetween
  BY DEF AdapterInv, InStep
<1>4. ASSUME Midway(c) \/ Midway(c)'
      PROVE  \A d \in Controllers \ {c} : Stage(d)'
  BY <1>2, <1>4 DEF Stage, Midway
<1>5. ASSUME UNCHANGED <<running, client, worker, starts, wpc, using>>, ~Midway(c), ~Midway(c)'
      PROVE  /\ \A d \in Controllers : Stage(d)'
             /\ OneThread' /\ WholeBetween'
  <2>1. \A d \in Controllers : Midway(d)' <=> Midway(d)
    BY <1>2, <1>5 DEF Midway
  <2>2. \A d \in Controllers : Stage(d)'
    BY <1>2, <1>3, <1>5 DEF Stage, Midway
  <2> QED
    BY <1>3, <1>5, <2>1, <2>2 DEF OneThread, Ended, WholeBetween
<1>6. CASE StartConnect(c)
  <2>1. CASE cpc' = [cpc EXCEPT ![c] = "idle"]
    BY <1>5, <1>6, <2>1 DEF StartConnect, TypeOK, Midway
  <2>2. CASE cpc' # [cpc EXCEPT ![c] = "idle"]
    <3>1. /\ ~running /\ starts' = starts + 1 /\ client' = starts + 1
          /\ cpc' = [cpc EXCEPT ![c] = "connected"]
          /\ UNCHANGED <<running, worker, wpc, using, crash>>
      BY <1>6, <2>2 DEF StartConnect
    <3>2. cpc[c] = "start" /\ cpc'[c] = "connected"
      BY <1>6, <3>1 DEF StartConnect, TypeOK
    <3>3. \A d \in Controllers : ~Midway(d)
      BY <1>2, <3>2 DEF Midway
    <3>4. worker = None /\ \A n \in Workers : Ended(n)
      BY <1>3, <3>1, <3>3 DEF WholeBetween, OneThread, Workers, None
    <3>5. starts' # 0
      BY <3>1 DEF TypeOK
    <3>6. Stage(c)' /\ OneThread' /\ WholeBetween'
      BY <3>1, <3>2, <3>4, <3>5 DEF Stage, OneThread, WholeBetween, Midway, Ended
    <3> QED
      BY <1>4, <3>1, <3>2, <3>6 DEF Midway
  <2> QED
    BY <2>1, <2>2
<1>7. CASE StartSetRunning(c)
  <2>1. /\ cpc[c] = "connected" /\ cpc'[c] = "set" /\ running'
        /\ UNCHANGED <<client, worker, starts, wpc, using, crash>>
    BY <1>7 DEF StartSetRunning, TypeOK
  <2>2. Stage(c)' /\ OneThread' /\ WholeBetween'
    BY <1>3, <2>1 DEF Stage, OneThread, Ended, WholeBetween, Midway
  <2> QED
    BY <1>4, <2>1, <2>2 DEF Midway
<1>8. CASE StartSpawn(c)
  <2>1. /\ cpc[c] = "set" /\ cpc'[c] = "idle" /\ worker' = starts
        /\ \A n \in Workers : wpc'[n] = IF n = starts THEN "lock" ELSE wpc[n]
        /\ worker = None => crash' = "no"
        /\ UNCHANGED <<running, client, starts, using>>
    BY <1>8 DEF StartSpawn, TypeOK
  <2>2. running /\ worker = None /\ client = starts /\ starts # 0
    BY <1>3, <2>1 DEF Stage
  <2>3. starts \in 0..MaxStarts /\ \A n \in Workers : Ended(n)
    BY <1>3, <2>2 DEF OneThread, Workers, None, TypeOK
  <2>4. Stage(c)' /\ OneThread' /\ WholeBetween'
    BY <2>1, <2>2, <2>3 DEF Stage, OneThread, Ended, WholeBetween, Workers
  <2> QED
    BY <1>4, <2>1, <2>2, <2>4 DEF Midway
<1>9. CASE StopClear(c)
  <2>1. CASE running
    <3>1. /\ cpc[c] = "stop" /\ cpc'[c] = "cleared" /\ ~running' /\ WorkerMutexFree
          /\ UNCHANGED <<client, worker, starts, wpc, using, crash>>
      BY <1>9, <2>1 DEF StopClear, TypeOK
    <3>2. \A d \in Controllers : ~Midway(d)
      BY <1>2, <3>1 DEF Midway
    <3>3. Stage(c)' /\ OneThread' /\ WholeBetween'
      BY <1>3, <2>1, <3>1, <3>2 DEF Stage, OneThread, Ended, WholeBetween, Midway
    <3> QED
      BY <1>4, <3>1, <3>3 DEF Midway
  <2>2. CASE ~running
    <3>1. /\ cpc[c] = "stop" /\ cpc'[c] = "idle"
          /\ UNCHANGED <<running, client, worker, starts, wpc, using>>
          /\ crash' = IF dying /\ worker # None THEN "joinable" ELSE "no"
      BY <1>9, <2>2 DEF StopClear, StopReturn, TypeOK
    <3>2. dying => worker = None
      <4>1. dying => \A d \in Controllers : ~Midway(d)
        BY <3>1 DEF AdapterInv, CallsApart, Midway
      <4> QED
        BY <1>3, <2>2, <4>1 DEF WholeBetween
    <3> QED
      BY <1>5, <3>1, <3>2 DEF Midway
  <2> QED
    BY <2>1, <2>2
<1>10. CASE StopNotify(c)
  <2>1. /\ cpc[c] = "cleared" /\ cpc'[c] = "join"
        /\ \A n \in Workers : wpc'[n] = IF wpc[n] = "asleep" THEN "notified" ELSE wpc[n]
        /\ UNCHANGED <<running, client, worker, starts, using, crash>>
    BY <1>10 DEF StopNotify, members, TypeOK
  <2>2. Stage(c)' /\ OneThread' /\ WholeBetween'
    BY <1>3, <2>1 DEF Stage, OneThread, Ended, WholeBetween, Midway
  <2> QED
    BY <1>4, <2>1, <2>2 DEF Midway
<1>11. CASE StopJoin(c)
  <2>1. /\ cpc[c] = "join" /\ cpc'[c] = "reset" /\ worker' = None
        /\ worker # None => wpc[worker] = "done"
        /\ UNCHANGED <<running, client, starts, wpc, using, crash>>
    BY <1>11 DEF StopJoin, TypeOK
  <2>2. Stage(c)' /\ OneThread' /\ WholeBetween'
    BY <1>3, <2>1 DEF Stage, OneThread, Ended, WholeBetween, Midway, Workers, None
  <2> QED
    BY <1>4, <2>1, <2>2 DEF Midway
<1>12. CASE StopReset(c)
  <2>1. /\ cpc[c] = "reset" /\ cpc'[c] = "idle" /\ client' = None
        /\ UNCHANGED <<running, worker, starts, wpc, using>>
        /\ crash' = IF dying /\ worker # None THEN "joinable" ELSE "no"
    BY <1>12 DEF StopReset, StopReturn, TypeOK
  <2>2. ~running /\ worker = None /\ \A n \in Workers : Ended(n)
    BY <1>3, <2>1 DEF Stage, OneThread, Workers, None
  <2>3. Stage(c)' /\ OneThread' /\ WholeBetween'
    BY <2>1, <2>2 DEF Stage, OneThread, Ended, WholeBetween
  <2> QED
    BY <1>4, <2>1, <2>2, <2>3 DEF Midway
<1> QED
  BY <1>6, <1>7, <1>8, <1>9, <1>10, <1>11, <1>12 DEF ControllerStep

LEMMA InvWorkerStep ==
  ASSUME TypeOK, AdapterInv, crash = "no", NEW n \in Workers, WorkerStep(n) \/ WorkerWake(n)
  PROVE  AdapterInv'
<1>1. UNCHANGED <<running, client, worker, starts, cpc, dying, overlapped>>
  BY DEF WorkerStep, WorkerLock, WorkerTest, WorkerWait, WorkerWake, WorkerRelock,
         WorkerCopyCallback, WorkerCallback, WorkerTestClient, WorkerPublish,
         WorkerUnchanged, members
<1>2. /\ CallsApart'
      /\ (\A c \in Controllers : Stage(c)) => (\A c \in Controllers : Stage(c)')
      /\ WholeBetween => WholeBetween'
  BY <1>1 DEF AdapterInv, CallsApart, Stage, WholeBetween, Midway
<1>3. /\ ~Ended(n)
      /\ \A k \in Workers \ {n} : wpc'[k] = wpc[k] /\ using'[k] = using[k]
      /\ Ended(n)' => ~running
      /\ wpc'[n] = "publishing" /\ crash' = "no" => using'[n] = client
      /\ crash' \in {"no", "uncaught"} \/ (wpc[n] = "publishing" /\ using[n] # client)
  <2>1. CASE WorkerPublish(n)
    <3>1. /\ wpc[n] = "publishing" /\ using' = [using EXCEPT ![n] = None]
          /\ \/ client # using[n] /\ crash' = "freed" /\ wpc' = wpc
             \/ crash' = "uncaught" /\ wpc' = wpc
             \/ crash' = "no" /\ wpc' = [wpc EXCEPT ![n] = "loop"]
      BY <2>1 DEF WorkerPublish, WorkerGoto
    <3> QED
      BY <3>1 DEF TypeOK, Ended
  <2>2. CASE WorkerTestClient(n)
    <3>1. /\ wpc[n] = "publish" /\ using' = [using EXCEPT ![n] = client] /\ crash' = "no"
          /\ \E step \in {"loop", "publishing"} : wpc' = [wpc EXCEPT ![n] = step]
      BY <2>2 DEF WorkerTestClient, WorkerGoto
    <3> QED
      BY <3>1 DEF TypeOK, Ended
  <2>3. CASE ~WorkerPublish(n) /\ ~WorkerTestClient(n)
    <3>1. /\ using' = using /\ crash' = "no"
          /\ wpc[n] \notin {"unborn", "done", "publish", "publishing"}
          /\ \/ \E step \in {"loop", "wait", "asleep", "timedOut", "notified", "copy",
                             "call", "callStops", "publish"} : wpc' = [wpc EXCEPT ![n] = step]
             \/ ~running /\ wpc' = [wpc EXCEPT ![n] = "done"]
      BY <2>3 DEF WorkerStep, WorkerLock, WorkerTest, WorkerWait, WorkerWake, WorkerRelock,
                  WorkerCopyCallback, WorkerCallback, WorkerGoto
    <3> QED
      BY <3>1 DEF TypeOK, Ended
  <2> QED
    BY <2>1, <2>2, <2>3
<1>4. OneThread /\ crash' = "no" => OneThread'
  BY <1>1, <1>3 DEF OneThread, Ended
<1>5. ~overlapped => crash' \in {"no", "uncaught"}
  BY <1>3 DEF AdapterInv, InStep, OneThread
<1> QED
  BY <1>1, <1>2, <1>4, <1>5 DEF AdapterInv, InStep, CrashNeedsOverlap

LEMMA InvStep ==
  ASSUME TypeOK, AdapterInv, [Next]_vars
  PROVE  AdapterInv'
<1>1. CASE UNCHANGED vars \/ LoseConnection
  <2>1. UNCHANGED <<members, starts, cpc, wpc, using, dying, crash, overlapped>>
    BY <1>1 DEF vars, LoseConnection
  <2> QED
    BY <2>1 DEF members, AdapterInv, CallsApart, InStep, Stage, OneThread, WholeBetween,
                Midway, Ended, CrashNeedsOverlap
<1> QED
  BY <1>1, InvCallStep, InvControllerStep, InvWorkerStep DEF Next

LEMMA AdapterInvHolds == Spec => []AdapterInv
BY TypeCorrect, InvInit, InvStep, PTL DEF Spec

\* Unless a start and a stop overlap, no thread is abandoned and no client is used
\* after it is destroyed, whatever the callbacks, the number of threads that control
\* the adapter and the faults of the connection.
THEOREM CrashesNeedOverlap == Spec => []CrashNeedsOverlap
BY AdapterInvHolds, PTL DEF AdapterInv

\* Between calls that did not overlap the adapter runs with its newest thread and
\* client, or is stopped with every thread ended.
THEOREM RunsOrIsStopped == Spec => []RunningOrStopped
<1>1. TypeOK /\ AdapterInv => RunningOrStopped
  <2> SUFFICES ASSUME TypeOK, AdapterInv, crash = "no", ~overlapped,
                      \A c \in Controllers : cpc[c] = "idle"
               PROVE  RunningOrStopped
    BY DEF RunningOrStopped
  <2>1. OneThread /\ WholeBetween /\ \A c \in Controllers : ~Midway(c)
    BY DEF AdapterInv, InStep, Midway
  <2>2. CASE running
    BY <2>1, <2>2 DEF RunningOrStopped, OneThread, WholeBetween, Ended, None
  <2>3. CASE ~running
    BY <2>1, <2>3 DEF RunningOrStopped, OneThread, WholeBetween, Ended, None, Workers
  <2> QED
    BY <2>2, <2>3
<1> QED
  BY <1>1, TypeCorrect, AdapterInvHolds, PTL
=============================================================================
