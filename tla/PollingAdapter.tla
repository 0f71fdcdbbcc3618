--------------------------- MODULE PollingAdapter ----------------------------
(***************************************************************************)
(* An adapter that polls a device: ZigbeeAdapter                           *)
(* (cpp/adapters/src/zigbee_adapter.cpp) and ZWaveAdapter                  *)
(* (zwave_adapter.cpp), which differ in the event they make up.            *)
(*                                                                         *)
(* Controllers are the threads that call start, stop and the destructor.   *)
(* The n-th start that connects makes client n and thread n, and so n      *)
(* names both; rabbitmq_client_ and worker_ say which of them the members  *)
(* hold.  A lock_guard is held exactly at the statements of its scope, so  *)
(* who holds a mutex is read off the program counters.                     *)
(***************************************************************************)
EXTENDS Naturals

CONSTANTS
  Controllers,  \* the threads that control the adapter
  Callbacks,    \* the kinds of callback passed to start
  MaxStarts,    \* bound: starts that connect
  MaxFaults     \* bound: connections lost

ASSUME PollingAdapterAssumption ==
  /\ MaxStarts \in Nat
  /\ MaxFaults \in Nat
  /\ Callbacks \subseteq {"none", "plain", "stops"}

Workers == 1..MaxStarts
None    == 0

VARIABLES
  running,     \* running_
  on_event,    \* on_event_: none, one that returns, or one that calls stop
  client,      \* rabbitmq_client_
  worker,      \* worker_: the thread it is joinable with
  starts,      \* starts that connected
  cpc,         \* cpc[c]: where controller c is
  wpc,         \* wpc[n]: where thread n is
  using,       \* using[n]: the client thread n publishes through
  conn,        \* conn[n]: client n's connection
  dying,       \* the destructor was called
  crash,       \* how the process died, if it did
  overlapped,  \* some start and some stop were in progress together
  faults

members == <<running, on_event, client, worker>>
vars == <<members, starts, cpc, wpc, using, conn, dying, crash, overlapped, faults>>

StartSteps == {"start", "connected", "set"}
StopSteps  == {"stop", "cleared", "join", "reset"}

\* The statements inside the scopes of the two locks.
HoldsWorkerMutex(n) ==
  wpc[n] \in {"loop", "wait", "copy", "call", "callStops", "publish", "publishing"}

WorkerMutexFree   == \A n \in Workers : ~HoldsWorkerMutex(n)
CallbackMutexFree == \A c \in Controllers : cpc[c] \notin {"connected", "set"}

Init ==
  /\ running = FALSE
  /\ on_event = "none"
  /\ client = None /\ worker = None
  /\ starts = 0
  /\ cpc = [c \in Controllers |-> "idle"]
  /\ wpc = [n \in Workers |-> "unborn"]
  /\ using = [n \in Workers |-> None]
  /\ conn = [n \in Workers |-> "up"]
  /\ dying = FALSE
  /\ crash = "no"
  /\ overlapped = FALSE
  /\ faults = 0

-----------------------------------------------------------------------------
(* Calls.  A controller makes one call at a time, nothing keeps two of them *)
(* from calling at once; but nobody calls an adapter that is destroyed.     *)

Call(c, step) ==
  /\ cpc[c] = "idle"
  /\ ~dying
  /\ cpc' = [cpc EXCEPT ![c] = step]
  /\ UNCHANGED <<members, starts, wpc, using, conn, crash, faults>>

CallStart(c) ==
  /\ Call(c, "start")
  /\ overlapped' = (overlapped \/ \E d \in Controllers : cpc[d] \in StopSteps)
  /\ UNCHANGED dying

CallStop(c) ==
  /\ Call(c, "stop")
  /\ overlapped' = (overlapped \/ \E d \in Controllers : cpc[d] \in StartSteps)
  /\ UNCHANGED dying

\* ~ZigbeeAdapter calls stop.
CallDestructor(c) ==
  /\ Call(c, "stop")
  /\ \A d \in Controllers : cpc[d] = "idle"
  /\ dying' = TRUE
  /\ UNCHANGED overlapped

-----------------------------------------------------------------------------
(* start, with callback_mutex_ locked.                                      *)

\* A start that does not lock callback_mutex_.
StartConnectUnlocked(c) ==
  /\ cpc[c] = "start"
  /\ \/ /\ running
        /\ cpc' = [cpc EXCEPT ![c] = "idle"]
        /\ UNCHANGED <<on_event, client, starts>>
     \/ /\ ~running
        /\ on_event' \in Callbacks
        /\ starts < MaxStarts
        /\ starts' = starts + 1
        /\ client' = starts + 1
        /\ cpc' = [cpc EXCEPT ![c] = "connected"]
  /\ UNCHANGED <<running, worker, wpc, using, conn, dying, crash, overlapped, faults>>

\* An adapter that runs is left alone; otherwise the callback is stored and the
\* client connects.  Its constructor may throw, after on_event_ was replaced.
StartConnect(c) ==
  /\ cpc[c] = "start"
  /\ CallbackMutexFree
  /\ \/ /\ running
        /\ cpc' = [cpc EXCEPT ![c] = "idle"]
        /\ UNCHANGED <<on_event, client, starts>>
     \/ /\ ~running
        /\ on_event' \in Callbacks
        /\ \/ /\ starts < MaxStarts
              /\ starts' = starts + 1
              /\ client' = starts + 1
              /\ cpc' = [cpc EXCEPT ![c] = "connected"]
           \/ /\ cpc' = [cpc EXCEPT ![c] = "idle"]
              /\ UNCHANGED <<client, starts>>
  /\ UNCHANGED <<running, worker, wpc, using, conn, dying, crash, overlapped, faults>>

StartSetRunning(c) ==
  /\ cpc[c] = "connected"
  /\ running' = TRUE
  /\ cpc' = [cpc EXCEPT ![c] = "set"]
  /\ UNCHANGED <<on_event, client, worker, starts, wpc, using, conn,
                 dying, crash, overlapped, faults>>

\* worker_ = std::thread(...): the new thread exists, and assigning it over one
\* that is joinable is std::terminate.
StartSpawn(c) ==
  /\ cpc[c] = "set"
  /\ wpc' = [wpc EXCEPT ![starts] = "lock"]
  /\ crash' = IF worker = None THEN "no" ELSE "joinable"
  /\ worker' = starts
  /\ cpc' = [cpc EXCEPT ![c] = "idle"]
  /\ UNCHANGED <<running, on_event, client, starts, using, conn,
                 dying, overlapped, faults>>

-----------------------------------------------------------------------------
(* stop.                                                                    *)

\* stop returns; after the destructor's stop the members go, and ~thread of a
\* thread that is joinable is std::terminate.
StopReturn(c) ==
  /\ cpc' = [cpc EXCEPT ![c] = "idle"]
  /\ crash' = IF dying /\ worker # None THEN "joinable" ELSE "no"

\* running_ is atomic, so why lock worker_mutex_ to clear it?
StopClearUnlocked(c) ==
  /\ cpc[c] = "stop"
  /\ \/ /\ ~running
        /\ StopReturn(c)
        /\ UNCHANGED running
     \/ /\ running
        /\ running' = FALSE
        /\ cpc' = [cpc EXCEPT ![c] = "cleared"]
        /\ UNCHANGED crash
  /\ UNCHANGED <<on_event, client, worker, starts, wpc, using, conn,
                 dying, overlapped, faults>>

\* A stop that lets go of the client at once.
StopClearResetting(c) ==
  /\ cpc[c] = "stop"
  /\ running
  /\ running' = FALSE
  /\ client' = None
  /\ cpc' = [cpc EXCEPT ![c] = "cleared"]
  /\ UNCHANGED <<on_event, worker, starts, wpc, using, conn, dying, crash,
                 overlapped, faults>>

\* Under worker_mutex_: return if the adapter is not running, or clear running_.
StopClear(c) ==
  /\ cpc[c] = "stop"
  /\ WorkerMutexFree
  /\ \/ /\ ~running
        /\ StopReturn(c)
        /\ UNCHANGED running
     \/ /\ running
        /\ running' = FALSE
        /\ cpc' = [cpc EXCEPT ![c] = "cleared"]
        /\ UNCHANGED crash
  /\ UNCHANGED <<on_event, client, worker, starts, wpc, using, conn,
                 dying, overlapped, faults>>

\* worker_cv_.notify_all()
StopNotify(c) ==
  /\ cpc[c] = "cleared"
  /\ wpc' = [n \in Workers |-> IF wpc[n] = "asleep" THEN "notified" ELSE wpc[n]]
  /\ cpc' = [cpc EXCEPT ![c] = "join"]
  /\ UNCHANGED <<members, starts, using, conn, dying, crash, overlapped, faults>>

\* A stop that does not wait for the worker.
StopJoinDetaching(c) ==
  /\ cpc[c] = "join"
  /\ worker' = None
  /\ cpc' = [cpc EXCEPT ![c] = "reset"]
  /\ UNCHANGED <<running, on_event, client, starts, wpc, using, conn,
                 dying, crash, overlapped, faults>>

\* A stop that forgets to join.
StopJoinForgotten(c) ==
  /\ cpc[c] = "join"
  /\ worker # None => wpc[worker] = "done"
  /\ cpc' = [cpc EXCEPT ![c] = "reset"]
  /\ UNCHANGED <<members, starts, wpc, using, conn, dying, crash, overlapped, faults>>

\* if (worker_.joinable()) worker_.join()
StopJoin(c) ==
  /\ cpc[c] = "join"
  /\ worker # None => wpc[worker] = "done"
  /\ worker' = None
  /\ cpc' = [cpc EXCEPT ![c] = "reset"]
  /\ UNCHANGED <<running, on_event, client, starts, wpc, using, conn,
                 dying, crash, overlapped, faults>>

\* rabbitmq_client_.reset(): closing the channel is a round trip, which returns
\* when the broker answers or the connection is known to be dead.
StopReset(c) ==
  /\ cpc[c] = "reset"
  /\ client # None => conn[client] # "silent"
  /\ client' = None
  /\ StopReturn(c)
  /\ UNCHANGED <<running, on_event, worker, starts, wpc, using, conn,
                 dying, overlapped, faults>>

-----------------------------------------------------------------------------
(* run_loop, on thread n.                                                   *)

WorkerGoto(n, step) == wpc' = [wpc EXCEPT ![n] = step]

WorkerUnchanged == UNCHANGED <<members, starts, cpc, conn, dying, overlapped, faults>>

WorkerLock(n) ==
  /\ wpc[n] = "lock"
  /\ WorkerMutexFree
  /\ WorkerGoto(n, "loop")
  /\ UNCHANGED <<using, crash>>
  /\ WorkerUnchanged

\* while (running_), and the predicate of wait_for before it waits.
WorkerTest(n) ==
  /\ wpc[n] = "loop"
  /\ WorkerGoto(n, IF running THEN "wait" ELSE "done")
  /\ UNCHANGED <<using, crash>>
  /\ WorkerUnchanged

\* wait_for unlocks worker_mutex_ and waits, in one step.
WorkerWait(n) ==
  /\ wpc[n] = "wait"
  /\ WorkerGoto(n, "asleep")
  /\ UNCHANGED <<using, crash>>
  /\ WorkerUnchanged

\* The interval is over, or the wait ends spuriously.
WorkerWake(n) ==
  /\ wpc[n] = "asleep"
  /\ \/ WorkerGoto(n, "timedOut")
     \/ WorkerGoto(n, "notified")
  /\ UNCHANGED <<using, crash>>
  /\ WorkerUnchanged

\* wait_for locks again and returns what the predicate says, unless it was woken
\* before its time and the adapter still runs.
WorkerRelock(n) ==
  /\ wpc[n] \in {"timedOut", "notified"}
  /\ WorkerMutexFree
  /\ \/ ~running /\ WorkerGoto(n, "done")
     \/ running /\ wpc[n] = "timedOut" /\ WorkerGoto(n, "copy")
     \/ running /\ wpc[n] = "notified" /\ WorkerGoto(n, "wait")
  /\ UNCHANGED <<using, crash>>
  /\ WorkerUnchanged

\* callback = on_event_, under callback_mutex_.
WorkerCopyCallback(n) ==
  /\ wpc[n] = "copy"
  /\ CallbackMutexFree
  /\ \/ on_event = "none" /\ WorkerGoto(n, "publish")
     \/ on_event = "plain" /\ WorkerGoto(n, "call")
     \/ on_event = "stops" /\ WorkerGoto(n, "callStops")
  /\ UNCHANGED <<using, crash>>
  /\ WorkerUnchanged

\* callback(event).  One that calls stop waits for worker_mutex_, which its own
\* thread holds: there is no step from "callStops".
WorkerCallback(n) ==
  /\ wpc[n] = "call"
  /\ WorkerGoto(n, "publish")
  /\ UNCHANGED <<using, crash>>
  /\ WorkerUnchanged

\* if (rabbitmq_client_)
WorkerTestClient(n) ==
  /\ wpc[n] = "publish"
  /\ WorkerGoto(n, IF client = None THEN "loop" ELSE "publishing")
  /\ using' = [using EXCEPT ![n] = client]
  /\ UNCHANGED crash
  /\ WorkerUnchanged

\* rabbitmq_client_->publish(...) returns: the declaration it begins with is a
\* round trip, which throws when the connection is known to be dead (nothing
\* catches that) and does not return when it is silently so.
WorkerPublish(n) ==
  /\ wpc[n] = "publishing"
  /\ \/ /\ client # using[n]
        /\ crash' = "freed"
        /\ UNCHANGED wpc
     \/ /\ client = using[n]
        /\ conn[client] = "closed"
        /\ crash' = "uncaught"
        /\ UNCHANGED wpc
     \/ /\ client = using[n]
        /\ conn[client] = "up"
        /\ WorkerGoto(n, "loop")
        /\ UNCHANGED crash
  /\ using' = [using EXCEPT ![n] = None]
  /\ WorkerUnchanged

-----------------------------------------------------------------------------

\* The broker goes, or the network does and nobody is told (no heartbeats).
LoseConnection ==
  /\ client # None
  /\ conn[client] = "up"
  /\ faults < MaxFaults
  /\ faults' = faults + 1
  /\ \E state \in {"closed", "silent"} : conn' = [conn EXCEPT ![client] = state]
  /\ UNCHANGED <<members, starts, cpc, wpc, using, dying, crash, overlapped>>

CallStep(c) ==
  \/ CallStart(c)
  \/ CallStop(c)
  \/ CallDestructor(c)

ControllerStep(c) ==
  \/ StartConnect(c)
  \/ StartSetRunning(c)
  \/ StartSpawn(c)
  \/ StopClear(c)
  \/ StopNotify(c)
  \/ StopJoin(c)
  \/ StopReset(c)

\* What the worker does without waiting for the interval to pass.
WorkerStep(n) ==
  \/ WorkerLock(n)
  \/ WorkerTest(n)
  \/ WorkerWait(n)
  \/ WorkerRelock(n)
  \/ WorkerCopyCallback(n)
  \/ WorkerCallback(n)
  \/ WorkerTestClient(n)
  \/ WorkerPublish(n)

Next ==
  /\ crash = "no"
  /\ \/ \E c \in Controllers : CallStep(c) \/ ControllerStep(c)
     \/ \E n \in Workers : WorkerStep(n) \/ WorkerWake(n)
     \/ LoseConnection

Spec == Init /\ [][Next]_vars

\* A thread that can run does, and none is passed over for ever when a mutex is
\* handed on (worker_mutex_ is free for a whole interval in each turn of the
\* loop).  The interval need not end: WorkerWake is not fair.  Nobody is obliged
\* to call.
Fairness ==
  /\ \A c \in Controllers : SF_vars(crash = "no" /\ ControllerStep(c))
  /\ \A n \in Workers : SF_vars(crash = "no" /\ WorkerStep(n))

FairSpec == Spec /\ Fairness

-----------------------------------------------------------------------------
(* Properties.                                                              *)

\* Every variable has its type, the two mutexes exclude, a thread is alive only
\* after its start, and a client in use is one that was made.
TypeOK ==
  /\ running \in BOOLEAN
  /\ on_event \in {"none"} \cup Callbacks
  /\ client \in 0..starts
  /\ worker \in 0..starts
  /\ starts \in 0..MaxStarts
  /\ cpc \in [Controllers -> {"idle"} \cup StartSteps \cup StopSteps]
  /\ wpc \in [Workers -> {"unborn", "lock", "loop", "wait", "asleep", "timedOut",
                          "notified", "copy", "call", "callStops", "publish",
                          "publishing", "done"}]
  /\ using \in [Workers -> 0..starts]
  /\ conn \in [Workers -> {"up", "closed", "silent"}]
  /\ dying \in BOOLEAN
  /\ crash \in {"no", "joinable", "uncaught", "freed"}
  /\ overlapped \in BOOLEAN
  /\ faults \in 0..MaxFaults
  /\ \A n, k \in Workers : HoldsWorkerMutex(n) /\ HoldsWorkerMutex(k) => n = k
  /\ \A c, d \in Controllers :
       {cpc[c], cpc[d]} \subseteq {"connected", "set"} => c = d
  /\ \A n \in Workers : n > starts => wpc[n] = "unborn" /\ conn[n] = "up"

\* Unless a start and a stop overlap, the process dies of nothing but a publish
\* that throws.  No thread is abandoned: a start never replaces one that was not
\* joined, and neither does the destructor leave one.  And the worker never
\* publishes through a client that stop has destroyed: running_ is cleared while no
\* publish is under way, and tested before the next.
CrashNeedsOverlap == crash \in {"joinable", "freed"} => overlapped

\* Between calls the adapter is all running or all stopped: when it runs, its
\* newest thread lives and has its client; when it does not, every thread has
\* ended, has been joined, and the client is gone (after stop returns there is
\* no further callback).
RunningOrStopped ==
  /\ crash = "no"
  /\ ~overlapped
  /\ \A c \in Controllers : cpc[c] = "idle"
  => IF running
     THEN /\ worker = starts /\ client = starts
          /\ wpc[worker] \notin {"unborn", "done"}
          /\ \A n \in Workers \ {worker} : wpc[n] \in {"unborn", "done"}
     ELSE /\ worker = None /\ client = None
          /\ \A n \in Workers : wpc[n] \in {"unborn", "done"}

\* stop returns, however long the interval: no notification is lost between the
\* worker's test of running_ and its wait.  What can keep stop from returning is
\* a callback that itself calls stop, or a connection that died silently.
StopReturns ==
  \A c \in Controllers :
    cpc[c] \in StopSteps ~>
      \/ cpc[c] \notin StopSteps
      \/ crash # "no"
      \/ \E n \in Workers : wpc[n] = "callStops" \/ conn[n] = "silent"

-----------------------------------------------------------------------------
(* What makes the properties inductive.                                     *)

\* A controller that has begun to change the members.
Midway(c) == cpc[c] \in {"connected", "set", "cleared", "join", "reset"}

Ended(n) == wpc[n] \in {"unborn", "done"}

\* Calls that overlap only with their own kind: of those that start no two, and of
\* those that stop no two, are midway; the destructor's stop is alone.
CallsApart ==
  ~overlapped =>
    /\ \A c, d \in Controllers :
         /\ cpc[c] \in StartSteps => cpc[d] \notin StopSteps
         /\ Midway(c) /\ Midway(d) => c = d
    /\ dying =>
         \A c, d \in Controllers :
           /\ cpc[c] \notin StartSteps
           /\ cpc[c] # "idle" /\ cpc[d] # "idle" => c = d

\* What the members are at each step of a start and of a stop.
Stage(c) ==
  /\ cpc[c] \in {"connected", "set"} => worker = None /\ client = starts /\ starts # 0
  /\ cpc[c] \in {"cleared", "join"} => worker = starts /\ client = starts /\ starts # 0
  /\ cpc[c] = "reset" => worker = None /\ client = starts
  /\ cpc[c] = "set" => running
  /\ cpc[c] \in {"connected", "cleared", "join", "reset"} => ~running

\* Only the newest thread lives, and only while worker_ holds it; it does not end
\* while running_ is set; and it publishes through the client the members hold.
OneThread ==
  /\ \A n \in Workers : ~Ended(n) => n = starts /\ worker = n
  /\ running /\ worker # None => ~Ended(worker)
  /\ \A n \in Workers : wpc[n] = "publishing" => using[n] = client

\* With nobody midway, all is running or all is stopped.
WholeBetween ==
  (\A c \in Controllers : ~Midway(c)) =>
    IF running
    THEN worker = starts /\ client = starts /\ starts # 0
    ELSE worker = None /\ client = None

InStep ==
  ~overlapped /\ crash = "no" =>
    /\ \A c \in Controllers : Stage(c)
    /\ OneThread
    /\ WholeBetween

AdapterInv == CallsApart /\ InStep /\ CrashNeedsOverlap
=============================================================================
