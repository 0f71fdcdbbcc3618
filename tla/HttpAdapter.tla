----------------------------- MODULE HttpAdapter -----------------------------
(***************************************************************************)
(* HttpAdapter (cpp/adapters/src/http_adapter.cpp): a server thread listens *)
(* for POST /events, a pool of threads handles the requests, and all of     *)
(* them publish through one AMQP client.                                   *)
(*                                                                         *)
(* start, stop and the destructor are called by the threads that control   *)
(* the adapter, and stop also by a request's thread, from the callback.  The n-th start *)
(* that connects makes client n, server n and the thread that listens on   *)
(* it.  Of httplib (0.12.6) the module uses that stop has no effect on a   *)
(* server that does not listen yet, and that listen returns once its       *)
(* socket is closed and the requests it accepted are answered.             *)
(***************************************************************************)
EXTENDS Naturals, FiniteSets

CONSTANTS
  Starters,     \* the threads that call start
  Stoppers,     \* the threads that call stop and the destructor
  Requests,     \* the threads of the server's pool
  Callbacks,    \* the kinds of callback passed to start
  MaxStarts,    \* bound: starts that connect
  MaxFaults     \* bound: connections lost

ASSUME HttpAdapterAssumption ==
  /\ {MaxStarts, MaxFaults} \subseteq Nat
  /\ Callbacks \subseteq {"none", "plain", "stops"}
  /\ Requests \cap (Starters \cup Stoppers) = {}
  /\ IsFiniteSet(Requests)   \* the pool has a fixed number of threads

VARIABLES
  adapter,     \* the members: running, on_event, client, server, thread
  starts,      \* starts that connected
  pc,          \* pc[t]: where thread t is
  listen,      \* listen[n]: where the thread of server n is
  via,         \* via[r]: the server and the client of the request r handles
  conn,        \* the connection of the client
  dying,       \* the destructor was called
  crash,       \* how the process died, if it did
  overlapped,  \* a stop was in progress together with a start or a stop
  premature,   \* a stop came before the server listened
  lost,        \* requests answered 200 without their event having been written,
               \* since the client connected
  faults

history == <<overlapped, premature, lost>>
vars == <<adapter, starts, pc, listen, via, conn, dying, crash, history, faults>>

Controllers == Starters \cup Stoppers

Threads == Controllers \cup Requests
Servers == 1..MaxStarts
None    == 0
Inside  == {"declare", "write", "starved"}

NoRequest == [server |-> None, client |-> None]

\* bound: what is lost beyond the most that LossIsBounded allows is not counted
MaxLost == Cardinality(Requests) + 1

OneMoreLost == IF lost < MaxLost THEN lost + 1 ELSE lost

StartSteps == {"start", "connected", "set"}
StopSteps  == {"stop", "clear", "close", "join", "resetClient", "resetServer"}

Init ==
  /\ adapter = [running |-> FALSE, on_event |-> "none",
                client |-> None, server |-> None, thread |-> None]
  /\ starts = 0
  /\ pc = [t \in Threads |-> "idle"]
  /\ listen = [n \in Servers |-> "unborn"]
  /\ via = [r \in Requests |-> NoRequest]
  /\ conn = "up"
  /\ dying = FALSE
  /\ crash = "no"
  /\ overlapped = FALSE /\ premature = FALSE
  /\ lost = 0 /\ faults = 0

Goto(t, step) == pc' = [pc EXCEPT ![t] = step]

\* A mutex that stop took as well.
CallbackMutexFreeOfStop ==
  \A t \in Threads : pc[t] \notin {"connected", "set"} \cup (StopSteps \ {"stop"})

\* No mutex at all.
CallbackMutexMissing == TRUE

\* start holds callback_mutex_ from its first statement to its last.
CallbackMutexFree == \A t \in Threads : pc[t] \notin {"connected", "set"}

-----------------------------------------------------------------------------
(* Calls.  Nothing keeps two controllers from calling at once; but nobody   *)
(* calls an adapter that is destroyed.                                      *)

Call(t, step, conflicting) ==
  /\ Goto(t, step)
  /\ overlapped' = (overlapped \/ \E u \in Threads : pc[u] \in conflicting)
  /\ UNCHANGED <<adapter, starts, listen, via, conn, crash, premature, lost, faults>>

CallStart(c) ==
  /\ pc[c] = "idle"
  /\ ~dying
  /\ Call(c, "start", StopSteps)
  /\ UNCHANGED dying

CallStop(c) ==
  /\ pc[c] = "idle"
  /\ ~dying
  /\ Call(c, "stop", StartSteps \cup StopSteps)
  /\ UNCHANGED dying

\* ~HttpAdapter calls stop.
CallDestructor(c) ==
  /\ \A d \in Controllers : pc[d] = "idle"
  /\ ~dying
  /\ Call(c, "stop", StartSteps \cup StopSteps)
  /\ dying' = TRUE

-----------------------------------------------------------------------------
(* start, with callback_mutex_ locked.                                      *)

\* An adapter that runs is left alone; otherwise the callback is stored and the
\* client connects.  Its constructor may throw, after on_event_ was replaced.
StartConnect(c) ==
  /\ pc[c] = "start"
  /\ CallbackMutexFree
  /\ \/ /\ adapter.running
        /\ Goto(c, "idle")
        /\ UNCHANGED <<adapter, starts, conn, lost>>
     \/ /\ ~adapter.running
        /\ \E callback \in Callbacks :
             \/ /\ starts < MaxStarts
                /\ starts' = starts + 1
                /\ adapter' = [adapter EXCEPT !.on_event = callback, !.client = starts + 1]
                /\ conn' = "up"
                /\ lost' = 0
                /\ Goto(c, "connected")
             \/ /\ adapter' = [adapter EXCEPT !.on_event = callback]
                /\ Goto(c, "idle")
                /\ UNCHANGED <<starts, conn, lost>>
  /\ UNCHANGED <<listen, via, dying, crash, overlapped, premature, faults>>

\* The new server replaces one that a concurrent stop has not got rid of, whose
\* thread may still be in it.
StartServer(c) ==
  /\ pc[c] = "connected"
  /\ crash' = IF adapter.server # None /\ listen[adapter.server] # "done"
              THEN "freed" ELSE "no"
  /\ adapter' = [adapter EXCEPT !.server = starts, !.running = TRUE]
  /\ Goto(c, "set")
  /\ UNCHANGED <<starts, listen, via, conn, dying, history, faults>>

\* server_thread_ = std::thread(...): the new thread exists, and assigning it
\* over one that is joinable is std::terminate.
StartSpawn(c) ==
  /\ pc[c] = "set"
  /\ crash' = IF adapter.thread # None THEN "joinable" ELSE "no"
  /\ adapter' = [adapter EXCEPT !.thread = starts]
  /\ listen' = [listen EXCEPT ![starts] = "born"]
  /\ Goto(c, "idle")
  /\ UNCHANGED <<starts, via, conn, dying, history, faults>>

-----------------------------------------------------------------------------
(* stop, which takes no lock.                                               *)

\* stop returns: to the callback it was called from, to a controller, or to the
\* destructor, which destroys the members and so a thread that is joinable.
StopReturn(t) ==
  /\ Goto(t, IF t \in Requests THEN "test" ELSE "idle")
  /\ crash' = IF dying /\ t \in Controllers /\ adapter.thread # None
              THEN "joinable" ELSE "no"

StopTest(t) ==
  /\ pc[t] = "stop"
  /\ \/ ~adapter.running /\ StopReturn(t)
     \/ adapter.running /\ Goto(t, "clear") /\ UNCHANGED crash
  /\ UNCHANGED <<adapter, starts, listen, via, conn, dying, history, faults>>

StopClear(t) ==
  /\ pc[t] = "clear"
  /\ adapter' = [adapter EXCEPT !.running = FALSE]
  /\ Goto(t, "close")
  /\ UNCHANGED <<starts, listen, via, conn, dying, crash, history, faults>>

\* A stop that counts on the destructor of the server to close its socket.
StopServerForgotten(t) ==
  /\ pc[t] = "close"
  /\ Goto(t, "join")
  /\ UNCHANGED <<adapter, starts, listen, via, conn, dying, crash, history, faults>>

\* server_->stop()
StopServer(t) ==
  /\ pc[t] = "close"
  /\ LET n == adapter.server
     IN  /\ listen' = [k \in Servers |->
                         IF k = n /\ listen[k] = "listening" THEN "closed" ELSE listen[k]]
         /\ premature' = (premature \/ (n # None /\ listen[n] \in {"unborn", "born"}))
  /\ Goto(t, "join")
  /\ UNCHANGED <<adapter, starts, via, conn, dying, crash, overlapped, lost, faults>>

\* A stop that does not wait for the requests.
StopJoinDetaching(t) ==
  /\ pc[t] = "join"
  /\ adapter' = [adapter EXCEPT !.thread = None]
  /\ Goto(t, "resetClient")
  /\ UNCHANGED <<starts, listen, via, conn, dying, crash, history, faults>>

\* if (server_thread_.joinable()) server_thread_.join(): undefined for two
\* threads at once.
StopJoin(t) ==
  /\ pc[t] = "join"
  /\ \/ /\ adapter.thread # None => listen[adapter.thread] = "done"
        /\ adapter' = [adapter EXCEPT !.thread = None]
        /\ Goto(t, "resetClient")
        /\ UNCHANGED crash
     \/ /\ adapter.thread # None
        /\ \E u \in Threads \ {t} : pc[u] = "join"
        /\ crash' = "joinedTwice"
        /\ UNCHANGED <<adapter, pc>>
  /\ UNCHANGED <<starts, listen, via, conn, dying, history, faults>>

\* A stop that keeps the client for the next start.
StopResetClientKeeping(t) ==
  /\ pc[t] = "resetClient"
  /\ Goto(t, "resetServer")
  /\ UNCHANGED <<adapter, starts, listen, via, conn, dying, crash, history, faults>>

\* rabbitmq_client_.reset(): closing the channel is a round trip, which returns
\* when the broker answers or the connection is known to be dead.
StopResetClient(t) ==
  /\ pc[t] = "resetClient"
  /\ adapter.client # None => conn # "silent"
  /\ adapter' = [adapter EXCEPT !.client = None]
  /\ Goto(t, "resetServer")
  /\ UNCHANGED <<starts, listen, via, conn, dying, crash, history, faults>>

\* server_.reset()
StopResetServer(t) ==
  /\ pc[t] = "resetServer"
  /\ adapter' = [adapter EXCEPT !.server = None]
  /\ IF adapter.server # None /\ listen[adapter.server] # "done"
     THEN crash' = "freed" /\ UNCHANGED pc
     ELSE StopReturn(t)
  /\ UNCHANGED <<starts, listen, via, conn, dying, history, faults>>

-----------------------------------------------------------------------------
(* The server.                                                              *)

ListenGoto(n, step) ==
  /\ listen' = [listen EXCEPT ![n] = step]
  /\ UNCHANGED <<adapter, starts, pc, via, conn, dying, crash, history, faults>>

\* listen binds the port, or returns because it cannot: the adapter then runs
\* without a server.
ListenBegin(n) ==
  /\ listen[n] = "born"
  /\ ListenGoto(n, "listening") \/ ListenGoto(n, "done")

\* listen returns when its socket is closed and the pool has nothing to do.
ListenEnd(n) ==
  /\ listen[n] = "closed"
  /\ \A r \in Requests : via[r].server = n => pc[r] = "idle"
  /\ ListenGoto(n, "done")

\* A thread of the pool gets a request.  One whose body is not the JSON object
\* of an event of protocol http is answered 400, which changes nothing here.
Accept(r) ==
  /\ pc[r] = "idle"
  /\ \E n \in Servers :
       /\ listen[n] = "listening"
       /\ via' = [via EXCEPT ![r].server = n]
  /\ Goto(r, "copy")
  /\ UNCHANGED <<adapter, starts, listen, conn, dying, crash, history, faults>>

-----------------------------------------------------------------------------
(* handle_post_events for an event.                                         *)

Answer(r) ==
  /\ Goto(r, "idle")
  /\ via' = [via EXCEPT ![r] = NoRequest]

\* callback = on_event_, under callback_mutex_.
CopyCallback(r) ==
  /\ pc[r] = "copy"
  /\ CallbackMutexFree
  /\ Goto(r, IF adapter.on_event = "none" THEN "test" ELSE adapter.on_event)
  /\ UNCHANGED <<adapter, starts, listen, via, conn, dying, crash, history, faults>>

\* callback(event) returns or throws, and is answered 400; or it calls stop.
RunCallback(r) ==
  \/ /\ pc[r] = "plain"
     /\ \/ Goto(r, "test") /\ UNCHANGED via
        \/ Answer(r)
     /\ UNCHANGED <<adapter, starts, listen, conn, dying, crash, history, faults>>
  \/ /\ pc[r] = "stops"
     /\ Call(r, "stop", StartSteps \cup StopSteps)
     /\ UNCHANGED dying

\* A client that is remembered to have declared the queue.
TestClientDeclared(r) ==
  /\ pc[r] = "test"
  /\ adapter.client # None
  /\ Goto(r, "write")
  /\ via' = [via EXCEPT ![r].client = adapter.client]
  /\ UNCHANGED <<adapter, starts, listen, conn, dying, crash, history, faults>>

\* if (rabbitmq_client_): without a client there is a 200 and nothing published.
TestClient(r) ==
  /\ pc[r] = "test"
  /\ \/ /\ adapter.client = None
        /\ Answer(r)
        /\ lost' = OneMoreLost
     \/ /\ adapter.client # None
        /\ Goto(r, "declare")
        /\ via' = [via EXCEPT ![r].client = adapter.client]
        /\ UNCHANGED lost
  /\ UNCHANGED <<adapter, starts, listen, conn, dying, crash, overlapped, premature, faults>>

\* What may come of using the client: it is gone; or another thread is in it,
\* which is undefined: the process dies, or the connection does, or the other
\* thread reads the reply this one waits for.
MisuseClient(r) ==
  /\ pc[r] \in Inside
  /\ \/ /\ adapter.client # via[r].client
        /\ crash' = "freed"
        /\ UNCHANGED <<pc, conn>>
     \/ /\ adapter.client = via[r].client
        /\ \E q \in Requests \ {r} : pc[q] \in Inside
        /\ \/ crash' = "raced" /\ UNCHANGED <<pc, conn>>
           \/ conn' = "closed" /\ UNCHANGED <<pc, crash>>
           \/ pc[r] = "declare" /\ Goto(r, "starved") /\ UNCHANGED <<conn, crash>>
  /\ UNCHANGED <<adapter, starts, listen, via, dying, history, faults>>

\* declare_queue is a round trip.  On a connection that is known to be dead it
\* throws, and the request is answered 400; on one that died silently, and for a
\* request whose reply another has read, it does not return.
DeclareQueue(r) ==
  /\ adapter.client = via[r].client
  /\ \/ pc[r] = "declare" /\ conn = "up" /\ Goto(r, "write") /\ UNCHANGED via
     \/ pc[r] \in {"declare", "starved"} /\ conn = "closed" /\ Answer(r)
  /\ UNCHANGED <<adapter, starts, listen, conn, dying, crash, history, faults>>

\* The reply to a later declare wakes a request that was left waiting, and now the
\* later one waits.
TakeReply(r) ==
  /\ pc[r] = "starved" /\ conn = "up"
  /\ adapter.client = via[r].client
  /\ \E q \in Requests :
       /\ pc[q] = "declare" /\ via[q].client = via[r].client
       /\ pc' = [pc EXCEPT ![r] = "write", ![q] = "starved"]
  /\ UNCHANGED <<adapter, starts, listen, via, conn, dying, crash, history, faults>>

\* amqp_basic_publish: if it fails, that is logged, and the request answered 200.
BasicPublish(r) ==
  /\ pc[r] = "write"
  /\ adapter.client = via[r].client
  /\ lost' = IF conn = "up" THEN lost ELSE OneMoreLost
  /\ Answer(r)
  /\ UNCHANGED <<adapter, starts, listen, conn, dying, crash, overlapped, premature, faults>>

-----------------------------------------------------------------------------

\* The broker goes, or the network does and nobody is told (no heartbeats).
LoseConnection ==
  /\ adapter.client # None
  /\ conn = "up"
  /\ faults < MaxFaults
  /\ faults' = faults + 1
  /\ conn' \in {"closed", "silent"}
  /\ UNCHANGED <<adapter, starts, pc, listen, via, dying, crash, history>>

StartStep(c) == StartConnect(c) \/ StartServer(c) \/ StartSpawn(c)

StopStep(t) ==
  \/ StopTest(t)
  \/ StopClear(t)
  \/ StopServer(t)
  \/ StopJoin(t)
  \/ StopResetClient(t)
  \/ StopResetServer(t)

ServerStep(n) == ListenBegin(n) \/ ListenEnd(n)

RequestStep(r) ==
  \/ CopyCallback(r)
  \/ RunCallback(r)
  \/ TestClient(r)
  \/ DeclareQueue(r)
  \/ BasicPublish(r)

Next ==
  /\ crash = "no"
  /\ \/ \E c \in Starters : CallStart(c) \/ StartStep(c)
     \/ \E c \in Stoppers : CallStop(c) \/ CallDestructor(c)
     \/ \E t \in Threads : StopStep(t)
     \/ \E n \in Servers : ServerStep(n)
     \/ \E r \in Requests : Accept(r) \/ RequestStep(r) \/ MisuseClient(r) \/ TakeReply(r)
     \/ LoseConnection

Spec == Init /\ [][Next]_vars

\* A thread that can run does.  Nobody is obliged to call or to send a request.
Fairness ==
  /\ \A c \in Starters : WF_vars(crash = "no" /\ StartStep(c))
  /\ \A t \in Threads : WF_vars(crash = "no" /\ StopStep(t))
  /\ \A n \in Servers : WF_vars(crash = "no" /\ ServerStep(n))
  /\ \A r \in Requests : WF_vars(crash = "no" /\ RequestStep(r))

FairSpec == Spec /\ Fairness

-----------------------------------------------------------------------------
(* Properties.                                                              *)

\* Every variable has its type, callback_mutex_ excludes, and a server that
\* listens has been started.
TypeOK ==
  /\ adapter \in [running : BOOLEAN, on_event : {"none"} \cup Callbacks,
                  client : 0..starts, server : 0..starts, thread : 0..starts]
  /\ starts \in 0..MaxStarts
  /\ pc \in [Threads -> {"idle", "copy", "plain", "stops", "test"}
                          \cup StartSteps \cup StopSteps \cup Inside]
  /\ listen \in [Servers -> {"unborn", "born", "listening", "closed", "done"}]
  /\ via \in [Requests -> [server : 0..starts, client : 0..starts]]
  /\ conn \in {"up", "closed", "silent"}
  /\ crash \in {"no", "joinable", "joinedTwice", "freed", "raced"}
  /\ {dying, overlapped, premature} \subseteq BOOLEAN
  /\ lost \in 0..MaxLost
  /\ faults \in 0..MaxFaults
  /\ \A c, d \in Controllers : {pc[c], pc[d]} \subseteq {"connected", "set"} => c = d
  /\ \A n \in Servers : n > starts => listen[n] = "unborn"

\* Unless a stop overlaps another call of start or stop, the process dies of
\* nothing but two requests that meet in the client: stop waits for the requests
\* before it destroys what they use, and no thread is abandoned.
CrashNeedsOverlap == crash \notin {"no", "raced"} => overlapped

\* Between calls the adapter is all running or all stopped: when it runs it has
\* the newest client, server and thread; when it does not, no server listens, no
\* request is being handled, and the client is gone.
RunningOrStopped ==
  /\ crash = "no"
  /\ ~overlapped
  /\ \A t \in Threads : pc[t] \notin StartSteps \cup StopSteps
  => IF adapter.running
     THEN /\ {adapter.client, adapter.server, adapter.thread} = {starts}
          /\ listen[starts] \in {"born", "listening", "done"}
     ELSE /\ {adapter.client, adapter.server, adapter.thread} = {None}
          /\ \A n \in Servers : listen[n] \in {"unborn", "done"}
          /\ \A r \in Requests : pc[r] = "idle"

\* A connection that is lost costs at most one event for each request under way:
\* any later one is answered 400, because publish begins with a round trip.
LossIsBounded ==
  ~overlapped =>
    lost <= IF conn = "up" THEN 0 ELSE Cardinality(Requests)

\* What may keep a thread waiting for ever: a connection that died silently; a
\* reply that another request has read, on a connection that is up; or a callback
\* that called stop, which waits for the request it was called from.
Excused ==
  \/ crash # "no"
  \/ conn = "silent"
  \/ \E r \in Requests : pc[r] \in StopSteps \cup {"starved"}

\* Every request is answered, also one that is under way when stop is called: stop
\* waits for it without the mutex it needs.  And stop returns, unless it came before
\* the server listened, and so waits for a thread that listens for ever, or overlaps
\* another start or stop.  An excuse that passes is none: what keeps a thread from
\* its end must be there from some moment on.
RequestsAndStopsEnd ==
  /\ \A r \in Requests : pc[r] # "idle" ~> (pc[r] = "idle" \/ []Excused)
  /\ \A c \in Stoppers :
       pc[c] \in StopSteps ~> (pc[c] \notin StopSteps \/ premature \/ overlapped \/ []Excused)

-----------------------------------------------------------------------------
(* What makes the properties inductive.                                     *)

\* A thread that has begun to change the members.
Midway(t) == pc[t] \in {"connected", "set", "clear", "close", "join",
                        "resetClient", "resetServer"}

\* Requests do not start the adapter; a stop is alone, and of those that start no
\* two are midway.
CallsApart ==
  /\ \A r \in Requests : pc[r] \notin StartSteps
  /\ ~overlapped =>
       \A t, u \in Threads :
         /\ pc[t] \in StopSteps => pc[u] \notin StartSteps
         /\ pc[t] \in StopSteps /\ pc[u] \in StopSteps => t = u
         /\ Midway(t) /\ Midway(u) => t = u

\* What the members are at each step of a start and of a stop.
Stage(t) ==
  /\ Midway(t) => starts # 0 /\ (adapter.running <=> pc[t] \in {"set", "clear"})
  /\ pc[t] \in {"connected", "set"} => adapter.thread = None /\ adapter.client = starts
  /\ pc[t] = "connected" => adapter.server = None
  /\ pc[t] = "set" => adapter.server = starts
  /\ pc[t] \in {"clear", "close", "join"} => adapter.thread = starts
  /\ pc[t] \in {"resetClient", "resetServer"} =>
       adapter.thread = None /\ adapter.server = starts /\ listen[starts] = "done"
  /\ pc[t] = "resetServer" => adapter.client = None

\* Only the newest server has a thread that lives, which server_thread_ holds, and
\* its socket is closed only by a stop.
OneServer ==
  /\ adapter.thread # None =>
       /\ {adapter.thread, adapter.server, adapter.client} = {starts}
       /\ listen[adapter.thread] # "unborn"
  /\ \A n \in Servers : listen[n] \notin {"unborn", "done"} => adapter.thread = n
  /\ \A n \in Servers : listen[n] = "closed" => ~adapter.running

\* A request came through a server whose thread lives, and the client it is in is
\* the one the members hold.
OneClient ==
  \A r \in Requests :
    /\ pc[r] # "idle" =>
         \E n \in Servers : via[r].server = n /\ listen[n] \in {"listening", "closed"}
    /\ pc[r] \in Inside => via[r].client = adapter.client

\* With nobody midway, all is running or all is stopped.
WholeBetween ==
  (\A t \in Threads : ~Midway(t)) =>
    IF adapter.running
    THEN adapter.thread = starts /\ starts # 0
    ELSE {adapter.thread, adapter.server, adapter.client} = {None}

InStep ==
  ~overlapped /\ crash = "no" =>
    /\ \A t \in Threads : Stage(t)
    /\ OneServer /\ OneClient /\ WholeBetween

\* Once the connection is lost no request gets to its write, and each that is there
\* loses one event.
Writing == {r \in Requests : pc[r] = "write"}

LossesToCome ==
  ~overlapped =>
    IF conn = "up" THEN lost = 0
                   ELSE lost + Cardinality(Writing) <= Cardinality(Requests)

AdapterInv == CallsApart /\ InStep /\ CrashNeedsOverlap /\ LossesToCome
=============================================================================
