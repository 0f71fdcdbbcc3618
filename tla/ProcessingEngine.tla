--------------------------- MODULE ProcessingEngine ---------------------------
(***************************************************************************)
(* ProcessingEngineImpl (cpp/processing/src/processing_engine.cpp) with the *)
(* RulesLoader that fills it: threads load rules, evaluate events and       *)
(* replace the publisher, each making a given sequence of calls.            *)
(*                                                                         *)
(* load_rules and evaluate hold rules_mutex_; set_publisher does not.  The  *)
(* callback runs, and the publisher publishes, while evaluate holds it.     *)
(* What a rule decides of an event is a constant operator here: it is what  *)
(* RuleMatching computes, and the engine is proved about whatever that is.  *)
(***************************************************************************)
EXTENDS JsonRules

CONSTANTS
  Threads,     \* the threads that use the engine
  Publishers,  \* the publishers it may be given
  Programs,    \* the programs considered: the publisher that the engine is made
               \* with and, for each thread, the calls it makes
  None,        \* no thread, no publisher
  Verdict(_, _)  \* Verdict(event, rule): whether the rule matches, or throws

\* The calls: the rules of a file are loaded; an event is evaluated with a
\* callback that is not there, returns, throws, or calls the engine again; the
\* publisher is replaced.
LoadFile(file)            == [op |-> "load", file |-> file]
Evaluate(event, callback) == [op |-> "evaluate", event |-> event, callback |-> callback]
SetTo(publisher)          == [op |-> "publisher", publisher |-> publisher]

Callbacks == {"none", "returns", "throws", "calls"}

Calls ==
  [op : {"load"}, file : Seq(Entries)]
    \cup [op : {"evaluate"}, event : Events, callback : Callbacks]
    \cup [op : {"publisher"}, publisher : Publishers \cup {None}]

ASSUME ProcessingEngineAssumption ==
  /\ None \notin Threads \cup Publishers
  /\ \A program \in Programs :
       /\ program.publisher \in Publishers \cup {None}
       /\ program.calls \in [Threads -> Seq(Calls)]

VARIABLES
  todo,       \* todo[t]: the calls thread t has yet to make
  pc,         \* pc[t]: where t is in its call
  call,       \* call[t]: its call, or the last one
  mutex,      \* the thread that holds rules_mutex_
  rules,      \* rules_
  publisher,  \* publisher_
  rule,       \* the index of the rule that evaluate is at
  using,      \* using[t]: the publisher t is in
  crash,      \* how the process died, if it did
  raised,     \* raised[t]: the ids of the rules that t's evaluation found to match
  ended,      \* ended[t]: how it ended
  file,       \* the rules as they stood in the file of the last load
  inForce,    \* inForce[t]: the values of file since t's call began
  replaced    \* whether the publisher was replaced during an evaluation

engine  == <<mutex, rules, publisher, rule>>
history == <<raised, ended, file, inForce, replaced>>
vars == <<todo, pc, call, engine, using, crash, history>>

Init ==
  /\ \E program \in Programs :
       publisher = program.publisher /\ todo = program.calls
  /\ pc = [t \in Threads |-> "idle"]
  /\ call = [t \in Threads |-> SetTo(None)]
  /\ mutex = None
  /\ rules = <<>> /\ file = <<>>
  /\ rule = 0
  /\ using = [t \in Threads |-> None]
  /\ crash = "no"
  /\ raised = [t \in Threads |-> <<>>]
  /\ ended = [t \in Threads |-> "no"]
  /\ inForce = [t \in Threads |-> {}]
  /\ replaced = FALSE

Goto(t, step) == pc' = [pc EXCEPT ![t] = step]

Begin(t) ==
  /\ pc[t] = "idle"
  /\ todo[t] # <<>>
  /\ todo' = [todo EXCEPT ![t] = Tail(@)]
  /\ call' = [call EXCEPT ![t] = Head(todo[t])]
  /\ Goto(t, Head(todo[t]).op)
  /\ raised' = [raised EXCEPT ![t] = <<>>]
  /\ ended' = [ended EXCEPT ![t] = "no"]
  /\ inForce' = [inForce EXCEPT ![t] = {file}]
  /\ UNCHANGED <<engine, using, crash, file, replaced>>

\* A loader that keeps what it could not read.
LoadUnchecked(t) ==
  /\ pc[t] = "load"
  /\ mutex = None
  /\ rules' = [k \in DOMAIN call[t].file |-> Loaded(call[t].file[k])]
  /\ file' = call[t].file
  /\ Goto(t, "idle")
  /\ UNCHANGED <<todo, call, mutex, publisher, rule, using, crash, raised, ended, inForce,
                 replaced>>

\* A load_rules that does not lock.
LoadUnlocked(t) ==
  /\ pc[t] = "load"
  /\ \A k \in DOMAIN call[t].file : Loads(call[t].file[k])
  /\ rules' = [k \in DOMAIN call[t].file |-> Loaded(call[t].file[k])]
  /\ file' = call[t].file
  /\ inForce' = [u \in Threads |-> inForce[u] \cup {call[t].file}]
  /\ Goto(t, "idle")
  /\ UNCHANGED <<todo, call, mutex, publisher, rule, using, crash, raised, ended, replaced>>

\* load_from_json_file and load_rules: one rule that cannot be read makes the
\* loader throw, and the engine keeps the rules it has.
Load(t) ==
  /\ pc[t] = "load"
  /\ \/ /\ \E k \in DOMAIN call[t].file : ~Loads(call[t].file[k])
        /\ UNCHANGED <<rules, file, inForce>>
     \/ /\ \A k \in DOMAIN call[t].file : Loads(call[t].file[k])
        /\ mutex = None
        /\ rules' = [k \in DOMAIN call[t].file |-> Loaded(call[t].file[k])]
        /\ file' = call[t].file
        /\ inForce' = [u \in Threads |-> inForce[u] \cup {call[t].file}]
  /\ Goto(t, "idle")
  /\ UNCHANGED <<todo, call, mutex, publisher, rule, using, crash, raised, ended, replaced>>

\* The publisher that is replaced is destroyed with it, unless someone else holds it.
SetPublisher(t) ==
  /\ pc[t] = "publisher"
  /\ publisher' = call[t].publisher
  /\ replaced' = (replaced \/ mutex # None)
  /\ Goto(t, "idle")
  /\ UNCHANGED <<todo, call, mutex, rules, rule, using, crash, raised, ended, file, inForce>>

-----------------------------------------------------------------------------
(* evaluate.                                                                *)

\* An exception that passes by an unlock.
EndEvaluationLocked(t, how) ==
  /\ mutex' = IF how = "returned" THEN None ELSE mutex
  /\ ended' = [ended EXCEPT ![t] = how]
  /\ Goto(t, "idle")

\* The lock is released on every way out of evaluate.
EndEvaluation(t, how) ==
  /\ mutex' = None
  /\ ended' = [ended EXCEPT ![t] = how]
  /\ Goto(t, "idle")

LockRules(t) ==
  /\ pc[t] = "evaluate"
  /\ mutex = None
  /\ mutex' = t
  /\ rule' = 1
  /\ Goto(t, "rule")
  /\ UNCHANGED <<todo, call, rules, publisher, using, crash, history>>

\* matches_rule for the rule at hand, and the alarm of one that matches.
EvaluateRule(t) ==
  /\ pc[t] = "rule"
  /\ \/ /\ rule > Len(rules)
        /\ EndEvaluation(t, "returned")
        /\ UNCHANGED <<rule, raised>>
     \/ /\ rule <= Len(rules)
        /\ LET verdict == Verdict(call[t].event, rules[rule])
           IN  \/ /\ verdict = "nomatch"
                  /\ rule' = rule + 1
                  /\ UNCHANGED <<pc, mutex, raised, ended>>
               \/ /\ verdict = "throw"
                  /\ EndEvaluation(t, "rule")
                  /\ UNCHANGED <<rule, raised>>
               \/ /\ verdict = "match"
                  /\ raised' = [raised EXCEPT ![t] = Append(@, rules[rule].id)]
                  /\ Goto(t, "callback")
                  /\ UNCHANGED <<mutex, rule, ended>>
  /\ UNCHANGED <<todo, call, rules, publisher, using, crash, file, inForce, replaced>>

\* if (on_alarm) on_alarm(alarm).  A callback that calls load_rules or evaluate
\* waits for the mutex that its own thread holds: there is no step then.
RunCallback(t) ==
  /\ pc[t] = "callback"
  /\ \/ /\ call[t].callback \in {"none", "returns"}
        /\ Goto(t, "test")
        /\ UNCHANGED <<mutex, ended>>
     \/ /\ call[t].callback = "throws"
        /\ EndEvaluation(t, "callback")
  /\ UNCHANGED <<todo, call, rules, publisher, rule, using, crash, raised, file, inForce,
                 replaced>>

\* An evaluate that takes its publisher for granted.
TestPublisherGranted(t) ==
  /\ pc[t] = "test"
  /\ Goto(t, "publish")
  /\ UNCHANGED <<todo, call, mutex, rules, publisher, rule, using, crash, history>>

\* if (publisher_)
TestPublisher(t) ==
  /\ pc[t] = "test"
  /\ \/ publisher = None /\ Goto(t, "rule") /\ rule' = rule + 1
     \/ publisher # None /\ Goto(t, "publish") /\ UNCHANGED rule
  /\ UNCHANGED <<todo, call, mutex, rules, publisher, using, crash, history>>

\* An evaluate that publishes without the lock.
PublishUnlocked(t) ==
  /\ pc[t] = "publish"
  /\ IF publisher = None THEN crash' = "null" /\ UNCHANGED <<pc, using, mutex>>
     ELSE /\ using' = [using EXCEPT ![t] = publisher]
          /\ Goto(t, "publishing")
          /\ mutex' = None
          /\ UNCHANGED crash
  /\ UNCHANGED <<todo, call, rules, publisher, rule, history>>

\* publisher_->publish(...) is entered, through a pointer read once more.
Publish(t) ==
  /\ pc[t] = "publish"
  /\ IF publisher = None THEN crash' = "null" /\ UNCHANGED <<pc, using, mutex>>
     ELSE /\ using' = [using EXCEPT ![t] = publisher]
          /\ Goto(t, "publishing")
          /\ UNCHANGED <<crash, mutex>>
  /\ UNCHANGED <<todo, call, rules, publisher, rule, history>>

\* publish returns or throws; a publisher that was replaced meanwhile may be gone.
PublishReturn(t) ==
  /\ pc[t] = "publishing"
  /\ using' = [using EXCEPT ![t] = None]
  /\ \/ /\ publisher # using[t]
        /\ crash' = "freed"
        /\ UNCHANGED <<pc, mutex, rule, ended>>
     \/ /\ rule' = rule + 1
        /\ Goto(t, "rule")
        /\ UNCHANGED <<crash, mutex, ended>>
     \/ /\ EndEvaluation(t, "publisher")
        /\ UNCHANGED <<crash, rule>>
  /\ UNCHANGED <<todo, call, rules, publisher, raised, file, inForce, replaced>>

Step(t) ==
  \/ Begin(t)
  \/ Load(t)
  \/ SetPublisher(t)
  \/ LockRules(t)
  \/ EvaluateRule(t)
  \/ RunCallback(t)
  \/ TestPublisher(t)
  \/ Publish(t)
  \/ PublishReturn(t)

Next == crash = "no" /\ \E t \in Threads : Step(t)

Spec == Init /\ [][Next]_vars

\* A thread that can run does, and none is passed over for ever when the mutex is
\* handed on.
FairSpec == Spec /\ \A t \in Threads : SF_vars(crash = "no" /\ Step(t))

-----------------------------------------------------------------------------
(* Properties.                                                              *)

InEvaluate == {"rule", "callback", "test", "publish", "publishing"}

\* Every rule the engine holds has the types that the loader checks, and
\* rules_mutex_ is held exactly by a thread that is in evaluate.
TypeOK ==
  /\ pc \in [Threads -> {"idle", "load", "evaluate", "publisher"} \cup InEvaluate]
  /\ mutex \in Threads \cup {None}
  /\ publisher \in Publishers \cup {None}
  /\ using \in [Threads -> Publishers \cup {None}]
  /\ rule \in Nat
  /\ crash \in {"no", "null", "freed"}
  /\ ended \in [Threads -> {"no", "returned", "rule", "callback", "publisher"}]
  /\ \A k \in DOMAIN rules :
       /\ Is("str", rules[k].id) /\ Is("str", rules[k].event_type)
       /\ Is("obj", rules[k].condition)
       /\ rules[k].enabled \in BOOLEAN
  /\ \A t \in Threads : pc[t] \in InEvaluate <=> mutex = t

\* Thread t has evaluated an event and done nothing since.
Evaluated(t) == pc[t] = "idle" /\ ended[t] # "no"

\* What a rule, as it stands in the file, decides of an event.
Decides(event, json) == Verdict(event, Loaded(json))

\* ids are those of the rules that match among the first n of source, in order.
AlarmsOf(ids, event, source, n) ==
  \E at \in [DOMAIN ids -> 1..n] :
    /\ \A i, j \in DOMAIN ids : i < j => at[i] < at[j]
    /\ {at[i] : i \in DOMAIN ids} = {k \in 1..n : Decides(event, source[k]) = "match"}
    /\ \A i \in DOMAIN ids : ids[i] = source[at[i]].id

\* What ends an evaluation once the first n rules of source are dealt with.
EndsAfter(how, event, source, n) ==
  /\ how = "returned" => n = Len(source)
  /\ how = "rule" => n < Len(source) /\ Decides(event, source[n + 1]) = "throw"
  /\ how \in {"callback", "publisher"} => n > 0 /\ Decides(event, source[n]) = "match"

\* An evaluation raises the alarms that one set of rules calls for, one that was
\* in force at some moment of the call, in the order of the rules: no evaluation
\* sees rules of two files or a part of a file ("rule updates are atomic from the
\* evaluator's perspective", README.md of the processing service).  One that an
\* exception ends has raised the alarms of the rules before, with the one that the
\* callback or the publisher threw at; and it is a rule that throws itself, not one
\* behind it, that keeps the others from being looked at.
AlarmsOfOneRuleSet ==
  \A t \in Threads : Evaluated(t) =>
    \E source \in inForce[t] : \E n \in 0..Len(source) :
      /\ AlarmsOf(raised[t], call[t].event, source, n)
      /\ EndsAfter(ended[t], call[t].event, source, n)

\* Two threads are never in one publisher.
PublisherNotShared ==
  \A t, u \in Threads : using[t] # None /\ using[t] = using[u] => t = u

\* The process dies of its publisher only if that was replaced during an evaluation.
CrashNeedsReplacement == crash # "no" => replaced

\* A publisher is never in use by two threads, however many evaluate at once: the
\* lock of evaluate is what keeps AmqpRabbitMQPublisher, which has none, from
\* being shared.  And publisher_ is tested, then read again, and used without a share
\* of its ownership; nothing comes of it, neither a call through a null pointer nor
\* one into a publisher that is gone, unless set_publisher, which takes no lock, was
\* called during an evaluation.
PublisherSafe == PublisherNotShared /\ CrashNeedsReplacement

\* Every call returns, also after callbacks, rules and publishers that throw;
\* unless a callback calls the engine, which then waits for itself with the lock
\* held, or the publisher was replaced while in use.
CallsReturn ==
  \A t \in Threads :
    pc[t] # "idle" ~>
      \/ pc[t] = "idle"
      \/ crash # "no"
      \/ \E u \in Threads : pc[u] = "callback" /\ call[u].callback = "calls"
-----------------------------------------------------------------------------
(* An inductive invariant.                                                  *)

\* The rules are those of the last file that was loaded, all of which loads; the
\* file has been in force in every call that is being made.
RulesAreLoaded ==
  /\ file \in Seq(Entries)
  /\ \A k \in DOMAIN file : Loads(file[k])
  /\ rules = [k \in DOMAIN file |-> Loaded(file[k])]
  /\ \A t \in Threads : pc[t] # "idle" => file \in inForce[t] /\ ended[t] = "no"

Ids == {json.id : json \in Entries}

CallsTyped ==
  /\ todo \in [Threads -> Seq(Calls)]
  /\ call \in [Threads -> Calls]
  /\ raised \in [Threads -> Seq(Ids)]
  /\ DOMAIN inForce = Threads
  /\ replaced \in BOOLEAN
  /\ \A t \in Threads :
       /\ pc[t] \in {"load", "evaluate", "publisher"} => call[t].op = pc[t]
       /\ pc[t] \in InEvaluate \/ ended[t] # "no" => call[t].op = "evaluate"

\* The rules before the one that evaluate is at are dealt with, and that one too
\* once it was found to match.
SoFarOf(t) ==
  /\ pc[t] \in {"load", "evaluate", "publisher"} => raised[t] = <<>>
  /\ pc[t] = "rule" =>
       /\ rule \in 1..(Len(file) + 1)
       /\ AlarmsOf(raised[t], call[t].event, file, rule - 1)
  /\ pc[t] \in InEvaluate \ {"rule"} =>
       /\ rule \in DOMAIN file
       /\ Decides(call[t].event, file[rule]) = "match"
       /\ AlarmsOf(raised[t], call[t].event, file, rule)

SoFar == \A t \in Threads : SoFarOf(t)

\* Only the holder of the lock is in a publisher; and while set_publisher keeps
\* out of evaluations, the publisher that was tested is the one that is used.
PublisherHeld ==
  /\ \A t \in Threads : using[t] # None => pc[t] = "publishing"
  /\ ~replaced =>
       /\ crash = "no"
       /\ \A t \in Threads :
            /\ pc[t] = "publish" => publisher # None
            /\ pc[t] = "publishing" => using[t] = publisher

EngineInv ==
  /\ TypeOK
  /\ CallsTyped
  /\ RulesAreLoaded
  /\ SoFar
  /\ PublisherHeld
  /\ AlarmsOfOneRuleSet
=============================================================================
