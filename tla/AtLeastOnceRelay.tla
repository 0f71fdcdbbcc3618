-------------------------- MODULE AtLeastOnceRelay --------------------------
(***************************************************************************)
(* What one stage of the alarm pipeline promises to the stage before it.   *)
(*                                                                         *)
(* A stage accepts inputs from a queue, owes a set of outputs for each of  *)
(* them, and may settle an input (let the broker forget it) only once all  *)
(* that it owes for it has been emitted.  Emitting an output again is a    *)
(* stuttering step: the promise is at-least-once, not exactly-once.        *)
(* docs/dependencies.md calls this "the at-least-once delivery contract".  *)
(*                                                                         *)
(* The module abstracts from connections, crashes, redelivery and from how *)
(* many processes serve the stage.                                         *)
(***************************************************************************)
CONSTANTS
  Inputs,   \* the messages that may be put on the stage's inbound queue
  Owed      \* Owed[m]: the outputs the stage owes for input m

VARIABLES
  pending,  \* inputs the broker still answers for
  settled,  \* inputs the broker was told to forget
  emitted   \* outputs that reached the stage's outbound queue or channel

vars == <<pending, settled, emitted>>

Init ==
  /\ pending = {}
  /\ settled = {}
  /\ emitted = {}

Accept(m) ==
  /\ m \notin pending \cup settled
  /\ pending' = pending \cup {m}
  /\ UNCHANGED <<settled, emitted>>

Emit(m, o) ==
  /\ m \in pending
  /\ o \in Owed[m]
  /\ emitted' = emitted \cup {o}
  /\ UNCHANGED <<pending, settled>>

Settle(m) ==
  /\ m \in pending
  /\ Owed[m] \subseteq emitted
  /\ pending' = pending \ {m}
  /\ settled' = settled \cup {m}
  /\ UNCHANGED emitted

Next ==
  \E m \in Inputs :
    \/ Accept(m)
    \/ \E o \in Owed[m] : Emit(m, o)
    \/ Settle(m)

Spec == Init /\ [][Next]_vars
=============================================================================
