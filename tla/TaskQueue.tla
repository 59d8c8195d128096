-------------------------------- MODULE TaskQueue --------------------------------
(***************************************************************************)
(* What an AsyncWorker promises to those who post to it: the tasks are     *)
(* begun in the order they were posted, each once, and no more than Width  *)
(* of them run beside each other (1: they run one at a time).              *)
(***************************************************************************)
EXTENDS Naturals, Sequences, FiniteSets

CONSTANTS
  Tasks,
  Width     \* how many tasks may run at once

VARIABLES
  queue,    \* tasks posted and not begun
  current   \* the tasks being run

queueVars == <<queue, current>>

Init == queue = <<>> /\ current = {}

Post(t) == queue' = Append(queue, t) /\ UNCHANGED current

Begin ==
  /\ queue # <<>> /\ Cardinality(current) < Width
  /\ current' = current \cup {Head(queue)} /\ queue' = Tail(queue)

End(t) == t \in current /\ current' = current \ {t} /\ UNCHANGED queue

Next == Begin \/ \E t \in Tasks : Post(t) \/ End(t)

Spec == Init /\ [][Next]_queueVars
================================================================================
