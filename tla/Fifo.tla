-------------------------------- MODULE Fifo --------------------------------
(* What the queues of common/utils/queue promise (IQueue.h): an item that  *)
(* was pushed is popped at most once, in the order of the pushes. A call   *)
(* that reports full or empty changes nothing.                             *)
EXTENDS Sequences

CONSTANTS
  Items,      \* what is pushed
  Consumers   \* the threads that pop

VARIABLES
  items,      \* the queue, oldest first
  got         \* what each consumer has popped, in order

vars == <<items, got>>

Init ==
  /\ items = <<>>
  /\ got = [c \in Consumers |-> <<>>]

Push(x) ==
  /\ items' = Append(items, x)
  /\ UNCHANGED got

Pop(c) ==
  /\ items # <<>>
  /\ got' = [got EXCEPT ![c] = Append(@, Head(items))]
  /\ items' = Tail(items)

Clear ==
  /\ items' = <<>>
  /\ UNCHANGED got

Next ==
  \/ \E x \in Items : Push(x)
  \/ \E c \in Consumers : Pop(c)
  \/ Clear

Spec == Init /\ [][Next]_vars
=============================================================================
