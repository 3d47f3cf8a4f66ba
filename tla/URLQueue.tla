------------------------------ MODULE URLQueue ------------------------------
(***************************************************************************)
(* What a server's queue of URLs promises whatever its order: nothing that *)
(* was pushed is lost, nothing comes out twice.  The queue is a bag, and   *)
(* pop may take any of its members.                                        *)
(***************************************************************************)
EXTENDS Naturals

CONSTANTS
  Items,    \* the URLRefs
  NoItem    \* what pop returns from an empty queue

VARIABLES
  queue,    \* queue[i], how many times i waits
  popped    \* what the last pop returned

Init ==
  /\ queue = [i \in Items |-> 0]
  /\ popped = NoItem

Push(i) ==
  /\ queue' = [queue EXCEPT ![i] = @ + 1]
  /\ UNCHANGED popped

Pop(i) ==
  /\ queue[i] > 0
  /\ queue' = [queue EXCEPT ![i] = @ - 1]
  /\ popped' = i

PopEmpty ==
  /\ \A i \in Items : queue[i] = 0
  /\ popped' = NoItem
  /\ UNCHANGED queue

Next == (\E i \in Items : Push(i) \/ Pop(i)) \/ PopEmpty

Spec == Init /\ [][Next]_<<queue, popped>>
=============================================================================
