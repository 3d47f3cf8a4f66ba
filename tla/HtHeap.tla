------------------------------- MODULE HtHeap -------------------------------
(***************************************************************************)
(* The heap of hllib/HtHeap.cc over the vector of hllib/HtVector.cc, as    *)
(* the queue _paths of a server: URLRefs, compared by hop count.           *)
(*                                                                         *)
(* Positions count from 1 here and from 0 in the code, so the children of  *)
(* i are 2i and 2i+1.  HtVector::Assign inserts an element and removes the *)
(* one it displaced, which is to replace it; past the end it appends.      *)
(***************************************************************************)
EXTENDS Naturals, Sequences, FiniteSets

CONSTANTS
  Items,      \* the URLRefs
  NoItem,     \* the null pointer
  Hop,        \* Hop[i], the hop count of i
  MaxCount    \* bound of the model on the length of the heap

ASSUME HtHeapAssumption ==
  NoItem \notin Items /\ Hop \in [Items -> Nat] /\ MaxCount \in Nat

VARIABLES
  data,       \* the vector
  min,        \* what the last Remove returned
  grownOnly   \* history: nothing was removed since the heap was empty

vars == <<data, min, grownOnly>>

Assign(v, i, item) == [v EXCEPT ![i] = item]

parentOf(i) == i \div 2

(* A larger parent moves down into the place of the node at leaf, and so on *)
(* above it, until the node has found its own.                              *)
percolateUp(v, leaf) ==
  LET value == v[leaf]
      up[i \in 1 .. leaf] ==
        IF i > 1 /\ Hop[value] < Hop[v[parentOf(i)]]
        THEN Assign(up[parentOf(i)], i, v[parentOf(i)])
        ELSE Assign(v, i, value)
  IN up[leaf]

(* size is Count () - 1, so the last element of the vector is never         *)
(* compared with.                                                           *)
smallerChild(v, root) ==
  IF 2 * root + 1 < Len(v) /\ Hop[v[2 * root + 1]] < Hop[v[2 * root]]
  THEN 2 * root + 1 ELSE 2 * root

(* The smaller child moves up into the place of the node at root while it   *)
(* is smaller than it, and so on below.                                     *)
pushDownRoot(v, root) ==
  LET value == v[root]
      down[i \in root .. Len(v)] ==
        LET child == smallerChild(v, i)
        IN IF 2 * i < Len(v) /\ Hop[v[child]] < Hop[value]
           THEN Assign(down[child], i, v[child])
           ELSE Assign(v, i, value)
  IN down[root]

Init == data = <<>> /\ min = NoItem /\ grownOnly = TRUE

(* Mutant: the new element stays at the end. *)
AddUnordered(item) ==
  /\ Len(data) < MaxCount
  /\ data' = Append(data, item)
  /\ UNCHANGED <<min, grownOnly>>

Add(item) ==
  /\ Len(data) < MaxCount
  /\ data' = percolateUp(Append(data, item), Len(data) + 1)
  /\ UNCHANGED <<min, grownOnly>>

(* Mutant: the last element is copied to the top and stays at the end. *)
RemoveKeepsLast ==
  /\ data # <<>>
  /\ min' = Head(data)
  /\ data' = pushDownRoot(Assign(data, 1, data[Len(data)]), 1)
  /\ grownOnly' = FALSE

(* The last element is put on top and pushed down. *)
Remove ==
  /\ data # <<>>
  /\ min' = Head(data)
  /\ LET moved == SubSeq(Assign(data, 1, data[Len(data)]), 1, Len(data) - 1)
     IN data' = IF Len(moved) > 1 THEN pushDownRoot(moved, 1) ELSE moved
  /\ grownOnly' = (data' = <<>>)

(* Of an empty heap Peek and Last are null, and the vector stays empty. *)
RemoveEmpty ==
  /\ data = <<>>
  /\ min' = NoItem
  /\ UNCHANGED <<data, grownOnly>>

Next == (\E item \in Items : Add(item)) \/ Remove \/ RemoveEmpty

Spec == Init /\ [][Next]_vars
-----------------------------------------------------------------------------
(* No child precedes its parent as long as the heap only grew since it was  *)
(* last empty, so a breadth-first order can be counted on for the first URL *)
(* taken and for none after it: pushDownRoot leaves out the last element.   *)
OrderedWhileGrowing ==
  grownOnly => \A i \in DOMAIN data \ {1} : Hop[data[parentOf(i)]] <= Hop[data[i]]

(* The heap loses no URL and yields none twice, in whatever order: it       *)
(* implements the queue that module Server assumes of it.                   *)
Count(i) == Cardinality({k \in DOMAIN data : data[k] = i})

abstract == INSTANCE URLQueue WITH queue <- [i \in Items |-> Count(i)], popped <- min

QueueSpec == abstract!Spec
=============================================================================
