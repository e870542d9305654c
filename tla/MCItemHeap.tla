----------------------------- MODULE MCItemHeap -----------------------------
(***************************************************************************)
(* The heap operations on every array of up to MaxLen keys: an array is    *)
(* made a heap, then its top is replaced by one of the new keys, or by its *)
(* last element, as kv_iterator_next does, until the array is empty.       *)
(***************************************************************************)
EXTENDS Integers, FiniteSets, Functions

CONSTANTS MaxLen, MaxKey

ASSUME MCItemHeapAssumption == MaxLen \in Nat /\ MaxKey \in Nat

LessThan(x, y) == x < y
Heap == INSTANCE ItemHeap WITH Less <- LessThan

VARIABLES a, len, phase, keys    \* keys: how often each key is in the array

Counts(f, n) == [k \in 1 .. MaxKey |-> Cardinality({i \in 0 .. n - 1 : f[i] = k})]

Init ==
  /\ len \in 1 .. MaxLen
  /\ a \in [0 .. len - 1 -> 1 .. MaxKey]
  /\ phase = "loaded"
  /\ keys = Counts(a, len)

Make ==
  /\ phase = "loaded" /\ phase' = "heap"
  /\ a' = Heap!MakeHeap(a, len)
  /\ UNCHANGED <<len, keys>>

\* The worker of the top has a further item, which is never smaller.
ReplaceTop ==
  /\ phase = "heap" /\ len > 0
  /\ \E k \in a[0] .. MaxKey :
       /\ a' = Heap!HeapAdjust([a EXCEPT ![0] = k], 0, len)
       /\ keys' = [[keys EXCEPT ![a[0]] = @ - 1] EXCEPT ![k] = @ + 1]
  /\ UNCHANGED <<phase, len>>

\* It has none: the last element takes the place of the top.
DropTop ==
  /\ phase = "heap" /\ len > 1
  /\ a' = Restrict(Heap!HeapAdjust([a EXCEPT ![0] = a[len - 1]], 0, len - 1), 0 .. len - 2)
  /\ keys' = [keys EXCEPT ![a[0]] = @ - 1]
  /\ len' = len - 1
  /\ UNCHANGED phase

Next == Make \/ ReplaceTop \/ DropTop

Spec == Init /\ [][Next]_<<a, len, phase, keys>>

\* No operation of the heap loses an item or doubles one.
ItemsKept == keys = Counts(a, len)

\* "Make heap": no item is greater than its parent.
HeapMade == phase = "heap" => \A i \in 1 .. len - 1 : a[i] <= a[(i - 1) \div 2]
=============================================================================
