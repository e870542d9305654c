------------------------------ MODULE ItemHeap ------------------------------
(***************************************************************************)
(* The heap in which an iterator merges the sorted items of the workers    *)
(* (src/kvs.c, _heap_adjust and _make_heap), on arrays indexed from 0.     *)
(* Less(x, y) is _item_cmp(x, y) < 0.                                      *)
(***************************************************************************)
EXTENDS Integers, SequencesExt

CONSTANT Less(_, _)

Swapped(a, i, j) == [a EXCEPT ![i] = a[j], ![j] = a[i]]

\* Bug: the new key overwrites the parent instead of being exchanged with it.
AdjustOverwrites(a, index, len) ==
  LET left  == 2 * index + 1
      right == 2 * index + 2
      child == IF right <= len - 1 /\ Less(a[left], a[right]) THEN right ELSE left
  IN  IF left > len - 1 \/ ~Less(a[index], a[child]) THEN a
      ELSE [a EXCEPT ![index] = a[child]]

\* The greater child rises when it is greater than its parent.  The recursive
\* call has its last two arguments exchanged.
HeapAdjust(a, index, len) ==
  LET adjust[call \in [DOMAIN a -> Range(a)] \X (0 .. len) \X (0 .. len)] ==
        LET b     == call[1]
            i     == call[2]
            n     == call[3]
            left  == 2 * i + 1
            right == 2 * i + 2
        IN  IF left > n - 1 THEN b
            ELSE IF left = n - 1
            THEN IF Less(b[i], b[left]) THEN Swapped(b, i, left) ELSE b
            ELSE IF Less(b[i], b[left]) \/ Less(b[i], b[right])
            THEN LET child == IF Less(b[left], b[right]) THEN right ELSE left
                 IN  adjust[<<Swapped(b, i, child), n, child>>]
            ELSE b
  IN  adjust[<<a, index, len>>]

\* Every node from the last to the first; HeapAdjust leaves the leaves alone.
MakeHeap(a, len) ==
  LET made[i \in 0 .. len] == IF i = len THEN a ELSE HeapAdjust(made[i + 1], i, len)
  IN  made[0]
=============================================================================
