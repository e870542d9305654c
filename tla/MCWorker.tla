------------------------------ MODULE MCWorker ------------------------------
(* Small instances of Worker: who calls what. *)
EXTENDS Worker, TLC

CONSTANTS r1, r2, w1, w2

\* One reader, one writer and one deleter.
MixedOps == r1 :> {"GET"} @@ w1 :> {"PUT"} @@ w2 :> {"DELETE"}

\* Two readers that scan too, and one caller that puts and deletes.
ReadersOps == r1 :> {"GET", "SCAN"} @@ r2 :> {"GET", "SCAN"} @@ w1 :> {"PUT", "DELETE"}

\* One reader and two writers.
WritersOps == r1 :> {"GET"} @@ w1 :> {"PUT"} @@ w2 :> {"PUT"}

\* One reader, one caller that modifies.
PairOps == r1 :> {"GET", "SCAN"} @@ w1 :> {"PUT", "DELETE"}

BufSymmetry == Permutations(Bufs)
=============================================================================
