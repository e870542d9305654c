------------------------------- MODULE KvHash -------------------------------
(***************************************************************************)
(* The jump hash of src/kvutil.c.  The CRC of a key seeds a linear         *)
(* congruential generator, and each round divides 2^31 by the next number  *)
(* of its stream; here a key is the stream itself, which is any stream.    *)
(* Rounding of the doubles moves a jump to another one of the same round,  *)
(* and never below the bucket's successor.                                 *)
(***************************************************************************)
EXTENDS Integers

CONSTANT Scale     \* 2^31

ASSUME ScaleAssumption == Scale \in Nat \ {0}

\* draw[b] is (key >> 33) + 1 in the round that starts at bucket b.
Draws(numBuckets) == [0 .. numBuckets - 1 -> 1 .. Scale]

Jump(draw, b) == ((b + 1) * Scale) \div draw[b]

\* For numBuckets > 0: the last bucket before the jumps leave the range.
Hash(draw, numBuckets) ==
  LET from[b \in 0 .. numBuckets - 1] ==
        IF Jump(draw, b) < numBuckets THEN from[Jump(draw, b)] ELSE b
  IN  from[0]
=============================================================================
