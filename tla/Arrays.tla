------------------------------- MODULE Arrays -------------------------------
(***************************************************************************)
(* Array.prototype.filter, with the test given as a set,                   *)
(* Array.prototype.flat, and Array.prototype.reduce where it adds up, as   *)
(* recursive functions: what SelectSeq and FlattenSeq do, in a form the    *)
(* provers can look into.  ArrayLemmas proves what they return.            *)
(***************************************************************************)
EXTENDS Naturals, Sequences

\* The elements of s that are in S, in their order.
Keep(s, S) ==
    LET kept[n \in 0 .. Len(s)] ==
            IF n = 0 THEN <<>>
            ELSE IF s[n] \in S THEN Append(kept[n - 1], s[n])
            ELSE kept[n - 1]
    IN  kept[Len(s)]

\* The parts one after the other.
Flat(parts) ==
    LET flat[n \in 0 .. Len(parts)] == IF n = 0 THEN <<>> ELSE flat[n - 1] \o parts[n]
    IN  flat[Len(parts)]

\* The sum of the numbers.
Total(numbers) ==
    LET sum[n \in 0 .. Len(numbers)] == IF n = 0 THEN 0 ELSE sum[n - 1] + numbers[n]
    IN  sum[Len(numbers)]

=============================================================================
