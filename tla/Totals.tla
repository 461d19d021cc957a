------------------------------- MODULE Totals -------------------------------
(***************************************************************************)
(* Adding up a sequence of numbers, the way the iterators of               *)
(* src/meter.rs do.  The sum is a recursive function of the number of      *)
(* elements added, which a proof can unfold; the folds of the community    *)
(* modules take the operation as a parameter, which the provers cannot.    *)
(***************************************************************************)
EXTENDS Naturals, Sequences

(* What the first n elements of f come to, for every n. *)
PartialSums(f) ==
    LET upTo[n \in 0 .. Len(f)] == IF n = 0 THEN 0 ELSE upTo[n - 1] + f[n]
    IN  upTo

Total(f) == PartialSums(f)[Len(f)]

=============================================================================
