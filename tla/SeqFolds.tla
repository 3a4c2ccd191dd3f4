------------------------------ MODULE SeqFolds ------------------------------
(***************************************************************************)
(* The two loops over a slice that the code runs on its queues, captures   *)
(* and markers: adding up what the elements count for, and copying the     *)
(* elements that qualify.  Each is a recursive function of the prefixes    *)
(* of the sequence, so that proofs can follow it one element at a time.    *)
(***************************************************************************)
EXTENDS Integers, Sequences

\* The sum of a sequence of numbers.
Total(w) ==
  LET sum[i \in 0 .. Len(w)] == IF i = 0 THEN 0 ELSE sum[i - 1] + w[i]
  IN  sum[Len(w)]

\* The elements of w that are in keep, in their order.
Kept(w, keep) ==
  LET kept[i \in 0 .. Len(w)] ==
        IF i = 0 THEN <<>>
        ELSE IF w[i] \in keep THEN Append(kept[i - 1], w[i]) ELSE kept[i - 1]
  IN  kept[Len(w)]
=============================================================================
