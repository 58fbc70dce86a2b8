------------------------------- MODULE Probes -------------------------------
(* What the probes of experiments 31 to 62 share.  Each probe has a base     *)
(* program, functions that edit it, a few checkers called architectures and  *)
(* one ledger whose answers it takes for the truth.                          *)
EXTENDS Integers, SequencesExt

CONSTANT FullShuffle   \* bound: longer lists are shuffled by one swap only

None == -1              \* Python's None where a number is expected

(* random.Random.shuffle: some permutation.                                  *)
Swap(n, i, j) == [k \in 1 .. n |-> IF k = i THEN j ELSE IF k = j THEN i ELSE k]
Orders(n) == IF n <= FullShuffle THEN Permutations(1 .. n)
             ELSE {Swap(n, i, j) : i, j \in 1 .. n}
Shuffles(s) == {[i \in DOMAIN s |-> s[order[i]]] : order \in Orders(Len(s))}

Edited(label, programs) == {[label |-> label, program |-> p] : p \in programs}
=============================================================================
