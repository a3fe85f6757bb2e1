--------------------------- MODULE MCRequestRelay ---------------------------
(* RequestRelay on small instances: the names of each kind are             *)
(* interchangeable.                                                        *)
EXTENDS RequestRelay, TLC

Symmetry == Permutations(Requests) \cup Permutations(Links)
            \cup Permutations(Seqs)
=============================================================================
