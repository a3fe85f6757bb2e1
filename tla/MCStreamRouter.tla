--------------------------- MODULE MCStreamRouter ---------------------------
(* StreamRouter on small instances: the names of each kind are             *)
(* interchangeable.                                                        *)
EXTENDS StreamRouter, TLC

Symmetry == Permutations(Streams) \cup Permutations(Devices)
            \cup Permutations(Controllers) \cup Permutations(Teardowns)
=============================================================================
