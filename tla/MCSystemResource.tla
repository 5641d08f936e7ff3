------------------------- MODULE MCSystemResource -------------------------
(* Small instances of SystemResource for TLC.                               *)
EXTENDS SystemResource, TLC

CONSTANTS o1, o2, o3, p1, p2, c1, c2, h1, h2

(* Wrappers are interchangeable, and so are the threads of one role.        *)
SymObjects == Permutations(Objects)
SymSafety == Permutations(Objects) \cup Permutations(Producers)
                \cup Permutations(Consumers) \cup Permutations(Holders)
=============================================================================
