--------------------------- MODULE MCTokenRotation ---------------------------
(* Instances of TokenRotation for TLC: tokens, clients and calls are       *)
(* interchangeable.                                                        *)
EXTENDS TokenRotation, TLC

Symmetry == Permutations(Tokens) \cup Permutations(Clients) \cup Permutations(Calls)
=============================================================================
