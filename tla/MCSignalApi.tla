----------------------------- MODULE MCSignalApi -----------------------------
(* Instance of SignalApi for TLC.                                          *)
EXTENDS SignalApi, TLC

Symmetry ==
  Permutations(Clients) \cup Permutations(Gateways) \cup Permutations(Ops)
    \cup Permutations(Sessions)
=============================================================================
