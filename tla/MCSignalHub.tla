----------------------------- MODULE MCSignalHub -----------------------------
(* Instance of SignalHub for TLC: the peers of one role are alike, and so  *)
(* are the sessions.                                                       *)
EXTENDS SignalHub, TLC

Symmetry ==
  Permutations(Clients) \cup Permutations(Gateways) \cup Permutations(Sessions)
=============================================================================
