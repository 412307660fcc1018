---------------------------- MODULE MCNegotiation ----------------------------
(* Instances of Negotiation for TLC.  A serveSession that joined a session *)
(* cannot be used again, so there are enough of them: per session one, one *)
(* for an app that went away, and one more per candidate that came first   *)
(* or failure.                                                             *)
EXTENDS Negotiation

ASSUME EnoughGateways ==
  Cardinality(Gateways) >= 2 * Cardinality(Sessions) + MaxEvents
=============================================================================
