---------------------------- MODULE MCTouchControl ----------------------------
(* Instance of TouchControl for TLC: the constants are given in the cfgs.  *)
EXTENDS TouchControl
=============================================================================
