------------------------------ MODULE MCAppModel ------------------------------
(* Instance of AppModel for TLC: the constants are given in the cfg.       *)
EXTENDS AppModel
=============================================================================
