---------------------------- MODULE MCServiceLoops -----------------------------
(* Two callers and three messages at a feed that holds one. *)
EXTENDS ServiceLoops
===============================================================================
