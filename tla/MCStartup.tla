------------------------------- MODULE MCStartup -------------------------------
(* Two replicas and a run of migrate, two versions, one event. *)
EXTENDS Startup
===============================================================================
