----------------------------- MODULE MCAnchorJob -----------------------------
(* Two replicas and four events in every order of arrival: an event can    *)
(* arrive between any two calls of a job, and before or after its head.      *)
EXTENDS AnchorJob

MCIds == 1..4
MCTimes == {1}
===============================================================================
