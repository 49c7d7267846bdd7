----------------------------- MODULE MCEventStore -----------------------------
(* Three events at three timestamps: enough for a late event, for two events  *)
(* at one timestamp ordered by id, and for an id delivered again with other  *)
(* content.  Pages of one row, so that the second event has its predecessor on *)
(* the first page and the third has not.                                     *)
EXTENDS VerifyEndpoint

MCIds == 1..3
MCTimes == 1..3
===============================================================================
