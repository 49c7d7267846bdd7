------------------------------- MODULE MCSweep -------------------------------
(* Three events at two times, listed in pages of one or two, so that events  *)
(* arrive before and after the cursor between two pages, windows that cut    *)
(* the log between any two rows, an anchor made at any time, and one row     *)
(* that is lost or altered at any time.                                      *)
EXTENDS Sweep

MCIds == 1..3
MCTimes == 1..2
===============================================================================
