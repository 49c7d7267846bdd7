----------------------------- MODULE MCExportJobs -----------------------------
(* One job, run twice, by two runners at once or one after the other; three  *)
(* events in every order of arrival, listed in pages of two; a query for     *)
(* everything and one whose rows need not be neighbours in the log.          *)
EXTENDS ExportJobs

MCIds == 1..3
MCTimes == {1}
MCQueries == {Content, {c \in Content : c.id # 2}}
===============================================================================
