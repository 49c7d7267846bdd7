------------------------------ MODULE MCRedaction ------------------------------
(* Files of one rule, or of two of which the second is for every event; fields *)
(* that are named twice, in two spellings, by both rules, or with "none"; and  *)
(* a rule with two action lines.                                               *)
EXTENDS Redaction

MCServices == {"orch", "kyc"}
MCActions == {"sign", "view"}
MCKeys == {"ssn", "SSN", "email"}
MCLower == [k \in MCKeys |-> IF k = "SSN" THEN "ssn" ELSE k]

Service(s) == [kind |-> "service", text |-> s]
Action(a) == [kind |-> "action", text |-> a]
Field(k, t) == [kind |-> "field", key |-> k, text |-> t]

Twice == <<Field("ssn", "mask"), Field("SSN", "drop"), Field("ssn", "none")>>
Capital == <<Field("SSN", "hash"), Field("email", "none")>>
Plain == <<Field("ssn", "drop"), Field("email", "hash")>>
Special == <<Service("orch"), Action("sign")>>
General == <<Service("*"), Action("*"), [kind |-> "comment"]>>

MCDocuments == {General \o Plain, Special \o Twice \o General \o Plain,
                Special \o Plain \o General \o Capital,
                Special \o Capital \o General \o Twice,
                Special \o Plain \o <<Action("view")>> \o General \o Capital}
===============================================================================
