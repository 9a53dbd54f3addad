-------------------------- MODULE MCAdmissionHost --------------------------
(* An instance of AdmissionHost for TLC.                                     *)
EXTENDS AdmissionHost, TLC

CONSTANTS e1, e2, e3, l1

(* An entry with two children and a label on it.                           *)
Fork3 == (e1 :> <<e1>>) @@ (e2 :> <<e1, e2>>) @@ (e3 :> <<e1, e3>>)

LabelOnFirst == (l1 :> e1)
=============================================================================
