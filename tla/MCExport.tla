------------------------------ MODULE MCExport ------------------------------
(* Small audiences for Export. *)
EXTENDS Export

Audience  == 1 .. 5
AllFaults == {"db", "http"}
=============================================================================
