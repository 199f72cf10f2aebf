--------------------------- MODULE MCAdmissionGate ---------------------------
(* AdmissionGate on two concurrent deliveries and four closings.          *)
EXTENDS AdmissionGate
=============================================================================
