------------------------------ MODULE MCHssAccess ------------------------------
(***************************************************************************)
(* An instance of HssAccess for TLC: calls by IMSI, and by the telephone    *)
(* number after a private identity nobody has.                              *)
(***************************************************************************)
EXTENDS HssAccess

MCRequests == {<<"MAR", <<"imsi">>>>, <<"SAR", <<"imsi">>>>, <<"UAR", <<"stranger", "tel">>>>}
=============================================================================
