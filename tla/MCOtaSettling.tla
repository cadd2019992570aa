---------------------------- MODULE MCOtaSettling ----------------------------
(* main.py and ota.py. *)
EXTENDS OtaSettling

MCCode == {1}
=============================================================================
