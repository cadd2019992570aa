----------------------------- MODULE MCOtaUpdate -----------------------------
(* main.py, ota.py and, where N = 3, a module that main.py imports. *)
EXTENDS OtaUpdate

MCCode == {1, 3} \cap Files
=============================================================================
