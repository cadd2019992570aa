--------------------------- MODULE MCCastControl ---------------------------
EXTENDS CastControl

(* The athan of the scheduler and the activation message of /test. *)
MCCasts == {"athan", "test"}
=============================================================================
