--------------------------- MODULE MCCastSession ---------------------------
EXTENDS CastSession
=============================================================================
