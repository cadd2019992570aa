-------------------------- MODULE MCTimetableSource --------------------------
EXTENDS TimetableSource
=============================================================================
