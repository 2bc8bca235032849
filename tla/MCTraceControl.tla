--------------------------- MODULE MCTraceControl ---------------------------
(* Instances of TraceControl for TLC.                                          *)
EXTENDS TraceControl

CONSTANTS t1, t2   \* threads
=============================================================================
