--------------------------- MODULE MCLocalRunner ----------------------------
(* A small instance of LocalRunner for TLC.                                *)
EXTENDS LocalRunner

Goroutines == Gen \X Worker
=============================================================================
