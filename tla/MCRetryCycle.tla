---------------------------- MODULE MCRetryCycle ----------------------------
(* Values of RetryCycle's constants for TLC. *)
EXTENDS RetryCycle

\* Any backoffs up to four seconds.
Accepted == (0..4) \X (0..4)
=============================================================================
