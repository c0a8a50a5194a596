--------------------------- MODULE MCSupervision ---------------------------
(* One application with two sources.  *)
EXTENDS Supervision, TLC
=============================================================================
