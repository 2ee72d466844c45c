-------------------------- MODULE MCEscrowBuckets --------------------------
(* The bucket rows for TLC: a handful of recharges that overflow the cap.  *)
EXTENDS EscrowBuckets
============================================================================
