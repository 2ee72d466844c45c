-------------------------- MODULE MCUpstreamClient --------------------------
(* UpstreamClient for TLC: a call admitted before the breaker opens, a     *)
(* probe and a newcomer.                                                   *)
EXTENDS UpstreamClient

\* Mutual exclusion of probes as allow's comment has it: others are blocked
\* until the probe has its result.
OneProbe ==
  state = "half" => Cardinality({r \in Requests : req[r].probe}) <= 1
=============================================================================
