---------------------------- MODULE MCSettlement ----------------------------
\* Small instances of the usage pipeline.
EXTENDS Settlement

OneProcess == [c \in Callers |-> "node"]
TwoProcesses == [c \in Callers |-> IF c = Worker THEN "node1" ELSE "node2"]

\* One gate B organisation, one gate A organisation.
OwnersAB == [i \in Ids |-> IF i = 2 THEN "orgA" ELSE "orgB"]
OwnersA == [i \in Ids |-> "orgA"]
OwnersABBB == [i \in Ids |-> IF i = 1 THEN "orgA" ELSE "orgB"]
OwnersB == [i \in Ids |-> "orgB"]

\* What org.go says of a failed enqueueBackfill: it can be made up for by
\* the operator's requeue, here pressed whenever the code accepts it.
OperatorSpec == FairSpec /\ \A o \in Orgs : WF_vars(RequeueBackfill(o))

FailedEnqueueRepairable ==
  \A o \in Orgs : (enq[o] = "failed") ~> (job[o].status # "none")
=============================================================================
