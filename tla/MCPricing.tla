----------------------------- MODULE MCPricing -----------------------------
(* Pricing with its lock for TLC: three calls, so that one holds, one      *)
(* waits and one is cancelled or tries; two organisations in one option.   *)
EXTENDS Pricing

NoTierGroup == {None}
SmallOffers ==
  {[mode |-> "total", groups |-> {}, rate |-> 1],
   [mode |-> "per_group", groups |-> {"vip"}, rate |-> 2],
   [mode |-> "none", groups |-> {}, rate |-> 0]}

\* The third call only tries.
Roles == [t \in Calls |-> CASE t = "c1" -> {"configure", "open"}
                            [] t = "c2" -> {"configure"}
                            [] t = "c3" -> {"try"}]

\* What pricing.go says: row and gateway always agree.  Two changes of one
\* organisation that overlap refute it.
AlwaysMatches == \A o \in Orgs : Quiet(o) => option[RatioKey][o] = discount[o].entries

\* What options.go says: the reconciliation reports what remains different.
\* Entries that only the gateway has refute it.
DriftReported ==
  \A o \in Orgs :
    (Quiet(o) /\ option[RatioKey][o] # discount[o].entries) => o \in ReconcileDiscounts
============================================================================
