------------------------------ MODULE MCQuota ------------------------------
(* Quota for TLC: one team with one member.                                *)
EXTENDS Quota, TLC

Tier(alive, d, monthly, daily) ==
  [made |-> alive, alive |-> alive, dflt |-> d, models |-> {"small"},
   limit |-> [p \in Periods |-> CASE p = "monthly" -> monthly [] p = "daily" -> daily
                                  [] OTHER -> Unset]]
TwoTiers == [t \in {"base", "plus"} |->
               IF t = "base" THEN Tier(TRUE, TRUE, 2, Unset) ELSE Tier(TRUE, FALSE, Unset, 3)]
ThreeTiers == [t \in {"base", "plus", "new"} |->
                 IF t = "new" THEN Tier(FALSE, FALSE, Unset, Unset) ELSE TwoTiers[t]]
Row(t, x, tok) == [tier |-> t, team |-> x, tok |-> tok, expired |-> FALSE]
OneRow(t) == [m \in {"ann"} |-> Row(t, "dev", 1)]
Inherits == {OneRow("none")}
OwnTier == {OneRow("plus")}
OneTeamTier == [x \in {"dev"} |-> "none"]

\* r1 passes by itself, r2 takes two reviews; its model is a new one for the
\* tier plus.
Request(amount, model) == [m |-> "ann", amount |-> amount, dur |-> "today", model |-> model]
TwoRequests == [a \in {"r1", "r2"} |-> IF a = "r1" THEN Request(1, "none") ELSE Request(9, "large")]
NoRequests == [a \in {} |-> Request(1, "none")]
OneRule == {[autoMax |-> 1, autoDays |-> 1, l1Max |-> 5]}
Fallback == [autoMax |-> 0, autoDays |-> 1, l1Max |-> 10]

GrantOps == [h \in {"h1", "h2"} |->
               IF h = "h1" THEN {"submit", "decide"} ELSE {"revoke", "decide", "rotate"}]
CapOps == [h \in {"h1", "h2"} |->
             IF h = "h1" THEN {"status", "hardstop", "tier", "deltier", "policy", "settings", "adjust"}
             ELSE {"status", "flags", "member", "dflt", "whitelist", "rules", "temp", "newtier"}]
=============================================================================
