--------------------------- MODULE MCProvisioning ---------------------------
\* Small instances of provisioning: h1 and h2 are handlers of one replica, h3
\* of another.
EXTENDS Provisioning, TLC

CONSTANTS h1, h2, h3

Nodes == h1 :> "a" @@ h2 :> "a" @@ h3 :> "b"
Work == h1 :> {"create", "ensure", "use", "reassert"}
     @@ h2 :> {"associate", "ensure", "use", "stop"}
     @@ h3 :> {"associate", "ensure"}

\* Both replicas refresh credentials (section 3 of the README).
WorkOnBoth == [Work EXCEPT ![h3] = @ \cup {"use"}]

\* What org.go says of an association that is refused: nothing half-made stays.
NoHalfOrg ==
  \A o \in Orgs : (org[o].made /\ ~org[o].platform /\ org[o].uid = 0 /\ ~org[o].archived) =>
    \E h \in Handlers : call[h].o = o

\* What member.go says of the override to 0: it is safe.  Quota of a recharge
\* stays.
OverrideSafe == [][\A u \in Users : user[u].quota = "paid" => user'[u].quota = "paid"]_vars

\* What bootstrap.go says of its compensation: a user that is left behind is
\* a disabled one.
NoActiveOrphan ==
  \A u \in Users : (user[u].for # 0 /\ user[u].on /\ org[user[u].for].uid # u) =>
    \E h \in Handlers : call[h].o = user[u].for
=============================================================================
