----------------------------- MODULE MCEscrow -----------------------------
(* Escrow for TLC: a request handler and a worker of one platform process. *)
EXTENDS Escrow, TLC

Handlers == {"h1", "h2"}
MoneyOps == [p \in Handlers |->
               IF p = "h1" THEN {"recharge", "debit"} ELSE {"recharge", "refill", "reconcile"}]
AllOps == [p \in Handlers |->
             IF p = "h1" THEN {"recharge", "debit", "hardstop"} ELSE {"refill", "reconcile"}]

\* The refill tick comes back as well.
TickingSpec ==
  /\ FairSpec
  /\ SF_vars(\E p \in Procs, t \in Triggers : RefillStart(p, t))
  /\ SF_vars(\E p \in Procs : RefillTx(p))

(* Further claims of comments that the code does not keep; the README names *)
(* the instance on which TLC refutes each.                                  *)

\* escrow.go: a failed ADD is made up for, since the reconciliation fills
\* the window up to bucket 1 minus usage.
UnderfundHealed ==
  (lock = Nobody /\ window + spent < released) ~> (window + spent >= released)

\* escrow.go: bucket 1 stays below the window cap.
BucketWithinCap == released <= Cap

\* escrow.go: one correction takes at most a fifth of the window.
CorrectionIsSmall ==
  \A p \in Procs : (op[p].kind = "reconcile" /\ op[p].ph = "call") => 5 * (0 - op[p].amt) <= window

\* billing.go: a refund is bounded by what is still available, so that money
\* already spent is not paid back.
RefundWithinUnspent == spent <= bal.recharged - bal.refunded + Own + Gift

\* billing.go: after a recharge or a deduction the status follows the
\* balance.
StatusFollowsBalance ==
  (opened /\ \A p \in All : op[p] = Idle) => status = StatusOf(bal.balance)

\* billing.go: only the release of a hard stop ends it.
HardStopSticks ==
  [][status = "hard_stopped" /\ status' # status =>
       \E p \in Procs : op[p].kind = "release" /\ op[p].ph = "switched"]_vars
===========================================================================
