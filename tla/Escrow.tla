------------------------------- MODULE Escrow -------------------------------
(***************************************************************************)
(* Platform funding of one organisation (service/escrow.go,                *)
(* service/billing.go, repo/escrow.go, repo/balance.go).                   *)
(*                                                                         *)
(* Money paid in is released into bucket 1 up to the window cap and the    *)
(* rest is held.  Bucket 1 is mirrored into the quota of the               *)
(* organisation's gateway user (the window) by ADD and SUBTRACT calls made *)
(* after the database transaction has committed, while calls of the        *)
(* organisation's members spend the window and the settlement books them   *)
(* later.  The holding buckets are their sum: EscrowBuckets has the rows.  *)
(***************************************************************************)
EXTENDS Integers

CONSTANTS
  Procs,          \* request handlers and worker ticks of the platform
  Settler,        \* the goroutine in RunSettlement (one, by settlementMu)
  Ops,            \* Ops[p]: operations that p performs
  Transfers,      \* transfer numbers
  Amounts,        \* amounts of recharges and refunds
  Cap,            \* escrowWindowCap
  Triggers,       \* refill triggers: effective thresholds, and Cap by hand
  LowWatermark,   \* company_balance.low_watermark
  Billing,        \* billing_enabled and not observe
  Own,            \* quota of the gateway user that the platform never sold
  Gift,           \* initial quota the provisioning failed to clear
  Booked,         \* usage_ledger before funding starts
  Unbooked,       \* usage before funding that is booked later
  MaxSpend, MaxCall,   \* bounds: total usage, usage of one call
  Delivery,       \* what may go wrong with an ADD or SUBTRACT request
  MaxFaults       \* bound: crashes and failed requests

Kinds == {"recharge", "debit", "refill", "reconcile", "hardstop"}
Phases == {"idle", "tx", "read", "call", "status", "flip", "switched"}
Unset == -1
Nobody == "nobody"
All == Procs \cup {Settler}

ASSUME EscrowAssumption ==
  /\ Settler \notin Procs /\ Nobody \notin Procs /\ Ops \in [Procs -> SUBSET Kinds]
  /\ Amounts \subseteq Nat \ {0} /\ Cap \in Nat /\ Triggers \subseteq Nat
  /\ LowWatermark \in Nat /\ Billing \in BOOLEAN
  /\ Own \in Nat /\ Gift \in Nat /\ Booked \in Nat /\ Unbooked \in Nat
  /\ Own + Gift <= Cap
  /\ MaxSpend \in Nat /\ MaxCall \in Nat /\ MaxFaults \in Nat
  /\ Delivery \subseteq {"lost", "twice", "late"}

VARIABLES
  window,     \* user.quota at the gateway
  enabled,    \* the gateway user is enabled
  late,       \* delta of a timed-out request still on its way, 0 = none
  spent,      \* history: usage since funding started
  lagging,    \* part of spent not yet in usage_ledger
  hist,       \* usage before funding not yet in usage_ledger
  usage,      \* SUM(usage_ledger) of the organisation
  bal,        \* company_balance
  opened,     \* bucket 1 exists
  released,   \* amount of bucket 1
  holding,    \* sum of the holding buckets
  booked,     \* recharge rows: transfer numbers
  baseline,   \* org_escrow_config.consumed_baseline
  status,     \* organization.status
  lock,       \* holder of escrow:org:N
  op,         \* operation in progress of every process
  faults      \* faults so far

gateway == <<window, enabled, late, spent>>
ledger == <<lagging, hist, usage>>
buckets == <<opened, released, holding>>
vars == <<window, enabled, late, spent, lagging, hist, usage, bal, opened,
          released, holding, booked, baseline, status, lock, op, faults>>

Least(a, b) == IF a <= b THEN a ELSE b
Most(a, b) == IF a >= b THEN a ELSE b

\* arg: transfer, amount, trigger or target; amt: quota to ADD (positive) or
\* SUBTRACT (negative); bal: the balance the transaction read back.
Operation ==
  [kind : Kinds \cup {"none", "stop", "release"}, ph : Phases,
   id : Transfers \cup {Nobody}, arg : Int, amt : Int, bal : Int]

Doing(kind, ph, id, arg, amt, b) ==
  [kind |-> kind, ph |-> ph, id |-> id, arg |-> arg, amt |-> amt, bal |-> b]

Idle == Doing("none", "idle", Nobody, 0, 0, 0)
Balances == [row : BOOLEAN, recharged : Nat, consumed : Nat, refunded : Nat, balance : Int]

NoBalance == [row |-> FALSE, recharged |-> 0, consumed |-> 0, refunded |-> 0,
              balance |-> 0]

\* The updates of company_balance compute the balance from the totals.
BalanceRow(in, used, out) ==
  [row |-> TRUE, recharged |-> in, consumed |-> used, refunded |-> out,
   balance |-> in - used - out]

Init ==
  /\ window = Own + Gift /\ enabled = TRUE /\ late = 0 /\ spent = 0
  /\ lagging = 0 /\ hist = Unbooked /\ usage = Booked
  /\ bal = NoBalance
  /\ opened = FALSE /\ released = 0 /\ holding = 0
  /\ booked = {} /\ baseline = Unset
  /\ status = "active"
  /\ lock = Nobody
  /\ op = [p \in All |-> Idle]
  /\ faults = 0

-----------------------------------------------------------------------------
(* The gateway: calls spend the window; the last one may overdraw it.      *)

Consume(k) ==
  /\ enabled /\ window > 0 /\ spent + k <= MaxSpend
  /\ window' = window - k /\ spent' = spent + k /\ lagging' = lagging + k
  /\ UNCHANGED <<enabled, late, hist, usage, bal, buckets, booked, baseline,
                 status, lock, op, faults>>

Arrive ==
  /\ late # 0
  /\ window' = window + late /\ late' = 0
  /\ UNCHANGED <<enabled, spent, ledger, bal, buckets, booked, baseline,
                 status, lock, op, faults>>

\* ManageUserQuota(add | subtract): the client retries timeouts, and the
\* request is neither idempotent nor atomic with the caller's transaction.
ManageUserQuota(d) ==
  \/ window' = window + d /\ UNCHANGED <<late, faults>>
  \/ /\ faults < MaxFaults /\ faults' = faults + 1
     /\ \/ "lost" \in Delivery /\ UNCHANGED <<window, late>>
        \/ "twice" \in Delivery /\ window' = window + 2 * d /\ UNCHANGED late
        \/ "late" \in Delivery /\ late = 0 /\ late' = d /\ UNCHANGED window

-----------------------------------------------------------------------------
(* Shared steps.                                                           *)

\* Mutant: the per-organisation lock is not taken.
LockFree_Ignored(p) == TRUE

LockFree(p) == lock = Nobody

\* Operation p begins, holding the lock.
Begin(p, kind, ph, id, arg, amt) ==
  /\ op[p] = Idle /\ kind \in Ops[p] /\ LockFree(p)
  /\ lock' = p
  /\ op' = [op EXCEPT ![p] = Doing(kind, ph, id, arg, amt, 0)]

\* Operation p moves on with the lock held.
Goto(p, ph, amt, b) ==
  /\ op' = [op EXCEPT ![p] = Doing(op[p].kind, ph, Nobody, 0, amt, b)]
  /\ UNCHANGED lock

\* The deferred release of the lock.
Finish(p) ==
  /\ lock' = IF lock = p THEN Nobody ELSE lock
  /\ op' = [op EXCEPT ![p] = Idle]

\* Handlers that moved the balance go on to recomputeOrgStatus with the
\* balance their transaction read back: a recharge after applyRecharge has
\* released the lock, a refund still holding it.
Committed(p, b) ==
  IF op[p].kind \in {"recharge", "debit"}
  THEN /\ op' = [op EXCEPT ![p] = Doing(op[p].kind, "status", Nobody, 0, 0, b)]
       /\ lock' = IF op[p].kind = "recharge" /\ lock = p THEN Nobody ELSE lock
  ELSE Finish(p)

\* The call after the commit; its outcome changes nothing in the handler.
CallUpstream(p) ==
  /\ op[p].ph = "call"
  /\ ManageUserQuota(op[p].amt)
  /\ Committed(p, op[p].bal)
  /\ UNCHANGED <<enabled, spent, ledger, bal, buckets, booked, baseline, status>>

\* An error return before anything was committed.
Abandon(p) ==
  /\ op[p].ph \in {"tx", "read"}
  /\ Finish(p)
  /\ UNCHANGED <<gateway, ledger, bal, buckets, booked, baseline, status, faults>>

StatusOf(b) ==
  IF b <= 0 THEN "stopped" ELSE IF b <= LowWatermark THEN "low" ELSE "active"

\* recomputeOrgStatus reads the status ...
StatusRead(p) ==
  /\ op[p].ph = "status"
  /\ IF status \in {"hard_stopped", StatusOf(op[p].bal)}
     THEN Finish(p)
     ELSE Goto(p, "flip", 0, op[p].bal)
  /\ UNCHANGED <<gateway, ledger, bal, buckets, booked, baseline, status, faults>>

\* ... and writes it, in a second statement.
StatusWrite(p) ==
  /\ op[p].ph = "flip"
  /\ status' = StatusOf(op[p].bal)
  /\ Finish(p)
  /\ UNCHANGED <<gateway, ledger, bal, buckets, booked, baseline, faults>>

\* A failed read or write of the status is only logged.
StatusFails(p) ==
  /\ op[p].ph \in {"status", "flip", "switched"}
  /\ faults < MaxFaults /\ faults' = faults + 1
  /\ Finish(p)
  /\ UNCHANGED <<gateway, ledger, bal, buckets, booked, baseline, status>>

-----------------------------------------------------------------------------
(* Recharge.                                                               *)

\* Mutant: the remaining room is computed from the cap alone.
FitInWindow_NoRead(a, w) == Least(a, Cap)

\* The part of a recharge that fits into the window.
FitInWindow(a, w) == Most(0, Least(a, Cap - w))

RechargeStart(p, t, a) ==
  /\ status # "hard_stopped"           \* EnsureOrgProvisioned
  /\ Begin(p, "recharge", "tx", t, a, FitInWindow(a, window))
  /\ UNCHANGED <<gateway, ledger, bal, buckets, booked, baseline, status, faults>>

\* Mutant: the columns are assigned in the wrong order, and MySQL evaluates
\* an UPDATE from left to right.
AddRechargeTx_LeftToRight(a) ==
  bal' = [BalanceRow(bal.recharged + a, bal.consumed, bal.refunded) EXCEPT !.balance = @ + a]

\* The balance is computed from the totals before they change.
AddRechargeTx(a) == bal' = BalanceRow(bal.recharged + a, bal.consumed, bal.refunded)

\* One transaction: recharge row, balance, bucket 1, held remainder.
RechargeTx(p) ==
  /\ op[p].kind = "recharge" /\ op[p].ph = "tx" /\ op[p].id \notin booked
  /\ LET a == op[p].arg
         fit == op[p].amt
     IN /\ booked' = booked \cup {op[p].id}
        /\ AddRechargeTx(a)
        /\ opened' = TRUE /\ released' = released + fit /\ holding' = holding + (a - fit)
        /\ IF fit > 0 THEN Goto(p, "call", fit, bal'.balance)
                      ELSE Committed(p, bal'.balance)
  /\ UNCHANGED <<gateway, ledger, baseline, status, faults>>

\* Duplicate transfer number: ErrConflict, nothing is booked.
RechargeConflict(p) ==
  /\ op[p].kind = "recharge" /\ op[p].ph = "tx" /\ op[p].id \in booked
  /\ Finish(p)
  /\ UNCHANGED <<gateway, ledger, bal, buckets, booked, baseline, status, faults>>

-----------------------------------------------------------------------------
(* Refund.                                                                 *)

DebitStart(p, a) ==
  /\ Begin(p, "debit", "tx", Nobody, a, 0)
  /\ UNCHANGED <<gateway, ledger, bal, buckets, booked, baseline, status, faults>>

\* Mutant: the window pays first.
ReduceEscrowTx_WindowFirst(a) ==
  released' = released - Least(a, released) /\ holding' = holding - (a - Least(a, released))

\* Holding buckets first, then bucket 1.
ReduceEscrowTx(a) ==
  holding' = holding - Least(a, holding) /\ released' = released - (a - Least(a, holding))

\* A refund above the balance is refused (Abandon); here it is admitted.
DebitTx(p) ==
  /\ op[p].kind = "debit" /\ op[p].ph = "tx" /\ bal.row
  /\ LET a == op[p].arg
         dec == a - Least(a, holding)
     IN /\ a <= bal.balance /\ a <= released + holding
        /\ bal' = BalanceRow(bal.recharged, bal.consumed, bal.refunded + a)
        /\ ReduceEscrowTx(a)
        /\ IF dec > 0 THEN Goto(p, "call", -dec, bal'.balance)
                      ELSE Committed(p, bal'.balance)
  /\ UNCHANGED <<gateway, ledger, opened, booked, baseline, status, faults>>

-----------------------------------------------------------------------------
(* Refill, by the worker (trigger: threshold) or by hand (trigger: Cap).   *)

RefillStart(p, trigger) ==
  /\ opened /\ window < trigger /\ window < Cap
  /\ Begin(p, "refill", "tx", Nobody, Cap - window, 0)
  /\ UNCHANGED <<gateway, ledger, bal, buckets, booked, baseline, status, faults>>

\* Mutant: the room is taken without looking at what is held.
MergeHoldingIntoActiveTx_All(room) == room

\* What the holding buckets can give, at most the room.
MergeHoldingIntoActiveTx(room) == Least(holding, room)

RefillTx(p) ==
  /\ op[p].kind = "refill" /\ op[p].ph = "tx"
  /\ LET merged == MergeHoldingIntoActiveTx(op[p].arg)
     IN /\ released' = released + merged /\ holding' = holding - merged
        /\ IF merged > 0 THEN Goto(p, "call", merged, 0) ELSE Finish(p)
  /\ UNCHANGED <<gateway, ledger, bal, opened, booked, baseline, status, faults>>

-----------------------------------------------------------------------------
(* Reconciliation.  Its settlement drain is a Settle step before it, or    *)
(* none when the drain fails.                                              *)

\* Mutant: usage before funding is not excluded.
BaselineOf_None == 0

\* The usage before funding: the first reconciliation takes a snapshot.
BaselineOf == IF baseline = Unset THEN usage ELSE baseline

TargetWindow == Most(0, released - (usage - BaselineOf))

\* Reads bucket 1 and the booked usage first ...
ReconcileStart(p) ==
  /\ opened
  /\ Begin(p, "reconcile", "read", Nobody, TargetWindow, 0)
  /\ baseline' = BaselineOf
  /\ UNCHANGED <<gateway, ledger, bal, buckets, booked, status, faults>>

\* Mutant: a correction of more than a fifth of the window is left to a human.
ReconcileRead_SmallOnly(p) ==
  /\ op[p].kind = "reconcile" /\ op[p].ph = "read"
  /\ IF window > op[p].arg /\ 5 * (window - op[p].arg) <= window
     THEN Goto(p, "call", op[p].arg - window, 0) ELSE Finish(p)
  /\ UNCHANGED <<gateway, ledger, bal, buckets, booked, baseline, status, faults>>

\* ... and then the window, which the gateway keeps spending; only an excess
\* is corrected.
ReconcileRead(p) ==
  /\ op[p].kind = "reconcile" /\ op[p].ph = "read"
  /\ IF window > op[p].arg THEN Goto(p, "call", op[p].arg - window, 0) ELSE Finish(p)
  /\ UNCHANGED <<gateway, ledger, bal, buckets, booked, baseline, status, faults>>

-----------------------------------------------------------------------------
(* Settlement and backfill, seen from the books.  Settlement deducts from  *)
(* the balance without the escrow lock, then recomputes the status.        *)

DeductBalanceTx(k) == bal' = BalanceRow(bal.recharged, bal.consumed + k, bal.refunded)

Settle(k) ==
  /\ op[Settler] = Idle /\ k <= lagging
  /\ lagging' = lagging - k /\ usage' = usage + k
  /\ IF Billing /\ bal.row
     THEN /\ DeductBalanceTx(k)
          /\ op' = [op EXCEPT ![Settler] = Doing("none", "status", Nobody, 0, 0, bal'.balance)]
     ELSE UNCHANGED <<bal, op>>
  /\ UNCHANGED <<gateway, hist, buckets, booked, baseline, status, lock, faults>>

\* usage_ledger only.
BookHistory(k) ==
  /\ k <= hist
  /\ hist' = hist - k /\ usage' = usage + k
  /\ UNCHANGED <<gateway, lagging, bal, buckets, booked, baseline, status, lock, op, faults>>

-----------------------------------------------------------------------------
(* Hard stop: the gateway user is switched first, then the status.         *)

HardStop(p) ==
  /\ op[p] = Idle /\ "hardstop" \in Ops[p] /\ status # "hard_stopped"
  /\ enabled' = FALSE
  /\ op' = [op EXCEPT ![p] = Doing("stop", "switched", Nobody, 0, 0, 0)]
  /\ UNCHANGED <<window, late, spent, ledger, bal, buckets, booked, baseline,
                 status, lock, faults>>

ReleaseStop(p) ==
  /\ op[p] = Idle /\ "hardstop" \in Ops[p] /\ status = "hard_stopped"
  /\ enabled' = TRUE
  /\ op' = [op EXCEPT ![p] = Doing("release", "switched", Nobody, 0, 0, 0)]
  /\ UNCHANGED <<window, late, spent, ledger, bal, buckets, booked, baseline,
                 status, lock, faults>>

StopWrite(p) ==
  /\ op[p].ph = "switched"
  /\ status' = IF op[p].kind = "stop" THEN "hard_stopped" ELSE "active"
  /\ op' = [op EXCEPT ![p] = Idle]
  /\ UNCHANGED <<gateway, ledger, bal, buckets, booked, baseline, lock, faults>>

-----------------------------------------------------------------------------
\* The process dies between any two steps; the in-process lock dies with it.
Crash ==
  /\ faults < MaxFaults /\ faults' = faults + 1
  /\ \E p \in All : op[p] # Idle
  /\ op' = [p \in All |-> Idle]
  /\ lock' = Nobody
  /\ UNCHANGED <<gateway, ledger, bal, buckets, booked, baseline, status>>

Start(p) ==
  \/ \E a \in Amounts : DebitStart(p, a) \/ \E t \in Transfers : RechargeStart(p, t, a)
  \/ \E trigger \in Triggers : RefillStart(p, trigger)
  \/ ReconcileStart(p)
  \/ HardStop(p) \/ ReleaseStop(p)

Continue(p) ==
  \/ RechargeTx(p) \/ RechargeConflict(p) \/ DebitTx(p) \/ RefillTx(p)
  \/ ReconcileRead(p) \/ CallUpstream(p) \/ StopWrite(p) \/ Abandon(p)

Next ==
  \/ \E k \in 1..MaxCall : Consume(k)
  \/ Arrive
  \/ \E p \in Procs : Start(p) \/ Continue(p)
  \/ \E p \in All : StatusRead(p) \/ StatusWrite(p) \/ StatusFails(p)
  \/ \E k \in 1..MaxSpend : Settle(k)
  \/ \E k \in 1..Unbooked : BookHistory(k)
  \/ Crash

Spec == Init /\ [][Next]_vars

-----------------------------------------------------------------------------
(* Properties.                                                             *)

\* Every column, quota and call in progress stays in its type; released and
\* held money are never negative.
TypeOK ==
  /\ window \in Int /\ enabled \in BOOLEAN /\ late \in Int
  /\ spent \in Nat /\ lagging \in Nat /\ hist \in Nat /\ usage \in Nat
  /\ bal \in Balances
  /\ opened \in BOOLEAN /\ released \in Nat /\ holding \in Nat
  /\ booked \subseteq Transfers /\ baseline \in Nat \cup {Unset}
  /\ status \in {"active", "low", "stopped", "hard_stopped"}
  /\ lock \in Procs \cup {Nobody}
  /\ op \in [All -> Operation]
  /\ faults \in 0..MaxFaults

\* The platform's books implement EscrowLedger at every step, however the
\* handlers, the workers and the settlement interleave and crash.
Books == INSTANCE EscrowLedger WITH
  Charges <- 1..MaxSpend,
  recharged <- bal.recharged, consumed <- bal.consumed,
  refunded <- bal.refunded, balance <- bal.balance

BooksSpec == Books!Spec

\* The window never exceeds escrowWindowCap, which keeps user.quota inside
\* int32: recharges and refills that overlap never add more than the room
\* one of them saw.
WindowWithinCap == window <= Cap

\* The customer's own quota: what was released and not spent, and what the
\* platform never sold.
Owned == released + Own - spent

\* "never below what the customer legitimately owns": a SUBTRACT of the
\* reconciliation leaves at least Owned, although the usage, the bucket and
\* the window it compares are read at different times.
ReconcileKeepsOwned ==
  [][\A p \in Procs :
       (op[p].kind = "reconcile" /\ op[p].ph = "call" /\ window' < window) => window' >= Owned']_vars

\* While no request was lost and nothing crashed, bucket 1 and the window
\* agree as soon as nobody holds the lock: recharges, refunds and refills
\* mirror exactly what they booked, and the reconciliation, comparing a
\* ledger that lags behind the window, finds nothing to correct.
WindowMirrorsBucket ==
  (lock = Nobody /\ faults = 0 /\ Gift = 0) => window + spent = released + Own

-----------------------------------------------------------------------------
(* Fairness: the worker's reconciliation tick comes back and is not         *)
(* prevented for ever by the lock or by failed reads, every handler goes on *)
(* to its end, and usage is booked.  Nothing is assumed of refills.         *)

Progress(p) ==
  RechargeTx(p) \/ RechargeConflict(p) \/ DebitTx(p) \/ RefillTx(p) \/ Abandon(p)
    \/ CallUpstream(p) \/ StopWrite(p) \/ StatusRead(p) \/ StatusWrite(p)

FairSpec ==
  /\ Spec
  /\ \A p \in All : WF_vars(Progress(p))
  /\ SF_vars(\E p \in Procs : ReconcileStart(p)) /\ SF_vars(\E p \in Procs : ReconcileRead(p))
  /\ WF_vars(\E k \in 1..MaxSpend : Settle(k))

\* Usage that the baseline snapshot excuses: what was spent and booked
\* before the first reconciliation.
Excused == (IF baseline = Unset THEN usage ELSE baseline) - Booked

\* An overfunded window (a SUBTRACT that was lost, an ADD that was repeated,
\* a gift that was not cleared) does not stay: reconciliation brings it down
\* to what bucket 1 and the usage justify.
OverfundHealed ==
  opened ~> (window <= Most(0, released - spent + Excused))
=============================================================================
