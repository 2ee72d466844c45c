--------------------------- MODULE EscrowBuckets ---------------------------
(***************************************************************************)
(* The rows of escrow_bucket behind the totals of Escrow: row i is the     *)
(* bucket with seq i.  The loops of repo/escrow.go are recursive functions *)
(* of the number of passes.                                                *)
(***************************************************************************)
EXTENDS Integers, Sequences, FiniteSets

CONSTANTS
  Amounts,        \* amounts of recharges and refunds
  Room,           \* room a recharge or a refill may find in the window
  MaxRecharges    \* bound: recharges

ASSUME BucketsAssumption ==
  Amounts \subseteq Nat \ {0} /\ Room \subseteq Nat /\ MaxRecharges \in Nat

VARIABLES
  rows,       \* escrow_bucket of the organisation
  recharged,  \* company_balance.total_recharged
  refunded,   \* company_balance.total_refunded
  n           \* recharges so far

vars == <<rows, recharged, refunded, n>>

Least(a, b) == IF a <= b THEN a ELSE b

Bucket(amount, status) == [amount |-> amount, status |-> status]

WithStatus(t, status) == {i \in DOMAIN t : t[i].status = status}

First(S) == CHOOSE i \in S : \A j \in S : i <= j
Last(S) == CHOOSE i \in S : \A j \in S : i >= j

\* SELECT SUM(amount) ... WHERE status = ?
SumOf(t, status) ==
  LET total[i \in 0..Len(t)] ==
        IF i = 0 THEN 0
        ELSE total[i - 1] + (IF t[i].status = status THEN t[i].amount ELSE 0)
  IN total[Len(t)]

\* Bucket 1.
Active == First(WithStatus(rows, "active"))

Init == rows = <<>> /\ recharged = 0 /\ refunded = 0 /\ n = 0

\* Buckets of a recharge: seq 1 is created with the first one, and every
\* remainder gets the next seq.
Recharge(a, room) ==
  /\ n < MaxRecharges /\ n' = n + 1
  /\ LET fit == Least(a, room)
         active == IF rows = <<>> THEN <<Bucket(fit, "active")>>
                   ELSE [rows EXCEPT ![Active].amount = @ + fit]
     IN rows' = IF a > fit THEN Append(active, Bucket(a - fit, "holding")) ELSE active
  /\ recharged' = recharged + a
  /\ UNCHANGED refunded

\* Mutant: the newest bucket is merged first.
NextHoldingBucketTx_Newest(t) == Last(WithStatus(t, "holding"))

\* ORDER BY seq LIMIT 1
NextHoldingBucketTx(t) == First(WithStatus(t, "holding"))

\* Mutant: the take is not limited to what the bucket has.
Take_Unlimited(bucket, remaining) == remaining

Take(bucket, remaining) == Least(bucket.amount, remaining)

\* A pass of the loop of MergeHoldingIntoActiveTx: its table, what remains to
\* be merged and how much it merged.
MergePass(s) ==
  IF s.remaining <= 0 \/ WithStatus(s.rows, "holding") = {} THEN s
  ELSE LET h == NextHoldingBucketTx(s.rows)
           take == Take(s.rows[h], s.remaining)
           rest == s.rows[h].amount - take
       IN [rows |-> [s.rows EXCEPT ![h] = Bucket(rest, IF rest = 0 THEN "merged" ELSE "holding")],
           remaining |-> s.remaining - take, merged |-> s.merged + take]

\* Every pass but the last uses up a bucket.
MergeLoop(t, room) ==
  LET pass[k \in 0..Len(t)] ==
        IF k = 0 THEN [rows |-> t, remaining |-> room, merged |-> 0] ELSE MergePass(pass[k - 1])
  IN pass[Len(t)]

MergeHoldingIntoActiveTx(room) ==
  /\ WithStatus(rows, "active") # {} /\ room > 0
  /\ LET m == MergeLoop(rows, room)
     IN rows' = [m.rows EXCEPT ![Active].amount = @ + m.merged]
  /\ UNCHANGED <<recharged, refunded, n>>

\* Mutant: the loop goes on with the full amount.
Reduced_NoRest(remaining, dec) == remaining

Reduced(remaining, dec) == remaining - dec

\* A pass of the loop of ReduceEscrowTx over the holding buckets, newest first.
ReducePass(s) ==
  IF s.remaining <= 0 \/ s.todo = {} THEN s
  ELSE LET h == Last(s.todo)
           dec == Least(s.remaining, s.rows[h].amount)
           rest == s.rows[h].amount - dec
       IN [rows |-> [s.rows EXCEPT ![h] = Bucket(rest, IF rest = 0 THEN "merged" ELSE "holding")],
           remaining |-> Reduced(s.remaining, dec), todo |-> s.todo \ {h}]

ReduceLoop(t, a) ==
  LET pass[k \in 0..Len(t)] ==
        IF k = 0 THEN [rows |-> t, remaining |-> a, todo |-> WithStatus(t, "holding")]
        ELSE ReducePass(pass[k - 1])
  IN pass[Len(t)]

\* What bucket 1, if there is one, pays of the rest that the loop leaves.
WindowDec(a) ==
  IF WithStatus(rows, "active") = {} THEN 0
  ELSE Least(ReduceLoop(rows, a).remaining, rows[Active].amount)

\* Not ErrInsufficientBalance, which rolls the refund back.
Sufficient(a) == ReduceLoop(rows, a).remaining - WindowDec(a) <= 0

ReduceEscrowTx(a) ==
  /\ a <= recharged - refunded                \* DebitBalanceTx
  /\ Sufficient(a)
  /\ LET r == ReduceLoop(rows, a)
     IN rows' = IF r.remaining > 0 THEN [r.rows EXCEPT ![Active].amount = @ - WindowDec(a)] ELSE r.rows
  /\ refunded' = refunded + a
  /\ UNCHANGED <<recharged, n>>

Next ==
  \/ \E a \in Amounts : ReduceEscrowTx(a) \/ \E room \in Room : Recharge(a, room)
  \/ \E room \in Room : MergeHoldingIntoActiveTx(room)

Spec == Init /\ [][Next]_vars

-----------------------------------------------------------------------------
\* Every bucket keeps a non-negative amount and a known status.
TypeOK ==
  /\ rows \in Seq([amount : Nat, status : {"active", "holding", "merged"}])
  /\ recharged \in Nat /\ refunded \in Nat /\ n \in 0..MaxRecharges

\* The loops over the rows implement the totals: a refill moves held money
\* into bucket 1, a refund takes held money first and then bucket 1, and no
\* quota appears or disappears between the buckets.
Totals == INSTANCE EscrowLedger WITH
  Charges <- {}, consumed <- 0, balance <- recharged - refunded,
  released <- SumOf(rows, "active"), holding <- SumOf(rows, "holding")

TotalsSpec == Totals!Spec

\* A refill releases the oldest money first: it touches a bucket only when
\* every older holding bucket is used up.
OldestFirst ==
  [][\A i, j \in DOMAIN rows :
       (/\ i < j /\ refunded' = refunded
        /\ rows'[j] # rows[j] /\ rows[j].status = "holding")
         => rows'[i].status # "holding"]_vars

\* A refund that the balance admits is never rolled back for lack of buckets.
RefundNeverStuck ==
  \A a \in Amounts : a <= recharged - refunded => Sufficient(a)
=============================================================================
