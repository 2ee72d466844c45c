---------------------------- MODULE EscrowLedger ----------------------------
(***************************************************************************)
(* What the platform's own books promise about the money of one            *)
(* organisation, whatever buckets, locks and upstream calls are used to    *)
(* keep them: company_balance and the released and held totals of          *)
(* escrow_bucket.  Escrow implements this specification.                   *)
(***************************************************************************)
EXTENDS Integers

CONSTANTS
  Amounts,       \* amounts an operator may enter, positive
  Charges        \* amounts a settlement round may deduct, positive

VARIABLES
  recharged, consumed, refunded, balance,   \* company_balance
  released,                                 \* bucket 1
  holding                                   \* sum of the holding buckets

books == <<recharged, consumed, refunded, balance, released, holding>>

Init ==
  /\ recharged = 0 /\ consumed = 0 /\ refunded = 0 /\ balance = 0
  /\ released = 0 /\ holding = 0

\* A recharge is split between the window and the held remainder.
Recharge(a, fit) ==
  /\ recharged' = recharged + a /\ balance' = balance + a
  /\ released' = released + fit /\ holding' = holding + (a - fit)
  /\ UNCHANGED <<consumed, refunded>>

\* Held money moves into bucket 1.
Release(m) ==
  /\ m <= holding
  /\ released' = released + m /\ holding' = holding - m
  /\ UNCHANGED <<recharged, consumed, refunded, balance>>

\* A refund within the balance takes held money first.
Refund(a) ==
  /\ a <= balance
  /\ refunded' = refunded + a /\ balance' = balance - a
  /\ LET held == IF a <= holding THEN a ELSE holding
     IN holding' = holding - held /\ released' = released - (a - held)
  /\ UNCHANGED <<recharged, consumed>>

\* Settlement charges usage; the balance may become negative.
Deduct(k) ==
  /\ consumed' = consumed + k /\ balance' = balance - k
  /\ UNCHANGED <<recharged, refunded, released, holding>>

Next ==
  \/ \E a \in Amounts : Refund(a) \/ \E fit \in 0..a : Recharge(a, fit)
  \/ \E m \in 1..holding : Release(m)
  \/ \E k \in Charges : Deduct(k)

Spec == Init /\ [][Next]_books

\* The assertion of reconcileOrgEscrow, at all times: what was released into
\* the window plus what is held is what was paid in minus what was paid back.
Conserved == released + holding = recharged - refunded

\* The assertion of RunSettlement: the balance column is derivable.
BalanceDerived == balance = recharged - consumed - refunded
=============================================================================
