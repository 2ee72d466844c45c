---------------------------- MODULE EscrowProofs ----------------------------
(***************************************************************************)
(* Proofs about Escrow for any number of processes, transfers and amounts. *)
(***************************************************************************)
EXTENDS Escrow, TLAPS

(***************************************************************************)
(* The books.  An operation carries what it still needs: a recharge a      *)
(* positive amount and the part that fits, a refund its amount, a refill   *)
(* the room it saw.                                                        *)
(***************************************************************************)
Carries(o) ==
  /\ o.ph = "tx" /\ o.kind = "recharge" =>
       o.id \in Transfers /\ o.arg \in Amounts /\ o.amt \in 0..o.arg
  /\ o.ph = "tx" /\ o.kind = "debit" => o.arg \in Amounts
  /\ o.ph = "tx" /\ o.kind = "refill" => o.arg \in Nat

BooksInv ==
  /\ TypeOK
  /\ \A p \in All : Carries(op[p])
  /\ bal.balance = bal.recharged - bal.consumed - bal.refunded
  /\ released + holding = bal.recharged - bal.refunded

\* The books are empty and balanced initially.
LEMMA InitBooksInv == Init => BooksInv
<1> SUFFICES ASSUME Init PROVE BooksInv
  OBVIOUS
<1>1. Idle \in Operation
  BY DEF Idle, Doing, Operation, Kinds, Phases
<1>2. op \in [All -> Operation] /\ \A p \in All : op[p] = Idle
  BY <1>1 DEF Init
<1>3. /\ window \in Int /\ late \in Int
      /\ spent \in Nat /\ lagging \in Nat /\ hist \in Nat /\ usage \in Nat
      /\ released \in Nat /\ holding \in Nat /\ faults \in 0..MaxFaults
  BY EscrowAssumption DEF Init
<1>4. bal \in Balances
  BY DEF Init, NoBalance, Balances
<1>5. /\ enabled \in BOOLEAN /\ opened \in BOOLEAN /\ booked \subseteq Transfers
      /\ baseline \in Nat \cup {Unset} /\ lock \in Procs \cup {Nobody}
      /\ status \in {"active", "low", "stopped", "hard_stopped"}
  BY DEF Init
<1>6. TypeOK
  BY <1>2, <1>3, <1>4, <1>5 DEF TypeOK
<1>7. \A p \in All : Carries(op[p])
  BY <1>2 DEF Carries, Idle, Doing
<1> QED
  BY <1>6, <1>7 DEF BooksInv, Init, NoBalance

\* A handler record built field by field is typed.
LEMMA MakeOp ==
  ASSUME NEW kind \in Kinds \cup {"none", "stop", "release"}, NEW ph \in Phases,
         NEW id \in Transfers \cup {Nobody},
         NEW arg \in Int, NEW amt \in Int, NEW b \in Int
  PROVE  Doing(kind, ph, id, arg, amt, b) \in Operation
  BY DEF Operation, Doing

\* What the shared steps do to the operations in progress.
LEMMA SetOp ==
  ASSUME NEW p \in All, NEW o \in Operation, op \in [All -> Operation],
         op' = [op EXCEPT ![p] = o]
  PROVE  /\ op' \in [All -> Operation]
         /\ \A q \in All : q # p => op'[q] = op[q]
         /\ op'[p] = o
  OBVIOUS

\* Moving a handler to another phase keeps its record typed.
LEMMA GotoOp ==
  ASSUME NEW p \in All, NEW ph \in Phases, NEW amt \in Int, NEW b \in Int,
         op \in [All -> Operation], Goto(p, ph, amt, b)
  PROVE  /\ op' \in [All -> Operation]
         /\ \A q \in All : q # p => op'[q] = op[q]
         /\ op'[p] = Doing(op[p].kind, ph, Nobody, 0, amt, b)
<1> DEFINE o == Doing(op[p].kind, ph, Nobody, 0, amt, b)
<1>1. op' = [op EXCEPT ![p] = o]
  BY DEF Goto
<1>2. op[p].kind \in Kinds \cup {"none", "stop", "release"}
  BY DEF Operation
<1>3. o \in Operation
  BY <1>2 DEF Operation, Doing
<1> QED
  BY <1>1, <1>3, SetOp

\* The record of an idle handler is typed.
LEMMA IdleOp == Idle \in Operation
  BY DEF Idle, Doing, Operation, Kinds, Phases

\* A handler that ends is idle and typed.
LEMMA FinishOp ==
  ASSUME NEW p \in All, op \in [All -> Operation], Finish(p)
  PROVE  /\ op' \in [All -> Operation]
         /\ \A q \in All : q # p => op'[q] = op[q]
         /\ op'[p] = Idle
  BY IdleOp, SetOp DEF Finish

\* After its commit a handler carries the committed balance and stays typed.
LEMMA CommittedOp ==
  ASSUME NEW p \in All, NEW b \in Int, op \in [All -> Operation], Committed(p, b)
  PROVE  /\ op' \in [All -> Operation]
         /\ \A q \in All : q # p => op'[q] = op[q]
         /\ op'[p].ph \in {"status", "idle"}
<1>1. CASE op[p].kind \in {"recharge", "debit"}
  <2> DEFINE o == Doing(op[p].kind, "status", Nobody, 0, 0, b)
  <2>1. op' = [op EXCEPT ![p] = o]
    BY <1>1 DEF Committed
  <2>2. o \in Operation
    BY <1>1, MakeOp DEF Kinds, Phases
  <2> QED
    BY <2>1, <2>2, SetOp DEF Doing
<1>2. CASE op[p].kind \notin {"recharge", "debit"}
  BY <1>2, FinishOp DEF Committed, Idle, Doing
<1> QED
  BY <1>1, <1>2

\* A handler that begins is typed.
LEMMA BeginOp ==
  ASSUME NEW p \in Procs, NEW kind \in Kinds, NEW ph \in Phases,
         NEW id \in Transfers \cup {Nobody}, NEW arg \in Int, NEW amt \in Int,
         op \in [All -> Operation], Begin(p, kind, ph, id, arg, amt)
  PROVE  /\ op' \in [All -> Operation]
         /\ \A q \in All : q # p => op'[q] = op[q]
         /\ op'[p] = Doing(kind, ph, id, arg, amt, 0)
<1> DEFINE o == Doing(kind, ph, id, arg, amt, 0)
<1>1. op' = [op EXCEPT ![p] = o]
  BY DEF Begin
<1>2. o \in Operation
  BY MakeOp
<1>3. p \in All
  BY DEF All
<1> QED
  BY <1>1, <1>2, <1>3, SetOp

\* The lock holder is a process, or nobody.
LEMMA LockTyped ==
  ASSUME NEW p \in All, NEW b, lock \in Procs \cup {Nobody}
  PROVE  Finish(p) \/ Committed(p, b) => lock' \in Procs \cup {Nobody}
  BY DEF Finish, Committed

\* Every step of the handlers, workers and gateway keeps the books invariant.
LEMMA NextBooksInv == BooksInv /\ [Next]_vars => BooksInv'
<1> SUFFICES ASSUME BooksInv, [Next]_vars PROVE BooksInv'
  OBVIOUS
<1> USE EscrowAssumption
<1>n. \A a \in Amounts : a \in Nat
  OBVIOUS
<1>0. /\ op \in [All -> Operation] /\ lock \in Procs \cup {Nobody}
      /\ \A p \in All : Carries(op[p])
      /\ \A p \in All : op[p].amt \in Int /\ op[p].bal \in Int /\ op[p].arg \in Int
  BY DEF BooksInv, TypeOK, Operation
<1>00. Procs \subseteq All
  BY DEF All
<1>000. bal.recharged \in Nat /\ bal.consumed \in Nat /\ bal.refunded \in Nat /\ bal.balance \in Int
  BY DEF BooksInv, TypeOK, Balances
<1> DEFINE Same == UNCHANGED <<bal, released, holding>>
           Typed == /\ window' \in Int /\ enabled' \in BOOLEAN /\ late' \in Int
                    /\ spent' \in Nat /\ lagging' \in Nat /\ hist' \in Nat /\ usage' \in Nat
                    /\ opened' \in BOOLEAN /\ booked' \subseteq Transfers
                    /\ baseline' \in Nat \cup {Unset}
                    /\ status' \in {"active", "low", "stopped", "hard_stopped"}
                    /\ faults' \in 0..MaxFaults
           OpsOK == /\ lock' \in Procs \cup {Nobody} /\ op' \in [All -> Operation]
                    /\ \A q \in All : Carries(op'[q])
<1>a. ASSUME Same, Typed, OpsOK PROVE BooksInv'
  BY <1>a DEF BooksInv, TypeOK
<1>b. ASSUME NEW p \in All, Finish(p) PROVE OpsOK
  BY <1>0, <1>b, FinishOp, LockTyped DEF Carries, Idle, Doing
<1>c. ASSUME NEW p \in All, NEW b \in Int, Committed(p, b) PROVE OpsOK
  BY <1>0, <1>c, CommittedOp, LockTyped DEF Carries
<1>d. ASSUME NEW p \in All, NEW ph \in {"call", "flip"}, NEW amt \in Int, NEW b \in Int,
             Goto(p, ph, amt, b)
      PROVE  OpsOK
  <2>1. ph \in Phases
    BY DEF Phases
  <2>2. /\ op' \in [All -> Operation] /\ \A q \in All : q # p => op'[q] = op[q]
        /\ op'[p] = Doing(op[p].kind, ph, Nobody, 0, amt, b)
    BY <1>0, <1>d, <2>1, GotoOp
  <2>3. Carries(op'[p])
    <3>1. op'[p].ph = ph
      BY <2>2 DEF Doing
    <3> QED
      BY <3>1 DEF Carries
  <2>4. lock' = lock /\ \A q \in All : Carries(op'[q])
    <3>1. \A q \in All : q = p \/ op'[q] = op[q]
      BY <2>2
    <3> QED
      BY <1>0, <1>d, <2>3, <3>1 DEF Goto
  <2> QED
    BY <1>0, <2>2, <2>4
<1>e. CASE UNCHANGED vars
  BY <1>e DEF vars, BooksInv, TypeOK, Carries
<1>1. ASSUME NEW k \in 1..MaxCall, Consume(k) PROVE BooksInv'
  <2>1. Same /\ Typed
    BY <1>1 DEF Consume, buckets, BooksInv, TypeOK
  <2>2. OpsOK
    BY <1>0, <1>1 DEF Consume
  <2> QED
    BY <1>a, <2>1, <2>2
<1>2. CASE Arrive
  <2>1. Same /\ Typed
    BY <1>2 DEF Arrive, buckets, ledger, BooksInv, TypeOK
  <2>2. OpsOK
    BY <1>0, <1>2 DEF Arrive
  <2> QED
    BY <1>a, <2>1, <2>2
<1>3. ASSUME NEW p \in Procs, NEW kind \in Kinds, NEW ph \in {"tx", "read"},
             NEW id \in Transfers \cup {Nobody}, NEW arg \in Int, NEW amt \in Int,
             Begin(p, kind, ph, id, arg, amt),
             Carries(Doing(kind, ph, id, arg, amt, 0))
      PROVE  OpsOK
  <2>1. ph \in Phases
    BY DEF Phases
  <2>2. /\ op' \in [All -> Operation] /\ op'[p] = Doing(kind, ph, id, arg, amt, 0)
        /\ \A q \in All : q # p => op'[q] = op[q]
    BY <1>0, <1>3, <2>1, BeginOp
  <2> QED
    BY <1>0, <1>3, <2>2 DEF Begin
<1>4. ASSUME NEW p \in Procs, NEW t \in Transfers, NEW a \in Amounts, RechargeStart(p, t, a)
      PROVE  BooksInv'
  <2>1. Same /\ Typed
    BY <1>4 DEF RechargeStart, gateway, ledger, buckets, BooksInv, TypeOK
  <2>2. FitInWindow(a, window) \in 0..a
    BY DEF FitInWindow, Least, Most, BooksInv, TypeOK
  <2>3. Carries(Doing("recharge", "tx", t, a, FitInWindow(a, window), 0))
    BY <2>2 DEF Carries, Doing
  <2>4. OpsOK
    BY <1>3, <1>4, <2>2, <2>3 DEF RechargeStart, Kinds
  <2> QED
    BY <1>a, <2>1, <2>4
<1>5. ASSUME NEW p \in Procs, NEW a \in Amounts, DebitStart(p, a) PROVE BooksInv'
  <2>1. Same /\ Typed
    BY <1>5 DEF DebitStart, gateway, ledger, buckets, BooksInv, TypeOK
  <2>2. Carries(Doing("debit", "tx", Nobody, a, 0, 0))
    BY DEF Carries, Doing
  <2>3. OpsOK
    BY <1>3, <1>5, <2>2 DEF DebitStart, Kinds
  <2> QED
    BY <1>a, <2>1, <2>3
<1>6. ASSUME NEW p \in Procs, NEW t \in Triggers, RefillStart(p, t) PROVE BooksInv'
  <2>1. Same /\ Typed
    BY <1>6 DEF RefillStart, gateway, ledger, buckets, BooksInv, TypeOK
  <2>2. Cap - window \in Nat
    BY <1>6 DEF RefillStart, BooksInv, TypeOK
  <2>3. Carries(Doing("refill", "tx", Nobody, Cap - window, 0, 0))
    BY <2>2 DEF Carries, Doing
  <2>4. OpsOK
    BY <1>3, <1>6, <2>2, <2>3 DEF RefillStart, Kinds
  <2> QED
    BY <1>a, <2>1, <2>4
<1>7. ASSUME NEW p \in Procs, ReconcileStart(p) PROVE BooksInv'
  <2>1. BaselineOf \in Nat
    BY DEF BaselineOf, BooksInv, TypeOK
  <2>2. Same /\ Typed
    BY <1>7, <2>1 DEF ReconcileStart, gateway, ledger, buckets, BooksInv, TypeOK
  <2>3. TargetWindow \in Int
    BY <2>1 DEF TargetWindow, Most, BooksInv, TypeOK
  <2>4. Carries(Doing("reconcile", "read", Nobody, TargetWindow, 0, 0))
    BY DEF Carries, Doing
  <2>5. OpsOK
    BY <1>3, <1>7, <2>3, <2>4 DEF ReconcileStart, Kinds
  <2> QED
    BY <1>a, <2>2, <2>5
<1>8. ASSUME NEW p \in Procs, HardStop(p) \/ ReleaseStop(p) PROVE BooksInv'
  <2>1. Same /\ Typed
    BY <1>8 DEF HardStop, ReleaseStop, ledger, buckets, BooksInv, TypeOK
  <2>2. PICK kind \in {"stop", "release"} :
           op' = [op EXCEPT ![p] = Doing(kind, "switched", Nobody, 0, 0, 0)]
    BY <1>8 DEF HardStop, ReleaseStop
  <2>3. Doing(kind, "switched", Nobody, 0, 0, 0) \in Operation
    BY DEF Doing, Operation, Phases
  <2>4. OpsOK
    BY <1>0, <1>00, <1>8, <2>2, <2>3, SetOp DEF HardStop, ReleaseStop, Carries, Doing
  <2> QED
    BY <1>a, <2>1, <2>4
<1>9. ASSUME NEW p \in Procs, RechargeTx(p) PROVE BooksInv'
  <2> DEFINE a == op[p].arg
             fit == op[p].amt
  <2>1. op[p].id \in Transfers /\ a \in Nat /\ fit \in Nat /\ fit <= a
    BY <1>0, <1>00, <1>9, <1>n DEF RechargeTx, Carries
  <2>2. /\ bal' = BalanceRow(bal.recharged + a, bal.consumed, bal.refunded)
        /\ released' = released + fit /\ holding' = holding + (a - fit)
    BY <1>9 DEF RechargeTx, AddRechargeTx
  <2>3. /\ bal' \in Balances
        /\ released' \in Nat /\ holding' \in Nat
        /\ bal'.balance = bal'.recharged - bal'.consumed - bal'.refunded
        /\ released' + holding' = bal'.recharged - bal'.refunded
    <3>1. bal.recharged + a \in Nat
      BY <1>000, <2>1
    <3>2. /\ bal' \in Balances /\ bal'.recharged = bal.recharged + a
          /\ bal'.consumed = bal.consumed /\ bal'.refunded = bal.refunded
          /\ bal'.balance = (bal.recharged + a) - bal.consumed - bal.refunded
      BY <1>000, <2>2, <3>1 DEF BalanceRow, Balances
    <3> QED
      BY <1>000, <2>1, <2>2, <3>2 DEF BooksInv, TypeOK
  <2>4. Typed
    BY <1>9, <2>1 DEF RechargeTx, gateway, ledger, BooksInv, TypeOK
  <2>5. bal'.balance \in Int /\ fit \in Int
    BY <2>1, <2>3 DEF Balances
  <2>6. OpsOK
    BY <1>00, <1>9, <1>c, <1>d, <2>5 DEF RechargeTx
  <2> QED
    BY <2>3, <2>4, <2>6 DEF BooksInv, TypeOK
<1>10. ASSUME NEW p \in Procs, DebitTx(p) PROVE BooksInv'
  <2> DEFINE a == op[p].arg
             dec == a - Least(a, holding)
  <2>1. a \in Nat /\ a <= released + holding
    BY <1>0, <1>00, <1>10, <1>n DEF DebitTx, Carries
  <2>2. /\ bal' = BalanceRow(bal.recharged, bal.consumed, bal.refunded + a)
        /\ holding' = holding - Least(a, holding) /\ released' = released - dec
    BY <1>10 DEF DebitTx, ReduceEscrowTx
  <2>3. /\ holding' \in Nat /\ released' \in Nat /\ dec \in Nat
        /\ released' + holding' = released + holding - a
    BY <2>1, <2>2 DEF Least, BooksInv, TypeOK
  <2>4. /\ bal' \in Balances
        /\ bal'.recharged = bal.recharged /\ bal'.consumed = bal.consumed
        /\ bal'.refunded = bal.refunded + a
        /\ bal'.balance = bal.recharged - bal.consumed - (bal.refunded + a)
    <3>1. bal.refunded + a \in Nat
      BY <1>000, <2>1
    <3> QED
      BY <1>000, <2>2, <3>1 DEF BalanceRow, Balances
  <2>5. Typed
    BY <1>10 DEF DebitTx, gateway, ledger, BooksInv, TypeOK
  <2>6. bal'.balance \in Int /\ -dec \in Int
    BY <2>3, <2>4 DEF Balances
  <2>7. OpsOK
    BY <1>00, <1>10, <1>c, <1>d, <2>6 DEF DebitTx
  <2>8. /\ bal'.balance = bal'.recharged - bal'.consumed - bal'.refunded
        /\ released' + holding' = bal'.recharged - bal'.refunded
    BY <1>000, <2>1, <2>3, <2>4 DEF BooksInv, TypeOK
  <2> QED
    BY <2>3, <2>4, <2>5, <2>7, <2>8 DEF BooksInv, TypeOK
<1>11. ASSUME NEW p \in Procs, RefillTx(p) PROVE BooksInv'
  <2> DEFINE merged == MergeHoldingIntoActiveTx(op[p].arg)
  <2>1. merged \in 0..holding
    BY <1>0, <1>00, <1>11 DEF RefillTx, Carries, MergeHoldingIntoActiveTx, Least, BooksInv, TypeOK
  <2>2. released' = released + merged /\ holding' = holding - merged /\ bal' = bal
    BY <1>11 DEF RefillTx
  <2>3. Typed
    BY <1>11 DEF RefillTx, gateway, ledger, BooksInv, TypeOK
  <2>4. OpsOK
    BY <1>00, <1>11, <1>b, <1>d, <2>1 DEF RefillTx, BooksInv, TypeOK
  <2> QED
    BY <2>1, <2>2, <2>3, <2>4 DEF BooksInv, TypeOK
<1>12. ASSUME NEW p \in Procs, ReconcileRead(p) PROVE BooksInv'
  <2>1. Same /\ Typed
    BY <1>12 DEF ReconcileRead, gateway, ledger, buckets, BooksInv, TypeOK
  <2>2. op[p].arg - window \in Int
    BY <1>0, <1>00 DEF BooksInv, TypeOK
  <2>3. OpsOK
    BY <1>00, <1>12, <1>b, <1>d, <2>2 DEF ReconcileRead
  <2> QED
    BY <1>a, <2>1, <2>3
<1>13. ASSUME NEW p \in Procs, CallUpstream(p) PROVE BooksInv'
  <2>1. window' \in Int /\ late' \in Int /\ faults' \in 0..MaxFaults
    BY <1>0, <1>00, <1>13 DEF CallUpstream, ManageUserQuota, BooksInv, TypeOK
  <2>2. Same /\ Typed
    BY <1>13, <2>1 DEF CallUpstream, ledger, buckets, BooksInv, TypeOK
  <2>3. OpsOK
    BY <1>0, <1>00, <1>13, <1>c DEF CallUpstream
  <2> QED
    BY <1>a, <2>2, <2>3
<1>14. ASSUME NEW p \in Procs, RechargeConflict(p) \/ Abandon(p) PROVE BooksInv'
  <2>1. Same /\ Typed
    BY <1>14 DEF RechargeConflict, Abandon, gateway, ledger, buckets, BooksInv, TypeOK
  <2>2. OpsOK
    BY <1>00, <1>14, <1>b DEF RechargeConflict, Abandon
  <2> QED
    BY <1>a, <2>1, <2>2
<1>15. ASSUME NEW p \in Procs, StopWrite(p) PROVE BooksInv'
  <2>1. Same /\ Typed
    BY <1>15 DEF StopWrite, gateway, ledger, buckets, BooksInv, TypeOK
  <2>2. OpsOK
    BY <1>0, <1>00, <1>15, IdleOp, SetOp DEF StopWrite, Carries, Idle, Doing
  <2> QED
    BY <1>a, <2>1, <2>2
<1>16. ASSUME NEW p \in All, StatusRead(p) \/ StatusWrite(p) \/ StatusFails(p) PROVE BooksInv'
  <2>1. Same /\ Typed
    BY <1>16 DEF StatusRead, StatusWrite, StatusFails, StatusOf, gateway, ledger, buckets, BooksInv, TypeOK
  <2>2. OpsOK
    BY <1>0, <1>16, <1>b, <1>d DEF StatusRead, StatusWrite, StatusFails
  <2> QED
    BY <1>a, <2>1, <2>2
<1>17. ASSUME NEW k \in 1..MaxSpend, Settle(k) PROVE BooksInv'
  <2>1. Typed /\ UNCHANGED <<released, holding, lock>>
    BY <1>17 DEF Settle, gateway, buckets, BooksInv, TypeOK
  <2>2. CASE Billing /\ bal.row
    <3>1. /\ bal' \in Balances
          /\ bal'.recharged = bal.recharged /\ bal'.refunded = bal.refunded
          /\ bal'.consumed = bal.consumed + k
          /\ bal'.balance = bal.recharged - (bal.consumed + k) - bal.refunded
          /\ bal'.balance \in Int
      <4>1. bal' = BalanceRow(bal.recharged, bal.consumed + k, bal.refunded)
        BY <1>17, <2>2 DEF Settle, DeductBalanceTx
      <4>2. bal.consumed + k \in Nat
        BY <1>000
      <4>3. /\ bal' \in Balances
            /\ bal'.recharged = bal.recharged /\ bal'.refunded = bal.refunded
            /\ bal'.consumed = bal.consumed + k
            /\ bal'.balance = bal.recharged - (bal.consumed + k) - bal.refunded
        BY <1>000, <4>1, <4>2 DEF BalanceRow, Balances
      <4> QED
        BY <4>3 DEF Balances
    <3>2. Doing("none", "status", Nobody, 0, 0, bal'.balance) \in Operation
      BY <3>1 DEF Doing, Operation, Phases
    <3>3. Settler \in All
      BY DEF All
    <3>4. OpsOK
      BY <1>0, <1>17, <2>1, <2>2, <3>2, <3>3, SetOp DEF Settle, Carries, Doing
    <3> QED
      BY <2>1, <3>1, <3>4 DEF BooksInv, TypeOK
  <2>3. CASE ~(Billing /\ bal.row)
    BY <1>0, <1>17, <1>a, <2>1, <2>3 DEF Settle
  <2> QED
    BY <2>2, <2>3
<1>18. ASSUME NEW k \in 1..Unbooked, BookHistory(k) PROVE BooksInv'
  <2>1. Same /\ Typed
    BY <1>18 DEF BookHistory, gateway, buckets, BooksInv, TypeOK
  <2>2. OpsOK
    BY <1>0, <1>18 DEF BookHistory
  <2> QED
    BY <1>a, <2>1, <2>2
<1>19. CASE Crash
  <2>1. Same /\ Typed
    BY <1>19 DEF Crash, gateway, ledger, buckets, BooksInv, TypeOK
  <2>2. OpsOK
    BY <1>19, IdleOp DEF Crash, Carries, Idle, Doing
  <2> QED
    BY <1>a, <2>1, <2>2
<1> QED
  BY <1>e, <1>1, <1>2, <1>4, <1>5, <1>6, <1>7, <1>8, <1>9, <1>10, <1>11, <1>12, <1>13,
     <1>14, <1>15, <1>16, <1>17, <1>18, <1>19
  DEF Next, Start, Continue

\* The books invariant holds for ever: types, the balance as a function of the
\* totals, and released plus held equal to recharged minus refunded.
THEOREM BooksInvariant == Spec => []BooksInv
  BY InitBooksInv, NextBooksInv, PTL DEF Spec

-----------------------------------------------------------------------------
(* Refinement: the transactions are the only steps that move the books.    *)

\* An organisation without a balance row is an empty ledger.
LEMMA InitRefines == Init => Books!Init
  BY DEF Init, NoBalance, Books!Init

\* Every step is a step of the abstract ledger or leaves the books alone.
LEMMA NextRefines == BooksInv /\ [Next]_vars => [Books!Next]_(Books!books)
<1> SUFFICES ASSUME BooksInv, [Next]_vars, ~ UNCHANGED <<bal, released, holding>>
             PROVE  Books!Next
  BY DEF Books!books
<1> USE EscrowAssumption
<1>1. /\ bal.recharged \in Nat /\ bal.consumed \in Nat /\ bal.refunded \in Nat /\ bal.balance \in Int
      /\ released \in Nat /\ holding \in Nat
      /\ bal.balance = bal.recharged - bal.consumed - bal.refunded
  BY DEF BooksInv, TypeOK, Balances
<1>2. \/ \E p \in Procs : RechargeTx(p) \/ DebitTx(p) \/ RefillTx(p)
      \/ \E k \in 1..MaxSpend : Settle(k)
  BY DEF Next, Start, Continue, vars, buckets, Consume, Arrive, RechargeStart, DebitStart,
     RefillStart, ReconcileStart, HardStop, ReleaseStop, RechargeConflict, ReconcileRead,
     CallUpstream, StopWrite, Abandon, StatusRead, StatusWrite, StatusFails, BookHistory, Crash
<1>3. ASSUME NEW p \in Procs, RechargeTx(p) PROVE Books!Next
  <2> DEFINE a == op[p].arg
             fit == op[p].amt
  <2>1. a \in Amounts /\ fit \in 0..a
    BY <1>3 DEF BooksInv, Carries, RechargeTx, All
  <2>2. a \in Nat
    BY <2>1
  <2>3. /\ bal' = BalanceRow(bal.recharged + a, bal.consumed, bal.refunded)
        /\ released' = released + fit /\ holding' = holding + (a - fit)
    BY <1>3 DEF RechargeTx, AddRechargeTx
  <2>4. Books!Recharge(a, fit)
    BY <1>1, <2>2, <2>3 DEF Books!Recharge, BalanceRow
  <2> QED
    BY <2>1, <2>4 DEF Books!Next
<1>4. ASSUME NEW p \in Procs, DebitTx(p) PROVE Books!Next
  <2> DEFINE a == op[p].arg
  <2>1. a \in Amounts /\ a <= bal.balance
    BY <1>4 DEF BooksInv, Carries, DebitTx, All
  <2>2. a \in Nat
    BY <2>1
  <2>3. /\ bal' = BalanceRow(bal.recharged, bal.consumed, bal.refunded + a)
        /\ holding' = holding - Least(a, holding) /\ released' = released - (a - Least(a, holding))
    BY <1>4 DEF DebitTx, ReduceEscrowTx
  <2>4. Books!Refund(a)
    BY <1>1, <2>1, <2>2, <2>3 DEF Books!Refund, BalanceRow, Least
  <2> QED
    BY <2>1, <2>4 DEF Books!Next
<1>5. ASSUME NEW p \in Procs, RefillTx(p) PROVE Books!Next
  <2> DEFINE m == MergeHoldingIntoActiveTx(op[p].arg)
  <2>1. /\ released' = released + m /\ holding' = holding - m /\ bal' = bal
    BY <1>5 DEF RefillTx
  <2>2. m \in 0..holding
    BY <1>1, <1>5 DEF BooksInv, Carries, RefillTx, All, MergeHoldingIntoActiveTx, Least
  <2>3. m # 0
    BY <1>1, <2>1
  <2>4. m \in 1..holding /\ Books!Release(m)
    BY <1>1, <2>1, <2>2, <2>3 DEF Books!Release
  <2> QED
    BY <2>4 DEF Books!Next
<1>6. ASSUME NEW k \in 1..MaxSpend, Settle(k) PROVE Books!Next
  <2>1. /\ bal' = BalanceRow(bal.recharged, bal.consumed + k, bal.refunded)
        /\ released' = released /\ holding' = holding
    BY <1>6 DEF Settle, DeductBalanceTx, buckets
  <2>2. Books!Deduct(k)
    BY <1>1, <2>1 DEF Books!Deduct, BalanceRow
  <2> QED
    BY <2>2 DEF Books!Next
<1> QED
  BY <1>2, <1>3, <1>4, <1>5, <1>6

\* Whatever requests, workers, settlement rounds and crashes interleave, and
\* whatever happens to the calls to the gateway, the tables of billing.go and
\* escrow.go behave as EscrowLedger says.
THEOREM BooksRefinement == Spec => BooksSpec
  BY InitRefines, NextRefines, BooksInvariant, PTL DEF Spec, BooksSpec, Books!Spec

\* The two conservation assertions of the code hold at all times: released
\* plus held is recharged minus refunded, and the balance column is what the
\* totals say.
THEOREM BooksConserved == Spec => [](Books!Conserved /\ Books!BalanceDerived)
<1>1. BooksInv => Books!Conserved /\ Books!BalanceDerived
  BY DEF BooksInv, Books!Conserved, Books!BalanceDerived
<1> QED
  BY <1>1, BooksInvariant, PTL

\* Every variable of Escrow keeps its type.
THEOREM TypeCorrect == Spec => []TypeOK
<1>1. BooksInv => TypeOK
  BY DEF BooksInv
<1> QED
  BY <1>1, BooksInvariant, PTL

-----------------------------------------------------------------------------
(***************************************************************************)
(* The window, when a request is applied at most once.  Whoever is between *)
(* its first read and its upstream call holds the lock; what it read stays *)
(* good until its call, because meanwhile the window can only be spent.    *)
(***************************************************************************)
Locked == {"tx", "read", "call"}

FitsCap(o) ==
  /\ o.ph = "tx" /\ o.kind = "recharge" => window + o.amt <= Cap
  /\ o.ph = "tx" /\ o.kind = "refill" => window + o.arg <= Cap
  /\ o.ph = "call" => window + o.amt <= Cap

\* A reconciliation that took its target, or that is about to subtract,
\* leaves the customer at least released - spent, unless usage from before
\* the funding is still to be booked.
KeepsOwned(o) ==
  Unbooked = 0 =>
    /\ o.ph = "read" /\ o.kind = "reconcile" => o.arg + spent >= released
    /\ o.ph = "call" /\ o.kind = "reconcile" => o.amt <= 0 /\ window + o.amt + spent >= released

WindowInv ==
  /\ window <= Cap /\ late = 0
  /\ usage + lagging + hist = Booked + Unbooked + spent /\ usage >= Booked
  /\ baseline # Unset => baseline >= Booked
  /\ \A p \in Procs : op[p].ph \in Locked => lock = p
  /\ \A p \in Procs : FitsCap(op[p]) /\ KeepsOwned(op[p])

\* The window invariant holds initially.
LEMMA InitWindowInv == Init => WindowInv
  BY EscrowAssumption DEF Init, WindowInv, FitsCap, KeepsOwned, Idle, Doing, Locked, All, Unset

\* Every step keeps the window invariant, when a request is applied at most
\* once.
LEMMA NextWindowInv ==
  ASSUME Delivery \subseteq {"lost"}, BooksInv, WindowInv, [Next]_vars
  PROVE  WindowInv'
<1> USE EscrowAssumption
<1>1. /\ op \in [All -> Operation] /\ Procs \subseteq All
      /\ window \in Int /\ spent \in Nat /\ lagging \in Nat /\ usage \in Nat
      /\ hist \in Nat /\ released \in Nat /\ holding \in Nat /\ baseline \in Nat \cup {Unset}
      /\ \A q \in All : op[q].amt \in Int /\ op[q].arg \in Int
      /\ \A q \in All : Carries(op[q])
  BY DEF BooksInv, TypeOK, Operation, All
<1> DEFINE Quiet == UNCHANGED <<window, spent, late, hist, usage, lagging, baseline>>
           Free(q) == op[q].ph \notin Locked
           Elsewhere(p) == \A q \in Procs \ {p} : op'[q] = op[q]
\* The operation of p ends or leaves the lock: the others were outside.
<1>a. ASSUME NEW p \in Procs, lock \in {p, Nobody}, NEW q \in Procs \ {p}
      PROVE  Free(q)
  BY <1>a DEF WindowInv
<1>b. ASSUME NEW p \in Procs, lock \in {p, Nobody}, Quiet, Elsewhere(p),
             op'[p].ph \in Locked => lock' = p, FitsCap(op[p])', KeepsOwned(op[p])'
      PROVE  WindowInv'
  <2>1. \A q \in Procs \ {p} : op'[q].ph \notin Locked
    BY <1>a, <1>b
  <2>2. \A q \in Procs : op'[q].ph \in Locked => lock' = q
    BY <1>b, <2>1
  <2>3. \A q \in Procs : (FitsCap(op[q]) /\ KeepsOwned(op[q]))'
    BY <1>b, <2>1 DEF FitsCap, KeepsOwned, Locked
  <2> QED
    BY <1>b, <2>2, <2>3 DEF WindowInv
<1>c. ASSUME NEW p \in Procs, op[p].ph \in Locked PROVE lock = p
  BY <1>c DEF WindowInv
<1>d. CASE UNCHANGED vars
  BY <1>d DEF vars, WindowInv, FitsCap, KeepsOwned
<1>2. ASSUME NEW k \in 1..MaxCall, Consume(k) PROVE WindowInv'
  <2>1. /\ window' = window - k /\ spent' = spent + k /\ lagging' = lagging + k
        /\ UNCHANGED <<late, hist, usage, baseline, released, lock, op>>
    BY <1>2 DEF Consume, buckets
  <2>2. \A q \in Procs : (FitsCap(op[q]) /\ KeepsOwned(op[q]))'
    BY <1>1, <2>1 DEF WindowInv, FitsCap, KeepsOwned
  <2> QED
    BY <1>1, <2>1, <2>2 DEF WindowInv
<1>3. ASSUME Arrive PROVE FALSE
  BY <1>3 DEF Arrive, WindowInv
<1>4. ASSUME NEW p \in Procs, Start(p) PROVE WindowInv'
  <2>1. ASSUME NEW kind \in Kinds, NEW ph \in {"tx", "read"},
               NEW id \in Transfers \cup {Nobody}, NEW arg \in Int, NEW amt \in Int,
               Begin(p, kind, ph, id, arg, amt), Quiet, UNCHANGED released,
               FitsCap(Doing(kind, ph, id, arg, amt, 0)),
               KeepsOwned(Doing(kind, ph, id, arg, amt, 0))
        PROVE  WindowInv'
    <3>1. ph \in Phases
      BY DEF Phases
    <3>2. op'[p] = Doing(kind, ph, id, arg, amt, 0) /\ Elsewhere(p)
      BY <1>1, <2>1, <3>1, BeginOp
    <3>3. lock = Nobody /\ lock' = p
      BY <2>1 DEF Begin, LockFree
    <3>4. FitsCap(op[p])' /\ KeepsOwned(op[p])'
      BY <2>1, <3>2 DEF FitsCap, KeepsOwned
    <3> QED
      BY <1>b, <2>1, <3>2, <3>3, <3>4
  <2>2. ASSUME NEW t \in Transfers, NEW a \in Amounts, RechargeStart(p, t, a) PROVE WindowInv'
    <3>1. FitInWindow(a, window) \in Int /\ window + FitInWindow(a, window) <= Cap
      BY <1>1 DEF FitInWindow, Least, Most, WindowInv
    <3>2. /\ FitsCap(Doing("recharge", "tx", t, a, FitInWindow(a, window), 0))
          /\ KeepsOwned(Doing("recharge", "tx", t, a, FitInWindow(a, window), 0))
      BY <3>1 DEF FitsCap, KeepsOwned, Doing
    <3>3. Quiet /\ UNCHANGED released
      BY <2>2 DEF RechargeStart, gateway, ledger, buckets
    <3> QED
      BY <2>1, <2>2, <3>1, <3>2, <3>3 DEF RechargeStart, Kinds
  <2>3. ASSUME NEW a \in Amounts, DebitStart(p, a) PROVE WindowInv'
    <3>1. /\ FitsCap(Doing("debit", "tx", Nobody, a, 0, 0))
          /\ KeepsOwned(Doing("debit", "tx", Nobody, a, 0, 0))
      BY DEF FitsCap, KeepsOwned, Doing
    <3>2. Quiet /\ UNCHANGED released
      BY <2>3 DEF DebitStart, gateway, ledger, buckets
    <3> QED
      BY <2>1, <2>3, <3>1, <3>2 DEF DebitStart, Kinds
  <2>4. ASSUME NEW t \in Triggers, RefillStart(p, t) PROVE WindowInv'
    <3>1. Cap - window \in Int /\ window + (Cap - window) <= Cap
      BY <1>1
    <3>2. /\ FitsCap(Doing("refill", "tx", Nobody, Cap - window, 0, 0))
          /\ KeepsOwned(Doing("refill", "tx", Nobody, Cap - window, 0, 0))
      BY <3>1 DEF FitsCap, KeepsOwned, Doing
    <3>3. Quiet /\ UNCHANGED released
      BY <2>4 DEF RefillStart, gateway, ledger, buckets
    <3> QED
      BY <2>1, <2>4, <3>1, <3>2, <3>3 DEF RefillStart, Kinds
  <2>5. CASE ReconcileStart(p)
    <3>1. /\ BaselineOf \in Nat /\ BaselineOf >= Booked
          /\ TargetWindow \in Int
          /\ Unbooked = 0 => TargetWindow + spent >= released
      BY <1>1 DEF BaselineOf, TargetWindow, Most, WindowInv
    <3>2. /\ UNCHANGED <<window, spent, late, hist, usage, lagging, released>>
          /\ baseline' = BaselineOf
          /\ Begin(p, "reconcile", "read", Nobody, TargetWindow, 0)
      BY <2>5 DEF ReconcileStart, gateway, ledger, buckets
    <3>3. op'[p] = Doing("reconcile", "read", Nobody, TargetWindow, 0, 0) /\ Elsewhere(p)
      BY <1>1, <3>1, <3>2, BeginOp DEF Kinds, Phases
    <3>4. lock = Nobody /\ lock' = p
      BY <3>2 DEF Begin, LockFree
    <3>5. \A q \in Procs \ {p} : op'[q].ph \notin Locked
      BY <1>a, <3>3, <3>4
    <3>6. FitsCap(op[p])' /\ KeepsOwned(op[p])'
      BY <3>1, <3>2, <3>3 DEF FitsCap, KeepsOwned, Doing
    <3>7. \A q \in Procs : (FitsCap(op[q]) /\ KeepsOwned(op[q]))'
      BY <3>5, <3>6 DEF FitsCap, KeepsOwned, Locked
    <3> QED
      BY <3>1, <3>2, <3>4, <3>5, <3>7 DEF WindowInv
  <2>6. CASE HardStop(p) \/ ReleaseStop(p)
    <3>1. /\ Quiet /\ UNCHANGED <<released, lock>>
          /\ \E kind : op' = [op EXCEPT ![p] = Doing(kind, "switched", Nobody, 0, 0, 0)]
      BY <2>6 DEF HardStop, ReleaseStop, ledger, buckets
    <3>2. op'[p].ph = "switched" /\ Elsewhere(p)
      BY <1>1, <3>1 DEF Doing
    <3>3. \A q \in Procs : op'[q].ph \in Locked => op'[q] = op[q]
      BY <3>2 DEF Locked
    <3>4. \A q \in Procs : (FitsCap(op[q]) /\ KeepsOwned(op[q]))'
      BY <3>1, <3>3 DEF WindowInv, FitsCap, KeepsOwned, Locked
    <3> QED
      BY <3>1, <3>3, <3>4 DEF WindowInv
  <2> QED
    BY <1>4, <2>2, <2>3, <2>4, <2>5, <2>6 DEF Start
\* A locked operation of p ends without having touched the window.
<1>5. ASSUME NEW p \in Procs, op[p].ph \in Locked, Quiet, Elsewhere(p), op'[p].ph \notin Locked
      PROVE  WindowInv'
  <2>1. FitsCap(op[p])' /\ KeepsOwned(op[p])'
    BY <1>5 DEF FitsCap, KeepsOwned, Locked
  <2> QED
    BY <1>b, <1>c, <1>5, <2>1
<1>6. ASSUME NEW p \in Procs, Continue(p) PROVE WindowInv'
  <2>0. p \in All
    BY <1>1
  <2>1. CASE RechargeTx(p)
    <3> DEFINE fit == op[p].amt
    <3>1. /\ Quiet /\ op[p].ph = "tx" /\ op[p].kind = "recharge"
          /\ \/ fit > 0 /\ Goto(p, "call", fit, bal'.balance)
             \/ Committed(p, bal'.balance)
      BY <2>1 DEF RechargeTx, gateway, ledger
    <3>2. bal'.balance \in Int
      <4>1. bal' \in Balances
        BY NextBooksInv DEF BooksInv, TypeOK
      <4> QED
        BY <4>1 DEF Balances
    <3>3. CASE Goto(p, "call", fit, bal'.balance)
      <4>1. op'[p] = Doing("recharge", "call", Nobody, 0, fit, bal'.balance) /\ Elsewhere(p)
        BY <1>1, <2>0, <3>1, <3>2, <3>3, GotoOp DEF Phases
      <4>2. lock = p /\ lock' = p
        BY <1>c, <3>1, <3>3 DEF Goto, Locked
      <4>3. FitsCap(op[p])' /\ KeepsOwned(op[p])'
        BY <3>1, <4>1 DEF FitsCap, KeepsOwned, Doing, WindowInv
      <4> QED
        BY <1>b, <3>1, <4>1, <4>2, <4>3
    <3>4. CASE Committed(p, bal'.balance)
      BY <1>1, <1>5, <2>0, <3>1, <3>2, <3>4, CommittedOp DEF Locked
    <3> QED
      BY <3>1, <3>3, <3>4
  <2>2. CASE DebitTx(p)
    <3> DEFINE dec == op[p].arg - Least(op[p].arg, holding)
    <3>1. /\ Quiet /\ op[p].ph = "tx" /\ op[p].kind = "debit"
          /\ \/ dec > 0 /\ Goto(p, "call", -dec, bal'.balance)
             \/ Committed(p, bal'.balance)
      BY <2>2 DEF DebitTx, gateway, ledger
    <3>2. bal'.balance \in Int
      <4>1. bal' \in Balances
        BY NextBooksInv DEF BooksInv, TypeOK
      <4> QED
        BY <4>1 DEF Balances
    <3>3. CASE dec > 0 /\ Goto(p, "call", -dec, bal'.balance)
      <4>0. dec \in Int /\ -dec \in Int
        BY <1>1, <2>0 DEF Least
      <4>1. op'[p] = Doing("debit", "call", Nobody, 0, -dec, bal'.balance) /\ Elsewhere(p)
        BY <1>1, <2>0, <3>1, <3>2, <3>3, <4>0, GotoOp DEF Phases
      <4>2. lock = p /\ lock' = p
        BY <1>c, <3>1, <3>3 DEF Goto, Locked
      <4>3. window + (-dec) <= Cap
        BY <1>1, <3>3, <4>0 DEF WindowInv
      <4>4. FitsCap(op[p])' /\ KeepsOwned(op[p])'
        BY <3>1, <4>1, <4>3 DEF FitsCap, KeepsOwned, Doing
      <4> QED
        BY <1>b, <3>1, <4>1, <4>2, <4>4
    <3>4. CASE Committed(p, bal'.balance)
      BY <1>1, <1>5, <2>0, <3>1, <3>2, <3>4, CommittedOp DEF Locked
    <3> QED
      BY <3>1, <3>3, <3>4
  <2>3. CASE RefillTx(p)
    <3> DEFINE m == MergeHoldingIntoActiveTx(op[p].arg)
    <3>1. /\ Quiet /\ op[p].ph = "tx" /\ op[p].kind = "refill"
          /\ Goto(p, "call", m, 0) \/ Finish(p)
      BY <2>3 DEF RefillTx, gateway, ledger
    <3>2. m \in Int /\ m <= op[p].arg
      BY <1>1, <2>0, <3>1 DEF MergeHoldingIntoActiveTx, Least, Carries
    <3>3. CASE Goto(p, "call", m, 0)
      <4>1. op'[p] = Doing("refill", "call", Nobody, 0, m, 0) /\ Elsewhere(p)
        BY <1>1, <2>0, <3>1, <3>2, <3>3, GotoOp DEF Phases
      <4>2. lock = p /\ lock' = p
        BY <1>c, <3>1, <3>3 DEF Goto, Locked
      <4>3. window + m <= Cap
        BY <1>1, <2>0, <3>1, <3>2 DEF WindowInv, FitsCap
      <4>4. FitsCap(op[p])' /\ KeepsOwned(op[p])'
        BY <3>1, <4>1, <4>3 DEF FitsCap, KeepsOwned, Doing
      <4> QED
        BY <1>b, <3>1, <4>1, <4>2, <4>4
    <3>4. CASE Finish(p)
      BY <1>1, <1>5, <2>0, <3>1, <3>4, FinishOp DEF Locked, Idle, Doing
    <3> QED
      BY <3>1, <3>3, <3>4
  <2>4. CASE ReconcileRead(p)
    <3> DEFINE d == op[p].arg - window
    <3>1. /\ Quiet /\ UNCHANGED released /\ op[p].ph = "read" /\ op[p].kind = "reconcile"
          /\ \/ window > op[p].arg /\ Goto(p, "call", d, 0)
             \/ Finish(p)
      BY <2>4 DEF ReconcileRead, gateway, ledger, buckets
    <3>2. d \in Int
      BY <1>1, <2>0
    <3>3. CASE Goto(p, "call", d, 0)
      <4>1. op'[p] = Doing("reconcile", "call", Nobody, 0, d, 0) /\ Elsewhere(p)
        BY <1>1, <2>0, <3>1, <3>2, <3>3, GotoOp DEF Phases
      <4>2. lock = p /\ lock' = p
        BY <1>c, <3>1, <3>3 DEF Goto, Locked
      <4>3. /\ window + d = op[p].arg
            /\ Unbooked = 0 => op[p].arg + spent >= released
        BY <1>1, <2>0, <3>1 DEF WindowInv, KeepsOwned
      <4>4. CASE window > op[p].arg
        <5>1. window + d <= Cap
          BY <1>1, <2>0, <3>2, <4>3, <4>4 DEF WindowInv
        <5>2. FitsCap(op[p])' /\ KeepsOwned(op[p])'
          BY <1>1, <2>0, <3>1, <4>1, <4>3, <4>4, <5>1 DEF FitsCap, KeepsOwned, Doing
        <5> QED
          BY <1>b, <3>1, <4>1, <4>2, <5>2
      <4>5. CASE ~(window > op[p].arg)
        <5>1. Finish(p)
          BY <3>1, <4>5
        <5> QED
          BY <1>1, <1>5, <2>0, <3>1, <5>1, FinishOp DEF Locked, Idle, Doing
      <4> QED
        BY <4>4, <4>5
    <3>4. CASE Finish(p)
      BY <1>1, <1>5, <2>0, <3>1, <3>4, FinishOp DEF Locked, Idle, Doing
    <3> QED
      BY <3>1, <3>3, <3>4
  <2>5. CASE CallUpstream(p)
    <3>1. /\ op[p].ph = "call" /\ window' \in {window, window + op[p].amt}
          /\ UNCHANGED <<late, spent, hist, usage, lagging, baseline, released>>
          /\ Committed(p, op[p].bal)
      BY <2>5 DEF CallUpstream, ManageUserQuota, ledger, buckets, WindowInv
    <3>2. op[p].bal \in Int
      BY <1>1, <2>0 DEF Operation
    <3>3. op'[p].ph \notin Locked /\ Elsewhere(p)
      BY <1>1, <2>0, <3>1, <3>2, CommittedOp DEF Locked
    <3>4. \A q \in Procs : op'[q].ph \notin Locked
      BY <1>a, <1>c, <3>1, <3>3 DEF Locked
    <3>5. \A q \in Procs : (FitsCap(op[q]) /\ KeepsOwned(op[q]))'
      BY <3>4 DEF FitsCap, KeepsOwned, Locked
    <3>6. window' <= Cap
      BY <1>1, <2>0, <3>1 DEF WindowInv, FitsCap
    <3> QED
      BY <3>1, <3>4, <3>5, <3>6 DEF WindowInv
  <2>6. CASE RechargeConflict(p) \/ Abandon(p)
    <3>1. Quiet /\ op[p].ph \in Locked /\ Finish(p)
      BY <2>6 DEF RechargeConflict, Abandon, gateway, ledger, Locked
    <3> QED
      BY <1>1, <1>5, <2>0, <3>1, FinishOp DEF Locked, Idle, Doing
  <2>7. CASE StopWrite(p)
    <3>1. Quiet /\ UNCHANGED <<released, lock>> /\ op' = [op EXCEPT ![p] = Idle]
      BY <2>7 DEF StopWrite, gateway, ledger, buckets
    <3>2. \A q \in Procs : op'[q].ph \in Locked => op'[q] = op[q]
      BY <1>1, <3>1 DEF Locked, Idle, Doing
    <3>3. \A q \in Procs : (FitsCap(op[q]) /\ KeepsOwned(op[q]))'
      BY <3>1, <3>2 DEF WindowInv, FitsCap, KeepsOwned, Locked
    <3> QED
      BY <3>1, <3>2, <3>3 DEF WindowInv
  <2> QED
    BY <1>6, <2>1, <2>2, <2>3, <2>4, <2>5, <2>6, <2>7 DEF Continue
<1>7. ASSUME NEW p \in All, StatusRead(p) \/ StatusWrite(p) \/ StatusFails(p) PROVE WindowInv'
  <2>1. /\ Quiet /\ UNCHANGED released
        /\ \/ Finish(p)
           \/ Goto(p, "flip", 0, op[p].bal)
    BY <1>7 DEF StatusRead, StatusWrite, StatusFails, gateway, ledger, buckets
  <2>2. lock' = lock \/ (lock = p /\ lock' = Nobody)
    BY <2>1 DEF Finish, Goto
  <2>3. op[p].bal \in Int
    BY <1>1 DEF Operation
  <2>4. op'[p].ph \in {"idle", "flip"} /\ \A q \in All : q # p => op'[q] = op[q]
    <3>1. CASE Finish(p)
      BY <1>1, <3>1, FinishOp DEF Idle, Doing
    <3>2. CASE Goto(p, "flip", 0, op[p].bal)
      <4>1. /\ op'[p] = Doing(op[p].kind, "flip", Nobody, 0, 0, op[p].bal)
            /\ \A q \in All : q # p => op'[q] = op[q]
        BY <1>1, <2>3, <3>2, GotoOp DEF Phases
      <4> QED
        BY <4>1 DEF Doing
    <3> QED
      BY <2>1, <3>1, <3>2
  <2>5. \A q \in Procs : op'[q].ph \in Locked => q # p /\ op'[q] = op[q]
    BY <1>1, <2>4 DEF Locked
  <2>6. \A q \in Procs : op'[q].ph \in Locked => lock' = q
    BY <1>c, <2>2, <2>5
  <2>7. \A q \in Procs : (FitsCap(op[q]) /\ KeepsOwned(op[q]))'
    BY <2>1, <2>5 DEF WindowInv, FitsCap, KeepsOwned, Locked
  <2> QED
    BY <2>1, <2>6, <2>7 DEF WindowInv
<1>8. ASSUME NEW k \in 1..MaxSpend, Settle(k) PROVE WindowInv'
  <2>1. /\ lagging' = lagging - k /\ usage' = usage + k
        /\ UNCHANGED <<window, spent, late, hist, baseline, released, lock>>
        /\ op' = op \/ \E o : op' = [op EXCEPT ![Settler] = o]
    BY <1>8 DEF Settle, gateway, buckets
  <2>2. \A q \in Procs : op'[q] = op[q]
    BY <1>1, <2>1
  <2>3. usage' + lagging' + hist' = Booked + Unbooked + spent' /\ usage' >= Booked
    BY <1>1, <2>1 DEF WindowInv
  <2>4. \A q \in Procs : (FitsCap(op[q]) /\ KeepsOwned(op[q]))'
    BY <2>1, <2>2 DEF WindowInv, FitsCap, KeepsOwned
  <2> QED
    BY <2>1, <2>2, <2>3, <2>4 DEF WindowInv
<1>9. ASSUME NEW k \in 1..Unbooked, BookHistory(k) PROVE WindowInv'
  <2>1. /\ hist' = hist - k /\ usage' = usage + k
        /\ UNCHANGED <<window, spent, late, lagging, baseline, released, lock, op>>
    BY <1>9 DEF BookHistory, gateway, buckets
  <2>2. usage' + lagging' + hist' = Booked + Unbooked + spent' /\ usage' >= Booked
    BY <1>1, <2>1 DEF WindowInv
  <2> QED
    BY <2>1, <2>2 DEF WindowInv, FitsCap, KeepsOwned
<1>10. CASE Crash
  <2>1. Quiet /\ UNCHANGED released /\ \A q \in Procs : op'[q] = Idle
    BY <1>1, <1>10 DEF Crash, gateway, ledger, buckets
  <2> QED
    BY <2>1 DEF WindowInv, FitsCap, KeepsOwned, Locked, Idle, Doing
<1> QED
  BY <1>d, <1>2, <1>3, <1>4, <1>6, <1>7, <1>8, <1>9, <1>10 DEF Next

\* WindowInv holds in every reachable state.
LEMMA WindowInvariant ==
  ASSUME Delivery \subseteq {"lost"} PROVE Spec => []WindowInv
<1>1. BooksInv /\ WindowInv /\ [Next]_vars => WindowInv'
  BY NextWindowInv
<1> QED
  BY <1>1, InitWindowInv, BooksInvariant, PTL DEF Spec

\* The window stays within escrowWindowCap (applyRecharge, RefillWindow,
\* ReconcileEscrow), for every number of handlers, amounts and crashes,
\* if the gateway applies an ADD or SUBTRACT at most once.
THEOREM WindowCapped ==
  ASSUME Delivery \subseteq {"lost"} PROVE Spec => []WindowWithinCap
<1>1. WindowInv => WindowWithinCap
  BY DEF WindowInv, WindowWithinCap
<1> QED
  BY <1>1, WindowInvariant, PTL

\* A SUBTRACT of the reconciliation leaves the customer at least what was
\* released and not spent, if also the gateway user holds no quota that the
\* platform never sold and no usage before funding is booked late.
THEOREM ReconcileSafe ==
  ASSUME Unbooked = 0, Own = 0, Delivery \subseteq {"lost"}
  PROVE  Spec => ReconcileKeepsOwned
<1> USE EscrowAssumption
<1>1. ASSUME BooksInv, WindowInv, [Next]_vars,
             NEW p \in Procs, op[p].kind = "reconcile", op[p].ph = "call", window' < window
      PROVE  window' >= Owned'
  <2>1. /\ window \in Int /\ spent \in Nat /\ released \in Nat /\ op[p].amt \in Int
        /\ \A q \in Procs : op[q].ph \in {"tx", "read", "call"} => lock = q
        /\ window + op[p].amt + spent >= released
    BY <1>1 DEF BooksInv, TypeOK, Operation, All, WindowInv, KeepsOwned, Locked
  <2>2. ASSUME NEW k \in 1..MaxCall, Consume(k) PROVE window' >= Owned'
    <3>1. window' = window - k /\ spent' = spent + k /\ UNCHANGED released
      BY <2>2 DEF Consume, buckets
    <3>2. op[p].amt <= 0
      BY <1>1 DEF WindowInv, KeepsOwned
    <3> QED
      BY <2>1, <3>1, <3>2 DEF Owned
  <2>3. ASSUME NEW q \in Procs, CallUpstream(q) PROVE window' >= Owned'
    <3>1. op[q].ph = "call" /\ window' \in {window, window + op[q].amt} /\ UNCHANGED <<spent, released>>
      BY <2>3 DEF CallUpstream, ManageUserQuota, buckets
    <3>2. q = p
      BY <1>1, <2>1, <3>1
    <3> QED
      BY <1>1, <2>1, <3>1, <3>2 DEF Owned
  <2>4. ASSUME Arrive PROVE FALSE
    BY <1>1, <2>4 DEF Arrive, WindowInv
  <2>5. \/ \E k \in 1..MaxCall : Consume(k)
        \/ \E q \in Procs : CallUpstream(q)
        \/ UNCHANGED window
    BY <1>1, <2>4 DEF Next, Start, Continue, vars, gateway, RechargeStart, DebitStart, RefillStart,
       ReconcileStart, HardStop, ReleaseStop, RechargeTx, RechargeConflict, DebitTx, RefillTx,
       ReconcileRead, StopWrite, Abandon, StatusRead, StatusWrite, StatusFails, Settle, BookHistory, Crash
  <2> QED
    BY <1>1, <2>1, <2>2, <2>3, <2>5
<1> DEFINE Keeps == \A p \in Procs :
             (op[p].kind = "reconcile" /\ op[p].ph = "call" /\ window' < window) => window' >= Owned'
<1>2. BooksInv /\ WindowInv /\ [Next]_vars => [Keeps]_vars
  BY <1>1
<1> HIDE DEF Keeps
<1>3. Spec => [][Keeps]_vars
  BY <1>2, WindowInvariant, BooksInvariant, PTL DEF Spec
<1> QED
  BY <1>3 DEF Keeps, ReconcileKeepsOwned

-----------------------------------------------------------------------------
(***************************************************************************)
(* Bucket 1 and the window, as long as nothing failed.  Between its commit *)
(* and its upstream call the holder of the lock owes the window exactly    *)
(* its amount; nobody else owes anything; and a reconciliation, whose      *)
(* ledger lags behind the window, never gets as far as a call.             *)
(***************************************************************************)
Lagged ==
  /\ late = 0 /\ hist = 0 /\ usage + lagging = Booked + spent /\ usage >= Booked
  /\ baseline # Unset => baseline >= Booked

Owes(o) ==
  /\ o.ph = "call" => window + o.amt + spent = released
  /\ o.ph = "read" => o.arg + spent >= released

MirrorInv ==
  /\ \A p \in Procs : op[p].ph \in Locked => lock = p
  /\ faults = 0 =>
       /\ Lagged
       /\ \A p \in Procs : Owes(op[p])
       /\ (\A p \in Procs : op[p].ph # "call") => window + spent = released

\* The empty window mirrors the empty bucket.
LEMMA InitMirrorInv ==
  ASSUME Gift = 0, Own = 0, Unbooked = 0, Init PROVE MirrorInv
<1>0. op = [p \in All |-> Idle] /\ Procs \subseteq All
  BY DEF Init, All
<1>1. \A p \in Procs : op[p].ph = "idle"
  BY <1>0 DEF Idle, Doing
<1>2. /\ window = Own + Gift /\ late = 0 /\ spent = 0 /\ lagging = 0 /\ hist = Unbooked
      /\ usage = Booked /\ released = 0 /\ baseline = Unset
  BY DEF Init
<1>4. Lagged /\ window + spent = released
  BY <1>2, EscrowAssumption DEF Lagged
<1>3. \A p \in Procs : op[p].ph \notin Locked /\ Owes(op[p])
  BY <1>1 DEF Owes, Locked
<1> QED
  BY <1>3, <1>4 DEF MirrorInv

\* A step of the process that has the lock, or takes it: whoever else is
\* running is outside the locked part.
LEMMA MirrorOfHolder ==
  ASSUME MirrorInv, NEW p \in Procs, lock \in {p, Nobody},
         \A q \in Procs \ {p} : op'[q] = op[q],
         op'[p].ph \in Locked => lock' = p,
         faults' = 0 => /\ faults = 0 /\ Lagged' /\ Owes(op[p])'
                        /\ op'[p].ph # "call" => window' + spent' = released'
  PROVE  MirrorInv'
<1>1. \A q \in Procs \ {p} : op'[q].ph \notin Locked
  BY EscrowAssumption DEF MirrorInv
<1>2. \A q \in Procs : op'[q].ph \in Locked => lock' = q
  BY <1>1
<1>3. faults' = 0 => \A q \in Procs : Owes(op[q])'
  BY <1>1 DEF Owes, Locked
<1> QED
  BY <1>2, <1>3 DEF MirrorInv

\* A step outside the locked part that leaves window, bucket and usage alone.
LEMMA MirrorElsewhere ==
  ASSUME MirrorInv, \A q \in Procs : op'[q].ph \in Locked => op'[q] = op[q],
         \A q \in Procs : op[q].ph \in Locked => op'[q] = op[q],
         \A q \in Procs : op'[q].ph \in Locked => lock' = lock,
         UNCHANGED <<window, spent, released>>,
         faults' = 0 => faults = 0 /\ Lagged'
  PROVE  MirrorInv'
<1>1. \A q \in Procs : op'[q].ph \in Locked => lock' = q
  BY DEF MirrorInv
<1>2. faults' = 0 => \A q \in Procs : Owes(op[q])'
  BY DEF MirrorInv, Owes, Locked
<1>3. (\A q \in Procs : op'[q].ph # "call") => \A q \in Procs : op[q].ph # "call"
  BY DEF Locked
<1> QED
  BY <1>1, <1>2, <1>3 DEF MirrorInv

\* Every step keeps the mirror, if the gateway user holds nothing that the
\* platform never sold and no usage before funding is booked late.
LEMMA NextMirrorInv ==
  ASSUME Gift = 0, Own = 0, Unbooked = 0, BooksInv, MirrorInv, [Next]_vars
  PROVE  MirrorInv'
<1> USE EscrowAssumption
<1>1. /\ op \in [All -> Operation] /\ Procs \subseteq All
      /\ window \in Int /\ spent \in Nat /\ lagging \in Nat /\ usage \in Nat
      /\ hist \in Nat /\ released \in Nat /\ holding \in Nat /\ baseline \in Nat \cup {Unset}
      /\ faults \in Nat
      /\ \A q \in All : op[q].amt \in Int /\ op[q].arg \in Int /\ op[q].bal \in Int
      /\ \A q \in All : Carries(op[q])
  BY DEF BooksInv, TypeOK, Operation, All
<1>2. bal'.balance \in Int
  <2>1. bal' \in Balances
    BY NextBooksInv DEF BooksInv, TypeOK
  <2> QED
    BY <2>1 DEF Balances
<1> DEFINE Quiet == UNCHANGED <<window, spent, late, hist, usage, lagging, baseline, faults>>
           Elsewhere(p) == \A q \in Procs \ {p} : op'[q] = op[q]
<1>a. ASSUME NEW p \in Procs, op[p].ph \in Locked
      PROVE  lock = p /\ (faults = 0 /\ op[p].ph # "call" => window + spent = released)
  BY <1>a DEF MirrorInv, Locked
<1>b. Quiet => (faults' = 0 => faults = 0 /\ Lagged')
  BY DEF MirrorInv, Lagged
\* The locked part ends without a call: the bucket is as it was.
<1>c. ASSUME NEW p \in Procs, op[p].ph \in {"tx", "read"}, Quiet, UNCHANGED released,
             Elsewhere(p), op'[p].ph \notin Locked
      PROVE  MirrorInv'
  <2>1. lock = p /\ (faults = 0 => window + spent = released)
    BY <1>a, <1>c DEF Locked
  <2>2. Owes(op[p])'
    BY <1>c DEF Owes, Locked
  <2> QED
    BY <1>b, <1>c, <2>1, <2>2, MirrorOfHolder
\* The bucket moves by d and the call for d is still to be made.
<1>d. ASSUME NEW p \in Procs, op[p].ph = "tx", Quiet, Elsewhere(p), NEW d \in Int,
             released' = released + d, op'[p].ph = "call", op'[p].amt = d, lock' = lock
      PROVE  MirrorInv'
  <2>1. lock = p /\ (faults = 0 => window + spent = released)
    BY <1>a, <1>d DEF Locked
  <2>2. faults' = 0 => Owes(op[p])'
    BY <1>1, <1>d, <2>1 DEF Owes
  <2> QED
    BY <1>b, <1>d, <2>1, <2>2, MirrorOfHolder
<1>e. ASSUME NEW p \in Procs, op[p].ph \in {"tx", "read"}, Quiet, UNCHANGED released, Finish(p)
      PROVE  MirrorInv'
  <2>1. p \in All
    BY <1>1
  <2>2. op'[p] = Idle /\ \A q \in All : q # p => op'[q] = op[q]
    BY <1>1, <1>e, <2>1, FinishOp
  <2>3. op'[p].ph \notin Locked /\ Elsewhere(p)
    BY <1>1, <2>2 DEF Idle, Doing, Locked
  <2> QED
    BY <1>c, <1>e, <2>3
<1>3. CASE UNCHANGED vars
  BY <1>3 DEF vars, MirrorInv, Lagged, Owes
<1>4. ASSUME NEW k \in 1..MaxCall, Consume(k) PROVE MirrorInv'
  <2>1. /\ window' = window - k /\ spent' = spent + k /\ lagging' = lagging + k
        /\ UNCHANGED <<late, hist, usage, baseline, released, lock, op, faults>>
    BY <1>4 DEF Consume, buckets
  <2>2. Lagged => Lagged'
    BY <1>1, <2>1 DEF Lagged
  <2>3. \A q \in Procs : Owes(op[q]) => Owes(op[q])'
    BY <1>1, <2>1 DEF Owes
  <2>4. window' + spent' = window + spent
    BY <1>1, <2>1
  <2> QED
    BY <2>1, <2>2, <2>3, <2>4 DEF MirrorInv
<1>5. CASE Arrive
  <2>1. faults' = faults /\ late # 0 /\ UNCHANGED <<op, lock>>
    BY <1>5 DEF Arrive
  <2>2. faults' # 0
    BY <2>1 DEF MirrorInv, Lagged
  <2> QED
    BY <2>1, <2>2 DEF MirrorInv
<1>6. ASSUME NEW p \in Procs, Start(p) PROVE MirrorInv'
  <2>1. ASSUME NEW kind \in Kinds, NEW ph \in {"tx", "read"},
               NEW id \in Transfers \cup {Nobody}, NEW arg \in Int, NEW amt \in Int,
               Begin(p, kind, ph, id, arg, amt),
               UNCHANGED <<window, spent, released, faults>>,
               faults = 0 => Lagged',
               faults = 0 /\ ph = "read" => arg + spent >= released
        PROVE  MirrorInv'
    <3>1. ph \in Phases
      BY DEF Phases
    <3>2. op'[p] = Doing(kind, ph, id, arg, amt, 0) /\ \A q \in All : q # p => op'[q] = op[q]
      BY SMTT(30), <1>1, <2>1, <3>1, BeginOp
    <3>3. lock = Nobody /\ lock' = p
      BY <2>1 DEF Begin, LockFree
    <3>4. faults = 0 => window + spent = released
      BY <3>3 DEF MirrorInv, Locked
    <3>5. op'[p].ph = ph /\ op'[p].arg = arg /\ op'[p].amt = amt
      BY <3>2 DEF Doing
    <3>6. faults' = 0 => Owes(op[p])'
      BY <2>1, <3>5 DEF Owes
    <3>7. Elsewhere(p)
      BY <1>1, <3>2
    <3> QED
      BY <2>1, <3>3, <3>4, <3>6, <3>7, MirrorOfHolder
  <2>2. ASSUME NEW t \in Transfers, NEW a \in Amounts, RechargeStart(p, t, a) PROVE MirrorInv'
    <3>1. FitInWindow(a, window) \in Int
      BY <1>1 DEF FitInWindow, Least, Most
    <3>2. Quiet /\ UNCHANGED released /\ Begin(p, "recharge", "tx", t, a, FitInWindow(a, window))
      BY <2>2 DEF RechargeStart, gateway, ledger, buckets
    <3> QED
      BY <1>b, <2>1, <3>1, <3>2 DEF Kinds
  <2>3. ASSUME NEW a \in Amounts, DebitStart(p, a) PROVE MirrorInv'
    <3>1. Quiet /\ UNCHANGED released /\ Begin(p, "debit", "tx", Nobody, a, 0)
      BY <2>3 DEF DebitStart, gateway, ledger, buckets
    <3> QED
      BY <1>b, <2>1, <3>1 DEF Kinds
  <2>4. ASSUME NEW t \in Triggers, RefillStart(p, t) PROVE MirrorInv'
    <3>1. Quiet /\ UNCHANGED released /\ Begin(p, "refill", "tx", Nobody, Cap - window, 0)
      BY <2>4 DEF RefillStart, gateway, ledger, buckets
    <3>2. Cap - window \in Int
      BY <1>1
    <3> QED
      BY <1>b, <2>1, <3>1, <3>2 DEF Kinds
  <2>5. CASE ReconcileStart(p)
    <3>1. /\ UNCHANGED <<window, spent, late, hist, usage, lagging, released, faults>>
          /\ baseline' = BaselineOf
          /\ Begin(p, "reconcile", "read", Nobody, TargetWindow, 0)
      BY <2>5 DEF ReconcileStart, gateway, ledger, buckets
    <3>2. TargetWindow \in Int /\ BaselineOf \in Nat
      BY <1>1 DEF BaselineOf, TargetWindow, Most
    <3>3. faults = 0 => BaselineOf >= Booked /\ TargetWindow + spent >= released
      BY <1>1 DEF BaselineOf, TargetWindow, Most, MirrorInv, Lagged
    <3>4. faults = 0 => Lagged'
      BY <3>1, <3>3 DEF MirrorInv, Lagged
    <3> QED
      BY <2>1, <3>1, <3>2, <3>3, <3>4 DEF Kinds
  <2>6. CASE HardStop(p) \/ ReleaseStop(p)
    <3>1. /\ Quiet /\ UNCHANGED <<released, lock>> /\ op[p] = Idle
          /\ \E kind : op' = [op EXCEPT ![p] = Doing(kind, "switched", Nobody, 0, 0, 0)]
      BY <2>6 DEF HardStop, ReleaseStop, ledger, buckets
    <3>2. op'[p].ph \notin Locked /\ op[p].ph \notin Locked /\ Elsewhere(p)
      BY <1>1, <3>1 DEF Doing, Idle, Locked
    <3> QED
      BY <1>b, <3>1, <3>2, MirrorElsewhere
  <2> QED
    BY <1>6, <2>2, <2>3, <2>4, <2>5, <2>6 DEF Start
<1>7. ASSUME NEW p \in Procs, Continue(p) PROVE MirrorInv'
  <2>0. p \in All
    BY <1>1
  <2>1. CASE RechargeTx(p)
    <3> DEFINE fit == op[p].amt
    <3>1. /\ Quiet /\ op[p].ph = "tx" /\ op[p].kind = "recharge" /\ released' = released + fit
          /\ IF fit > 0 THEN Goto(p, "call", fit, bal'.balance) ELSE Committed(p, bal'.balance)
      BY <2>1 DEF RechargeTx, gateway, ledger
    <3>2. fit \in Nat
      BY <1>1, <2>0, <3>1 DEF Carries
    <3>3. CASE fit > 0
      <4>1. /\ op'[p] = Doing("recharge", "call", Nobody, 0, fit, bal'.balance)
            /\ \A q \in All : q # p => op'[q] = op[q]
            /\ lock' = lock
        BY <1>1, <1>2, <2>0, <3>1, <3>2, <3>3, GotoOp DEF Phases, Goto
      <4>2. op'[p].ph = "call" /\ op'[p].amt = fit /\ Elsewhere(p)
        BY <1>1, <4>1 DEF Doing
      <4> QED
        BY <1>1, <1>d, <2>0, <3>1, <4>1, <4>2
    <3>4. CASE fit = 0
      <4>1. Committed(p, bal'.balance) /\ released' = released
        BY <1>1, <3>1, <3>4
      <4>2. op'[p].ph \notin Locked /\ Elsewhere(p)
        BY <1>1, <1>2, <2>0, <4>1, CommittedOp DEF Locked
      <4> QED
        BY <1>c, <3>1, <4>1, <4>2
    <3> QED
      BY <3>2, <3>3, <3>4
  <2>2. CASE DebitTx(p)
    <3> DEFINE dec == op[p].arg - Least(op[p].arg, holding)
    <3>1. /\ Quiet /\ op[p].ph = "tx" /\ op[p].kind = "debit" /\ released' = released - dec
          /\ IF dec > 0 THEN Goto(p, "call", -dec, bal'.balance) ELSE Committed(p, bal'.balance)
      BY <2>2 DEF DebitTx, ReduceEscrowTx, gateway, ledger
    <3>2. dec \in Nat /\ -dec \in Int
      BY <1>1, <2>0, <3>1 DEF Least, Carries
    <3> HIDE DEF dec
    <3>3. CASE dec > 0
      <4>1. /\ op'[p] = Doing("debit", "call", Nobody, 0, -dec, bal'.balance)
            /\ \A q \in All : q # p => op'[q] = op[q]
            /\ lock' = lock
        BY <1>1, <1>2, <2>0, <3>1, <3>2, <3>3, GotoOp DEF Phases, Goto
      <4>2. op'[p].ph = "call" /\ op'[p].amt = -dec /\ Elsewhere(p)
        BY <1>1, <4>1 DEF Doing
      <4>3. released' = released + (-dec)
        BY <1>1, <3>1, <3>2
      <4> QED
        BY <1>d, <3>1, <3>2, <4>1, <4>2, <4>3
    <3>4. CASE dec = 0
      <4>1. Committed(p, bal'.balance) /\ released' = released
        BY <1>1, <3>1, <3>4
      <4>2. op'[p].ph \notin Locked /\ Elsewhere(p)
        BY <1>1, <1>2, <2>0, <4>1, CommittedOp DEF Locked
      <4> QED
        BY <1>c, <3>1, <4>1, <4>2
    <3> QED
      BY <3>2, <3>3, <3>4
  <2>3. CASE RefillTx(p)
    <3> DEFINE m == MergeHoldingIntoActiveTx(op[p].arg)
    <3>1. /\ Quiet /\ op[p].ph = "tx" /\ op[p].kind = "refill" /\ released' = released + m
          /\ IF m > 0 THEN Goto(p, "call", m, 0) ELSE Finish(p)
      BY <2>3 DEF RefillTx, gateway, ledger
    <3>2. m \in Nat
      BY <1>1, <2>0, <3>1 DEF MergeHoldingIntoActiveTx, Least, Carries
    <3> HIDE DEF m
    <3>3. CASE m > 0
      <4>1. /\ op'[p] = Doing("refill", "call", Nobody, 0, m, 0)
            /\ \A q \in All : q # p => op'[q] = op[q]
            /\ lock' = lock
        BY <1>1, <2>0, <3>1, <3>2, <3>3, GotoOp DEF Phases, Goto
      <4>2. op'[p].ph = "call" /\ op'[p].amt = m /\ Elsewhere(p)
        BY <1>1, <4>1 DEF Doing
      <4> QED
        BY <1>d, <3>1, <3>2, <4>1, <4>2
    <3>4. CASE m = 0
      BY <1>1, <1>e, <3>1, <3>4
    <3> QED
      BY <3>2, <3>3, <3>4
  <2>4. CASE ReconcileRead(p)
    <3>1. /\ Quiet /\ UNCHANGED released /\ op[p].ph = "read" /\ op[p].kind = "reconcile"
          /\ IF window > op[p].arg THEN Goto(p, "call", op[p].arg - window, 0) ELSE Finish(p)
      BY <2>4 DEF ReconcileRead, gateway, ledger, buckets
    <3>2. lock = p /\ (faults = 0 => window + spent = released /\ op[p].arg + spent >= released)
      BY <1>a, <3>1 DEF MirrorInv, Owes, Locked
    <3>3. CASE window > op[p].arg
      <4>1. faults # 0
        BY <1>1, <2>0, <3>2, <3>3
      <4>2. op[p].arg - window \in Int
        BY <1>1, <2>0
      <4>3. (\A q \in All : q # p => op'[q] = op[q]) /\ lock' = lock
        BY <1>1, <2>0, <3>1, <3>3, <4>2, GotoOp DEF Phases, Goto
      <4> QED
        BY <1>1, <3>1, <3>2, <4>1, <4>3, MirrorOfHolder
    <3>4. CASE ~(window > op[p].arg)
      BY <1>e, <3>1, <3>4
    <3> QED
      BY <3>3, <3>4
  <2>5. CASE CallUpstream(p)
    <3>1. /\ op[p].ph = "call" /\ Committed(p, op[p].bal)
          /\ \/ window' = window + op[p].amt /\ UNCHANGED <<late, faults>>
             \/ faults' = faults + 1
          /\ UNCHANGED <<spent, hist, usage, lagging, baseline, released>>
      BY <2>5 DEF CallUpstream, ManageUserQuota, ledger, buckets
    <3>2. op'[p].ph \notin Locked /\ Elsewhere(p)
      BY <1>1, <2>0, <3>1, CommittedOp DEF Locked
    <3>3. lock = p
      BY <1>a, <3>1 DEF Locked
    <3>4. faults = 0 => Lagged /\ window + op[p].amt + spent = released
      BY <3>1 DEF MirrorInv, Owes
    <3>5. faults' = 0 => faults = 0 /\ Lagged' /\ window' + spent' = released'
      BY <1>1, <2>0, <3>1, <3>4 DEF Lagged
    <3>6. Owes(op[p])'
      BY <3>2 DEF Owes, Locked
    <3> QED
      BY <3>2, <3>3, <3>5, <3>6, MirrorOfHolder
  <2>6. CASE RechargeConflict(p) \/ Abandon(p)
    <3>1. Quiet /\ UNCHANGED released /\ op[p].ph \in {"tx", "read"} /\ Finish(p)
      BY <2>6 DEF RechargeConflict, Abandon, gateway, ledger, buckets
    <3> QED
      BY <1>e, <3>1
  <2>7. CASE StopWrite(p)
    <3>1. Quiet /\ UNCHANGED <<released, lock>> /\ op' = [op EXCEPT ![p] = Idle] /\ op[p].ph = "switched"
      BY <2>7 DEF StopWrite, gateway, ledger, buckets
    <3>2. op'[p].ph \notin Locked /\ op[p].ph \notin Locked /\ Elsewhere(p)
      BY <1>1, <3>1 DEF Locked, Idle, Doing
    <3> QED
      BY <1>b, <3>1, <3>2, MirrorElsewhere
  <2> QED
    BY <1>7, <2>1, <2>2, <2>3, <2>4, <2>5, <2>6, <2>7 DEF Continue
<1>8. ASSUME NEW p \in All, StatusRead(p) \/ StatusWrite(p) \/ StatusFails(p) PROVE MirrorInv'
  <2>1. /\ UNCHANGED <<window, spent, late, hist, usage, lagging, baseline, released>>
        /\ faults' = faults \/ faults' = faults + 1
        /\ op[p].ph \in {"status", "flip", "switched"}
        /\ \/ Finish(p)
           \/ Goto(p, "flip", 0, op[p].bal)
    BY <1>8 DEF StatusRead, StatusWrite, StatusFails, gateway, ledger, buckets
  <2>2. lock' = lock \/ (lock = p /\ lock' = Nobody)
    BY <2>1 DEF Finish, Goto
  <2>4. op'[p].ph \in {"idle", "flip"} /\ \A q \in All : q # p => op'[q] = op[q]
    <3>1. CASE Finish(p)
      BY <1>1, <3>1, FinishOp DEF Idle, Doing
    <3>2. CASE Goto(p, "flip", 0, op[p].bal)
      <4>1. /\ op'[p] = Doing(op[p].kind, "flip", Nobody, 0, 0, op[p].bal)
            /\ \A q \in All : q # p => op'[q] = op[q]
        BY <1>1, <3>2, GotoOp DEF Phases
      <4> QED
        BY <4>1 DEF Doing
    <3> QED
      BY <2>1, <3>1, <3>2
  <2>5. \A q \in Procs : op'[q].ph \in Locked => q # p /\ op'[q] = op[q]
    BY <1>1, <2>4 DEF Locked
  <2>6. \A q \in Procs : op[q].ph \in Locked => op'[q] = op[q]
    BY <1>1, <2>1, <2>4 DEF Locked
  <2>7. \A q \in Procs : op'[q].ph \in Locked => lock' = lock
    BY <1>a, <2>2, <2>5
  <2>8. faults' = 0 => faults = 0 /\ Lagged'
    BY <1>1, <2>1 DEF MirrorInv, Lagged
  <2> QED
    BY <2>1, <2>5, <2>6, <2>7, <2>8, MirrorElsewhere
<1>9. ASSUME NEW k \in 1..MaxSpend, Settle(k) PROVE MirrorInv'
  <2>1. /\ lagging' = lagging - k /\ usage' = usage + k
        /\ UNCHANGED <<window, spent, late, hist, baseline, released, lock, faults>>
        /\ op' = op \/ \E o : op' = [op EXCEPT ![Settler] = o]
    BY <1>9 DEF Settle, gateway, buckets
  <2>2. \A q \in Procs : op'[q] = op[q]
    BY <1>1, <2>1
  <2>3. faults' = 0 => faults = 0 /\ Lagged'
    BY <1>1, <2>1 DEF MirrorInv, Lagged
  <2> QED
    BY <2>1, <2>2, <2>3, MirrorElsewhere
<1>10. ASSUME NEW k \in 1..Unbooked, BookHistory(k) PROVE MirrorInv'
  BY <1>10
<1>11. CASE Crash
  <2>1. faults' = faults + 1 /\ \A q \in Procs : op'[q] = Idle
    BY <1>1, <1>11 DEF Crash
  <2>2. \A q \in Procs : op'[q].ph \notin Locked
    BY <2>1 DEF Locked, Idle, Doing
  <2> QED
    BY <1>1, <2>1, <2>2 DEF MirrorInv
<1> QED
  BY <1>3, <1>4, <1>5, <1>6, <1>7, <1>8, <1>9, <1>10, <1>11 DEF Next

\* While no request was lost and nothing crashed, the window is bucket 1 minus
\* the usage whenever nobody holds the lock (applyRecharge, DebitBalance,
\* RefillWindow, ReconcileEscrow), for every number of handlers, every
\* amount and whatever a faulty request may do later; for a gateway user that
\* holds no quota the platform never sold, without usage before funding that is
\* booked late.
THEOREM WindowMirrored ==
  ASSUME Unbooked = 0, Own = 0 PROVE Spec => []WindowMirrorsBucket
<1> USE EscrowAssumption
<1>1. CASE Gift = 0
  <2>1. Init => MirrorInv
    BY <1>1, InitMirrorInv
  <2>2. BooksInv /\ MirrorInv /\ [Next]_vars => MirrorInv'
    BY <1>1, NextMirrorInv
  <2>3. BooksInv /\ MirrorInv => WindowMirrorsBucket
    <3> SUFFICES ASSUME BooksInv, MirrorInv, lock = Nobody, faults = 0
                 PROVE  window + spent = released + Own
      BY DEF WindowMirrorsBucket
    <3>1. \A q \in Procs : op[q].ph # "call"
      BY DEF MirrorInv, Locked
    <3>2. released \in Nat
      BY DEF BooksInv, TypeOK
    <3> QED
      BY <3>1, <3>2 DEF MirrorInv
  <2> QED
    BY <2>1, <2>2, <2>3, BooksInvariant, PTL DEF Spec
<1>2. CASE Gift # 0
  <2>1. WindowMirrorsBucket
    BY <1>2 DEF WindowMirrorsBucket
  <2> QED
    BY <2>1, PTL
<1> QED
  BY <1>1, <1>2
=============================================================================
