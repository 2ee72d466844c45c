--------------------------- MODULE SettlementProofs ---------------------------
(***************************************************************************)
(* Proofs about Settlement, for any log, any window sizes and any number   *)
(* of callers, processes and organisations: usage_ledger, usage_detail and *)
(* the deduction agree whatever forward rounds, backfill, requeues and     *)
(* crashes do.                                                             *)
(***************************************************************************)
EXTENDS Settlement, FiniteSetTheorems, WellFoundedInduction, TLAPS

BagType == [Ids -> Nat]
RoundFields == {"ph", "since", "sub", "id", "ver", "page", "acc", "max"}
SliceFields == {"ph", "org", "hi", "lo", "page", "keep", "wins"}

\* The tables are bags and a set of row ids, and so is what the calls in
\* progress have read so far.  Windows and watermarks need not be typed here.
Tables == detail \subseteq Ids /\ ledger \in BagType /\ deducted \in BagType
RoundOK(r) == DOMAIN r = RoundFields /\ r.acc \in BagType
SliceOK(s) == DOMAIN s = SliceFields /\ s.keep \in BagType
Reading ==
  /\ DOMAIN rd = Callers /\ \A c \in Callers : RoundOK(rd[c])
  /\ SliceOK(bf)

\* The balance is charged no more often than the ledger counts.
ChargedIsBooked == \A i \in Ids : deducted[i] <= ledger[i]

\* What the tables say of each other.
Agree == ChargedIsBooked /\ (Retention = 0 => LedgerMatchesDetail)

BooksInv == Tables /\ Reading /\ Agree

-----------------------------------------------------------------------------
(* Bags.                                                                   *)

\* Bags are closed under what the rounds do to them.
LEMMA BagLaws ==
  /\ Empty \in BagType
  /\ \A b, c \in BagType : /\ Plus(b, c) \in BagType
                           /\ \A i \in Ids : Plus(b, c)[i] = b[i] + c[i]
  /\ \A S : BagOf(S) \in BagType
  /\ \A b \in BagType : \A S : /\ Restricted(b, S) \in BagType
                               /\ \A i \in Ids : Restricted(b, S)[i] <= b[i]
  /\ \A b \in BagType : \A i \in Ids : i \in Support(b) <=> b[i] > 0
<1>1. Empty \in BagType /\ \A S : BagOf(S) \in BagType
  BY DEF Empty, BagOf, BagType
<1>2. \A b, c \in BagType : /\ Plus(b, c) \in BagType
                            /\ \A i \in Ids : Plus(b, c)[i] = b[i] + c[i]
  BY DEF Plus, BagType
<1>3. \A b \in BagType : \A S : /\ Restricted(b, S) \in BagType
                                /\ \A i \in Ids : Restricted(b, S)[i] <= b[i]
  BY DEF Restricted, BagType
<1>4. \A b \in BagType : \A i \in Ids : i \in Support(b) <=> b[i] > 0
  BY DEF Support
<1> QED
  BY <1>1, <1>2, <1>3, <1>4

\* A call that has not begun has read nothing.
LEMMA NothingRead == RoundOK(NoRound) /\ SliceOK(NoSlice)
  BY BagLaws DEF RoundOK, SliceOK, NoRound, NoSlice, RoundFields, SliceFields

-----------------------------------------------------------------------------
(* Steps.                                                                  *)

\* Steps that only read: the tables stay and the calls still hold bags.
LEMMA ReadKeeps ==
  ASSUME BooksInv, UNCHANGED <<detail, ledger, deducted>>, Reading'
  PROVE  BooksInv'
  BY DEF BooksInv, Tables, Agree, ChargedIsBooked, LedgerMatchesDetail

\* One call of RunSettlement moves on with a bag.
LEMMA RoundMoves ==
  ASSUME BooksInv, NEW c \in Callers, NEW r, RoundOK(r), rd' = [rd EXCEPT ![c] = r],
         SliceOK(bf')
  PROVE  Reading'
<1>1. DOMAIN rd = Callers /\ \A d \in Callers : RoundOK(rd[d])
  BY DEF BooksInv, Reading
<1>2. DOMAIN rd' = Callers /\ rd'[c] = r /\ \A d \in Callers : d # c => rd'[d] = rd[d]
  BY <1>1
<1>3. \A d \in Callers : RoundOK(rd'[d])
  BY <1>1, <1>2
<1> QED
  BY <1>2, <1>3 DEF Reading, RoundOK, SliceOK

\* The slice moves on with a bag.
LEMMA SliceMoves ==
  ASSUME BooksInv, SliceOK(bf'), UNCHANGED rd
  PROVE  Reading'
  BY DEF BooksInv, Reading, RoundOK, SliceOK

\* RunStart.
LEMMA StartKeeps ==
  ASSUME BooksInv, NEW c \in Callers, RunStart(c)
  PROVE  BooksInv'
<1>1. PICK ph, since, sub, id, ver, max :
        rd' = [rd EXCEPT ![c] = [NoRound EXCEPT !.ph = ph, !.since = since, !.sub = sub,
                                   !.id = id, !.ver = ver, !.max = max]]
  BY Zenon DEF RunStart
<1> DEFINE r == [NoRound EXCEPT !.ph = ph, !.since = since, !.sub = sub,
                                !.id = id, !.ver = ver, !.max = max]
<1>2. DOMAIN r = RoundFields /\ r.acc = Empty
  BY DEF NoRound, RoundFields
<1>3. RoundOK(r)
  BY <1>2, BagLaws DEF RoundOK
<1>4. UNCHANGED <<detail, ledger, deducted, bf>>
  BY DEF RunStart, store
<1>5. rd' = [rd EXCEPT ![c] = r]
  BY <1>1
<1> HIDE DEF r
<1>6. Reading'
  BY <1>3, <1>4, <1>5, RoundMoves DEF BooksInv, Reading
<1> QED
  BY <1>4, <1>6, ReadKeeps

\* RescanPage and MainPage: rows are added to what was read, or dropped.
LEMMA PageKeeps ==
  ASSUME BooksInv, NEW c \in Callers, RescanPage(c) \/ MainPage(c)
  PROVE  BooksInv'
<1>0. UNCHANGED <<detail, ledger, deducted, bf>>
  BY DEF RescanPage, MainPage, store
<1>1. RoundOK(rd[c]) /\ SliceOK(bf')
  BY <1>0 DEF BooksInv, Reading
<1>2. ASSUME NEW r, RoundOK(r), rd' = [rd EXCEPT ![c] = r] PROVE BooksInv'
  BY <1>0, <1>1, <1>2, RoundMoves, ReadKeeps
<1>3. CASE RescanPage(c)
  <2>1. \A S : Plus(rd[c].acc, BagOf(S)) \in BagType
    BY <1>1, BagLaws DEF RoundOK
  <2>2. \A S, T : Restricted(Plus(rd[c].acc, BagOf(S)), T) \in BagType
    BY <2>1, BagLaws
  <2>3. \/ \E kept \in BagType :
             rd' = [rd EXCEPT ![c] = [rd[c] EXCEPT !.ph = "main", !.page = 1, !.acc = kept]]
        \/ \E kept \in BagType : \E page :
             rd' = [rd EXCEPT ![c] = [rd[c] EXCEPT !.page = page, !.acc = kept]]
    <3> DEFINE W == Window(RescanFrom(rd[c].since), rd[c].since - 1)
               got == Plus(rd[c].acc, BagOf(Positive(Page(W, rd[c].page))))
               r1 == [rd[c] EXCEPT !.ph = "main", !.page = 1,
                                   !.acc = Restricted(got, Attributed(Ids \ detail))]
               r2 == [rd[c] EXCEPT !.page = @ + 1, !.acc = got]
    <3>1. rd' = [rd EXCEPT ![c] = IF LastPage(W, rd[c].page, RescanMaxPages) THEN r1 ELSE r2]
      BY <1>3, Zenon DEF RescanPage
    <3>2. rd' = [rd EXCEPT ![c] = r1] \/ rd' = [rd EXCEPT ![c] = r2]
      <4> HIDE DEF r1, r2, W
      <4> QED
        BY <3>1
    <3>3. got \in BagType /\ Restricted(got, Attributed(Ids \ detail)) \in BagType
      BY <2>1, <2>2
    <3> HIDE DEF got
    <3> QED
      BY <3>2, <3>3, Zenon
  <2>4. ASSUME NEW kept \in BagType, NEW page
        PROVE  /\ RoundOK([rd[c] EXCEPT !.ph = "main", !.page = 1, !.acc = kept])
               /\ RoundOK([rd[c] EXCEPT !.page = page, !.acc = kept])
    BY <1>1 DEF RoundOK, RoundFields
  <2>5. ASSUME NEW kept \in BagType,
               rd' = [rd EXCEPT ![c] = [rd[c] EXCEPT !.ph = "main", !.page = 1, !.acc = kept]]
        PROVE  BooksInv'
    BY <1>2, <2>4, <2>5
  <2>6. ASSUME NEW kept \in BagType, NEW page,
               rd' = [rd EXCEPT ![c] = [rd[c] EXCEPT !.page = page, !.acc = kept]]
        PROVE  BooksInv'
    BY <1>2, <2>4, <2>6
  <2> QED
    BY <2>3, <2>5, <2>6, Zenon
<1>4. CASE MainPage(c)
  <2>1. \E got \in BagType : \E top, ph, page :
          rd' = [rd EXCEPT ![c] = [rd[c] EXCEPT !.acc = got, !.max = top, !.ph = ph, !.page = page]]
    <3>1. \A S : Plus(rd[c].acc, BagOf(S)) \in BagType
      BY <1>1, BagLaws DEF RoundOK
    <3> QED
      BY <1>4, <3>1, Zenon DEF MainPage
  <2>2. ASSUME NEW got \in BagType, NEW top, NEW ph, NEW page
        PROVE  RoundOK([rd[c] EXCEPT !.acc = got, !.max = top, !.ph = ph, !.page = page])
    BY <1>1 DEF RoundOK, RoundFields
  <2>3. ASSUME NEW got \in BagType, NEW top, NEW ph, NEW page,
               rd' = [rd EXCEPT ![c] =
                        [rd[c] EXCEPT !.acc = got, !.max = top, !.ph = ph, !.page = page]]
        PROVE  BooksInv'
    BY <1>2, <2>2, <2>3
  <2> QED
    BY <2>1, <2>3, Zenon
<1> QED
  BY <1>3, <1>4

\* CommitBaseline and AbandonRound: the call ends and writes no usage.
LEMMA LeaveKeeps ==
  ASSUME BooksInv, NEW c \in Callers, CommitBaseline(c) \/ AbandonRound(c)
  PROVE  BooksInv'
<1>1. UNCHANGED <<detail, ledger, deducted, bf>> /\ rd' = [rd EXCEPT ![c] = NoRound]
  BY DEF CommitBaseline, AbandonRound, Leave, store
<1>2. Reading'
  BY <1>1, NothingRead, RoundMoves DEF BooksInv, Reading
<1> QED
  BY <1>1, <1>2, ReadKeeps

\* A bag enters the ledger together with its detail rows, and no more than it
\* is charged.
LEMMA BooksKept ==
  ASSUME BooksInv, NEW b \in BagType, NEW d \in BagType, CommitUsageOnly(b),
         deducted' = Plus(deducted, d), \A i \in Ids : d[i] <= b[i]
  PROVE  Tables' /\ Agree'
<1>0. Tables /\ Agree
  BY DEF BooksInv
<1>1. ledger' = Plus(ledger, b) /\ detail' = detail \cup Support(b)
  BY DEF CommitUsageOnly, AddToLedgerBucketTx, InsertUsageDetailTx
<1>2. ledger' \in BagType /\ deducted' \in BagType
      /\ \A i \in Ids : ledger'[i] = ledger[i] + b[i] /\ deducted'[i] = deducted[i] + d[i]
  BY <1>0, <1>1, BagLaws DEF Tables
<1>3. detail' \subseteq Ids /\ \A i \in Ids : i \in detail' <=> i \in detail \/ b[i] > 0
  BY <1>0, <1>1, BagLaws DEF Tables, Support
<1>4. \A i \in Ids : ledger[i] \in Nat /\ deducted[i] \in Nat /\ b[i] \in Nat /\ d[i] \in Nat
  BY <1>0 DEF Tables, BagType
<1>5. ChargedIsBooked'
  BY <1>0, <1>2, <1>4 DEF Agree, ChargedIsBooked
<1>6. Retention = 0 => LedgerMatchesDetail'
  BY <1>0, <1>2, <1>3, <1>4 DEF Agree, LedgerMatchesDetail
<1> QED
  BY <1>2, <1>3, <1>5, <1>6 DEF Tables, Agree

\* CommitRound: ledger, detail and deduction in one transaction.
LEMMA CommitKeeps ==
  ASSUME BooksInv, NEW c \in Callers, CommitRound(c)
  PROVE  BooksInv'
<1>1. rd[c].acc \in BagType /\ SliceOK(bf)
  BY DEF BooksInv, Reading, RoundOK
<1>2. PICK S : deducted' = Plus(deducted, Restricted(rd[c].acc, S))
  BY Zenon DEF CommitRound
<1>3. CommitUsageOnly(rd[c].acc) /\ rd' = [rd EXCEPT ![c] = NoRound] /\ UNCHANGED bf
  BY DEF CommitRound, Leave
<1>4. Tables' /\ Agree'
  BY <1>1, <1>2, <1>3, BagLaws, BooksKept
<1>5. Reading'
  BY <1>1, <1>3, NothingRead, RoundMoves
<1> QED
  BY <1>4, <1>5 DEF BooksInv

\* BackfillWrite: the rows that have no detail row yet; nothing is charged.
LEMMA WriteKeeps ==
  ASSUME BooksInv, BackfillWrite
  PROVE  BooksInv'
<1>0. Tables /\ SliceOK(bf) /\ UNCHANGED <<deducted, rd>>
  BY DEF BackfillWrite, BooksInv, Reading
<1>1. Unrecorded(bf.keep) \in BagType /\ CommitUsageOnly(Unrecorded(bf.keep))
  BY <1>0, BagLaws DEF SliceOK, Unrecorded, BackfillWrite
<1>2. deducted' = Plus(deducted, Empty)
  BY <1>0 DEF Plus, Empty, Tables, BagType
<1>3. \A i \in Ids : Empty[i] <= Unrecorded(bf.keep)[i]
  BY <1>1 DEF Empty, BagType
<1>4. Tables' /\ Agree'
  BY <1>1, <1>2, <1>3, BagLaws, BooksKept
<1>5. SliceOK(bf')
  <2>1. SliceOK([bf EXCEPT !.ph = "progress"])
    BY <1>0 DEF SliceOK, SliceFields
  <2> QED
    BY <2>1 DEF BackfillWrite
<1>6. Reading'
  BY <1>0, <1>5, SliceMoves
<1> QED
  BY <1>4, <1>6 DEF BooksInv

\* The other steps of the backfill.
LEMMA SliceKeeps ==
  ASSUME BooksInv,
         \/ SliceStart \/ NextWindow \/ BackfillPage \/ BackfillProgress \/ EndSlice
         \/ BackfillError
  PROVE  BooksInv'
<1>0. UNCHANGED <<detail, ledger, deducted, rd>> /\ SliceOK(bf)
  BY DEF SliceStart, NextWindow, BackfillPage, BackfillProgress, EndSlice, BackfillError, store,
         BooksInv, Reading
<1>1. SUFFICES SliceOK(bf')
  BY <1>0, SliceMoves, ReadKeeps
<1>2. CASE EndSlice \/ BackfillError
  BY <1>2, NothingRead DEF EndSlice, BackfillError
<1>3. CASE SliceStart
  <2>1. PICK o, hi : bf' = [NoSlice EXCEPT !.ph = "next", !.org = o, !.hi = hi]
    BY <1>3, Zenon DEF SliceStart
  <2>2. SliceOK([NoSlice EXCEPT !.ph = "next", !.org = o, !.hi = hi])
    BY BagLaws DEF SliceOK, NoSlice, SliceFields
  <2> QED
    BY <2>1, <2>2
<1>4. CASE NextWindow
  <2>1. PICK lo : bf' = [bf EXCEPT !.ph = "read", !.lo = lo, !.page = 1, !.keep = Empty]
    BY <1>4, Zenon DEF NextWindow
  <2>2. SliceOK([bf EXCEPT !.ph = "read", !.lo = lo, !.page = 1, !.keep = Empty])
    BY <1>0, BagLaws DEF SliceOK, SliceFields
  <2> QED
    BY <2>1, <2>2
<1>5. CASE BackfillPage
  <2>1. \E keep \in BagType : \E page, ph :
          bf' = [bf EXCEPT !.keep = keep, !.page = page, !.ph = ph]
    <3>1. \A S : Plus(bf.keep, BagOf(S)) \in BagType
      BY <1>0, BagLaws DEF SliceOK
    <3> QED
      BY <1>5, <3>1, Zenon DEF BackfillPage
  <2>2. ASSUME NEW keep \in BagType, NEW page, NEW ph
        PROVE  SliceOK([bf EXCEPT !.keep = keep, !.page = page, !.ph = ph])
    BY <1>0 DEF SliceOK, SliceFields
  <2>3. PICK keep \in BagType :
          \E page, ph : bf' = [bf EXCEPT !.keep = keep, !.page = page, !.ph = ph]
    BY <2>1, Zenon
  <2>4. PICK page, ph : bf' = [bf EXCEPT !.keep = keep, !.page = page, !.ph = ph]
    BY <2>3, Zenon
  <2> QED
    BY <2>2, <2>4
<1>6. CASE BackfillProgress
  <2>1. PICK hi, wins : bf' = [bf EXCEPT !.ph = "next", !.hi = hi, !.wins = wins]
    BY <1>6, Zenon DEF BackfillProgress
  <2>2. SliceOK([bf EXCEPT !.ph = "next", !.hi = hi, !.wins = wins])
    BY <1>0 DEF SliceOK, SliceFields
  <2> QED
    BY <2>1, <2>2
<1> QED
  BY <1>2, <1>3, <1>4, <1>5, <1>6

\* A crash: calls vanish.
LEMMA CrashKeeps ==
  ASSUME BooksInv, NEW n \in Nodes, Crash(n)
  PROVE  BooksInv'
<1>0. /\ UNCHANGED <<detail, ledger, deducted>> /\ bf' \in {bf, NoSlice}
      /\ rd' = [c \in Callers |-> IF NodeOf[c] = n THEN NoRound ELSE rd[c]]
  BY DEF Crash, store
<1>1. SliceOK(bf')
  BY <1>0, NothingRead DEF BooksInv, Reading
<1>2. DOMAIN rd' = Callers /\ \A c \in Callers : RoundOK(rd'[c])
  BY <1>0, NothingRead DEF BooksInv, Reading
<1>3. Reading'
  BY <1>1, <1>2 DEF Reading, RoundOK, SliceOK
<1> QED
  BY <1>0, <1>3, ReadKeeps

\* Retention removes detail rows, and only then.
LEMMA PurgeKeeps ==
  ASSUME BooksInv, PurgeOldUsageDetail
  PROVE  BooksInv'
<1>1. /\ detail' \subseteq detail /\ Retention # 0 /\ UNCHANGED <<ledger, deducted, rd, bf>>
  BY DEF PurgeOldUsageDetail, PurgeUsageDetailBefore
<1>2. Reading'
  BY <1>1 DEF BooksInv, Reading, RoundOK, SliceOK
<1> QED
  BY <1>1, <1>2 DEF BooksInv, Tables, Agree, ChargedIsBooked

-----------------------------------------------------------------------------
(* The theorems.                                                           *)

\* The initial state.
LEMMA BooksInit == ASSUME Init PROVE BooksInv
<1>1. Tables
  BY BagLaws DEF Init, Tables
<1>2. Reading
  BY NothingRead DEF Init, Reading
<1>3. Agree
  BY DEF Init, Agree, ChargedIsBooked, LedgerMatchesDetail, Empty
<1> QED
  BY <1>1, <1>2, <1>3 DEF BooksInv

\* Every step of the specification.
LEMMA BooksStep == ASSUME BooksInv, [Next]_vars PROVE BooksInv'
<1>1. ASSUME UNCHANGED <<detail, ledger, deducted, rd, bf>> PROVE BooksInv'
  <2>1. Reading'
    BY <1>1 DEF BooksInv, Reading, RoundOK, SliceOK
  <2> QED
    BY <1>1, <2>1, ReadKeeps
<1>2. CASE Gateway
  <2>1. UNCHANGED <<detail, ledger, deducted, rd, bf>>
    BY <1>2 DEF Gateway, Tick, CommitRow, InsertRow, store
  <2> QED
    BY <1>1, <2>1
<1>3. ASSUME NEW c \in Callers, Forward(c) PROVE BooksInv'
  BY <1>3, StartKeeps, PageKeeps, LeaveKeeps, CommitKeeps DEF Forward
<1>4. CASE Backfill
  BY <1>4, SliceKeeps, WriteKeeps DEF Backfill
<1>5. ASSUME NEW o \in Orgs, Operator(o) \/ EnqueueFails(o) PROVE BooksInv'
  <2>1. UNCHANGED <<detail, ledger, deducted, rd, bf>>
    BY <1>5 DEF Operator, Associate, EnqueueBackfill, RequeueBackfill, EnqueueFails, store
  <2> QED
    BY <1>1, <2>1
<1>6. CASE PurgeOldUsageDetail
  BY <1>6, PurgeKeeps
<1>7. CASE Faults
  BY <1>5, <1>7, LeaveKeeps, SliceKeeps, CrashKeeps DEF Faults
<1>8. CASE UNCHANGED vars
  BY <1>1, <1>8 DEF vars
<1> QED
  BY <1>2, <1>3, <1>4, <1>5, <1>6, <1>7, <1>8 DEF Next

\* Without retention the ledger's sums and the detail rows tell the same story
\* at all times: no interleaving of rounds, backfill, requeues, lost cursor
\* races and crashes leaves one without the other (settlement.go, backfill.go).
THEOREM LedgerAgrees == ASSUME Retention = 0 PROVE Spec => []LedgerMatchesDetail
<1>1. Init => BooksInv
  BY BooksInit
<1>2. BooksInv /\ [Next]_vars => BooksInv'
  BY BooksStep
<1>3. BooksInv => LedgerMatchesDetail
  BY DEF BooksInv, Agree
<1> QED
  BY <1>1, <1>2, <1>3, PTL DEF Spec

\* The balance is never charged for usage that the ledger does not show, with
\* retention or without, and whatever is read twice (the second half of
\* ExactlyOnce; the deduction is computed apart from the ledger).
THEOREM ChargesBooked == Spec => []ChargedIsBooked
<1>1. Init => BooksInv
  BY BooksInit
<1>2. BooksInv /\ [Next]_vars => BooksInv'
  BY BooksStep
<1>3. BooksInv => ChargedIsBooked
  BY DEF BooksInv, Agree
<1> QED
  BY <1>1, <1>2, <1>3, PTL DEF Spec

-----------------------------------------------------------------------------
(* Least numbers and searches.                                             *)

\* Every set of numbers that is not empty has a least one; induction over the
\* clock and over counts is the search for a least counterexample.
LEMMA LeastNat ==
  ASSUME NEW T, T \subseteq Nat, T # {} PROVE \E n \in T : \A m \in T : n <= m
<1>1. IsWellFoundedOn(OpToRel(<, Nat), Nat)
  BY NatLessThanWellFounded
<1>2. \E x \in T : \A y \in T : ~ (<<y, x>> \in OpToRel(<, Nat))
  BY <1>1, WFMin
<1>3. OpToRel(<, Nat) = {ss \in Nat \X Nat : ss[1] < ss[2]}
  BY Zenon DEF OpToRel
<1> DEFINE R == {ss \in Nat \X Nat : ss[1] < ss[2]}
<1>4. PICK x \in T : \A y \in T : ~ (<<y, x>> \in R)
  BY <1>2, <1>3, Zenon
<1>5. \A y \in T : ~(y < x)
  BY <1>4
<1> QED
  BY <1>4, <1>5

\* A search that goes from u to next[u] until it meets S, every time with a
\* smaller rank, is well defined,
Search(D, S, next, f) == f = [u \in D |-> IF u \in S THEN u ELSE f[next[u]]]

\* by induction on the rank: the least rank without such a function is none.
LEMMA SearchExists ==
  ASSUME NEW D, NEW S, NEW N \in Nat, NEW rank \in [D -> 0..N], NEW next \in [D -> D],
         \A u \in D : u \notin S => rank[next[u]] < rank[u]
  PROVE  \E f : Search(D, S, next, f)
<1> DEFINE Below(n) == {u \in D : rank[u] < n}
           Ok(n) == \E f : Search(Below(n), S, next, f)
           Bad == {n \in Nat : ~Ok(n)}
<1>1. ASSUME Bad # {} PROVE FALSE
  <2>1. PICK m \in Bad : \A n \in Bad : m <= n
    <3>1. Bad \subseteq Nat
      OBVIOUS
    <3> HIDE DEF Bad
    <3> QED
      BY <1>1, <3>1, LeastNat
  <2>2. m # 0
    <3>1. Below(0) = {}
      OBVIOUS
    <3>2. Search({}, S, next, [u \in {} |-> u])
      BY DEF Search
    <3> QED
      BY <3>1, <3>2
  <2>3. m - 1 \in Nat /\ m - 1 \notin Bad
    BY <2>1, <2>2
  <2>4. PICK f : Search(Below(m - 1), S, next, f)
    BY <2>3
  <2> DEFINE g == [u \in Below(m) |-> IF u \in S THEN u ELSE f[next[u]]]
  <2>5. ASSUME NEW u \in Below(m), u \notin S PROVE g[next[u]] = f[next[u]]
    <3>1. next[u] \in Below(m - 1) /\ next[u] \in Below(m)
      BY <2>3, <2>5
    <3>2. f[next[u]] = IF next[u] \in S THEN next[u] ELSE f[next[next[u]]]
      BY <2>4, <3>1 DEF Search
    <3> QED
      BY <3>1, <3>2
  <2>6. \A u \in Below(m) : g[u] = IF u \in S THEN u ELSE g[next[u]]
    BY <2>5
  <2>7. Search(Below(m), S, next, g)
    BY <2>6 DEF Search
  <2> QED
    BY <2>7
<1>2. N + 1 \in Nat /\ Ok(N + 1)
  BY <1>1
<1>3. Below(N + 1) = D
  OBVIOUS
<1> QED
  BY <1>2, <1>3

\* and ends where it began or further on.
LEMMA SearchInside ==
  ASSUME NEW D, NEW S, NEW N \in Nat, NEW rank \in [D -> 0..N], NEW next \in [D -> D],
         \A u \in D : u \notin S => rank[next[u]] < rank[u],
         NEW f, Search(D, S, next, f)
  PROVE  \A u \in D : f[u] \in S \cap D /\ rank[f[u]] <= rank[u]
<1> DEFINE Bad == {n \in Nat : \E u \in D : rank[u] = n /\ ~(f[u] \in S \cap D /\ rank[f[u]] <= rank[u])}
<1>1. ASSUME Bad # {} PROVE FALSE
  <2>1. PICK m \in Bad : \A n \in Bad : m <= n
    <3>1. Bad \subseteq Nat
      OBVIOUS
    <3> HIDE DEF Bad
    <3> QED
      BY <1>1, <3>1, LeastNat
  <2>2. PICK u \in D : rank[u] = m /\ ~(f[u] \in S \cap D /\ rank[f[u]] <= rank[u])
    OBVIOUS
  <2>3. f[u] = IF u \in S THEN u ELSE f[next[u]]
    BY DEF Search
  <2>4. u \notin S
    BY <2>2, <2>3
  <2>5. next[u] \in D /\ rank[next[u]] < m /\ rank[next[u]] \in Nat
    BY <2>2, <2>4
  <2>6. rank[next[u]] \notin Bad
    BY <2>1, <2>5
  <2>7. f[next[u]] \in S \cap D /\ rank[f[next[u]]] <= rank[next[u]]
    BY <2>5, <2>6
  <2> QED
    BY <2>2, <2>3, <2>4, <2>5, <2>7
<1>2. \A u \in D : rank[u] \in Nat
  OBVIOUS
<1> QED
  BY <1>1, <1>2

-----------------------------------------------------------------------------
(* The bisections of a window.                                             *)

\* The equation that the bisection of UntilSub solves.
Shrinks(since, until, f) ==
  f = [u \in since..until |->
         IF Cardinality(Window(since, u)) <= Capacity \/ u <= since + 1
         THEN u ELSE f[since + (u - since) \div 2]]

\* The bisection of UntilSub is well defined,
LEMMA UntilSubSolves ==
  ASSUME NEW since \in Int, NEW until \in Int, since <= until
  PROVE  Shrinks(since, until, CHOOSE g : Shrinks(since, until, g))
<1> DEFINE D == since..until
           S == {u \in D : Cardinality(Window(since, u)) <= Capacity \/ u <= since + 1}
           next == [u \in D |-> since + (u - since) \div 2]
           rank == [u \in D |-> u - since]
<1>1. rank \in [D -> 0..(until - since)] /\ until - since \in Nat
  OBVIOUS
<1>2. next \in [D -> D]
  OBVIOUS
<1>3. \A u \in D : u \notin S => rank[next[u]] < rank[u]
  <2>1. \A u \in D : u \notin S => u > since + 1
    OBVIOUS
  <2>2. \A u \in D : u > since + 1 => (u - since) \div 2 < u - since
    OBVIOUS
  <2>3. \A u \in D : rank[next[u]] = (u - since) \div 2
    BY <1>2
  <2> QED
    BY <2>1, <2>2, <2>3
<1>4. \A g : Search(D, S, next, g) <=> Shrinks(since, until, g)
  <2> TAKE g
  <2>1. \A u \in D : u \in S <=> Cardinality(Window(since, u)) <= Capacity \/ u <= since + 1
    OBVIOUS
  <2>2. \A u \in D : next[u] = since + (u - since) \div 2
    OBVIOUS
  <2> HIDE DEF S, next
  <2>3. [u \in D |-> IF u \in S THEN u ELSE g[next[u]]]
        = [u \in D |-> IF Cardinality(Window(since, u)) <= Capacity \/ u <= since + 1
                       THEN u ELSE g[since + (u - since) \div 2]]
    BY <2>1, <2>2
  <2> QED
    BY <2>3 DEF Search, Shrinks
<1>5. \E g : Search(D, S, next, g)
  <2> HIDE DEF D, S, next, rank
  <2> QED
    BY <1>1, <1>2, <1>3, SearchExists
<1> QED
  BY <1>4, <1>5, Zenon

\* and ends inside the window it is given, ahead of its beginning: a round
\* always has something to settle.
LEMMA UntilSubAhead ==
  ASSUME NEW since \in Int, NEW until \in Int, since < until
  PROVE  UntilSub(since, until) \in (since + 1)..until
<1> DEFINE D == (since + 1)..until
           S == {u \in D : Cardinality(Window(since, u)) <= Capacity \/ u <= since + 1}
           next == [u \in D |-> IF u <= since + 1 THEN u ELSE since + (u - since) \div 2]
           rank == [u \in D |-> u - since]
           f == CHOOSE g : Shrinks(since, until, g)
           h == [u \in D |-> f[u]]
<1>1. rank \in [D -> 0..(until - since)] /\ until - since \in Nat
  OBVIOUS
<1>2. next \in [D -> D]
  <2>1. \A u \in D : ~(u <= since + 1) => since + (u - since) \div 2 \in D
    OBVIOUS
  <2> QED
    BY <2>1
<1>3. \A u \in D : u \notin S => rank[next[u]] < rank[u]
  <2>1. \A u \in D : u \notin S => u > since + 1
    OBVIOUS
  <2>2. \A u \in D : u > since + 1 => (u - since) \div 2 < u - since
    OBVIOUS
  <2>3. \A u \in D : u > since + 1 => rank[next[u]] = (u - since) \div 2
    BY <1>2
  <2> QED
    BY <2>1, <2>2, <2>3
<1>4. Shrinks(since, until, f)
  <2>1. since <= until
    OBVIOUS
  <2> QED
    BY <2>1, UntilSubSolves, Zenon
<1>5. \A u \in D : h[u] = IF u \in S THEN u ELSE h[next[u]]
  <2>1. \A u \in since..until :
          f[u] = IF Cardinality(Window(since, u)) <= Capacity \/ u <= since + 1
                 THEN u ELSE f[since + (u - since) \div 2]
    BY <1>4, Zenon DEF Shrinks
  <2>2. \A u \in D : u \in since..until /\ h[u] = f[u] /\ next[u] \in D
    BY <1>2
  <2>3. \A u \in D : /\ u \in S <=> Cardinality(Window(since, u)) <= Capacity \/ u <= since + 1
                     /\ u \notin S => next[u] = since + (u - since) \div 2
    OBVIOUS
  <2> HIDE DEF h, next, S, f, D
  <2> QED
    BY <2>1, <2>2, <2>3
<1>6. Search(D, S, next, h)
  <2> HIDE DEF S, next, f
  <2> QED
    BY <1>5 DEF Search
<1>7. \A u \in D : h[u] \in S \cap D
  <2> HIDE DEF D, S, next, rank, h
  <2> QED
    BY <1>1, <1>2, <1>3, <1>6, SearchInside
<1>8. UntilSub(since, until) = f[until]
  BY DEF UntilSub, Shrinks
<1>9. until \in D /\ h[until] = f[until]
  OBVIOUS
<1> QED
  BY <1>7, <1>8, <1>9

\* The equation that the bisection of LowerBound solves.
Grows(o, hi, f) ==
  f = [l \in 0..hi |->
         IF Cardinality(WindowOf(o, l, hi)) <= Capacity \/ l >= hi - 1
         THEN l ELSE f[hi - (hi - l) \div 2]]

\* LowerBound ends inside the window it is given, where the rest can be read
\* in full or is down to two seconds.
LEMMA LowerBoundInside ==
  ASSUME NEW o, NEW hi \in Nat
  PROVE  /\ LowerBound(o, hi) \in 0..hi
         /\ \/ Cardinality(WindowOf(o, LowerBound(o, hi), hi)) <= Capacity
            \/ LowerBound(o, hi) >= hi - 1
<1> DEFINE D == 0..hi
           S == {l \in D : Cardinality(WindowOf(o, l, hi)) <= Capacity \/ l >= hi - 1}
           next == [l \in D |-> hi - (hi - l) \div 2]
           rank == [l \in D |-> hi - l]
           f == CHOOSE g : Grows(o, hi, g)
<1>1. rank \in [D -> 0..hi]
  OBVIOUS
<1>2. next \in [D -> D]
  OBVIOUS
<1>3. \A l \in D : l \notin S => rank[next[l]] < rank[l]
  <2>1. \A l \in D : l \notin S => l < hi - 1
    OBVIOUS
  <2>2. \A l \in D : l < hi - 1 => (hi - l) \div 2 < hi - l
    OBVIOUS
  <2>3. \A l \in D : rank[next[l]] = (hi - l) \div 2
    BY <1>2
  <2> QED
    BY <2>1, <2>2, <2>3
<1>4. \A g : Search(D, S, next, g) <=> Grows(o, hi, g)
  <2> TAKE g
  <2>1. \A l \in D : l \in S <=> Cardinality(WindowOf(o, l, hi)) <= Capacity \/ l >= hi - 1
    OBVIOUS
  <2>2. \A l \in D : next[l] = hi - (hi - l) \div 2
    OBVIOUS
  <2> HIDE DEF S, next
  <2>3. [l \in D |-> IF l \in S THEN l ELSE g[next[l]]]
        = [l \in D |-> IF Cardinality(WindowOf(o, l, hi)) <= Capacity \/ l >= hi - 1
                       THEN l ELSE g[hi - (hi - l) \div 2]]
    BY <2>1, <2>2
  <2> QED
    BY <2>3 DEF Search, Grows
<1>5. \E g : Search(D, S, next, g)
  <2> HIDE DEF D, S, next, rank
  <2> QED
    BY <1>1, <1>2, <1>3, SearchExists
<1>6. Grows(o, hi, f)
  BY <1>4, <1>5, Zenon
<1>7. \A l \in D : f[l] \in S \cap D
  <2>1. Search(D, S, next, f)
    BY <1>4, <1>6
  <2> HIDE DEF D, S, next, rank, f
  <2> QED
    BY <1>1, <1>2, <1>3, <2>1, SearchInside
<1>8. LowerBound(o, hi) = f[0]
  BY DEF LowerBound, Grows
<1>9. 0 \in D
  OBVIOUS
<1>10. LowerBound(o, hi) \in S
  BY <1>7, <1>8, <1>9
<1> HIDE DEF f
<1> QED
  BY <1>10

\* The largest id MainPage has seen, as CHOOSE picks it.
LEMMA TopInside ==
  ASSUME NEW T, NEW N \in Nat, T \subseteq 0..N, T # {}
  PROVE  LET top == CHOOSE m \in T : \A i \in T : i <= m
         IN  top \in T /\ \A i \in T : i <= top
<1> DEFINE U == {n \in Nat : N - n \in T}
<1>1. U \subseteq Nat /\ U # {}
  <2>1. PICK t \in T : TRUE
    OBVIOUS
  <2>2. N - t \in U
    BY <2>1
  <2> QED
    BY <2>2
<1>2. PICK n \in U : \A m \in U : n <= m
  <2> HIDE DEF U
  <2> QED
    BY <1>1, LeastNat
<1>3. N - n \in T /\ \A i \in T : i <= N - n
  <2>1. \A i \in T : N - i \in U
    OBVIOUS
  <2> QED
    BY <1>2, <2>1
<1> QED
  BY <1>3

-----------------------------------------------------------------------------
(* What a step of a round or of a slice does to its record.                *)

\* RunStart.
LEMMA StartShape ==
  ASSUME BooksInv, NEW c \in Callers, RunStart(c)
  PROVE  /\ \A d \in Callers : d # c => rd'[d] = rd[d]
         /\ rd'[c].ph = IF cursor.ts = 0 THEN "baseline" ELSE "rescan"
         /\ rd'[c].since = cursor.ts /\ rd'[c].id = cursor.id /\ rd'[c].max = cursor.id
         /\ rd'[c].ver = cursor.ver /\ rd'[c].page = 1 /\ rd'[c].acc = Empty
         /\ cursor.ts = 0 => rd'[c].sub = now - Lag
         /\ cursor.ts # 0 => rd'[c].sub = UntilSub(cursor.ts, now - Lag)
<1> DEFINE sub == IF cursor.ts = 0 THEN now - Lag ELSE UntilSub(cursor.ts, now - Lag)
           ph == IF cursor.ts = 0 THEN "baseline" ELSE "rescan"
<1>1. rd' = [rd EXCEPT ![c] = [NoRound EXCEPT !.ph = ph, !.since = cursor.ts, !.sub = sub,
                                 !.id = cursor.id, !.ver = cursor.ver, !.max = cursor.id]]
  BY Zenon DEF RunStart
<1>2. DOMAIN rd = Callers
  BY DEF BooksInv, Reading
<1>3. /\ cursor.ts = 0 => sub = now - Lag
      /\ cursor.ts # 0 => sub = UntilSub(cursor.ts, now - Lag)
  OBVIOUS
<1> HIDE DEF sub, ph
<1>4. /\ \A d \in Callers : d # c => rd'[d] = rd[d]
      /\ rd'[c] = [NoRound EXCEPT !.ph = ph, !.since = cursor.ts, !.sub = sub,
                     !.id = cursor.id, !.ver = cursor.ver, !.max = cursor.id]
  BY <1>1, <1>2
<1>5. /\ rd'[c].ph = ph /\ rd'[c].since = cursor.ts /\ rd'[c].sub = sub /\ rd'[c].id = cursor.id
      /\ rd'[c].max = cursor.id /\ rd'[c].ver = cursor.ver /\ rd'[c].page = 1
      /\ rd'[c].acc = Empty
  BY <1>4 DEF NoRound
<1> QED
  BY <1>3, <1>4, <1>5 DEF ph

\* The window of a rescan and what has been read of it after one more page.
RescanWindow(r) == Window(RescanFrom(r.since), r.since - 1)
Rescanned(r) == Plus(r.acc, BagOf(Positive(Page(RescanWindow(r), r.page))))

\* RescanPage.
LEMMA RescanShape ==
  ASSUME BooksInv, NEW c \in Callers, RescanPage(c)
  PROVE  /\ \A d \in Callers : d # c => rd'[d] = rd[d]
         /\ rd'[c].since = rd[c].since /\ rd'[c].sub = rd[c].sub /\ rd'[c].id = rd[c].id
         /\ rd'[c].max = rd[c].max /\ rd'[c].ver = rd[c].ver
         /\ \/ /\ LastPage(RescanWindow(rd[c]), rd[c].page, RescanMaxPages)
               /\ rd'[c].ph = "main" /\ rd'[c].page = 1
               /\ rd'[c].acc = Restricted(Rescanned(rd[c]), Attributed(Ids \ detail))
            \/ /\ ~LastPage(RescanWindow(rd[c]), rd[c].page, RescanMaxPages)
               /\ rd'[c].ph = "rescan" /\ rd'[c].page = rd[c].page + 1
               /\ rd'[c].acc = Rescanned(rd[c])
<1> DEFINE r1 == [rd[c] EXCEPT !.ph = "main", !.page = 1,
                    !.acc = Restricted(Rescanned(rd[c]), Attributed(Ids \ detail))]
           r2 == [rd[c] EXCEPT !.page = @ + 1, !.acc = Rescanned(rd[c])]
           last == LastPage(RescanWindow(rd[c]), rd[c].page, RescanMaxPages)
<1>1. rd' = [rd EXCEPT ![c] = IF last THEN r1 ELSE r2]
  BY Zenon DEF RescanPage, RescanWindow, Rescanned
<1>2. DOMAIN rd = Callers /\ DOMAIN rd[c] = RoundFields /\ rd[c].ph = "rescan"
  BY DEF BooksInv, Reading, RoundOK, RescanPage
<1>3. /\ r1.since = rd[c].since /\ r1.sub = rd[c].sub /\ r1.id = rd[c].id
      /\ r1.max = rd[c].max /\ r1.ver = rd[c].ver /\ r1.ph = "main" /\ r1.page = 1
      /\ r1.acc = Restricted(Rescanned(rd[c]), Attributed(Ids \ detail))
  BY <1>2 DEF RoundFields
<1>4. /\ r2.since = rd[c].since /\ r2.sub = rd[c].sub /\ r2.id = rd[c].id
      /\ r2.max = rd[c].max /\ r2.ver = rd[c].ver /\ r2.ph = "rescan"
      /\ r2.page = rd[c].page + 1 /\ r2.acc = Rescanned(rd[c])
  BY <1>2 DEF RoundFields
<1> HIDE DEF r1, r2
<1>5. /\ \A d \in Callers : d # c => rd'[d] = rd[d]
      /\ rd'[c] = IF last THEN r1 ELSE r2
  BY <1>1, <1>2
<1> QED
  BY <1>3, <1>4, <1>5

\* The window of a round, the rows of its next page above the watermark, and
\* what has been read after that page.
MainWindow(r) == Window(r.since, r.sub)
NewRows(r) == AboveWatermark(Page(MainWindow(r), r.page), r)
MainRead(r) == Plus(r.acc, BagOf(Attributed(Positive(NewRows(r)))))

\* MainPage.
LEMMA MainShape ==
  ASSUME BooksInv, NEW c \in Callers, MainPage(c), rd[c].max \in 0..MaxLog
  PROVE  /\ \A d \in Callers : d # c => rd'[d] = rd[d]
         /\ rd'[c].since = rd[c].since /\ rd'[c].sub = rd[c].sub /\ rd'[c].id = rd[c].id
         /\ rd'[c].ver = rd[c].ver /\ rd'[c].acc = MainRead(rd[c])
         /\ rd'[c].page = rd[c].page + 1
         /\ rd'[c].max \in NewRows(rd[c]) \cup {rd[c].max}
         /\ \A i \in NewRows(rd[c]) \cup {rd[c].max} : i <= rd'[c].max
         /\ \/ rd'[c].ph = "commit"
            \/ /\ ~LastPage(MainWindow(rd[c]), rd[c].page, MaxPages)
               /\ rd'[c].ph = "main"
<1> DEFINE T == NewRows(rd[c]) \cup {rd[c].max}
           top == CHOOSE m \in T : \A i \in T : i <= m
           last == LastPage(MainWindow(rd[c]), rd[c].page, MaxPages)
           ph == IF last THEN "commit" ELSE "main"
<1>1. rd' = [rd EXCEPT ![c] = [rd[c] EXCEPT !.acc = MainRead(rd[c]), !.max = top, !.ph = ph,
                                 !.page = @ + 1]]
  BY Zenon DEF MainPage, MainWindow, NewRows, MainRead
<1>2. DOMAIN rd = Callers /\ DOMAIN rd[c] = RoundFields
  BY DEF BooksInv, Reading, RoundOK
<1>3. top \in T /\ \A i \in T : i <= top
  <2>1. NewRows(rd[c]) \subseteq Ids
    BY DEF NewRows, AboveWatermark, Page, MainWindow, Window
  <2>2. T \subseteq 0..MaxLog /\ T # {} /\ MaxLog \in Nat
    BY <2>1, ConstantsAssumption DEF Ids
  <2> HIDE DEF T
  <2> QED
    BY <2>2, TopInside
<1> HIDE DEF top, ph
<1>4. /\ \A d \in Callers : d # c => rd'[d] = rd[d]
      /\ rd'[c] = [rd[c] EXCEPT !.acc = MainRead(rd[c]), !.max = top, !.ph = ph, !.page = @ + 1]
  BY <1>1, <1>2
<1>5. /\ rd'[c].since = rd[c].since /\ rd'[c].sub = rd[c].sub /\ rd'[c].id = rd[c].id
      /\ rd'[c].ver = rd[c].ver /\ rd'[c].acc = MainRead(rd[c])
      /\ rd'[c].page = rd[c].page + 1 /\ rd'[c].max = top /\ rd'[c].ph = ph
  BY <1>2, <1>4 DEF RoundFields
<1> QED
  BY <1>3, <1>4, <1>5 DEF ph

\* A call that ends.
LEMMA LeaveShape ==
  ASSUME BooksInv, NEW c \in Callers, rd' = [rd EXCEPT ![c] = NoRound]
  PROVE  rd'[c] = NoRound /\ \A d \in Callers : d # c => rd'[d] = rd[d]
  BY DEF BooksInv, Reading

\* The rows that a page of a slice adds.
OwnWindow(s) == WindowOf(s.org, s.lo, s.hi)
OwnRows(s) == {i \in Positive(Page(OwnWindow(s), s.page)) : BelongsToBackfill(i, job[s.org])}

\* NextWindow, BackfillPage, BackfillWrite and BackfillProgress.
LEMMA SliceShape ==
  ASSUME BooksInv
  PROVE  /\ NextWindow => /\ bf'.ph = "read" /\ bf'.org = bf.org /\ bf'.hi = bf.hi
                          /\ bf'.lo = LowerBound(bf.org, bf.hi) /\ bf'.page = 1
                          /\ bf'.keep = Empty
         /\ BackfillPage => /\ bf'.org = bf.org /\ bf'.hi = bf.hi /\ bf'.lo = bf.lo
                            /\ bf'.page = bf.page + 1
                            /\ bf'.keep = Plus(bf.keep, BagOf(OwnRows(bf)))
                            /\ \/ /\ LastPage(OwnWindow(bf), bf.page, MaxPages)
                                  /\ bf'.ph = "write"
                               \/ /\ ~LastPage(OwnWindow(bf), bf.page, MaxPages)
                                  /\ bf'.ph = "read"
         /\ BackfillWrite => /\ bf'.ph = "progress" /\ bf'.org = bf.org /\ bf'.hi = bf.hi
                             /\ bf'.lo = bf.lo /\ bf'.page = bf.page
         /\ BackfillProgress => bf'.ph = "next" /\ bf'.org = bf.org /\ bf'.hi = bf.lo - 1
                                /\ bf'.page = bf.page
<1>1. DOMAIN bf = SliceFields
  BY DEF BooksInv, Reading, SliceOK
<1>2. ASSUME NextWindow
      PROVE  /\ bf'.ph = "read" /\ bf'.org = bf.org /\ bf'.hi = bf.hi
             /\ bf'.lo = LowerBound(bf.org, bf.hi) /\ bf'.page = 1 /\ bf'.keep = Empty
  BY <1>1, <1>2 DEF NextWindow, SliceFields
<1>3. ASSUME BackfillPage
      PROVE  /\ bf'.org = bf.org /\ bf'.hi = bf.hi /\ bf'.lo = bf.lo
             /\ bf'.page = bf.page + 1 /\ bf'.keep = Plus(bf.keep, BagOf(OwnRows(bf)))
             /\ \/ LastPage(OwnWindow(bf), bf.page, MaxPages) /\ bf'.ph = "write"
                \/ ~LastPage(OwnWindow(bf), bf.page, MaxPages) /\ bf'.ph = "read"
  <2> DEFINE last == LastPage(OwnWindow(bf), bf.page, MaxPages)
             keep == Plus(bf.keep, BagOf(OwnRows(bf)))
             ph == IF last THEN "write" ELSE "read"
  <2>1. bf' = [bf EXCEPT !.keep = keep, !.page = @ + 1, !.ph = ph]
    BY <1>3, Zenon DEF BackfillPage, OwnWindow, OwnRows
  <2> HIDE DEF keep, ph
  <2>2. /\ bf'.org = bf.org /\ bf'.hi = bf.hi /\ bf'.lo = bf.lo /\ bf'.page = bf.page + 1
        /\ bf'.keep = keep /\ bf'.ph = ph
    BY <1>1, <2>1 DEF SliceFields
  <2> QED
    BY <2>2 DEF keep, ph
<1>4. ASSUME BackfillWrite
      PROVE  /\ bf'.ph = "progress" /\ bf'.org = bf.org /\ bf'.hi = bf.hi /\ bf'.lo = bf.lo
             /\ bf'.page = bf.page
  BY <1>1, <1>4 DEF BackfillWrite, SliceFields
<1>5. ASSUME BackfillProgress
      PROVE  bf'.ph = "next" /\ bf'.org = bf.org /\ bf'.hi = bf.lo - 1 /\ bf'.page = bf.page
  BY <1>1, <1>5 DEF BackfillProgress, SliceFields
<1> QED
  BY <1>2, <1>3, <1>4, <1>5

-----------------------------------------------------------------------------
(* Types.                                                                  *)

Phases == {"idle", "baseline", "rescan", "main", "commit"}
SlicePhases == {"idle", "next", "read", "write", "progress"}
JobFields == {"status", "bts", "bid", "cts", "nth"}

\* At time t no window reaches above t - Lag.
RoundFits(r, t) ==
  /\ r.ph \in Phases /\ r.since \in 0..(t - Lag) /\ r.sub \in 0..(t - Lag)
  /\ r.id \in 0..MaxLog /\ r.max \in 0..MaxLog /\ r.ver \in Nat /\ r.page \in Nat \ {0}

\* The boundary of a job is a cursor position, its own cursor is not above.
JobFits(j, t) ==
  /\ DOMAIN j = JobFields
  /\ j.status \in Statuses /\ j.bts \in 0..(t - Lag) /\ j.bid \in 0..MaxLog
  /\ j.cts \in -1..j.bts

\* A slice works below the boundary of a job that exists.
SliceFits(s, jobs) ==
  /\ s.ph \in SlicePhases /\ s.page \in Nat \ {0}
  /\ s.ph # "idle" => /\ s.org \in Orgs /\ jobs[s.org].status # "none"
                      /\ s.hi \in -1..jobs[s.org].bts
  /\ s.ph \in {"read", "write", "progress"} => s.lo \in 0..s.hi

ClockFits == now \in StartTime..MaxTime
LogFits == log \in [Ids -> [st : {"free", "inserted", "visible"}, ts : 0..MaxTime]]
CursorFits == cursor \in [ts : 0..(now - Lag), id : 0..MaxLog, ver : Nat]
RoundsFit == \A c \in Callers : RoundFits(rd[c], now)
LocksFit ==
  /\ mu \in [Nodes -> Callers \cup {Nobody}]
  /\ \A c \in Callers : (rd[c].ph # "idle") <=> (mu[NodeOf[c]] = c)

\* An organisation that has a job is through with its association.
JobsFit ==
  /\ DOMAIN job = Orgs /\ DOMAIN enq = Orgs /\ linked \subseteq Orgs
  /\ \A o \in Orgs : /\ JobFits(job[o], now)
                     /\ job[o].status # "none" => enq[o] = "queued"

TypeInv ==
  ClockFits /\ LogFits /\ CursorFits /\ RoundsFit /\ LocksFit /\ JobsFit /\ SliceFits(bf, job)

\* Time may pass.
LEMMA FitsLater ==
  ASSUME NEW t \in Nat, NEW u \in Nat, t <= u
  PROVE  /\ \A x \in 0..(t - Lag) : x \in 0..(u - Lag)
         /\ \A r : RoundFits(r, t) => RoundFits(r, u)
         /\ \A j : JobFits(j, t) => JobFits(j, u)
<1>1. \A x \in 0..(t - Lag) : x \in 0..(u - Lag)
  BY ConstantsAssumption
<1> QED
  BY <1>1 DEF RoundFits, JobFits

\* A call that has not begun.
LEMMA NothingFits ==
  ASSUME ClockFits
  PROVE  RoundFits(NoRound, now) /\ JobFits(NoJob, now) /\ \A jobs : SliceFits(NoSlice, jobs)
<1>1. now - Lag \in Nat /\ MaxLog \in Nat
  BY ConstantsAssumption DEF ClockFits
<1>2. /\ NoRound.ph = "idle" /\ NoRound.since = 0 /\ NoRound.sub = 0 /\ NoRound.id = 0
      /\ NoRound.max = 0 /\ NoRound.ver = 0 /\ NoRound.page = 1
  BY DEF NoRound
<1>3. NoSlice.ph = "idle" /\ NoSlice.page = 1
  BY DEF NoSlice
<1>4. RoundFits(NoRound, now)
  BY <1>1, <1>2 DEF RoundFits, Phases
<1>5. JobFits(NoJob, now)
  BY <1>1 DEF JobFits, NoJob, JobFields, Statuses
<1> QED
  BY <1>3, <1>4, <1>5 DEF SliceFits, SlicePhases

\* The initial state.
LEMMA TypeInit == ASSUME Init PROVE TypeInv
<1>1. ClockFits
  BY ConstantsAssumption DEF Init, ClockFits
<1>2. LogFits /\ CursorFits
  BY <1>1, ConstantsAssumption DEF Init, LogFits, CursorFits, ClockFits
<1>3. RoundsFit /\ SliceFits(bf, job)
  BY <1>1, NothingFits DEF Init, RoundsFit
<1>4. LocksFit
  BY ConstantsAssumption DEF Init, LocksFit, NoRound, Nodes
<1>5. JobsFit
  <2>1. NoJob.status = "none"
    BY DEF NoJob
  <2> QED
    BY <1>1, <2>1, NothingFits, ConstantsAssumption DEF Init, JobsFit
<1> QED
  BY <1>1, <1>2, <1>3, <1>4, <1>5 DEF TypeInv

\* Steps that leave the clock alone and change one call.
LEMMA RoundStepFits ==
  ASSUME BooksInv, TypeInv, NEW c \in Callers, \A d \in Callers : d # c => rd'[d] = rd[d],
         RoundFits(rd'[c], now), rd'[c].ph # "idle", UNCHANGED now,
         \/ rd[c].ph # "idle" /\ UNCHANGED mu
         \/ mu[NodeOf[c]] = Nobody /\ mu' = [mu EXCEPT ![NodeOf[c]] = c]
  PROVE  RoundsFit' /\ LocksFit'
<1>1. RoundsFit'
  BY DEF TypeInv, RoundsFit
<1>2. NodeOf[c] \in Nodes /\ \A d \in Callers : NodeOf[d] \in Nodes
  BY DEF Nodes
<1>3. Nobody \notin Callers
  BY ConstantsAssumption
<1>0. \A d \in Callers : (rd[d].ph # "idle") <=> (mu[NodeOf[d]] = d)
  BY DEF TypeInv, LocksFit
<1>4. CASE rd[c].ph # "idle" /\ UNCHANGED mu
  <2>1. \A d \in Callers : (rd'[d].ph # "idle") <=> (mu[NodeOf[d]] = d)
    BY <1>0, <1>4
  <2> QED
    BY <1>1, <1>4, <2>1 DEF TypeInv, LocksFit
<1>5. CASE mu[NodeOf[c]] = Nobody /\ mu' = [mu EXCEPT ![NodeOf[c]] = c]
  <2>1. mu' \in [Nodes -> Callers \cup {Nobody}] /\ mu'[NodeOf[c]] = c
    BY <1>2, <1>5 DEF TypeInv, LocksFit
  <2>2. \A n \in Nodes : n # NodeOf[c] => mu'[n] = mu[n]
    BY <1>2, <1>5 DEF TypeInv, LocksFit
  <2>3. ASSUME NEW d \in Callers, d # c
        PROVE  (rd'[d].ph # "idle") <=> (mu'[NodeOf[d]] = d)
    <3>1. rd'[d] = rd[d] /\ NodeOf[d] \in Nodes /\ d # Nobody
      BY <1>2, <1>3, <2>3
    <3>2. CASE NodeOf[d] = NodeOf[c]
      BY <1>0, <1>5, <2>1, <2>3, <3>1, <3>2
    <3>3. CASE NodeOf[d] # NodeOf[c]
      BY <1>0, <2>2, <3>1, <3>3
    <3> QED
      BY <3>2, <3>3
  <2>4. (rd'[c].ph # "idle") <=> (mu'[NodeOf[c]] = c)
    BY <2>1
  <2>5. \A d \in Callers : (rd'[d].ph # "idle") <=> (mu'[NodeOf[d]] = d)
    BY <2>3, <2>4
  <2> QED
    BY <1>1, <2>1, <2>5 DEF LocksFit
<1> QED
  BY <1>1, <1>4, <1>5

\* A call ends.
LEMMA LeaveFits ==
  ASSUME BooksInv, TypeInv, NEW c \in Callers, rd[c].ph # "idle", Leave(c), UNCHANGED now
  PROVE  RoundsFit' /\ LocksFit'
<1>1. rd'[c] = NoRound /\ \A d \in Callers : d # c => rd'[d] = rd[d]
  BY LeaveShape DEF Leave
<1>2. RoundsFit'
  BY <1>1, NothingFits DEF TypeInv, RoundsFit
<1>3. /\ NodeOf[c] \in Nodes /\ \A d \in Callers : NodeOf[d] \in Nodes
      /\ NoRound.ph = "idle" /\ Nobody \notin Callers
  BY ConstantsAssumption DEF Nodes, NoRound
<1>4. mu[NodeOf[c]] = c
  BY DEF TypeInv, LocksFit
<1>5. /\ mu' \in [Nodes -> Callers \cup {Nobody}] /\ mu'[NodeOf[c]] = Nobody
      /\ \A n \in Nodes : n # NodeOf[c] => mu'[n] = mu[n]
  BY <1>3 DEF TypeInv, LocksFit, Leave
<1>6. ASSUME NEW d \in Callers PROVE (rd'[d].ph # "idle") <=> (mu'[NodeOf[d]] = d)
  BY <1>1, <1>3, <1>4, <1>5 DEF TypeInv, LocksFit
<1> QED
  BY <1>2, <1>5, <1>6 DEF LocksFit

\* The gateway: time passes, rows are inserted and become visible.
LEMMA GatewayFits == ASSUME TypeInv, Gateway PROVE TypeInv'
<1>1. UNCHANGED <<cursor, linked, job, enq, mu, rd, bf>>
  BY DEF Gateway, Tick, CommitRow, InsertRow, store
<1>2. now \in Nat /\ now' \in Nat /\ now <= now' /\ ClockFits'
  BY ConstantsAssumption DEF TypeInv, ClockFits, Gateway, Tick, CommitRow, InsertRow
<1>3. LogFits'
  <2>1. CASE Tick
    BY <2>1 DEF Tick, TypeInv, LogFits
  <2>2. ASSUME NEW i \in Ids, CommitRow(i) PROVE LogFits'
    BY <2>2 DEF CommitRow, TypeInv, LogFits
  <2>3. ASSUME NEW i \in Ids, NEW t \in 1..now, InsertRow(i, t) PROVE LogFits'
    <3>1. t \in 0..MaxTime
      BY ConstantsAssumption DEF TypeInv, ClockFits
    <3>2. log' = [log EXCEPT ![i] = [st |-> "inserted", ts |-> t]]
      BY <2>3 DEF InsertRow
    <3> QED
      BY <3>1, <3>2 DEF TypeInv, LogFits
  <2> QED
    BY <2>1, <2>2, <2>3 DEF Gateway
<1>4. CursorFits'
  <2>1. \A x \in 0..(now - Lag) : x \in 0..(now' - Lag)
    BY <1>2, FitsLater
  <2> QED
    BY <1>1, <2>1 DEF TypeInv, CursorFits
<1>5. RoundsFit'
  <2>1. \A c \in Callers : RoundFits(rd[c], now')
    BY <1>2, FitsLater DEF TypeInv, RoundsFit
  <2> QED
    BY <1>1, <2>1 DEF RoundsFit
<1>6. JobsFit'
  <2>1. \A o \in Orgs : JobFits(job[o], now')
    BY <1>2, FitsLater DEF TypeInv, JobsFit
  <2> QED
    BY <1>1, <2>1 DEF TypeInv, JobsFit
<1>7. LocksFit' /\ SliceFits(bf', job')
  BY <1>1 DEF TypeInv, LocksFit
<1> QED
  BY <1>2, <1>3, <1>4, <1>5, <1>6, <1>7 DEF TypeInv

\* The steps of RunSettlement.
LEMMA ForwardFits == ASSUME BooksInv, TypeInv, NEW c \in Callers, Forward(c) PROVE TypeInv'
<1>1. UNCHANGED <<now, log, linked, job, enq, bf>>
  BY DEF Forward, RunStart, RescanPage, MainPage, CommitBaseline, CommitRound, upstream, store
<1>2. ClockFits' /\ LogFits' /\ JobsFit' /\ SliceFits(bf', job')
  BY <1>1 DEF TypeInv, ClockFits, LogFits, JobsFit
<1>3. /\ now - Lag \in Nat /\ cursor.ts \in 0..(now - Lag) /\ cursor.id \in 0..MaxLog
      /\ cursor.ver \in Nat /\ MaxLog \in Nat
  BY ConstantsAssumption DEF TypeInv, ClockFits, CursorFits
<1>4. RoundFits(rd[c], now)
  BY DEF TypeInv, RoundsFit
<1>5. CASE RunStart(c)
  <2>1. UNCHANGED cursor /\ mu[NodeOf[c]] = Nobody /\ mu' = [mu EXCEPT ![NodeOf[c]] = c]
    BY <1>5 DEF RunStart, store
  <2>2. cursor.ts # 0 => now - Lag > cursor.ts
    BY <1>3, <1>5 DEF RunStart
  <2>3. rd'[c].sub \in 0..(now - Lag)
    <3>1. CASE cursor.ts = 0
      BY <1>3, <1>5, <3>1, StartShape
    <3>2. CASE cursor.ts # 0
      <4>1. UntilSub(cursor.ts, now - Lag) \in (cursor.ts + 1)..(now - Lag)
        <5>1. cursor.ts \in Int /\ now - Lag \in Int /\ cursor.ts < now - Lag
          BY <1>3, <2>2, <3>2
        <5> QED
          BY <5>1, UntilSubAhead, Zenon
      <4> QED
        BY <1>3, <1>5, <3>2, <4>1, StartShape
    <3> QED
      BY <3>1, <3>2
  <2>4. rd'[c].ph \in {"baseline", "rescan"} /\ \A d \in Callers : d # c => rd'[d] = rd[d]
    BY <1>5, StartShape
  <2>5. RoundFits(rd'[c], now)
    BY <1>3, <1>5, <2>3, <2>4, StartShape DEF RoundFits, Phases
  <2>6. RoundsFit' /\ LocksFit'
    BY <1>1, <2>1, <2>4, <2>5, RoundStepFits
  <2> QED
    BY <1>1, <1>2, <2>1, <2>6 DEF TypeInv, CursorFits
<1>6. CASE RescanPage(c)
  <2>1. UNCHANGED <<cursor, mu>> /\ rd[c].ph # "idle"
    BY <1>6 DEF RescanPage, store
  <2>2. RoundFits(rd'[c], now) /\ rd'[c].ph # "idle" /\ \A d \in Callers : d # c => rd'[d] = rd[d]
    BY <1>4, <1>6, RescanShape DEF RoundFits, Phases
  <2>3. RoundsFit' /\ LocksFit'
    BY <1>1, <2>1, <2>2, RoundStepFits
  <2> QED
    BY <1>1, <1>2, <2>1, <2>3 DEF TypeInv, CursorFits
<1>7. CASE MainPage(c)
  <2>1. UNCHANGED <<cursor, mu>> /\ rd[c].ph # "idle"
    BY <1>7 DEF MainPage, store
  <2>2. rd[c].max \in 0..MaxLog /\ NewRows(rd[c]) \subseteq 0..MaxLog
    BY <1>3, <1>4 DEF RoundFits, NewRows, AboveWatermark, Page, MainWindow, Window, Ids
  <2>3. rd'[c].max \in 0..MaxLog
    BY <1>7, <2>2, MainShape
  <2>4. RoundFits(rd'[c], now) /\ rd'[c].ph # "idle" /\ \A d \in Callers : d # c => rd'[d] = rd[d]
    BY <1>4, <1>7, <2>2, <2>3, MainShape DEF RoundFits, Phases
  <2>5. RoundsFit' /\ LocksFit'
    BY <1>1, <2>1, <2>4, RoundStepFits
  <2> QED
    BY <1>1, <1>2, <2>1, <2>5 DEF TypeInv, CursorFits
<1>8. CASE CommitBaseline(c) \/ CommitRound(c)
  <2>1. rd[c].ph # "idle" /\ Leave(c)
    BY <1>8 DEF CommitBaseline, CommitRound
  <2>2. RoundsFit' /\ LocksFit'
    BY <1>1, <2>1, LeaveFits
  <2>3. PICK id \in 0..MaxLog : AdvanceCursorTx(rd[c], id)
    BY <1>3, <1>4, <1>8 DEF CommitBaseline, CommitRound, RoundFits
  <2>4. CursorFits'
    BY <1>1, <1>3, <1>4, <2>3 DEF AdvanceCursorTx, Greatest, CursorFits, RoundFits
  <2> QED
    BY <1>2, <2>2, <2>4 DEF TypeInv
<1> QED
  BY <1>5, <1>6, <1>7, <1>8 DEF Forward

\* A job row changes and stays a job row.
LEMMA JobStepFits ==
  ASSUME TypeInv, NEW o \in Orgs, NEW j, JobFits(j, now), job' = [job EXCEPT ![o] = j],
         j.status # "none" => enq'[o] = "queued", DOMAIN enq' = Orgs, linked' \subseteq Orgs,
         \A p \in Orgs : p # o => enq'[p] = enq[p], UNCHANGED now
  PROVE  JobsFit'
<1>1. DOMAIN job = Orgs
  BY DEF TypeInv, JobsFit
<1>2. DOMAIN job' = Orgs /\ job'[o] = j /\ \A p \in Orgs : p # o => job'[p] = job[p]
  BY <1>1
<1>3. \A p \in Orgs : JobFits(job'[p], now) /\ (job'[p].status # "none" => enq'[p] = "queued")
  BY <1>2 DEF TypeInv, JobsFit
<1> QED
  BY <1>2, <1>3 DEF JobsFit

\* The steps of a slice.
LEMMA SliceStepFits ==
  ASSUME BooksInv, TypeInv, Backfill \/ BackfillError
  PROVE  TypeInv'
<1>1. UNCHANGED <<now, log, cursor, linked, enq, mu, rd>>
  BY DEF Backfill, BackfillError, SliceStart, NextWindow, BackfillPage, BackfillWrite,
         BackfillProgress, EndSlice, upstream, store
<1>2. ClockFits' /\ LogFits' /\ CursorFits' /\ RoundsFit' /\ LocksFit'
  BY <1>1 DEF TypeInv, ClockFits, LogFits, CursorFits, RoundsFit, LocksFit
<1>3. SUFFICES JobsFit' /\ SliceFits(bf', job')
  BY <1>2 DEF TypeInv
<1>4. /\ SliceFits(bf, job) /\ DOMAIN job = Orgs /\ DOMAIN enq = Orgs /\ linked \subseteq Orgs
      /\ \A o \in Orgs : JobFits(job[o], now) /\ (job[o].status # "none" => enq[o] = "queued")
  BY DEF TypeInv, JobsFit
<1>5. UNCHANGED job => JobsFit'
  BY <1>1, <1>4 DEF JobsFit
<1>6. CASE SliceStart
  <2>1. PICK o \in Orgs : /\ job[o].status \in {"pending", "running"}
                          /\ job' = [job EXCEPT ![o].status = "running"]
                          /\ bf' = [NoSlice EXCEPT !.ph = "next", !.org = o, !.hi = job[o].cts]
    BY <1>6 DEF SliceStart, NextBackfillJob
  <2> DEFINE j == [job[o] EXCEPT !.status = "running"]
  <2>2. j.bts = job[o].bts /\ j.bid = job[o].bid /\ j.cts = job[o].cts /\ j.status = "running"
        /\ DOMAIN j = JobFields
    BY <1>4 DEF JobFits, JobFields
  <2>3. job' = [job EXCEPT ![o] = j]
    BY <2>1
  <2> HIDE DEF j
  <2>4. JobFits(j, now)
    BY <1>4, <2>2 DEF JobFits, Statuses
  <2>5. enq[o] = "queued"
    BY <1>4, <2>1
  <2>6. JobsFit'
    BY <1>1, <1>4, <2>3, <2>4, <2>5, JobStepFits
  <2>7. job'[o] = j
    BY <1>4, <2>3
  <2>8. bf'.ph = "next" /\ bf'.org = o /\ bf'.hi = job[o].cts /\ bf'.page = 1
    BY <2>1 DEF NoSlice
  <2>9. job[o].cts \in -1..job[o].bts
    BY <1>4 DEF JobFits
  <2>10. SliceFits(bf', job')
    BY <2>2, <2>7, <2>8, <2>9 DEF SliceFits, SlicePhases
  <2> QED
    BY <2>6, <2>10
<1>7. CASE NextWindow
  <2>1. UNCHANGED job /\ bf.ph = "next" /\ bf.hi > 0
    BY <1>7 DEF NextWindow, store
  <2>2. bf.org \in Orgs /\ bf.hi \in -1..job[bf.org].bts /\ job[bf.org].bts \in Int
    BY <1>4, <2>1 DEF SliceFits, JobFits
  <2>3. bf.hi \in Nat
    BY <2>1, <2>2
  <2>4. LowerBound(bf.org, bf.hi) \in 0..bf.hi
    BY <2>3, LowerBoundInside, Zenon
  <2>5. SliceFits(bf', job')
    BY <1>4, <1>7, <2>1, <2>4, SliceShape DEF SliceFits, SlicePhases
  <2> QED
    BY <1>5, <2>1, <2>5
<1>8. CASE BackfillPage \/ BackfillWrite
  <2>1. UNCHANGED job /\ bf.ph \in {"read", "write"}
    BY <1>8 DEF BackfillPage, BackfillWrite, store
  <2>2. /\ bf'.ph \in {"read", "write", "progress"} /\ bf'.org = bf.org /\ bf'.hi = bf.hi
        /\ bf'.lo = bf.lo /\ bf'.page \in {bf.page, bf.page + 1}
    BY <1>8, SliceShape
  <2>3. SliceFits(bf', job')
    BY <1>4, <2>1, <2>2 DEF SliceFits, SlicePhases
  <2> QED
    BY <1>5, <2>1, <2>3
<1>9. CASE BackfillProgress
  <2>1. bf.ph = "progress" /\ job' = [job EXCEPT ![bf.org].cts = bf.lo - 1]
    BY <1>9 DEF BackfillProgress, UpdateBackfillProgress
  <2>2. /\ bf.org \in Orgs /\ bf.hi \in -1..job[bf.org].bts /\ job[bf.org].status # "none"
        /\ bf.lo \in 0..bf.hi /\ bf.page \in Nat \ {0} /\ job[bf.org].bts \in Nat
    BY <1>4, <2>1 DEF SliceFits, JobFits
  <2> DEFINE j == [job[bf.org] EXCEPT !.cts = bf.lo - 1]
  <2>3. /\ j.bts = job[bf.org].bts /\ j.bid = job[bf.org].bid /\ j.cts = bf.lo - 1
        /\ j.status = job[bf.org].status /\ DOMAIN j = JobFields
    BY <1>4, <2>2 DEF JobFits, JobFields
  <2>4. job' = [job EXCEPT ![bf.org] = j]
    BY <2>1
  <2> HIDE DEF j
  <2>5. bf.lo - 1 \in -1..job[bf.org].bts
    BY <2>2
  <2>6. JobFits(j, now)
    BY <1>4, <2>2, <2>3, <2>5 DEF JobFits
  <2>7. JobsFit'
    BY <1>1, <1>4, <2>2, <2>3, <2>4, <2>6, JobStepFits
  <2>8. job'[bf.org] = j
    BY <1>4, <2>2, <2>4
  <2>9. SliceFits(bf', job')
    BY <1>9, <2>2, <2>3, <2>5, <2>8, SliceShape DEF SliceFits, SlicePhases
  <2> QED
    BY <2>7, <2>9
<1>10. CASE EndSlice
  <2>1. bf.ph = "next" /\ bf' = NoSlice
        /\ (UNCHANGED job \/ job' = [job EXCEPT ![bf.org].status = "done"])
    BY <1>10 DEF EndSlice
  <2>2. SliceFits(bf', job')
    BY <2>1, NothingFits DEF TypeInv
  <2>3. CASE job' = [job EXCEPT ![bf.org].status = "done"]
    <3> DEFINE j == [job[bf.org] EXCEPT !.status = "done"]
    <3>1. bf.org \in Orgs /\ job[bf.org].status # "none"
      BY <1>4, <2>1 DEF SliceFits
    <3>2. /\ j.bts = job[bf.org].bts /\ j.bid = job[bf.org].bid /\ j.cts = job[bf.org].cts
          /\ j.status = "done" /\ DOMAIN j = JobFields
      BY <1>4, <3>1 DEF JobFits, JobFields
    <3>3. job' = [job EXCEPT ![bf.org] = j]
      BY <2>3
    <3> HIDE DEF j
    <3>4. JobFits(j, now)
      BY <1>4, <3>1, <3>2 DEF JobFits, Statuses
    <3>5. JobsFit'
      BY <1>1, <1>4, <3>1, <3>2, <3>3, <3>4, JobStepFits
    <3> QED
      BY <2>2, <3>5
  <2> QED
    BY <1>5, <2>1, <2>2, <2>3
<1>11. CASE BackfillError
  <2>1. UNCHANGED job /\ bf' = NoSlice
    BY <1>11 DEF BackfillError, store
  <2>2. SliceFits(bf', job')
    BY <2>1, NothingFits DEF TypeInv
  <2> QED
    BY <1>5, <2>1, <2>2
<1> QED
  BY <1>6, <1>7, <1>8, <1>9, <1>10, <1>11 DEF Backfill

\* Association, enqueueing and requeueing.
LEMMA OperatorFits ==
  ASSUME BooksInv, TypeInv, NEW o \in Orgs, Operator(o) \/ EnqueueFails(o)
  PROVE  TypeInv'
<1>1. UNCHANGED <<now, log, cursor, mu, rd, bf>>
  BY DEF Operator, Associate, EnqueueBackfill, RequeueBackfill, EnqueueFails, upstream, store
<1>2. ClockFits' /\ LogFits' /\ CursorFits' /\ RoundsFit' /\ LocksFit'
  BY <1>1 DEF TypeInv, ClockFits, LogFits, CursorFits, RoundsFit, LocksFit
<1>3. SUFFICES JobsFit' /\ SliceFits(bf, job')
  BY <1>1, <1>2 DEF TypeInv
<1>4. /\ SliceFits(bf, job) /\ DOMAIN job = Orgs /\ DOMAIN enq = Orgs /\ linked \subseteq Orgs
      /\ \A p \in Orgs : JobFits(job[p], now) /\ (job[p].status # "none" => enq[p] = "queued")
  BY DEF TypeInv, JobsFit
<1>5. CASE Associate(o) \/ EnqueueFails(o)
  <2>1. UNCHANGED job /\ linked' \subseteq Orgs /\ enq[o] # "queued"
    BY <1>4, <1>5 DEF Associate, EnqueueFails, store
  <2>2. PICK e : enq' = [enq EXCEPT ![o] = e]
    BY <1>5 DEF Associate, EnqueueFails
  <2>3. DOMAIN enq' = Orgs /\ \A p \in Orgs : p # o => enq'[p] = enq[p]
    BY <1>4, <2>2
  <2>4. JobsFit'
    BY <1>1, <1>4, <2>1, <2>3 DEF JobsFit
  <2> QED
    BY <1>4, <2>1, <2>4
<1>6. CASE EnqueueBackfill(o)
  <2> DEFINE j == [status |-> "pending", bts |-> cursor.ts, bid |-> cursor.id,
                   cts |-> cursor.ts, nth |-> JobCount]
  <2>1. /\ enq[o] = "associated" /\ job' = [job EXCEPT ![o] = j] /\ UNCHANGED linked
        /\ enq' = [enq EXCEPT ![o] = "queued"]
    BY <1>6 DEF EnqueueBackfill
  <2>2. cursor.ts \in 0..(now - Lag) /\ cursor.id \in 0..MaxLog /\ now - Lag \in Nat
    BY ConstantsAssumption DEF TypeInv, CursorFits, ClockFits
  <2>3. /\ DOMAIN j = JobFields /\ j.status = "pending" /\ j.bts = cursor.ts
        /\ j.bid = cursor.id /\ j.cts = cursor.ts
    BY DEF JobFields
  <2> HIDE DEF j
  <2>4. JobFits(j, now)
    BY <2>2, <2>3 DEF JobFits, Statuses
  <2>5. /\ DOMAIN enq' = Orgs /\ enq'[o] = "queued"
        /\ \A p \in Orgs : p # o => enq'[p] = enq[p]
    BY <1>4, <2>1
  <2>6. JobsFit'
    BY <1>1, <1>4, <2>1, <2>4, <2>5, JobStepFits
  <2>7. \A p \in Orgs : job[p].status # "none" => job'[p] = job[p]
    BY <1>4, <2>1
  <2>8. SliceFits(bf, job')
    BY <1>4, <2>7 DEF SliceFits
  <2> QED
    BY <2>6, <2>8
<1>7. CASE RequeueBackfill(o)
  <2>1. /\ job[o].status # "none" /\ UNCHANGED <<linked, enq>>
        /\ job' = [job EXCEPT ![o].status = "pending", ![o].cts = job[o].bts]
    BY <1>7 DEF RequeueBackfill, RequeueBackfillJob
  <2> DEFINE j == [job[o] EXCEPT !.status = "pending", !.cts = job[o].bts]
  <2>2. /\ DOMAIN j = JobFields /\ j.status = "pending" /\ j.bts = job[o].bts
        /\ j.bid = job[o].bid /\ j.cts = job[o].bts
    BY <1>4 DEF JobFits, JobFields
  <2>3. job' = [job EXCEPT ![o] = j]
    BY <1>4, <2>1
  <2> HIDE DEF j
  <2>4. JobFits(j, now)
    BY <1>4, <2>2 DEF JobFits, Statuses
  <2>5. JobsFit'
    BY <1>1, <1>4, <2>1, <2>3, <2>4, JobStepFits
  <2>6. \A p \in Orgs : /\ job[p].status # "none" => job'[p].status # "none"
                        /\ job'[p].bts = job[p].bts
    BY <1>4, <2>2, <2>3
  <2>7. SliceFits(bf, job')
    BY <1>4, <2>6 DEF SliceFits
  <2> QED
    BY <2>5, <2>7
<1> QED
  BY <1>5, <1>6, <1>7 DEF Operator

\* A process dies: its locks are free and its calls gone.
LEMMA CrashFits == ASSUME BooksInv, TypeInv, NEW n \in Nodes, Crash(n) PROVE TypeInv'
<1>1. /\ UNCHANGED <<now, log, cursor, linked, job>> /\ bf' \in {bf, NoSlice}
      /\ rd' = [c \in Callers |-> IF NodeOf[c] = n THEN NoRound ELSE rd[c]]
      /\ mu' = [mu EXCEPT ![n] = Nobody]
  BY DEF Crash, upstream, store
<1>2. ClockFits' /\ LogFits' /\ CursorFits'
  BY <1>1 DEF TypeInv, ClockFits, LogFits, CursorFits
<1>3. /\ \A c \in Callers : rd'[c] = IF NodeOf[c] = n THEN NoRound ELSE rd[c]
      /\ NoRound.ph = "idle" /\ Nobody \notin Callers
      /\ \A c \in Callers : NodeOf[c] \in Nodes
  BY <1>1, ConstantsAssumption DEF NoRound, Nodes
<1>4. RoundsFit'
  <2>1. \A c \in Callers : RoundFits(rd'[c], now)
    BY <1>3, NothingFits DEF TypeInv, RoundsFit
  <2> QED
    BY <1>1, <2>1 DEF RoundsFit
<1>5. LocksFit'
  <2>1. /\ mu' \in [Nodes -> Callers \cup {Nobody}] /\ mu'[n] = Nobody
        /\ \A m \in Nodes : m # n => mu'[m] = mu[m]
    BY <1>1 DEF TypeInv, LocksFit
  <2>2. \A c \in Callers : (rd[c].ph # "idle") <=> (mu[NodeOf[c]] = c)
    BY DEF TypeInv, LocksFit
  <2>3. ASSUME NEW c \in Callers PROVE (rd'[c].ph # "idle") <=> (mu'[NodeOf[c]] = c)
    <3>1. CASE NodeOf[c] = n
      BY <1>3, <2>1, <3>1
    <3>2. CASE NodeOf[c] # n
      BY <1>3, <2>1, <2>2, <3>2
    <3> QED
      BY <3>1, <3>2
  <2> QED
    BY <2>1, <2>3 DEF LocksFit
<1>6. JobsFit'
  <2>1. \/ UNCHANGED enq
        \/ enq' = [o \in Orgs |-> IF enq[o] = "associated" THEN "failed" ELSE enq[o]]
    BY DEF Crash
  <2>2. DOMAIN enq' = Orgs /\ \A o \in Orgs : enq[o] = "queued" => enq'[o] = "queued"
    BY <2>1 DEF TypeInv, JobsFit
  <2> QED
    BY <1>1, <2>2 DEF TypeInv, JobsFit
<1>7. SliceFits(bf', job')
  BY <1>1, NothingFits DEF TypeInv
<1> QED
  BY <1>2, <1>4, <1>5, <1>6, <1>7 DEF TypeInv

\* Every step of the specification.
LEMMA TypeStep == ASSUME BooksInv, TypeInv, [Next]_vars PROVE TypeInv'
<1>1. ASSUME NEW c \in Callers, AbandonRound(c) PROVE TypeInv'
  <2>1. /\ rd[c].ph # "idle" /\ Leave(c)
        /\ UNCHANGED <<now, log, cursor, linked, job, enq, bf>>
    BY <1>1 DEF AbandonRound, upstream, store
  <2>2. RoundsFit' /\ LocksFit'
    BY <2>1, LeaveFits
  <2> QED
    BY <2>1, <2>2 DEF TypeInv, ClockFits, LogFits, CursorFits, JobsFit
<1>2. ASSUME UNCHANGED <<now, log, cursor, linked, job, enq, mu, rd, bf>> PROVE TypeInv'
  BY <1>2 DEF TypeInv, ClockFits, LogFits, CursorFits, RoundsFit, LocksFit, JobsFit
<1>3. CASE PurgeOldUsageDetail \/ UNCHANGED vars
  BY <1>2, <1>3 DEF PurgeOldUsageDetail, upstream, vars
<1>4. CASE Faults
  BY <1>1, <1>4, OperatorFits, SliceStepFits, CrashFits DEF Faults
<1>5. CASE Gateway \/ Backfill
  BY <1>5, GatewayFits, SliceStepFits
<1>6. CASE \E c \in Callers : Forward(c)
  BY <1>6, ForwardFits
<1>7. CASE \E o \in Orgs : Operator(o)
  BY <1>7, OperatorFits
<1> QED
  BY <1>3, <1>4, <1>5, <1>6, <1>7 DEF Next

\* Every table, lock and call in progress stays in its type: the bisections
\* end inside their windows, no window reaches above the lag, a backfill
\* never rises above the boundary of its job, and settlementMu of a process
\* is held exactly while a round of that process is in progress.
THEOREM SettlementTyped == Spec => []TypeOK
<1>1. Init => BooksInv /\ TypeInv
  BY BooksInit, TypeInit
<1>2. (BooksInv /\ TypeInv) /\ [Next]_vars => (BooksInv /\ TypeInv)'
  BY BooksStep, TypeStep
<1>3. BooksInv /\ TypeInv => TypeOK
  <2> SUFFICES ASSUME BooksInv, TypeInv PROVE TypeOK
    OBVIOUS
  <2>1. 0..(now - Lag) \subseteq 0..MaxTime
    BY ConstantsAssumption DEF TypeInv, ClockFits
  <2>2. cursor \in [ts : 0..MaxTime, id : 0..MaxLog, ver : Nat]
    BY <2>1 DEF TypeInv, CursorFits
  <2>3. detail \subseteq Ids /\ ledger \in [Ids -> Nat] /\ deducted \in [Ids -> Nat]
    BY DEF BooksInv, Tables, BagType
  <2>4. \A o \in Orgs : job[o].status \in Statuses /\ job[o].cts \in -1..job[o].bts
    BY DEF TypeInv, JobsFit, JobFits
  <2>5. linked \subseteq Orgs
    BY DEF TypeInv, JobsFit
  <2> QED
    BY <2>2, <2>3, <2>4, <2>5 DEF TypeOK, TypeInv, ClockFits, LogFits, LocksFit
<1> QED
  BY <1>1, <1>2, <1>3, PTL DEF Spec

-----------------------------------------------------------------------------
(* A row is counted once.                                                  *)

\* No row becomes visible inside a window while a call reads its pages, or
\* one page is all that is read of it: a main or backfill window ends at the
\* lag, a rescan window ends below the main window.
PagesFrozen ==
  /\ MaxDelay < Lag \/ MaxLog <= PageSize \/ MaxPages = 1
  /\ MaxDelay < Lag + 2 \/ MaxLog <= PageSize \/ RescanMaxPages = 1

\* Backfill deduplicates against detail rows under the mutex of its process:
\* it runs in the process of every round and nothing is purged, or there is
\* no organisation to backfill.
BackfillGuarded ==
  \/ PlatformOrgs = Orgs
  \/ Retention = 0 /\ \A c \in Callers : NodeOf[c] = NodeOf[Worker]

\* What the rescan can read again is not purged.
RescanRetained == Retention = 0 \/ Retention >= Overlap + Lag + MaxGap

\* Row i of window W is on a page before page p.
Before(W, p, i) == Cardinality({j \in W : j >= i}) <= (p - 1) * PageSize

\* One page is all that is read of a window.
OnePage(max) == MaxLog <= PageSize \/ max = 1

\* The windows of a call, in log l.
Win(l, from, to) == {i \in Ids : l[i].st = "visible" /\ l[i].ts >= from /\ l[i].ts <= to}
RescanWin(l, r) == Win(l, RescanFrom(r.since), r.since - 1)
MainWin(l, r) == Win(l, r.since, r.sub)
OwnWin(l, s) == {i \in Win(l, s.lo, s.hi) : Owner[i] = s.org}

\* Rows have the time of their call and are late by MaxDelay at most.
LogTimed ==
  \A i \in Ids : /\ log[i].st # "free" => log[i].ts \in 1..now
                 /\ log[i].st = "inserted" => now <= log[i].ts + MaxDelay

\* A round that is at its rescan holds every row once,
Rescanning(r, l) ==
  /\ OnePage(RescanMaxPages) => r.page = 1
  /\ \A i \in Ids : r.acc[i] > 0 =>
       r.acc[i] = 1 /\ i \in RescanWin(l, r) /\ Before(RescanWin(l, r), r.page, i)

\* and so does one at its main window, where row i may have been read.
InMain(r, l, i) ==
  /\ i \in MainWin(l, r) /\ i > r.id /\ i <= r.max
  /\ r.ph = "main" => Before(MainWin(l, r), r.page, i)

Mainly(r, l) ==
  /\ r.ph = "main" /\ OnePage(MaxPages) => r.page = 1
  /\ \A i \in Ids : r.acc[i] > 0 =>
       r.acc[i] = 1 /\ (i \in RescanWin(l, r) \/ InMain(r, l, i))

RoundOnce(r, l) ==
  /\ r.ph = "rescan" => Rescanning(r, l)
  /\ r.ph \in {"main", "commit"} => Mainly(r, l)
  /\ r.ph \in {"rescan", "main", "commit"} => r.since < r.sub

RoundsOnce == \A c \in Callers : RoundOnce(rd[c], log)

\* Row i of log l is on the backfill's side of the boundary of job j.
Behind(i, j, l) == l[i].ts < j.bts \/ (l[i].ts = j.bts /\ i <= j.bid)

\* A slice holds every row once.
SliceOnce(s, jobs, l) ==
  /\ s.ph = "read" /\ OnePage(MaxPages) => s.page = 1
  /\ s.ph \in {"read", "write"} =>
       \A i \in Ids : s.keep[i] > 0 =>
         /\ s.keep[i] = 1 /\ i \in OwnWin(l, s) /\ Behind(i, jobs[s.org], l)
         /\ s.ph = "read" => Before(OwnWin(l, s), s.page, i)

\* A call that can still commit under version ver of the cursor.
Current(r, ver) == r.ph # "idle" /\ r.ver = ver

\* Such a call started at the cursor, and its window keeps up with the clock;
RoundFollows(r, cur, t) ==
  /\ r.ver <= cur.ver
  /\ Current(r, cur.ver) => r.since = cur.ts /\ r.id = cur.id
  /\ r.ph # "idle" => t <= r.sub + Lag + MaxGap
  /\ r.ph = "baseline" => r.since = 0

\* boundaries of jobs are at or behind the cursor, which keeps up too.
Followed ==
  /\ \A c \in Callers : RoundFollows(rd[c], cursor, now)
  /\ \A o \in Orgs : job[o].bts <= cursor.ts /\ job[o].bid <= cursor.id
  /\ cursor.ts > 0 => now <= cursor.ts + Lag + MaxGap
  /\ PlatformOrgs = Orgs => \A o \in Orgs : enq[o] = "gateA"

\* Cursor cur has passed row i of log l.
Passed(i, l, cur) == l[i].ts < cur.ts \/ (l[i].ts = cur.ts /\ i <= cur.id)

\* A row in the ledger is there once, behind the cursor, and deduplicated by
\* its detail row for as long as it can be read again;
CountedOnce ==
  \A i \in Ids : ledger[i] > 0 =>
    /\ ledger[i] = 1 /\ log[i].st = "visible" /\ Passed(i, log, cursor)
    /\ log[i].ts >= cursor.ts - Overlap => i \in detail

\* and a call that can still commit does not hold it after its rescan.
Pending ==
  \A c \in Callers : Current(rd[c], cursor.ver) /\ rd[c].ph \in {"main", "commit"} =>
    \A i \in Ids : rd[c].acc[i] > 0 => ledger[i] = 0

OnceInv == LogTimed /\ RoundsOnce /\ SliceOnce(bf, job, log) /\ Followed /\ CountedOnce /\ Pending

\* Windows and boundaries of the specification, in terms of its log.
LEMMA WindowsAre ==
  /\ \A from, to : Window(from, to) = Win(log, from, to)
  /\ \A r : RescanWindow(r) = RescanWin(log, r) /\ MainWindow(r) = MainWin(log, r)
  /\ \A s : OwnWindow(s) = OwnWin(log, s)
  /\ \A i, j : BelongsToBackfill(i, j) <=> Behind(i, j, log)
<1>1. \A from, to : Window(from, to) = Win(log, from, to)
  BY DEF Window, Win
<1> QED
  BY <1>1, Zenon DEF RescanWindow, RescanWin, MainWindow, MainWin, OwnWindow, OwnWin, WindowOf,
              BelongsToBackfill, Behind

\* Pages follow one another without overlap.
LEMMA PagesFollow ==
  ASSUME NEW W, W \subseteq Ids, NEW p \in Nat \ {0}
  PROVE  /\ \A i \in Page(W, p) : i \in W /\ ~Before(W, p, i) /\ Before(W, p + 1, i)
         /\ \A i : Before(W, p, i) => Before(W, p + 1, i)
         /\ \A i \in W : ~Before(W, 1, i)
<1>0. MaxLog \in Nat /\ PageSize \in Nat \ {0}
  BY ConstantsAssumption
<1>1. ASSUME NEW i PROVE Cardinality({j \in W : j >= i}) \in Nat /\ IsFiniteSet({j \in W : j >= i})
  <2>1. IsFiniteSet(Ids)
    BY <1>0, FS_Interval DEF Ids
  <2>2. {j \in W : j >= i} \subseteq Ids
    OBVIOUS
  <2>3. IsFiniteSet({j \in W : j >= i})
    BY <2>1, <2>2, FS_Subset
  <2> QED
    BY <2>3, FS_CardinalityType
<1>2. (p + 1) - 1 = p /\ (p - 1) * PageSize \in Nat /\ p * PageSize \in Nat
      /\ (p - 1) * PageSize <= p * PageSize
  <2>1. p * PageSize = (p - 1) * PageSize + PageSize
    BY <1>0
  <2>2. (p - 1) * PageSize \in Nat /\ p * PageSize \in Nat
    BY <1>0
  <2> QED
    BY <1>0, <2>1, <2>2
<1>3. \A i \in Page(W, p) : i \in W /\ ~Before(W, p, i) /\ Before(W, p + 1, i)
  <2> SUFFICES ASSUME NEW i \in Page(W, p)
               PROVE  i \in W /\ ~Before(W, p, i) /\ Before(W, p + 1, i)
    OBVIOUS
  <2>1. i \in W /\ Cardinality({j \in W : j >= i}) \in ((p - 1) * PageSize + 1)..(p * PageSize)
    BY DEF Page
  <2> DEFINE k == Cardinality({j \in W : j >= i})
  <2>2. k \in Nat /\ k >= (p - 1) * PageSize + 1 /\ k <= p * PageSize
    BY <1>1, <1>2, <2>1
  <2>3. Before(W, p, i) <=> k <= (p - 1) * PageSize
    BY DEF Before
  <2>4. Before(W, p + 1, i) <=> k <= p * PageSize
    BY <1>2 DEF Before
  <2> HIDE DEF k
  <2> QED
    BY <1>2, <2>1, <2>2, <2>3, <2>4
<1>4. ASSUME NEW i, Before(W, p, i) PROVE Before(W, p + 1, i)
  <2> DEFINE k == Cardinality({j \in W : j >= i})
  <2>1. k \in Nat /\ k <= (p - 1) * PageSize
    BY <1>1, <1>4 DEF Before
  <2>2. Before(W, p + 1, i) <=> k <= p * PageSize
    BY <1>2 DEF Before
  <2> HIDE DEF k
  <2> QED
    BY <1>2, <2>1, <2>2
<1>5. ASSUME NEW i \in W PROVE ~Before(W, 1, i)
  <2>1. i \in {j \in W : j >= i}
    BY DEF Ids
  <2>2. Cardinality({j \in W : j >= i}) # 0
    BY <1>1, <2>1, FS_EmptySet
  <2>3. (1 - 1) * PageSize = 0
    BY <1>0
  <2> QED
    BY <1>1, <2>2, <2>3 DEF Before
<1> QED
  BY <1>3, <1>4, <1>5

\* Nothing is before the first page.
LEMMA NothingBefore ==
  ASSUME NEW W, W \subseteq Ids, NEW i \in W
  PROVE  ~Before(W, 1, i)
<1>1. 1 \in Nat \ {0}
  OBVIOUS
<1> QED
  BY <1>1, PagesFollow

\* Where one page is all that is read, the first is the last.
LEMMA FirstIsLast ==
  ASSUME NEW W, W \subseteq Ids, NEW max, OnePage(max)
  PROVE  LastPage(W, 1, max)
<1>0. MaxLog \in Nat /\ PageSize \in Nat \ {0}
  BY ConstantsAssumption
<1>1. IsFiniteSet(Ids) /\ Cardinality(Ids) = MaxLog
  <2>1. IsFiniteSet(1..MaxLog) /\ Cardinality(1..MaxLog) = IF 1 > MaxLog THEN 0 ELSE MaxLog - 1 + 1
    BY <1>0, FS_Interval
  <2> QED
    BY <1>0, <2>1 DEF Ids
<1>2. Cardinality(W) \in Nat /\ Cardinality(W) <= MaxLog
  BY <1>1, FS_Subset, FS_CardinalityType
<1> QED
  BY <1>0, <1>2 DEF LastPage, OnePage

\* Log m is log l after row k became visible.
Joins(l, m, k) ==
  /\ k \in Ids /\ l[k].st # "visible"
  /\ \A i \in Ids : m[i].ts = l[i].ts /\ (m[i].st = "visible" <=> l[i].st = "visible" \/ i = k)

\* Windows that end before it do not see it, and none loses a row.
LEMMA WinJoins ==
  ASSUME NEW l, NEW m, NEW k, Joins(l, m, k)
  PROVE  /\ \A from, to : Win(l, from, to) \subseteq Win(m, from, to)
         /\ \A from : \A to : ~(l[k].ts <= to) => Win(m, from, to) = Win(l, from, to)
  BY DEF Joins, Win

\* A row becomes visible while a round reads.
LEMMA RoundJoins ==
  ASSUME PagesFrozen, NEW t \in Nat, t - Lag \in Nat, NEW l, NEW m, NEW k, Joins(l, m, k),
         l[k].ts \in Nat, t <= l[k].ts + MaxDelay, NEW r, RoundFits(r, t), r.acc \in BagType,
         RoundOnce(r, l)
  PROVE  RoundOnce(r, m)
<1>0. /\ Lag \in Nat /\ MaxDelay \in Nat /\ r.since \in Nat /\ r.sub \in Nat /\ r.sub <= t - Lag
      /\ r.page \in Nat \ {0} /\ \A i \in Ids : r.acc[i] \in Nat
  BY ConstantsAssumption DEF RoundFits, BagType
<1>1. ASSUME r.ph = "rescan" PROVE Rescanning(r, m)
  <2>1. Rescanning(r, l) /\ r.since < r.sub
    BY <1>1 DEF RoundOnce
  <2>2. CASE OnePage(RescanMaxPages)
    <3>1. r.page = 1
      BY <2>1, <2>2 DEF Rescanning
    <3>2. RescanWin(l, r) \subseteq Ids
      BY DEF RescanWin, Win
    <3>3. \A i \in RescanWin(l, r) : ~Before(RescanWin(l, r), 1, i)
      BY <3>2, PagesFollow
    <3>4. \A i \in Ids : ~(r.acc[i] > 0)
      BY <2>1, <3>1, <3>3 DEF Rescanning
    <3> QED
      BY <3>1, <3>4 DEF Rescanning
  <2>3. CASE MaxDelay < Lag + 2
    <3>1. ~(l[k].ts <= r.since - 1)
      BY <1>0, <2>1, <2>3
    <3>2. RescanWin(m, r) = RescanWin(l, r)
      BY <3>1, WinJoins DEF RescanWin
    <3> QED
      BY <2>1, <3>2 DEF Rescanning
  <2> QED
    BY <2>2, <2>3 DEF PagesFrozen, OnePage
<1>2. ASSUME r.ph \in {"main", "commit"} PROVE Mainly(r, m)
  <2>1. Mainly(r, l)
    BY <1>2 DEF RoundOnce
  <2>2. RescanWin(l, r) \subseteq RescanWin(m, r) /\ MainWin(l, r) \subseteq MainWin(m, r)
    BY WinJoins DEF RescanWin, MainWin
  <2>3. ASSUME NEW i \in Ids, InMain(r, l, i) PROVE InMain(r, m, i)
    <3>1. CASE r.ph # "main"
      BY <2>2, <2>3, <3>1 DEF InMain
    <3>2. CASE r.ph = "main" /\ OnePage(MaxPages)
      <4>1. r.page = 1 /\ i \in MainWin(l, r) /\ Before(MainWin(l, r), r.page, i)
        BY <2>1, <2>3, <3>2 DEF Mainly, InMain
      <4>2. MainWin(l, r) \subseteq Ids
        BY DEF MainWin, Win
      <4>3. ~Before(MainWin(l, r), 1, i)
        BY <4>1, <4>2, NothingBefore
      <4> QED
        BY <4>1, <4>3
    <3>3. CASE MaxDelay < Lag
      <4>1. ~(l[k].ts <= r.sub)
        BY <1>0, <3>3
      <4>2. MainWin(m, r) = MainWin(l, r)
        BY <4>1, WinJoins DEF MainWin
      <4> QED
        BY <2>3, <4>2 DEF InMain
    <3> QED
      BY <3>1, <3>2, <3>3 DEF PagesFrozen, OnePage
  <2> QED
    BY <2>1, <2>2, <2>3 DEF Mainly
<1> QED
  BY <1>1, <1>2 DEF RoundOnce

\* A row becomes visible while a slice reads.
LEMMA SliceJoins ==
  ASSUME PagesFrozen, NEW t \in Nat, t - Lag \in Nat, NEW l, NEW m, NEW k, Joins(l, m, k),
         l[k].ts \in Nat, t <= l[k].ts + MaxDelay, NEW s, NEW jobs, SliceFits(s, jobs),
         \A o \in Orgs : JobFits(jobs[o], t), SliceOnce(s, jobs, l)
  PROVE  SliceOnce(s, jobs, m)
<1>0. Lag \in Nat /\ MaxDelay \in Nat
  BY ConstantsAssumption
<1>1. OwnWin(l, s) \subseteq OwnWin(m, s) /\ OwnWin(l, s) \subseteq Ids
  BY WinJoins DEF OwnWin, Win
<1>2. SUFFICES ASSUME s.ph \in {"read", "write"}, NEW i \in Ids, s.keep[i] > 0
               PROVE  /\ s.keep[i] = 1 /\ i \in OwnWin(m, s) /\ Behind(i, jobs[s.org], m)
                      /\ s.ph = "read" => Before(OwnWin(m, s), s.page, i)
  BY DEF SliceOnce
<1>3. /\ s.keep[i] = 1 /\ i \in OwnWin(l, s) /\ Behind(i, jobs[s.org], l)
      /\ s.ph = "read" => Before(OwnWin(l, s), s.page, i)
  BY <1>2 DEF SliceOnce
<1>4. Behind(i, jobs[s.org], m)
  BY <1>3 DEF Behind, Joins
<1>5. ASSUME s.ph = "read" PROVE Before(OwnWin(m, s), s.page, i)
  <2>1. CASE OnePage(MaxPages)
    <3>1. s.page = 1
      BY <1>5, <2>1 DEF SliceOnce
    <3> QED
      BY <1>1, <1>3, <1>5, <3>1, PagesFollow
  <2>2. CASE MaxDelay < Lag
    <3>1. s.org \in Orgs /\ s.hi \in -1..jobs[s.org].bts /\ jobs[s.org].bts \in 0..(t - Lag)
      BY <1>5 DEF SliceFits, JobFits
    <3>2. ~(l[k].ts <= s.hi)
      BY <1>0, <2>2, <3>1
    <3>3. OwnWin(m, s) = OwnWin(l, s)
      BY <3>2, WinJoins DEF OwnWin
    <3> QED
      BY <1>3, <1>5, <3>3
  <2> QED
    BY <2>1, <2>2 DEF PagesFrozen, OnePage
<1> QED
  BY <1>1, <1>3, <1>4, <1>5

\* Logs with the same visible rows.
SameVisible(l, m) ==
  \A i \in Ids : /\ m[i].st = "visible" <=> l[i].st = "visible"
                 /\ l[i].st = "visible" => m[i].ts = l[i].ts

\* What was read of a log is as good for a log with the same visible rows.
LEMMA OnceSame ==
  ASSUME NEW l, NEW m, SameVisible(l, m)
  PROVE  /\ \A r : RoundOnce(r, l) => RoundOnce(r, m)
         /\ \A s, jobs : SliceOnce(s, jobs, l) => SliceOnce(s, jobs, m)
<1>1. \A from, to : Win(m, from, to) = Win(l, from, to)
  BY DEF SameVisible, Win
<1>2. \A r : RescanWin(m, r) = RescanWin(l, r) /\ MainWin(m, r) = MainWin(l, r)
  BY <1>1 DEF RescanWin, MainWin
<1>3. \A s : OwnWin(m, s) = OwnWin(l, s) /\ \A i \in OwnWin(l, s) : l[i].st = "visible" /\ i \in Ids
  BY <1>1 DEF OwnWin, Win
<1>4. \A r : RoundOnce(r, l) => RoundOnce(r, m)
  BY <1>2 DEF RoundOnce, Rescanning, Mainly, InMain
<1>5. ASSUME NEW s, NEW jobs, SliceOnce(s, jobs, l) PROVE SliceOnce(s, jobs, m)
  <2>1. \A i \in OwnWin(l, s) : Behind(i, jobs[s.org], l) => Behind(i, jobs[s.org], m)
    BY <1>3 DEF Behind, SameVisible
  <2> QED
    BY <1>3, <1>5, <2>1 DEF SliceOnce
<1> QED
  BY <1>4, <1>5

\* RunStart: a round that has read nothing.
LEMMA StartOnce ==
  ASSUME BooksInv, TypeInv, NEW c \in Callers, RunStart(c)
  PROVE  RoundOnce(rd'[c], log)
<1>1. /\ rd'[c].acc = Empty /\ rd'[c].page = 1 /\ rd'[c].since = cursor.ts
      /\ rd'[c].ph \in {"baseline", "rescan"}
  BY StartShape
<1>2. \A i \in Ids : ~(rd'[c].acc[i] > 0)
  BY <1>1 DEF Empty
<1>3. ASSUME rd'[c].ph = "rescan" PROVE rd'[c].since < rd'[c].sub
  <2>1. cursor.ts # 0 /\ rd'[c].sub = UntilSub(cursor.ts, now - Lag)
    BY <1>3, StartShape
  <2>2. cursor.ts \in Int /\ now - Lag \in Int /\ cursor.ts < now - Lag
    BY <2>1, ConstantsAssumption DEF TypeInv, CursorFits, ClockFits, RunStart
  <2>3. UntilSub(cursor.ts, now - Lag) \in (cursor.ts + 1)..(now - Lag)
    BY <2>2, UntilSubAhead, Zenon
  <2> QED
    BY <1>1, <2>1, <2>2, <2>3
<1> QED
  BY <1>1, <1>2, <1>3 DEF RoundOnce, Rescanning

\* RescanPage: the rows of the page are new to the round.
LEMMA RescanOnce ==
  ASSUME BooksInv, TypeInv, RoundsOnce, NEW c \in Callers, RescanPage(c)
  PROVE  RoundOnce(rd'[c], log)
<1> DEFINE r == rd[c]
           W == RescanWin(log, r)
<1>1. /\ r.ph = "rescan" /\ r.acc \in BagType /\ Rescanning(r, log) /\ r.since < r.sub
      /\ r.page \in Nat \ {0}
  BY DEF RescanPage, BooksInv, Reading, RoundOK, RoundsOnce, RoundOnce, TypeInv, RoundsFit, RoundFits
<1>2. W \subseteq Ids /\ RescanWindow(r) = W
  BY WindowsAre DEF RescanWin, Win
<1>3. \A i \in Ids : Rescanned(r)[i] = r.acc[i] + IF i \in Positive(Page(W, r.page)) THEN 1 ELSE 0
  BY <1>1, <1>2, BagLaws DEF Rescanned, BagOf
<1>4. ASSUME NEW i \in Ids, Rescanned(r)[i] > 0
      PROVE  Rescanned(r)[i] = 1 /\ i \in W /\ Before(W, r.page + 1, i)
  <2>1. r.acc[i] \in Nat /\ (r.acc[i] > 0 => r.acc[i] = 1 /\ i \in W /\ Before(W, r.page, i))
    BY <1>1 DEF Rescanning, BagType
  <2>2. CASE i \in Positive(Page(W, r.page))
    <3>1. i \in W /\ ~Before(W, r.page, i) /\ Before(W, r.page + 1, i)
      BY <1>1, <1>2, <2>2, PagesFollow DEF Positive
    <3> QED
      BY <1>3, <2>1, <2>2, <3>1
  <2>3. CASE i \notin Positive(Page(W, r.page))
    <3>1. r.acc[i] > 0 /\ Rescanned(r)[i] = r.acc[i]
      BY <1>3, <1>4, <2>1, <2>3
    <3> QED
      BY <1>1, <1>2, <2>1, <3>1, PagesFollow
  <2> QED
    BY <2>2, <2>3
<1>5. /\ rd'[c].since = r.since /\ rd'[c].sub = r.sub /\ rd'[c].id = r.id /\ rd'[c].max = r.max
  BY RescanShape
<1>6. RescanWin(log, rd'[c]) = W
  BY <1>5 DEF RescanWin
<1>7. CASE rd'[c].ph = "main"
  <2>1. rd'[c].page = 1 /\ rd'[c].acc = Restricted(Rescanned(r), Attributed(Ids \ detail))
    BY <1>7, RescanShape
  <2>2. \A i \in Ids : rd'[c].acc[i] > 0 => rd'[c].acc[i] = Rescanned(r)[i]
    BY <2>1 DEF Restricted
  <2>3. Mainly(rd'[c], log)
    BY <1>4, <1>6, <2>1, <2>2 DEF Mainly
  <2> QED
    BY <1>1, <1>5, <1>7, <2>3 DEF RoundOnce
<1>8. CASE rd'[c].ph # "main"
  <2>1. /\ ~LastPage(RescanWindow(r), r.page, RescanMaxPages) /\ rd'[c].ph = "rescan"
        /\ rd'[c].page = r.page + 1 /\ rd'[c].acc = Rescanned(r)
    BY <1>8, RescanShape
  <2>2. ~OnePage(RescanMaxPages)
    BY <1>1, <1>2, <2>1, FirstIsLast DEF Rescanning
  <2>3. Rescanning(rd'[c], log)
    BY <1>4, <1>6, <2>1, <2>2 DEF Rescanning
  <2> QED
    BY <1>1, <1>5, <2>1, <2>3 DEF RoundOnce
<1> QED
  BY <1>7, <1>8

\* MainPage: the same, and no row of the rescan is in the main window.
LEMMA MainOnce ==
  ASSUME BooksInv, TypeInv, RoundsOnce, NEW c \in Callers, MainPage(c)
  PROVE  RoundOnce(rd'[c], log)
<1> DEFINE r == rd[c]
           W == MainWin(log, r)
<1>1. /\ r.ph = "main" /\ r.acc \in BagType /\ Mainly(r, log) /\ r.since < r.sub
      /\ r.page \in Nat \ {0} /\ r.max \in 0..MaxLog /\ r.since \in Nat
  BY DEF MainPage, BooksInv, Reading, RoundOK, RoundsOnce, RoundOnce, TypeInv, RoundsFit, RoundFits
<1>2. W \subseteq Ids /\ MainWindow(r) = W
  BY WindowsAre DEF MainWin, Win
<1> DEFINE new == Attributed(Positive(NewRows(r)))
<1>3. \A i \in Ids : MainRead(r)[i] = r.acc[i] + IF i \in new THEN 1 ELSE 0
  <2>1. MainRead(r) = Plus(r.acc, BagOf(new))
    BY DEF MainRead
  <2> HIDE DEF new
  <2>2. \A i \in Ids : BagOf(new)[i] = IF i \in new THEN 1 ELSE 0
    BY DEF BagOf
  <2> QED
    BY <1>1, <2>1, <2>2, BagLaws
<1>4. new \subseteq NewRows(r) /\ \A i \in NewRows(r) : i \in Page(W, r.page) /\ i > r.id
  BY <1>2 DEF Attributed, Positive, NewRows, AboveWatermark
<1>5. /\ rd'[c].since = r.since /\ rd'[c].sub = r.sub /\ rd'[c].id = r.id
      /\ rd'[c].acc = MainRead(r) /\ rd'[c].page = r.page + 1
      /\ rd'[c].ph \in {"main", "commit"}
      /\ rd'[c].ph = "main" => ~LastPage(MainWindow(r), r.page, MaxPages)
  BY <1>1, MainShape
<1>6. /\ rd'[c].max \in NewRows(r) \cup {r.max} /\ r.max <= rd'[c].max
      /\ \A i \in NewRows(r) : i <= rd'[c].max
  BY <1>1, MainShape
<1>7. rd'[c].max \in Int
  <2>1. Page(W, r.page) \subseteq W /\ Ids \subseteq Int
    BY ConstantsAssumption DEF Page, Ids
  <2>2. NewRows(r) \subseteq Int
    BY <1>2, <1>4, <2>1
  <2> QED
    BY <1>1, <1>6, <2>2
<1>8. RescanWin(log, rd'[c]) = RescanWin(log, r) /\ MainWin(log, rd'[c]) = W
  BY <1>5 DEF RescanWin, MainWin
<1>9. \A i \in RescanWin(log, r) : i \notin W
  <2>1. \A i \in Ids : log[i].ts \in Int
    BY DEF TypeInv, LogFits
  <2> QED
    BY <1>1, <2>1 DEF RescanWin, MainWin, Win
<1> HIDE DEF new, W
<1>10. ASSUME NEW i \in Ids, MainRead(r)[i] > 0
       PROVE  MainRead(r)[i] = 1 /\ (i \in RescanWin(log, r) \/ InMain(rd'[c], log, i))
  <2>1. r.acc[i] \in Nat /\ (r.acc[i] > 0 => r.acc[i] = 1
                               /\ (i \in RescanWin(log, r) \/ InMain(r, log, i)))
    BY <1>1 DEF Mainly, BagType
  <2>2. InMain(r, log, i) => i \in W /\ i > r.id /\ i <= r.max /\ Before(W, r.page, i)
    BY <1>1 DEF InMain, W
  <2>3. CASE i \in new
    <3>1. i \in W /\ ~Before(W, r.page, i) /\ Before(W, r.page + 1, i) /\ i > r.id
      BY <1>1, <1>2, <1>4, <2>3, PagesFollow
    <3>2. r.acc[i] = 0
      BY <1>9, <2>1, <2>2, <3>1
    <3>3. MainRead(r)[i] = 1
      BY <1>3, <2>3, <3>2
    <3>4. InMain(rd'[c], log, i)
      BY <1>4, <1>5, <1>6, <1>8, <2>3, <3>1 DEF InMain
    <3> QED
      BY <3>3, <3>4
  <2>4. CASE i \notin new
    <3>1. r.acc[i] > 0 /\ MainRead(r)[i] = r.acc[i]
      BY <1>3, <1>10, <2>1, <2>4
    <3>2. ASSUME InMain(r, log, i) PROVE InMain(rd'[c], log, i)
      <4>1. Before(W, r.page + 1, i)
        BY <1>1, <1>2, <2>2, <3>2, PagesFollow
      <4>2. i <= rd'[c].max
        BY <1>1, <1>6, <1>7, <2>2, <3>2 DEF Ids
      <4> QED
        BY <1>5, <1>8, <2>2, <3>2, <4>1, <4>2 DEF InMain
    <3> QED
      BY <2>1, <3>1, <3>2
  <2> QED
    BY <2>3, <2>4
<1>11. rd'[c].ph = "main" => ~OnePage(MaxPages)
  BY <1>1, <1>2, <1>5, FirstIsLast DEF Mainly
<1>12. Mainly(rd'[c], log)
  BY <1>5, <1>8, <1>10, <1>11 DEF Mainly
<1> QED
  BY <1>1, <1>5, <1>12 DEF RoundOnce

\* The slice moves on.
LEMMA SliceStepOnce ==
  ASSUME BooksInv, TypeInv, SliceOnce(bf, job, log), Backfill \/ BackfillError
  PROVE  SliceOnce(bf', job', log)
<1>1. CASE SliceStart \/ EndSlice \/ BackfillError
  <2>1. bf'.ph \notin {"read", "write"}
    <3>1. CASE SliceStart
      <4>1. PICK o, hi : bf' = [NoSlice EXCEPT !.ph = "next", !.org = o, !.hi = hi]
        BY <3>1, Zenon DEF SliceStart
      <4> QED
        BY <4>1 DEF NoSlice
    <3>2. CASE EndSlice \/ BackfillError
      BY <3>2 DEF EndSlice, BackfillError, NoSlice
    <3> QED
      BY <1>1, <3>1, <3>2
  <2> QED
    BY <2>1 DEF SliceOnce
<1>2. CASE NextWindow
  <2>1. bf'.page = 1 /\ bf'.keep = Empty
    BY <1>2, SliceShape
  <2>2. \A i \in Ids : ~(bf'.keep[i] > 0)
    BY <2>1 DEF Empty
  <2> QED
    BY <2>1, <2>2 DEF SliceOnce
<1>3. CASE BackfillWrite \/ BackfillProgress
  <2>1. bf'.ph \notin {"read", "write"}
    BY <1>3, SliceShape
  <2> QED
    BY <2>1 DEF SliceOnce
<1>4. CASE BackfillPage
  <2> DEFINE W == OwnWin(log, bf)
             j == job[bf.org]
  <2>1. bf.ph = "read" /\ UNCHANGED job /\ bf.keep \in BagType /\ bf.page \in Nat \ {0}
    BY <1>4 DEF BackfillPage, store, BooksInv, Reading, SliceOK, TypeInv, SliceFits
  <2>2. W \subseteq Ids /\ OwnWindow(bf) = W
    BY WindowsAre DEF OwnWin, Win
  <2>3. /\ bf'.org = bf.org /\ bf'.hi = bf.hi /\ bf'.lo = bf.lo /\ bf'.page = bf.page + 1
        /\ bf'.keep = Plus(bf.keep, BagOf(OwnRows(bf)))
        /\ bf'.ph = "read" => ~LastPage(W, bf.page, MaxPages)
    BY <1>4, <2>2, SliceShape
  <2>4. OwnWin(log, bf') = W
    BY <2>3 DEF OwnWin
  <2>5. \A i \in Ids : bf'.keep[i] = bf.keep[i] + IF i \in OwnRows(bf) THEN 1 ELSE 0
    <3>1. \A i \in Ids : BagOf(OwnRows(bf))[i] = IF i \in OwnRows(bf) THEN 1 ELSE 0
      BY DEF BagOf
    <3> QED
      BY <2>1, <2>3, <3>1, BagLaws
  <2>6. \A i \in OwnRows(bf) : i \in Page(W, bf.page) /\ Behind(i, j, log)
    BY <2>2, WindowsAre DEF OwnRows, Positive
  <2>7. ASSUME NEW i \in Ids, bf'.keep[i] > 0
        PROVE  bf'.keep[i] = 1 /\ i \in W /\ Behind(i, j, log) /\ Before(W, bf.page + 1, i)
    <3>1. /\ bf.keep[i] \in Nat
          /\ bf.keep[i] > 0 => /\ bf.keep[i] = 1 /\ i \in W /\ Behind(i, j, log)
                               /\ Before(W, bf.page, i)
      BY <2>1 DEF SliceOnce, BagType
    <3> HIDE DEF W, j
    <3>2. CASE i \in OwnRows(bf)
      <4>1. i \in W /\ ~Before(W, bf.page, i) /\ Before(W, bf.page + 1, i)
        BY <2>1, <2>2, <2>6, <3>2, PagesFollow
      <4> QED
        BY <2>5, <2>6, <3>1, <3>2, <4>1
    <3>3. CASE i \notin OwnRows(bf)
      <4>1. bf.keep[i] > 0 /\ bf'.keep[i] = bf.keep[i]
        BY <2>5, <2>7, <3>1, <3>3
      <4> QED
        BY <2>1, <2>2, <3>1, <4>1, PagesFollow
    <3> QED
      BY <3>2, <3>3
  <2>8. bf'.ph = "read" => ~OnePage(MaxPages)
    BY <2>1, <2>2, <2>3, FirstIsLast DEF SliceOnce
  <2>9. job'[bf'.org] = j
    BY <2>1, <2>3
  <2> HIDE DEF W, j
  <2> QED
    BY <2>3, <2>4, <2>7, <2>8, <2>9 DEF SliceOnce
<1> QED
  BY <1>1, <1>2, <1>3, <1>4 DEF Backfill

\* Rows of the log keep their times.
LEMMA LogStep ==
  ASSUME TypeInv, LogTimed, Gateway
  PROVE  /\ LogTimed'
         /\ \/ SameVisible(log, log')
            \/ \E k \in Ids : /\ Joins(log, log', k) /\ log[k].ts \in Nat
                              /\ now <= log[k].ts + MaxDelay /\ UNCHANGED now
<1>0. /\ now \in Nat /\ MaxDelay \in Nat /\ DOMAIN log = Ids
      /\ \A i \in Ids : DOMAIN log[i] = {"st", "ts"} /\ log[i].ts \in Nat
  BY ConstantsAssumption DEF TypeInv, ClockFits, LogFits
<1>1. CASE Tick
  <2>1. /\ UNCHANGED log /\ now' = now + 1
        /\ \A i \in Ids : log[i].st = "inserted" => now < log[i].ts + MaxDelay
    BY <1>1 DEF Tick
  <2>2. SameVisible(log, log')
    BY <2>1 DEF SameVisible
  <2>3. LogTimed'
    BY <1>0, <2>1 DEF LogTimed
  <2> QED
    BY <2>2, <2>3
<1>2. ASSUME NEW k \in Ids, CommitRow(k)
      PROVE  /\ LogTimed' /\ Joins(log, log', k) /\ now <= log[k].ts + MaxDelay /\ UNCHANGED now
  <2>1. log[k].st = "inserted" /\ log' = [log EXCEPT ![k].st = "visible"] /\ UNCHANGED now
    BY <1>2 DEF CommitRow
  <2>2. /\ log'[k].st = "visible" /\ log'[k].ts = log[k].ts
        /\ \A i \in Ids : i # k => log'[i] = log[i]
    BY <1>0, <2>1
  <2>3. Joins(log, log', k)
    BY <2>1, <2>2 DEF Joins
  <2>4. LogTimed'
    BY <2>1, <2>2 DEF LogTimed
  <2> QED
    BY <2>1, <2>3, <2>4 DEF LogTimed
<1>3. ASSUME NEW k \in Ids, NEW t \in 1..now, InsertRow(k, t)
      PROVE  LogTimed' /\ SameVisible(log, log')
  <2>1. /\ log[k].st = "free" /\ UNCHANGED now /\ t \in Greatest(1, now - MaxDelay)..now
        /\ log' = [log EXCEPT ![k] = [st |-> "inserted", ts |-> t]]
    BY <1>3 DEF InsertRow, Used
  <2>2. /\ log'[k].st = "inserted" /\ log'[k].ts = t /\ \A i \in Ids : i # k => log'[i] = log[i]
    BY <1>0, <2>1
  <2>3. now <= t + MaxDelay
    BY <1>0, <2>1 DEF Greatest
  <2>4. SameVisible(log, log')
    BY <2>1, <2>2 DEF SameVisible
  <2>5. LogTimed'
    BY <2>1, <2>2, <2>3 DEF LogTimed
  <2> QED
    BY <2>4, <2>5
<1> QED
  BY <1>0, <1>1, <1>2, <1>3 DEF Gateway

\* Calls in progress keep holding every row once.
LEMMA ReadsStep ==
  ASSUME PagesFrozen, BooksInv, TypeInv, LogTimed, RoundsOnce, SliceOnce(bf, job, log),
         [Next]_vars
  PROVE  LogTimed' /\ RoundsOnce' /\ SliceOnce(bf', job', log')
<1>0. /\ \A c \in Callers : RoundOnce(rd[c], log) /\ RoundFits(rd[c], now) /\ rd[c].acc \in BagType
      /\ SliceFits(bf, job) /\ \A o \in Orgs : JobFits(job[o], now)
      /\ now \in Nat /\ now - Lag \in Nat /\ RoundOnce(NoRound, log)
  <2>1. RoundOnce(NoRound, log)
    BY DEF RoundOnce, NoRound
  <2> QED
    BY <2>1, ConstantsAssumption DEF RoundsOnce, TypeInv, RoundsFit, JobsFit, ClockFits,
                                     BooksInv, Reading, RoundOK
<1>1. ASSUME Gateway PROVE LogTimed' /\ RoundsOnce' /\ SliceOnce(bf', job', log')
  <2>1. LogTimed' /\ UNCHANGED <<rd, bf, job>>
    BY <1>1, LogStep DEF Gateway, Tick, CommitRow, InsertRow, store
  <2>2. CASE SameVisible(log, log')
    BY <1>0, <2>1, <2>2, OnceSame DEF RoundsOnce
  <2>3. CASE \E k \in Ids : /\ Joins(log, log', k) /\ log[k].ts \in Nat
                            /\ now <= log[k].ts + MaxDelay /\ UNCHANGED now
    <3>1. PICK k \in Ids : Joins(log, log', k) /\ log[k].ts \in Nat /\ now <= log[k].ts + MaxDelay
      BY <2>3
    <3>2. \A c \in Callers : RoundOnce(rd[c], log')
      BY <1>0, <3>1, RoundJoins
    <3>3. SliceOnce(bf, job, log')
      BY <1>0, <3>1, SliceJoins
    <3> QED
      BY <2>1, <3>2, <3>3 DEF RoundsOnce
  <2> QED
    BY <1>1, <2>2, <2>3, LogStep
<1>2. ASSUME UNCHANGED <<now, log>>, \A c \in Callers : RoundOnce(rd'[c], log),
             SliceOnce(bf', job', log)
      PROVE  LogTimed' /\ RoundsOnce' /\ SliceOnce(bf', job', log')
  BY <1>2 DEF LogTimed, RoundsOnce
<1>3. ASSUME NEW c \in Callers, Forward(c) \/ AbandonRound(c)
      PROVE  /\ UNCHANGED <<now, log, bf, job>>
             /\ \A d \in Callers : RoundOnce(rd'[d], log)
  <2>1. UNCHANGED <<now, log, bf, job>>
    BY <1>3 DEF Forward, AbandonRound, RunStart, RescanPage, MainPage, CommitBaseline,
                CommitRound, upstream, store
  <2>2. CASE RunStart(c) \/ RescanPage(c) \/ MainPage(c)
    <3>1. RoundOnce(rd'[c], log)
      BY <2>2, StartOnce, RescanOnce, MainOnce
    <3>2. rd[c].max \in 0..MaxLog
      BY <1>0 DEF RoundFits
    <3>3. \A d \in Callers : d # c => rd'[d] = rd[d]
      BY <2>2, <3>2, StartShape, RescanShape, MainShape
    <3> QED
      BY <1>0, <2>1, <3>1, <3>3
  <2>3. CASE CommitBaseline(c) \/ CommitRound(c) \/ AbandonRound(c)
    <3>1. rd'[c] = NoRound /\ \A d \in Callers : d # c => rd'[d] = rd[d]
      BY <2>3, LeaveShape DEF CommitBaseline, CommitRound, AbandonRound, Leave
    <3> QED
      BY <1>0, <2>1, <3>1
  <2> QED
    BY <1>3, <2>2, <2>3 DEF Forward
<1>4. ASSUME Backfill \/ BackfillError
      PROVE  UNCHANGED <<now, log, rd>> /\ SliceOnce(bf', job', log)
  BY <1>4, SliceStepOnce DEF Backfill, BackfillError, SliceStart, NextWindow, BackfillPage,
     BackfillWrite, BackfillProgress, EndSlice, upstream, store
<1>5. ASSUME NEW o \in Orgs, Operator(o) \/ EnqueueFails(o)
      PROVE  UNCHANGED <<now, log, rd, bf>> /\ SliceOnce(bf, job', log)
  <2>1. UNCHANGED <<now, log, rd, bf>>
    BY <1>5 DEF Operator, Associate, EnqueueBackfill, RequeueBackfill, EnqueueFails, upstream, store
  <2>2. \A p \in Orgs : job[p].status # "none" =>
          job'[p].bts = job[p].bts /\ job'[p].bid = job[p].bid
    <3>1. /\ DOMAIN job = Orgs /\ \A p \in Orgs : DOMAIN job[p] = JobFields
          /\ job[o].status # "none" => enq[o] = "queued"
      BY DEF TypeInv, JobsFit, JobFits
    <3>2. CASE Associate(o) \/ EnqueueFails(o)
      BY <3>2 DEF Associate, EnqueueFails, store
    <3>3. CASE EnqueueBackfill(o)
      <4>1. PICK j : enq[o] = "associated" /\ job' = [job EXCEPT ![o] = j]
        BY <3>3, Zenon DEF EnqueueBackfill
      <4> QED
        BY <3>1, <4>1
    <3>4. CASE RequeueBackfill(o)
      BY <3>1, <3>4 DEF RequeueBackfill, RequeueBackfillJob, JobFields
    <3> QED
      BY <1>5, <3>2, <3>3, <3>4 DEF Operator
  <2>3. bf.ph \in {"read", "write"} => bf.org \in Orgs /\ job[bf.org].status # "none"
    BY <1>0 DEF SliceFits
  <2> QED
    BY <2>1, <2>2, <2>3 DEF SliceOnce, Behind
<1>6. ASSUME NEW n \in Nodes, Crash(n)
      PROVE  /\ UNCHANGED <<now, log>> /\ \A c \in Callers : RoundOnce(rd'[c], log)
             /\ SliceOnce(bf', job', log)
  <2>1. /\ UNCHANGED <<now, log, job>> /\ bf' \in {bf, NoSlice}
        /\ \A c \in Callers : rd'[c] = IF NodeOf[c] = n THEN NoRound ELSE rd[c]
    BY <1>6 DEF Crash, upstream, store
  <2>2. SliceOnce(NoSlice, job, log)
    BY DEF SliceOnce, NoSlice
  <2>3. SliceOnce(bf', job', log)
    BY <2>1, <2>2
  <2> QED
    BY <1>0, <2>1, <2>3
<1>7. CASE PurgeOldUsageDetail \/ UNCHANGED vars
  BY <1>0, <1>2, <1>7 DEF PurgeOldUsageDetail, upstream, vars
<1>8. CASE Faults
  BY <1>0, <1>2, <1>3, <1>4, <1>5, <1>6, <1>8 DEF Faults
<1>9. CASE \E c \in Callers : Forward(c)
  BY <1>2, <1>3, <1>9
<1>10. CASE Backfill
  BY <1>0, <1>2, <1>4, <1>10
<1>11. CASE \E o \in Orgs : Operator(o)
  BY <1>0, <1>2, <1>5, <1>11
<1> QED
  BY <1>1, <1>7, <1>8, <1>9, <1>10, <1>11 DEF Next

\* The numbers a step compares.
LEMMA CursorNumbers ==
  ASSUME TypeInv
  PROVE  /\ cursor.ts \in Nat /\ cursor.id \in Nat /\ cursor.ver \in Nat /\ now \in Nat
         /\ Lag \in Nat /\ MaxGap \in Nat /\ Overlap \in Nat /\ Retention \in Nat
         /\ \A c \in Callers : /\ rd[c].since \in Nat /\ rd[c].sub \in Nat /\ rd[c].id \in Nat
                               /\ rd[c].max \in Nat /\ rd[c].ver \in Nat
         /\ \A o \in Orgs : job[o].bts \in Nat /\ job[o].bid \in Nat
         /\ \A i \in Ids : log[i].ts \in Nat /\ i \in Nat
         /\ \A o \in Orgs : DOMAIN job[o] = JobFields
         /\ DOMAIN job = Orgs /\ DOMAIN enq = Orgs
<1>1. /\ cursor.ts \in Nat /\ cursor.id \in Nat /\ cursor.ver \in Nat /\ now \in Nat
      /\ Lag \in Nat /\ MaxGap \in Nat /\ Overlap \in Nat /\ Retention \in Nat
  BY ConstantsAssumption DEF TypeInv, ClockFits, CursorFits
<1>2. \A c \in Callers : /\ rd[c].since \in Nat /\ rd[c].sub \in Nat /\ rd[c].id \in Nat
                         /\ rd[c].max \in Nat /\ rd[c].ver \in Nat
  BY DEF TypeInv, RoundsFit, RoundFits
<1>3. \A o \in Orgs : job[o].bts \in Nat /\ job[o].bid \in Nat /\ DOMAIN job[o] = JobFields
  BY DEF TypeInv, JobsFit, JobFits
<1>4. \A i \in Ids : log[i].ts \in Nat /\ i \in Nat
  BY DEF TypeInv, LogFits, Ids
<1> QED
  BY <1>1, <1>2, <1>3, <1>4 DEF TypeInv, JobsFit

\* A cursor moves forward and leaves every call in progress behind.
LEMMA CursorMoves ==
  ASSUME BooksInv, TypeInv, Followed, NEW c \in Callers, CommitBaseline(c) \/ CommitRound(c)
  PROVE  /\ rd[c].since = cursor.ts /\ rd[c].id = cursor.id /\ cursor.ver = rd[c].ver
         /\ cursor'.ts = Greatest(cursor.ts, rd[c].sub) /\ cursor'.ver = cursor.ver + 1
         /\ cursor'.ts >= cursor.ts /\ cursor'.id >= cursor.id
         /\ cursor'.ts \in Nat /\ cursor'.id \in Nat
         /\ CommitRound(c) => cursor'.id = Greatest(cursor.id, rd[c].max)
         /\ \A d \in Callers : rd'[d].ver < cursor'.ver
<1>1. /\ cursor.ver = rd[c].ver /\ rd[c].ph # "idle"
  BY DEF CommitBaseline, CommitRound, CursorUnmoved
<1>2. rd[c].since = cursor.ts /\ rd[c].id = cursor.id
  BY <1>1 DEF Followed, RoundFollows, Current
<1>3. PICK id \in Nat : AdvanceCursorTx(rd[c], id) /\ (CommitRound(c) => id = rd[c].max)
  <2>1. CASE CommitRound(c)
    BY <2>1, CursorNumbers DEF CommitRound
  <2>2. CASE ~CommitRound(c)
    BY <2>2 DEF CommitBaseline
  <2> QED
    BY <2>1, <2>2
<1>4. /\ cursor'.ts = Greatest(cursor.ts, rd[c].sub) /\ cursor'.id = Greatest(cursor.id, id)
      /\ cursor'.ver = cursor.ver + 1
  BY <1>3 DEF AdvanceCursorTx
<1>5. rd'[c] = NoRound /\ NoRound.ver = 0 /\ \A d \in Callers : d # c => rd'[d] = rd[d]
  BY LeaveShape DEF CommitBaseline, CommitRound, Leave, NoRound
<1>6. \A d \in Callers : rd[d].ver <= cursor.ver /\ rd[d].ver \in Nat
  BY CursorNumbers DEF Followed, RoundFollows
<1>7. \A d \in Callers : rd'[d].ver < cursor'.ver
  BY <1>4, <1>5, <1>6, CursorNumbers
<1> QED
  BY <1>1, <1>2, <1>3, <1>4, <1>7, CursorNumbers DEF Greatest

\* Calls follow the cursor.
LEMMA FollowedStep ==
  ASSUME BooksInv, TypeInv, Followed, [Next]_vars
  PROVE  Followed'
<1>0. /\ \A c \in Callers : RoundFollows(rd[c], cursor, now)
      /\ \A o \in Orgs : job[o].bts <= cursor.ts /\ job[o].bid <= cursor.id
      /\ cursor.ts > 0 => now <= cursor.ts + Lag + MaxGap
      /\ PlatformOrgs = Orgs => \A o \in Orgs : enq[o] = "gateA"
      /\ RoundFollows(NoRound, cursor, now)
  <2>1. RoundFollows(NoRound, cursor, now)
    BY CursorNumbers DEF RoundFollows, NoRound, Current
  <2> QED
    BY <2>1 DEF Followed
<1>1. ASSUME NEW c \in Callers, RunStart(c) \/ RescanPage(c) \/ MainPage(c) \/ AbandonRound(c)
      PROVE  Followed'
  <2>1. UNCHANGED <<now, cursor, job, enq>>
    BY <1>1 DEF RunStart, RescanPage, MainPage, AbandonRound, upstream, store
  <2>2. rd[c].max \in 0..MaxLog
    BY DEF TypeInv, RoundsFit, RoundFits
  <2>3. \A d \in Callers : d # c => rd'[d] = rd[d]
    BY <1>1, <2>2, StartShape, RescanShape, MainShape, LeaveShape DEF AbandonRound, Leave
  <2>4. RoundFollows(rd'[c], cursor, now)
    <3>1. CASE RunStart(c)
      <4>1. /\ rd'[c].since = cursor.ts /\ rd'[c].id = cursor.id /\ rd'[c].ver = cursor.ver
            /\ rd'[c].ph = IF cursor.ts = 0 THEN "baseline" ELSE "rescan"
        BY <3>1, StartShape
      <4>2. CASE cursor.ts = 0
        <5>1. rd'[c].sub = now - Lag
          BY <3>1, <4>2, StartShape
        <5> QED
          BY <4>1, <4>2, <5>1, CursorNumbers DEF RoundFollows
      <4>3. CASE cursor.ts # 0
        <5>1. cursor.ts < now - Lag /\ cursor.ts \in Int /\ now - Lag \in Int
          BY <3>1, <4>3, CursorNumbers DEF RunStart
        <5>2. UntilSub(cursor.ts, now - Lag) \in (cursor.ts + 1)..(now - Lag)
          BY <5>1, UntilSubAhead, Zenon
        <5>3. rd'[c].sub \in (cursor.ts + 1)..(now - Lag)
          BY <3>1, <4>3, <5>2, StartShape
        <5> QED
          BY <1>0, <4>1, <4>3, <5>1, <5>3, CursorNumbers DEF RoundFollows
      <4> QED
        BY <4>2, <4>3
    <3>2. CASE RescanPage(c) \/ MainPage(c)
      <4>1. /\ rd'[c].since = rd[c].since /\ rd'[c].id = rd[c].id /\ rd'[c].ver = rd[c].ver
            /\ rd'[c].sub = rd[c].sub /\ rd'[c].ph \notin {"idle", "baseline"}
        BY <2>2, <3>2, RescanShape, MainShape
      <4>2. rd[c].ph # "idle"
        BY <3>2 DEF RescanPage, MainPage
      <4> QED
        BY <1>0, <4>1, <4>2 DEF RoundFollows, Current
    <3>3. CASE AbandonRound(c)
      BY <1>0, <3>3, LeaveShape DEF AbandonRound, Leave
    <3> QED
      BY <1>1, <3>1, <3>2, <3>3
  <2>5. \A d \in Callers : RoundFollows(rd'[d], cursor, now)
    BY <1>0, <2>3, <2>4
  <2> QED
    BY <1>0, <2>1, <2>5 DEF Followed
<1>2. ASSUME NEW c \in Callers, CommitBaseline(c) \/ CommitRound(c) PROVE Followed'
  <2>1. UNCHANGED <<now, job, enq>>
    BY <1>2 DEF CommitBaseline, CommitRound, upstream
  <2>2. rd'[c] = NoRound /\ NoRound.ph = "idle" /\ \A d \in Callers : d # c => rd'[d] = rd[d]
    BY <1>2, LeaveShape DEF CommitBaseline, CommitRound, Leave, NoRound
  <2>3. ASSUME NEW d \in Callers PROVE RoundFollows(rd'[d], cursor', now)
    <3>1. rd'[d].ver < cursor'.ver /\ rd'[d].ver \in Nat /\ cursor'.ver \in Nat
      <4>1. rd'[d].ver \in Nat
        BY <2>2, CursorNumbers DEF NoRound
      <4> QED
        BY <1>2, <4>1, CursorMoves, CursorNumbers
    <3> QED
      BY <1>0, <2>2, <3>1 DEF RoundFollows, Current
  <2>4. \A o \in Orgs : job[o].bts <= cursor'.ts /\ job[o].bid <= cursor'.id
    BY <1>0, <1>2, CursorMoves, CursorNumbers
  <2>5. cursor'.ts > 0 => now <= cursor'.ts + Lag + MaxGap
    <3>1. now <= rd[c].sub + Lag + MaxGap
      BY <1>0, <1>2 DEF RoundFollows, CommitBaseline, CommitRound
    <3>2. cursor'.ts >= rd[c].sub /\ cursor'.ts \in Nat
      BY <1>2, CursorMoves, CursorNumbers DEF Greatest
    <3> QED
      BY <3>1, <3>2, CursorNumbers
  <2> QED
    BY <1>0, <2>1, <2>3, <2>4, <2>5 DEF Followed
<1>3. CASE Gateway
  <2>1. UNCHANGED <<cursor, job, enq, rd>>
    BY <1>3 DEF Gateway, Tick, CommitRow, InsertRow, store
  <2>2. CASE UNCHANGED now
    BY <2>1, <2>2 DEF Followed
  <2>3. CASE Tick
    <3>1. /\ now' = now + 1 /\ (cursor.ts > 0 => now + 1 - Lag - cursor.ts <= MaxGap)
          /\ \A c \in Callers : rd[c].ph # "idle" => now + 1 - Lag - rd[c].sub <= MaxGap
      BY <2>3 DEF Tick
    <3>2. \A c \in Callers : RoundFollows(rd[c], cursor, now + 1)
      BY <1>0, <3>1, CursorNumbers DEF RoundFollows
    <3>3. cursor.ts > 0 => now + 1 <= cursor.ts + Lag + MaxGap
      BY <3>1, CursorNumbers
    <3> QED
      BY <1>0, <2>1, <3>1, <3>2, <3>3 DEF Followed
  <2> QED
    BY <1>3, <2>2, <2>3 DEF Gateway, CommitRow, InsertRow
<1>4. ASSUME UNCHANGED <<now, cursor, rd>>,
             \A o \in Orgs : /\ job'[o].bts \in {job[o].bts, cursor.ts}
                             /\ job'[o].bid \in {job[o].bid, cursor.id}
                             /\ enq[o] = "gateA" => enq'[o] = "gateA"
      PROVE  Followed'
  <2>1. \A o \in Orgs : job'[o].bts <= cursor.ts /\ job'[o].bid <= cursor.id
    BY <1>0, <1>4, CursorNumbers
  <2> QED
    BY <1>0, <1>4, <2>1 DEF Followed
<1>5. CASE Backfill \/ BackfillError
  <2>1. UNCHANGED <<now, cursor, rd, enq>>
    BY <1>5 DEF Backfill, BackfillError, SliceStart, NextWindow, BackfillPage, BackfillWrite,
                BackfillProgress, EndSlice, upstream, store
  <2>2. \A o \in Orgs : job'[o].bts = job[o].bts /\ job'[o].bid = job[o].bid
    <3>1. \/ UNCHANGED job
          \/ \E o \in Orgs : \E st : job' = [job EXCEPT ![o].status = st]
          \/ \E o \in Orgs : \E ts : job' = [job EXCEPT ![o].cts = ts]
      <4>1. CASE SliceStart
        BY <4>1, Zenon DEF SliceStart, NextBackfillJob
      <4>2. CASE EndSlice
        <5>1. bf.org \in Orgs
          BY <4>2 DEF EndSlice, TypeInv, SliceFits
        <5> QED
          BY <4>2, <5>1, Zenon DEF EndSlice
      <4>3. CASE BackfillProgress
        <5>1. bf.org \in Orgs
          BY <4>3 DEF BackfillProgress, TypeInv, SliceFits
        <5> QED
          BY <4>3, <5>1, Zenon DEF BackfillProgress, UpdateBackfillProgress
      <4>4. CASE NextWindow \/ BackfillPage \/ BackfillWrite \/ BackfillError
        BY <4>4 DEF NextWindow, BackfillPage, BackfillWrite, BackfillError, store
      <4> QED
        BY <1>5, <4>1, <4>2, <4>3, <4>4 DEF Backfill
    <3>2. ASSUME NEW p \in Orgs, NEW v,
                 \/ job' = [job EXCEPT ![p].status = v] \/ job' = [job EXCEPT ![p].cts = v]
          PROVE  \A o \in Orgs : job'[o].bts = job[o].bts /\ job'[o].bid = job[o].bid
      BY <3>2, CursorNumbers DEF JobFields
    <3> QED
      BY <3>1, <3>2
  <2> QED
    BY <1>4, <2>1, <2>2
<1>6. ASSUME NEW o \in Orgs, Operator(o) \/ EnqueueFails(o) PROVE Followed'
  <2>1. UNCHANGED <<now, cursor, rd>>
    BY <1>6 DEF Operator, Associate, EnqueueBackfill, RequeueBackfill, EnqueueFails, upstream, store
  <2>2. CASE Associate(o) \/ EnqueueFails(o)
    <3>1. UNCHANGED job /\ enq[o] # "gateA" /\ \E e : enq' = [enq EXCEPT ![o] = e]
      BY <2>2 DEF Associate, EnqueueFails, store
    <3>2. \A p \in Orgs : enq[p] = "gateA" => enq'[p] = "gateA"
      BY <3>1, CursorNumbers
    <3> QED
      BY <1>4, <2>1, <3>1, <3>2
  <2>3. CASE EnqueueBackfill(o)
    <3> DEFINE j == [status |-> "pending", bts |-> cursor.ts, bid |-> cursor.id,
                     cts |-> cursor.ts, nth |-> JobCount]
    <3>1. /\ job' = [job EXCEPT ![o] = j] /\ enq[o] = "associated"
          /\ enq' = [enq EXCEPT ![o] = "queued"]
      BY <2>3 DEF EnqueueBackfill
    <3>2. j.bts = cursor.ts /\ j.bid = cursor.id
      OBVIOUS
    <3> HIDE DEF j
    <3>3. \A p \in Orgs : /\ job'[p].bts \in {job[p].bts, cursor.ts}
                          /\ job'[p].bid \in {job[p].bid, cursor.id}
      BY <3>1, <3>2, CursorNumbers
    <3>4. \A p \in Orgs : enq[p] = "gateA" => enq'[p] = "gateA"
      BY <3>1, CursorNumbers
    <3> QED
      BY <1>4, <2>1, <3>3, <3>4
  <2>4. CASE RequeueBackfill(o)
    <3>1. UNCHANGED enq /\ job' = [job EXCEPT ![o].status = "pending", ![o].cts = job[o].bts]
      BY <2>4 DEF RequeueBackfill, RequeueBackfillJob
    <3>2. \A p \in Orgs : job'[p].bts = job[p].bts /\ job'[p].bid = job[p].bid
      BY <3>1, CursorNumbers DEF JobFields
    <3> QED
      BY <1>4, <2>1, <3>1, <3>2
  <2> QED
    BY <1>6, <2>2, <2>3, <2>4 DEF Operator
<1>7. ASSUME NEW n \in Nodes, Crash(n) PROVE Followed'
  <2>1. /\ UNCHANGED <<now, cursor, job>>
        /\ \A c \in Callers : rd'[c] = IF NodeOf[c] = n THEN NoRound ELSE rd[c]
    BY <1>7 DEF Crash, upstream, store
  <2>2. \A o \in Orgs : enq[o] = "gateA" => enq'[o] = "gateA"
    BY <1>7 DEF Crash
  <2>3. \A c \in Callers : RoundFollows(rd'[c], cursor, now)
    BY <1>0, <2>1
  <2> QED
    BY <1>0, <2>1, <2>2, <2>3 DEF Followed
<1>8. CASE PurgeOldUsageDetail \/ UNCHANGED vars
  BY <1>4, <1>8 DEF PurgeOldUsageDetail, upstream, vars
<1>9. CASE Faults
  BY <1>1, <1>5, <1>6, <1>7, <1>9 DEF Faults
<1>10. CASE \E c \in Callers : Forward(c)
  BY <1>1, <1>2, <1>10 DEF Forward
<1>11. CASE \E o \in Orgs : Operator(o)
  BY <1>6, <1>11
<1> QED
  BY <1>3, <1>5, <1>8, <1>9, <1>10, <1>11 DEF Next

\* A row of the main window above the watermark is ahead of the cursor the
\* round started at.
LEMMA NotPassed ==
  ASSUME TypeInv, NEW i \in Ids, NEW r, r.since = cursor.ts, r.id = cursor.id,
         i \in MainWin(log, r), i > r.id
  PROVE  ~Passed(i, log, cursor)
<1>1. log[i].ts >= cursor.ts
  BY DEF MainWin, Win
<1> QED
  BY <1>1, CursorNumbers DEF Passed

\* A row of the rescan window is young enough to have its detail row.
LEMMA RescanYoung ==
  ASSUME TypeInv, NEW i \in Ids, NEW r, r.since = cursor.ts, i \in RescanWin(log, r)
  PROVE  log[i].ts >= cursor.ts - Overlap
  BY CursorNumbers DEF RescanWin, Win, RescanFrom, Greatest

\* Before the first run places the cursor the ledger is empty.
LEMMA NothingYet ==
  ASSUME TypeInv, LogTimed, CountedOnce, NEW i \in Ids, ledger[i] > 0
  PROVE  cursor.ts > 0
  BY CursorNumbers DEF LogTimed, CountedOnce, Passed

\* RunStart, RescanPage, MainPage, AbandonRound: what a call holds after its
\* rescan is not in the ledger.
LEMMA PendingRead ==
  ASSUME BooksInv, TypeInv, OnceInv, NEW c \in Callers,
         RunStart(c) \/ RescanPage(c) \/ MainPage(c) \/ AbandonRound(c)
  PROVE  CountedOnce' /\ Pending'
<1>1. UNCHANGED <<now, log, cursor, ledger, detail>>
  BY DEF RunStart, RescanPage, MainPage, AbandonRound, upstream, store
<1>2. CountedOnce'
  BY <1>1 DEF OnceInv, CountedOnce
<1>3. rd[c].max \in 0..MaxLog /\ rd[c].acc \in BagType /\ ledger \in BagType
  BY DEF TypeInv, RoundsFit, RoundFits, BooksInv, Reading, RoundOK, Tables
<1>4. \A d \in Callers : d # c => rd'[d] = rd[d]
  BY <1>3, StartShape, RescanShape, MainShape, LeaveShape DEF AbandonRound, Leave
<1>5. ASSUME Current(rd'[c], cursor.ver), rd'[c].ph \in {"main", "commit"}, NEW i \in Ids,
             rd'[c].acc[i] > 0
      PROVE  ledger[i] = 0
  <2>0. ledger[i] \in Nat /\ rd[c].acc[i] \in Nat
    BY <1>3 DEF BagType
  <2>1. CASE RunStart(c)
    <3>1. rd'[c].ph \in {"baseline", "rescan"}
      BY <2>1, StartShape
    <3> QED
      BY <1>5, <3>1
  <2>2. CASE AbandonRound(c)
    <3>1. rd'[c] = NoRound
      BY <2>2, LeaveShape DEF AbandonRound, Leave
    <3> QED
      BY <1>5, <3>1 DEF NoRound
  <2>3. CASE RescanPage(c) \/ MainPage(c)
    <3>1. /\ rd'[c].ver = rd[c].ver /\ rd'[c].since = rd[c].since /\ rd'[c].id = rd[c].id
      BY <1>3, <2>3, RescanShape, MainShape
    <3>2. rd[c].ph # "idle"
      BY <2>3 DEF RescanPage, MainPage
    <3>3. Current(rd[c], cursor.ver) /\ rd[c].since = cursor.ts /\ rd[c].id = cursor.id
      BY <1>5, <3>1, <3>2 DEF OnceInv, Followed, RoundFollows, Current
    <3>4. CASE RescanPage(c)
      <4>1. rd'[c].acc = Restricted(Rescanned(rd[c]), Attributed(Ids \ detail))
        BY <1>5, <3>4, RescanShape
      <4>2. i \notin detail
        BY <1>5, <4>1 DEF Restricted, Attributed
      <4>3. i \in RescanWin(log, rd'[c]) \/ InMain(rd'[c], log, i)
        BY <1>5, <3>4, RescanOnce DEF OnceInv, RoundOnce, Mainly
      <4>4. CASE i \in RescanWin(log, rd'[c])
        <5>1. log[i].ts >= cursor.ts - Overlap
          BY <3>1, <3>3, <4>4, RescanYoung
        <5> QED
          BY <2>0, <4>2, <5>1 DEF OnceInv, CountedOnce
      <4>5. CASE InMain(rd'[c], log, i)
        <5>1. i \in MainWin(log, rd'[c]) /\ i > rd'[c].id
          BY <4>5 DEF InMain
        <5>2. ~Passed(i, log, cursor)
          BY <3>1, <3>3, <5>1, NotPassed
        <5> QED
          BY <2>0, <5>2 DEF OnceInv, CountedOnce
      <4> QED
        BY <4>3, <4>4, <4>5
    <3>5. CASE MainPage(c)
      <4>1. rd'[c].acc = Plus(rd[c].acc, BagOf(Attributed(Positive(NewRows(rd[c])))))
        BY <1>3, <3>5, MainShape DEF MainRead
      <4>2. rd'[c].acc[i] = rd[c].acc[i] + BagOf(Attributed(Positive(NewRows(rd[c]))))[i]
        BY <1>3, <4>1, BagLaws
      <4>3. CASE i \in NewRows(rd[c])
        <5>1. i \in MainWin(log, rd[c]) /\ i > rd[c].id
          BY <4>3, WindowsAre DEF NewRows, AboveWatermark, Page
        <5>2. ~Passed(i, log, cursor)
          BY <3>3, <5>1, NotPassed
        <5> QED
          BY <2>0, <5>2 DEF OnceInv, CountedOnce
      <4>4. CASE i \notin NewRows(rd[c])
        <5>1. BagOf(Attributed(Positive(NewRows(rd[c]))))[i] = 0
          BY <4>4 DEF BagOf, Attributed, Positive
        <5>2. rd[c].acc[i] > 0 /\ rd[c].ph = "main"
          BY <1>5, <2>0, <3>5, <4>2, <5>1 DEF MainPage
        <5> QED
          BY <3>3, <5>2 DEF OnceInv, Pending
      <4> QED
        BY <4>3, <4>4
    <3> QED
      BY <2>3, <3>4, <3>5
  <2> QED
    BY <2>1, <2>2, <2>3
<1>6. Pending'
  BY <1>1, <1>4, <1>5 DEF OnceInv, Pending
<1> QED
  BY <1>2, <1>6

\* CommitBaseline, CommitRound.
LEMMA CommitOnce ==
  ASSUME BooksInv, TypeInv, OnceInv, NEW c \in Callers, CommitBaseline(c) \/ CommitRound(c)
  PROVE  CountedOnce' /\ Pending'
<1>0. UNCHANGED <<now, log>> /\ ledger \in BagType /\ rd[c].acc \in BagType /\ Followed
      /\ CountedOnce /\ LogTimed
  BY DEF CommitBaseline, CommitRound, upstream, BooksInv, Tables, Reading, RoundOK, OnceInv
<1>1. Pending'
  <2>1. \A d \in Callers : rd'[d].ver # cursor'.ver
    <3>1. \A d \in Callers : rd'[d].ver < cursor'.ver
      BY <1>0, CursorMoves
    <3>2. rd'[c] = NoRound /\ NoRound.ver = 0 /\ \A d \in Callers : d # c => rd'[d] = rd[d]
      BY LeaveShape DEF CommitBaseline, CommitRound, Leave, NoRound
    <3>3. cursor'.ver \in Nat /\ \A d \in Callers : rd'[d].ver \in Nat
      BY <1>0, <3>2, CursorMoves, CursorNumbers
    <3> QED
      BY <3>1, <3>3
  <2> QED
    BY <2>1 DEF Pending, Current
<1>2. CASE CommitBaseline(c)
  <2>1. UNCHANGED ledger /\ cursor.ts = 0
    BY <1>0, <1>2, CursorMoves DEF CommitBaseline, Followed, RoundFollows
  <2>2. \A i \in Ids : ~(ledger[i] > 0)
    BY <1>0, <2>1, NothingYet
  <2> QED
    BY <1>1, <2>1, <2>2 DEF CountedOnce
<1>3. CASE CommitRound(c)
  <2>1. /\ ledger' = Plus(ledger, rd[c].acc) /\ detail' = detail \cup Support(rd[c].acc)
        /\ rd[c].ph = "commit" /\ CursorUnmoved(rd[c])
    BY <1>3 DEF CommitRound, CommitUsageOnly, AddToLedgerBucketTx, InsertUsageDetailTx
  <2>2. Current(rd[c], cursor.ver)
    BY <2>1 DEF Current, CursorUnmoved
  <2>3. /\ cursor'.ts \in Nat /\ cursor'.id \in Nat /\ cursor'.ts >= cursor.ts
        /\ cursor'.id >= cursor.id /\ cursor'.ts >= rd[c].sub /\ cursor'.id >= rd[c].max
        /\ rd[c].since = cursor.ts /\ rd[c].since < rd[c].sub
        /\ cursor'.ts = rd[c].sub
    <3>1. rd[c].since < rd[c].sub
      BY <2>1 DEF OnceInv, RoundsOnce, RoundOnce
    <3> QED
      BY <1>0, <1>3, <3>1, CursorMoves, CursorNumbers DEF Greatest
  <2>4. ASSUME NEW i \in Ids, ledger'[i] > 0
        PROVE  /\ ledger'[i] = 1 /\ log[i].st = "visible" /\ Passed(i, log, cursor')
               /\ log[i].ts >= cursor'.ts - Overlap => i \in detail'
    <3>1. ledger[i] \in Nat /\ rd[c].acc[i] \in Nat /\ ledger'[i] = ledger[i] + rd[c].acc[i]
      BY <1>0, <2>1, BagLaws DEF BagType
    <3>2. rd[c].acc[i] > 0 => ledger[i] = 0
      BY <2>1, <2>2 DEF OnceInv, Pending
    <3>3. CASE rd[c].acc[i] > 0
      <4>1. rd[c].acc[i] = 1 /\ (i \in RescanWin(log, rd[c]) \/ InMain(rd[c], log, i))
        BY <2>1, <3>3 DEF OnceInv, RoundsOnce, RoundOnce, Mainly
      <4>2. i \in detail'
        BY <2>1, <3>3 DEF Support
      <4>3. log[i].st = "visible" /\ Passed(i, log, cursor')
        <5>1. CASE i \in RescanWin(log, rd[c])
          <6>1. log[i].st = "visible" /\ log[i].ts <= rd[c].since - 1
            BY <5>1 DEF RescanWin, Win
          <6> QED
            BY <2>3, <6>1, CursorNumbers DEF Passed
        <5>2. CASE InMain(rd[c], log, i)
          <6>1. log[i].st = "visible" /\ log[i].ts <= rd[c].sub /\ i <= rd[c].max
            BY <5>2 DEF InMain, MainWin, Win
          <6> QED
            BY <2>3, <6>1, CursorNumbers DEF Passed
        <5> QED
          BY <4>1, <5>1, <5>2
      <4> QED
        BY <3>1, <3>2, <3>3, <4>1, <4>2, <4>3
    <3>4. CASE rd[c].acc[i] = 0
      <4>1. ledger[i] > 0 /\ ledger'[i] = ledger[i]
        BY <2>4, <3>1, <3>4
      <4>2. /\ ledger[i] = 1 /\ log[i].st = "visible" /\ Passed(i, log, cursor)
            /\ log[i].ts >= cursor.ts - Overlap => i \in detail
        BY <1>0, <4>1 DEF CountedOnce
      <4>3. Passed(i, log, cursor')
        BY <2>3, <4>2, CursorNumbers DEF Passed
      <4>4. log[i].ts >= cursor'.ts - Overlap => log[i].ts >= cursor.ts - Overlap
        BY <2>3, CursorNumbers
      <4> QED
        BY <2>1, <4>1, <4>2, <4>3, <4>4
    <3> QED
      BY <3>1, <3>3, <3>4
  <2>5. CountedOnce'
    BY <1>0, <2>4 DEF CountedOnce
  <2> QED
    BY <1>1, <2>5
<1> QED
  BY <1>2, <1>3

\* BackfillWrite: what has no detail row is not in the ledger either, and no
\* round is in progress.
LEMMA BackfillOnce ==
  ASSUME BackfillGuarded, BooksInv, TypeInv, OnceInv, BackfillWrite
  PROVE  CountedOnce' /\ Pending'
<1>0. /\ UNCHANGED <<now, log, cursor, rd>> /\ ledger \in BagType /\ bf.keep \in BagType
      /\ bf.ph = "write" /\ CountedOnce /\ Pending /\ detail \subseteq Ids
      /\ ledger' = Plus(ledger, Unrecorded(bf.keep))
      /\ detail' = detail \cup Support(Unrecorded(bf.keep))
  BY DEF BackfillWrite, upstream, BooksInv, Tables, Reading, SliceOK, OnceInv, CommitUsageOnly,
         AddToLedgerBucketTx, InsertUsageDetailTx
<1>1. Unrecorded(bf.keep) \in BagType /\ \A i \in Ids :
        /\ Unrecorded(bf.keep)[i] \in {0, bf.keep[i]}
        /\ Unrecorded(bf.keep)[i] > 0 => i \notin detail
  <2>1. Unrecorded(bf.keep) \in BagType
    BY <1>0, BagLaws DEF Unrecorded
  <2>2. \A i \in Ids : Unrecorded(bf.keep)[i] =
          IF i \in Attributed(Ids \ detail) THEN bf.keep[i] ELSE 0
    BY DEF Unrecorded, Restricted
  <2> QED
    BY <2>1, <2>2 DEF Attributed
<1>2. \A i \in Ids : /\ ledger'[i] = ledger[i] + Unrecorded(bf.keep)[i]
                     /\ ledger[i] \in Nat /\ bf.keep[i] \in Nat
  BY <1>0, <1>1, BagLaws DEF BagType
<1>3. CASE bf.keep = Empty
  <2>1. \A i \in Ids : Unrecorded(bf.keep)[i] = 0
    BY <1>1, <1>3 DEF Empty
  <2>2. detail' = detail /\ \A i \in Ids : ledger'[i] = ledger[i]
    BY <1>0, <1>2, <2>1 DEF Support
  <2> QED
    BY <1>0, <2>2 DEF CountedOnce, Pending
<1>4. CASE bf.keep # Empty
  <2>1. /\ bf.org \in Orgs /\ job[bf.org].status # "none" /\ MutexFree
    BY <1>0, <1>4 DEF TypeInv, SliceFits, BackfillWrite
  <2>2. PlatformOrgs # Orgs
    BY <2>1 DEF TypeInv, JobsFit, OnceInv, Followed
  <2>3. Retention = 0 /\ \A c \in Callers : NodeOf[c] = NodeOf[Worker]
    BY <2>2 DEF BackfillGuarded
  <2>4. \A c \in Callers : rd[c].ph = "idle"
    BY <2>1, <2>3, ConstantsAssumption DEF MutexFree, TypeInv, LocksFit
  <2>5. Pending'
    BY <1>0, <2>4 DEF Pending, Current
  <2>6. ASSUME NEW i \in Ids, ledger'[i] > 0
        PROVE  /\ ledger'[i] = 1 /\ log[i].st = "visible" /\ Passed(i, log, cursor)
               /\ log[i].ts >= cursor.ts - Overlap => i \in detail'
    <3>1. CASE Unrecorded(bf.keep)[i] > 0
      <4>1. i \notin detail /\ bf.keep[i] > 0 /\ Unrecorded(bf.keep)[i] = bf.keep[i]
        BY <1>1, <3>1
      <4>2. ledger[i] = 0
        BY <1>2, <2>3, <4>1 DEF BooksInv, Agree, LedgerMatchesDetail
      <4>3. bf.keep[i] = 1 /\ i \in OwnWin(log, bf) /\ Behind(i, job[bf.org], log)
        BY <1>0, <4>1 DEF OnceInv, SliceOnce
      <4>4. log[i].st = "visible"
        BY <4>3 DEF OwnWin, Win
      <4>5. job[bf.org].bts <= cursor.ts /\ job[bf.org].bid <= cursor.id
        BY <2>1 DEF OnceInv, Followed
      <4>6. Passed(i, log, cursor)
        BY <2>1, <4>3, <4>5, CursorNumbers DEF Passed, Behind
      <4>7. i \in detail'
        BY <1>0, <3>1 DEF Support
      <4> QED
        BY <1>2, <4>1, <4>2, <4>3, <4>4, <4>6, <4>7
    <3>2. CASE Unrecorded(bf.keep)[i] = 0
      <4>1. ledger'[i] = ledger[i]
        BY <1>2, <3>2
      <4> QED
        BY <1>0, <2>6, <4>1 DEF CountedOnce
    <3> QED
      BY <1>1, <1>2, <3>1, <3>2
  <2>7. CountedOnce'
    BY <1>0, <2>6 DEF CountedOnce
  <2> QED
    BY <2>5, <2>7
<1> QED
  BY <1>3, <1>4

\* Purging removes no detail row that the rescan can meet.
LEMMA PurgeOnce ==
  ASSUME RescanRetained, TypeInv, OnceInv, PurgeOldUsageDetail
  PROVE  CountedOnce' /\ Pending'
<1>1. /\ UNCHANGED <<now, log, cursor, ledger, rd>> /\ Retention > 0
      /\ detail' = {i \in detail : log[i].ts >= now - Retention}
  BY DEF PurgeOldUsageDetail, PurgeUsageDetailBefore, upstream
<1>2. ASSUME NEW i \in Ids, ledger[i] > 0, log[i].ts >= cursor.ts - Overlap, i \in detail
      PROVE  i \in detail'
  <2>1. cursor.ts > 0
    BY <1>2, NothingYet DEF OnceInv
  <2>2. now <= cursor.ts + Lag + MaxGap
    BY <2>1 DEF OnceInv, Followed
  <2>3. Retention >= Overlap + Lag + MaxGap
    BY <1>1 DEF RescanRetained
  <2>4. log[i].ts >= now - Retention
    BY <1>2, <2>2, <2>3, CursorNumbers
  <2> QED
    BY <1>1, <1>2, <2>4
<1>3. CountedOnce'
  BY <1>1, <1>2 DEF OnceInv, CountedOnce
<1> QED
  BY <1>1, <1>3 DEF OnceInv, Pending

\* The initial state.
LEMMA OnceInit == ASSUME Init PROVE OnceInv
<1>1. /\ \A i \in Ids : log[i].st = "free" /\ ledger[i] = 0
      /\ \A c \in Callers : rd[c] = NoRound
      /\ \A o \in Orgs : job[o] = NoJob
  BY DEF Init, Empty
<1>2. /\ NoRound.ph = "idle" /\ NoRound.ver = 0 /\ NoSlice.ph = "idle"
      /\ NoJob.bts = 0 /\ NoJob.bid = 0
  BY DEF NoRound, NoSlice, NoJob
<1>3. LogTimed /\ CountedOnce /\ Pending
  BY <1>1, <1>2 DEF LogTimed, CountedOnce, Pending, Current
<1>4. RoundsOnce /\ SliceOnce(bf, job, log)
  BY <1>1, <1>2 DEF Init, RoundsOnce, RoundOnce, SliceOnce
<1>5. cursor.ts = 0 /\ cursor.id = 0 /\ cursor.ver = 0
  BY DEF Init
<1>6. Followed
  <2>1. \A c \in Callers : RoundFollows(rd[c], cursor, now)
    BY <1>1, <1>2, <1>5 DEF RoundFollows, Current
  <2>2. PlatformOrgs = Orgs => \A o \in Orgs : enq[o] = "gateA"
    BY DEF Init
  <2> QED
    BY <1>1, <1>2, <1>5, <2>1, <2>2 DEF Followed
<1> QED
  BY <1>3, <1>4, <1>6 DEF OnceInv

\* Every step of the specification.
LEMMA OnceStep ==
  ASSUME PagesFrozen, BackfillGuarded, RescanRetained, BooksInv, TypeInv, OnceInv, [Next]_vars
  PROVE  OnceInv'
<1>1. LogTimed' /\ RoundsOnce' /\ SliceOnce(bf', job', log') /\ Followed'
  BY ReadsStep, FollowedStep DEF OnceInv
<1>2. SUFFICES CountedOnce' /\ Pending'
  BY <1>1 DEF OnceInv
<1>3. ASSUME UNCHANGED <<log, cursor, ledger, detail, rd>> PROVE CountedOnce' /\ Pending'
  BY <1>3 DEF OnceInv, CountedOnce, Pending
<1>4. CASE Gateway
  <2>1. UNCHANGED <<cursor, ledger, detail, rd>>
    BY <1>4 DEF Gateway, Tick, CommitRow, InsertRow, store
  <2>2. \A i \in Ids : log[i].st = "visible" => log'[i].st = "visible" /\ log'[i].ts = log[i].ts
    <3>1. CASE SameVisible(log, log')
      BY <3>1 DEF SameVisible
    <3>2. CASE \E k \in Ids : Joins(log, log', k)
      BY <3>2 DEF Joins
    <3> QED
      BY <1>4, <3>1, <3>2, LogStep DEF OnceInv
  <2>3. CountedOnce'
    BY <2>1, <2>2 DEF OnceInv, CountedOnce, Passed
  <2> QED
    BY <2>1, <2>3 DEF OnceInv, Pending
<1>5. ASSUME NEW c \in Callers, Forward(c) \/ AbandonRound(c) PROVE CountedOnce' /\ Pending'
  BY <1>5, PendingRead, CommitOnce DEF Forward
<1>6. CASE Backfill \/ BackfillError
  <2>1. CASE BackfillWrite
    BY <2>1, BackfillOnce
  <2>2. CASE SliceStart \/ NextWindow \/ BackfillPage \/ BackfillProgress \/ EndSlice \/ BackfillError
    <3>1. UNCHANGED <<log, cursor, ledger, detail, rd>>
      BY <2>2 DEF SliceStart, NextWindow, BackfillPage, BackfillProgress, EndSlice, BackfillError,
                  upstream, store
    <3> QED
      BY <1>3, <3>1
  <2> QED
    BY <1>6, <2>1, <2>2 DEF Backfill
<1>7. ASSUME NEW o \in Orgs, Operator(o) \/ EnqueueFails(o) PROVE CountedOnce' /\ Pending'
  <2>1. UNCHANGED <<log, cursor, ledger, detail, rd>>
    BY <1>7 DEF Operator, Associate, EnqueueBackfill, RequeueBackfill, EnqueueFails, upstream, store
  <2> QED
    BY <1>3, <2>1
<1>8. ASSUME NEW n \in Nodes, Crash(n) PROVE CountedOnce' /\ Pending'
  <2>1. /\ UNCHANGED <<log, cursor, ledger, detail>> /\ NoRound.ph = "idle"
        /\ \A c \in Callers : rd'[c] = IF NodeOf[c] = n THEN NoRound ELSE rd[c]
    BY <1>8 DEF Crash, upstream, store, NoRound
  <2>2. CountedOnce'
    BY <2>1 DEF OnceInv, CountedOnce
  <2>3. \A c \in Callers : rd'[c] = rd[c] \/ rd'[c].ph = "idle"
    BY <2>1
  <2>4. Pending'
    BY <2>1, <2>3 DEF OnceInv, Pending, Current
  <2> QED
    BY <2>2, <2>4
<1>9. CASE PurgeOldUsageDetail
  BY <1>9, PurgeOnce
<1>10. CASE UNCHANGED vars
  BY <1>3, <1>10 DEF vars
<1>11. CASE Faults
  BY <1>5, <1>6, <1>7, <1>8, <1>11 DEF Faults
<1> QED
  BY <1>4, <1>5, <1>6, <1>7, <1>9, <1>10, <1>11 DEF Next

\* A call is reported once: however forward rounds, the late-commit rescan,
\* backfill windows, crashes, requeues and purges interleave, the quota of a
\* log row enters usage_ledger at most once and is charged at most that often,
\* provided that pages do not shift while they are read (no row becomes visible
\* later than the lag, or one page is enough), that backfill shares the
\* process of the rounds (settlementMu is a lock of one process), and that
\* retention keeps what the rescan can meet.
THEOREM CountedExactlyOnce ==
  ASSUME PagesFrozen, BackfillGuarded, RescanRetained
  PROVE  Spec => []ExactlyOnce
<1>1. Init => BooksInv /\ TypeInv /\ OnceInv
  BY BooksInit, TypeInit, OnceInit
<1>2. (BooksInv /\ TypeInv /\ OnceInv) /\ [Next]_vars => (BooksInv /\ TypeInv /\ OnceInv)'
  BY BooksStep, TypeStep, OnceStep
<1>3. BooksInv /\ TypeInv /\ OnceInv => ExactlyOnce
  <2> SUFFICES ASSUME BooksInv, OnceInv, NEW i \in Ids
               PROVE  ledger[i] <= 1 /\ deducted[i] <= ledger[i]
    BY DEF ExactlyOnce
  <2>1. ledger[i] \in Nat
    BY DEF BooksInv, Tables, BagType
  <2>2. ledger[i] > 0 => ledger[i] = 1
    BY DEF OnceInv, CountedOnce
  <2>3. deducted[i] <= ledger[i]
    BY DEF BooksInv, Agree, ChargedIsBooked
  <2> QED
    BY <2>1, <2>2, <2>3
<1> QED
  BY <1>1, <1>2, <1>3, PTL DEF Spec

-----------------------------------------------------------------------------
(***************************************************************************)
(* No row is lost.  Forward rounds: a row that leaves the reach of the     *)
(* next rescan was visible, and in the rescan window, when the round that  *)
(* moves the cursor began.  Backfill: a row behind the boundary is in a    *)
(* window still to be read, or was read.                                   *)
(***************************************************************************)

\* The cursor moves by no more than the rescan goes back,
GapCovered == MaxGap <= Overlap

\* rows are visible before the rescan has passed them,
DelayCovered == MaxDelay <= Lag + Overlap

\* the page limit of the rescan is not reached,
RescanFits ==
  \/ MaxLog <= RescanMaxPages * PageSize
  \/ Overlap * MaxDensity <= RescanMaxPages * PageSize

\* and neither is that of a backfill window: two seconds fit, and no row
\* becomes visible in a window while it is read, or everything fits.
BackfillFits ==
  \/ PlatformOrgs = Orgs
  \/ MaxLog <= Capacity
  \/ MaxDelay < Lag /\ MaxDensity <= Capacity

\* Two seconds of log l hold MaxDensity rows at most.
Close(l, t) == {i \in Ids : l[i].st # "free" /\ l[i].ts \in t..(t + 1)}
Dense(l) == \A t \in Nat : Cardinality(Close(l, t)) <= MaxDensity

\* Sets of rows are finite, and larger ones have more rows.
LEMMA RowCounts ==
  ASSUME NEW W, W \subseteq Ids
  PROVE  /\ IsFiniteSet(W) /\ Cardinality(W) \in Nat /\ Cardinality(W) <= MaxLog
         /\ \A V : V \subseteq W => Cardinality(V) <= Cardinality(W)
<1>0. MaxLog \in Nat
  BY ConstantsAssumption
<1>1. IsFiniteSet(Ids) /\ Cardinality(Ids) = MaxLog
  BY <1>0, FS_Interval DEF Ids
<1>2. IsFiniteSet(W) /\ Cardinality(W) \in Nat
  BY <1>1, FS_Subset, FS_CardinalityType
<1> QED
  BY <1>1, <1>2, FS_Subset

\* A row is inserted where there is room.
LEMMA DenseStep ==
  ASSUME TypeInv, Dense(log), [Next]_vars
  PROVE  Dense(log')
<1>1. SUFFICES ASSUME NEW t \in Nat PROVE Cardinality(Close(log', t)) <= MaxDensity
  BY DEF Dense
<1>2. /\ Cardinality(Close(log, t)) <= MaxDensity /\ MaxDensity \in Nat
      /\ log \in [Ids -> [st : {"free", "inserted", "visible"}, ts : 0..MaxTime]]
  BY ConstantsAssumption DEF Dense, TypeInv, LogFits
<1>3. CASE UNCHANGED log
  BY <1>2, <1>3 DEF Close
<1>4. ASSUME NEW k \in Ids, CommitRow(k) PROVE Close(log', t) = Close(log, t)
  BY <1>2, <1>4 DEF CommitRow, Close
<1>5. ASSUME NEW k \in Ids, NEW u \in 1..now, InsertRow(k, u)
      PROVE  Cardinality(Close(log', t)) <= MaxDensity
  <2>1. now \in Nat
    BY DEF TypeInv, ClockFits
  <2>2. CASE u \in t..(t + 1)
    <3>1. Close(log, t) \subseteq Near(u)
      BY <2>1, <2>2, <1>2, ConstantsAssumption DEF Close, Near, Used
    <3>2. Near(u) \subseteq Ids /\ Close(log, t) \subseteq Ids
      BY DEF Near, Used, Close
    <3>3. Cardinality(Close(log, t)) <= Cardinality(Near(u)) /\ Cardinality(Near(u)) \in Nat
          /\ IsFiniteSet(Close(log, t)) /\ Cardinality(Close(log, t)) \in Nat
      BY <3>1, <3>2, RowCounts
    <3>4. Cardinality(Near(u)) < MaxDensity
      BY <1>5 DEF InsertRow
    <3>5. Close(log', t) \subseteq Close(log, t) \cup {k}
      BY <1>2, <1>5 DEF InsertRow, Close
    <3>6. Close(log, t) \cup {k} \subseteq Ids
      BY <3>2
    <3>7. Cardinality(Close(log', t)) <= Cardinality(Close(log, t) \cup {k})
      BY <3>5, <3>6, RowCounts
    <3>8. Cardinality(Close(log, t) \cup {k}) <= Cardinality(Close(log, t)) + 1
      <4> DEFINE S == Close(log, t)
      <4>1. IsFiniteSet(S) /\ Cardinality(S) \in Nat
        BY <3>3
      <4> HIDE DEF S
      <4>2. Cardinality(S \cup {k}) = IF k \in S THEN Cardinality(S) ELSE Cardinality(S) + 1
        BY <4>1, FS_AddElement
      <4>3. Cardinality(S \cup {k}) <= Cardinality(S) + 1
        BY <4>1, <4>2
      <4> QED
        BY <4>3 DEF S
    <3>9. Cardinality(Close(log', t)) \in Nat /\ Cardinality(Close(log, t) \cup {k}) \in Nat
      <4>1. Close(log', t) \subseteq Ids
        BY <3>5, <3>6
      <4> QED
        BY <4>1, <3>6, RowCounts
    <3> QED
      BY <3>3, <3>4, <3>7, <3>8, <3>9, <1>2
  <2>3. CASE u \notin t..(t + 1)
    <3>1. Close(log', t) = Close(log, t)
      BY <2>3, <1>2, <1>5 DEF InsertRow, Close, Used
    <3> QED
      BY <3>1, <1>2
  <2> QED
    BY <2>2, <2>3
<1>6. UNCHANGED log \/ Gateway
  BY DEF Next, Forward, Backfill, Operator, Faults, RunStart, RescanPage, MainPage,
         CommitBaseline, CommitRound, AbandonRound, SliceStart, NextWindow, BackfillPage,
         BackfillWrite, BackfillProgress, EndSlice, Associate, EnqueueBackfill,
         RequeueBackfill, EnqueueFails, BackfillError, Crash, PurgeOldUsageDetail, upstream, vars
<1> QED
  BY <1>2, <1>3, <1>4, <1>5, <1>6 DEF Gateway, Tick

\* A window of n seconds holds n times as many.
LEMMA WindowBound ==
  ASSUME NEW l \in [Ids -> [st : {"free", "inserted", "visible"}, ts : 0..MaxTime]], Dense(l),
         NEW from \in Nat
  PROVE  \A n \in Nat : Cardinality(Win(l, from, from + n - 1)) <= n * MaxDensity
<1> DEFINE C(n) == Cardinality(Win(l, from, from + n - 1))
           Bad == {n \in Nat : ~(C(n) <= n * MaxDensity)}
<1>0. MaxDensity \in Nat /\ MaxTime \in Nat
  BY ConstantsAssumption
<1>1. SUFFICES ASSUME Bad # {} PROVE FALSE
  BY <1>1
<1>2. PICK n \in Bad : \A m \in Bad : n <= m
  <2>1. Bad \subseteq Nat
    OBVIOUS
  <2> HIDE DEF Bad
  <2> QED
    BY <1>1, <2>1, LeastNat
<1>3. n # 0
  <2>1. Win(l, from, from + 0 - 1) = {}
    BY <1>0 DEF Win
  <2>2. C(0) = 0
    BY <2>1, FS_EmptySet
  <2>3. 0 * MaxDensity = 0
    BY <1>0
  <2> QED
    BY <2>2, <2>3, <1>2
<1>4. PICK m \in Nat : n = m + 1
  <2>1. n \in Nat /\ n - 1 \in Nat /\ n = (n - 1) + 1
    BY <1>2, <1>3
  <2> QED
    BY <2>1
<1>5. C(m) <= m * MaxDensity
  BY <1>2, <1>4
<1> DEFINE A == Win(l, from, from + m - 1)
           B == Close(l, from + m)
<1>6. A \subseteq Ids /\ B \subseteq Ids /\ A \cup B \subseteq Ids
  BY DEF Win, Close
<1>7. Win(l, from, from + n - 1) \subseteq A \cup B
  BY <1>0, <1>4 DEF Win, Close
<1>8. Cardinality(B) <= MaxDensity
  BY DEF Dense
<1> HIDE DEF A, B
<1>9. C(n) <= Cardinality(A \cup B)
  BY <1>6, <1>7, RowCounts
<1>10. /\ IsFiniteSet(A) /\ IsFiniteSet(B) /\ Cardinality(A) \in Nat /\ Cardinality(B) \in Nat
       /\ Cardinality(A \cup B) \in Nat
  BY <1>6, RowCounts
<1>11. Cardinality(A \cup B) <= Cardinality(A) + Cardinality(B)
  <2>1. /\ IsFiniteSet(A \cap B)
        /\ Cardinality(A \cup B) = Cardinality(A) + Cardinality(B) - Cardinality(A \cap B)
    BY <1>10, FS_Union, FS_Intersection
  <2>2. Cardinality(A \cap B) \in Nat
    BY <2>1, FS_CardinalityType
  <2> QED
    BY <2>1, <2>2, <1>10
<1>12. C(n) \in Nat
  <2>1. Win(l, from, from + n - 1) \subseteq Ids
    BY DEF Win
  <2> QED
    BY <2>1, RowCounts
<1>13. Cardinality(A) <= m * MaxDensity
  BY <1>5 DEF A
<1>14. n * MaxDensity = m * MaxDensity + MaxDensity /\ m * MaxDensity \in Nat
  BY <1>0, <1>4
<1>15. C(n) <= n * MaxDensity
  <2> HIDE DEF C
  <2> DEFINE X == m * MaxDensity
             Y == n * MaxDensity
  <2>1. X \in Nat /\ Y = X + MaxDensity /\ Cardinality(A) <= X
    BY <1>13, <1>14
  <2> HIDE DEF X, Y
  <2> QED
    BY <2>1, <1>8, <1>9, <1>10, <1>11, <1>12, <1>0 DEF Y
<1> QED
  BY <1>2, <1>15

\* The rescan window holds no more than its pages.
LEMMA RescanWindowFits ==
  ASSUME RescanFits, TypeInv, Dense(log), NEW r, r.since \in Nat
  PROVE  Cardinality(RescanWin(log, r)) <= RescanMaxPages * PageSize
<1>0. MaxLog \in Nat /\ Overlap \in Nat /\ MaxDensity \in Nat
      /\ RescanMaxPages * PageSize \in Nat
  BY ConstantsAssumption
<1>1. RescanWin(log, r) \subseteq Ids
  BY DEF RescanWin, Win
<1>2. Cardinality(RescanWin(log, r)) \in Nat /\ Cardinality(RescanWin(log, r)) <= MaxLog
  BY <1>1, RowCounts
<1>3. CASE MaxLog <= RescanMaxPages * PageSize
  BY <1>0, <1>2, <1>3
<1>4. CASE Overlap * MaxDensity <= RescanMaxPages * PageSize
  <2>1. PICK from \in Nat : /\ from = RescanFrom(r.since)
                            /\ r.since - 1 <= from + Overlap - 1
    <3>1. RescanFrom(r.since) \in Nat /\ r.since - 1 <= RescanFrom(r.since) + Overlap - 1
      BY <1>0 DEF RescanFrom, Greatest
    <3> QED
      BY <3>1
  <2>2. log \in [Ids -> [st : {"free", "inserted", "visible"}, ts : 0..MaxTime]]
    BY DEF TypeInv, LogFits
  <2> DEFINE W == Win(log, from, from + Overlap - 1)
  <2>3. Cardinality(W) <= Overlap * MaxDensity
    BY <1>0, <2>2, WindowBound
  <2>4. RescanWin(log, r) \subseteq W /\ W \subseteq Ids
    BY <1>0, <2>1, <2>2, ConstantsAssumption DEF RescanWin, Win
  <2> HIDE DEF W
  <2>5. Cardinality(RescanWin(log, r)) <= Cardinality(W) /\ Cardinality(W) \in Nat
    BY <2>4, RowCounts
  <2>6. Overlap * MaxDensity \in Nat
    BY <1>0
  <2> QED
    BY <2>3, <2>5, <2>6, <1>0, <1>2, <1>4
<1> QED
  BY <1>3, <1>4 DEF RescanFits

\* Pages cover what comes before the next page, and with the last page
\* everything, if it fits; a row that joins moves others to later pages only.
LEMMA PagesCover ==
  ASSUME NEW W, W \subseteq Ids, NEW p \in Nat \ {0}
  PROVE  /\ \A i \in W : Before(W, p + 1, i) => Before(W, p, i) \/ i \in Page(W, p)
         /\ \A max \in Nat : (Cardinality(W) <= max * PageSize /\ LastPage(W, p, max)) =>
              \A i \in W : Before(W, p + 1, i)
         /\ \A V, i : V \subseteq W /\ Before(W, p, i) => Before(V, p, i)
<1>0. PageSize \in Nat \ {0} /\ p * PageSize \in Nat /\ (p - 1) * PageSize \in Nat
      /\ (p + 1) - 1 = p
  BY ConstantsAssumption
<1>1. ASSUME NEW i PROVE /\ Cardinality({j \in W : j >= i}) \in Nat
                         /\ Cardinality({j \in W : j >= i}) <= Cardinality(W)
                         /\ \A V : V \subseteq W =>
                              /\ Cardinality({j \in V : j >= i}) <= Cardinality({j \in W : j >= i})
                              /\ Cardinality({j \in V : j >= i}) \in Nat
  <2>1. {j \in W : j >= i} \subseteq W /\ {j \in W : j >= i} \subseteq Ids
    OBVIOUS
  <2>2. ASSUME NEW V, V \subseteq W
        PROVE  {j \in V : j >= i} \subseteq {j \in W : j >= i} /\ {j \in V : j >= i} \subseteq Ids
    BY <2>2
  <2> QED
    BY <2>1, <2>2, RowCounts
<1>2. Cardinality(W) \in Nat
  BY RowCounts
<1>3. ASSUME NEW i \in W, Before(W, p + 1, i), ~Before(W, p, i) PROVE i \in Page(W, p)
  <2>1. Cardinality({j \in W : j >= i}) <= p * PageSize
    BY <1>0, <1>3 DEF Before
  <2>2. Cardinality({j \in W : j >= i}) > (p - 1) * PageSize
    BY <1>0, <1>1, <1>3 DEF Before
  <2>3. Cardinality({j \in W : j >= i}) \in ((p - 1) * PageSize + 1)..(p * PageSize)
    <3> DEFINE X == Cardinality({j \in W : j >= i})
               A == (p - 1) * PageSize
               B == p * PageSize
    <3>1. X \in Nat /\ A \in Nat /\ B \in Nat /\ X <= B /\ X > A
      BY <2>1, <2>2, <1>0, <1>1
    <3> HIDE DEF X, A, B
    <3>2. X \in (A + 1)..B
      BY <3>1
    <3> QED
      BY <3>2 DEF X, A, B
  <2> QED
    BY <2>3 DEF Page
<1>4. ASSUME NEW max \in Nat, Cardinality(W) <= max * PageSize, LastPage(W, p, max), NEW i \in W
      PROVE  Before(W, p + 1, i)
  <2>1. Cardinality(W) <= p * PageSize
    BY <1>0, <1>2, <1>4 DEF LastPage
  <2>2. Cardinality({j \in W : j >= i}) <= p * PageSize
    <3> DEFINE X == Cardinality({j \in W : j >= i})
               B == p * PageSize
    <3>1. X \in Nat /\ B \in Nat /\ X <= Cardinality(W) /\ Cardinality(W) <= B
      BY <2>1, <1>0, <1>1
    <3> HIDE DEF X, B
    <3>2. X <= B
      BY <3>1, <1>2
    <3> QED
      BY <3>2 DEF X, B
  <2> QED
    BY <2>2, <1>0 DEF Before
<1>5. ASSUME NEW V, NEW i, V \subseteq W, Before(W, p, i) PROVE Before(V, p, i)
  <2> DEFINE X == Cardinality({j \in W : j >= i})
             Y == Cardinality({j \in V : j >= i})
             A == (p - 1) * PageSize
  <2>1. X \in Nat /\ Y \in Nat /\ A \in Nat /\ Y <= X /\ X <= A
    BY <1>0, <1>1, <1>5 DEF Before
  <2> HIDE DEF X, Y, A
  <2>2. Y <= A
    BY <2>1
  <2> QED
    BY <2>2 DEF Y, A, Before
<1> QED
  BY <1>3, <1>4, <1>5

\* What steps do to the jobs.
LEMMA JobShape ==
  ASSUME TypeInv
  PROVE  /\ SliceStart => \E o \in Orgs :
              /\ job[o].status \in {"pending", "running"}
              /\ bf'.ph = "next" /\ bf'.org = o /\ bf'.hi = job[o].cts
              /\ job'[o].status = "running" /\ job'[o].cts = job[o].cts
              /\ job'[o].bts = job[o].bts /\ job'[o].bid = job[o].bid
              /\ \A p \in Orgs : p # o => job'[p] = job[p]
         /\ EndSlice =>
              /\ bf' = NoSlice
              /\ \A p \in Orgs :
                   /\ job'[p].cts = job[p].cts /\ job'[p].bts = job[p].bts /\ job'[p].bid = job[p].bid
                   /\ \/ job'[p].status = job[p].status
                      \/ p = bf.org /\ bf.hi <= 0 /\ job'[p].status = "done"
         /\ BackfillProgress =>
              /\ job'[bf.org].cts = bf.lo - 1 /\ job'[bf.org].status = job[bf.org].status
              /\ job'[bf.org].bts = job[bf.org].bts /\ job'[bf.org].bid = job[bf.org].bid
              /\ \A p \in Orgs : p # bf.org => job'[p] = job[p]
         /\ \A o \in Orgs : RequeueBackfill(o) =>
              /\ job[o].status \notin {"none", "running"}
              /\ job'[o].status = "pending" /\ job'[o].cts = job[o].bts
              /\ job'[o].bts = job[o].bts /\ job'[o].bid = job[o].bid
              /\ \A p \in Orgs : p # o => job'[p] = job[p]
         /\ \A o \in Orgs : EnqueueBackfill(o) =>
              /\ job'[o].status = "pending" /\ job'[o].cts = cursor.ts
              /\ job'[o].bts = cursor.ts /\ job'[o].bid = cursor.id
              /\ \A p \in Orgs : p # o => job'[p] = job[p]
<1>0. DOMAIN job = Orgs /\ \A o \in Orgs : DOMAIN job[o] = JobFields
  BY CursorNumbers
<1>1. ASSUME SliceStart
      PROVE  \E o \in Orgs :
              /\ job[o].status \in {"pending", "running"}
              /\ bf'.ph = "next" /\ bf'.org = o /\ bf'.hi = job[o].cts
              /\ job'[o].status = "running" /\ job'[o].cts = job[o].cts
              /\ job'[o].bts = job[o].bts /\ job'[o].bid = job[o].bid
              /\ \A p \in Orgs : p # o => job'[p] = job[p]
  <2>1. PICK o \in NextBackfillJob :
             /\ job' = [job EXCEPT ![o].status = "running"]
             /\ bf' = [NoSlice EXCEPT !.ph = "next", !.org = o, !.hi = job[o].cts]
    BY <1>1 DEF SliceStart
  <2>2. o \in Orgs /\ job[o].status \in {"pending", "running"}
    BY <2>1 DEF NextBackfillJob
  <2>3. bf'.ph = "next" /\ bf'.org = o /\ bf'.hi = job[o].cts
    BY <2>1 DEF NoSlice
  <2>4. /\ job'[o].status = "running" /\ job'[o].cts = job[o].cts
        /\ job'[o].bts = job[o].bts /\ job'[o].bid = job[o].bid
        /\ \A p \in Orgs : p # o => job'[p] = job[p]
    BY <1>0, <2>1, <2>2 DEF JobFields
  <2> QED
    BY <2>2, <2>3, <2>4
<1>2. ASSUME EndSlice
      PROVE  /\ bf' = NoSlice
             /\ \A p \in Orgs :
                   /\ job'[p].cts = job[p].cts /\ job'[p].bts = job[p].bts /\ job'[p].bid = job[p].bid
                   /\ \/ job'[p].status = job[p].status
                      \/ p = bf.org /\ bf.hi <= 0 /\ job'[p].status = "done"
  <2>1. bf.org \in Orgs
    BY <1>2 DEF EndSlice, TypeInv, SliceFits
  <2> QED
    BY <1>0, <1>2, <2>1 DEF EndSlice, JobFields
<1>3. ASSUME BackfillProgress
      PROVE  /\ job'[bf.org].cts = bf.lo - 1 /\ job'[bf.org].status = job[bf.org].status
             /\ job'[bf.org].bts = job[bf.org].bts /\ job'[bf.org].bid = job[bf.org].bid
             /\ \A p \in Orgs : p # bf.org => job'[p] = job[p]
  <2>1. bf.org \in Orgs
    BY <1>3 DEF BackfillProgress, TypeInv, SliceFits
  <2> QED
    BY <1>0, <1>3, <2>1 DEF BackfillProgress, UpdateBackfillProgress, JobFields
<1>4. ASSUME NEW o \in Orgs, RequeueBackfill(o)
      PROVE  /\ job[o].status \notin {"none", "running"}
             /\ job'[o].status = "pending" /\ job'[o].cts = job[o].bts
             /\ job'[o].bts = job[o].bts /\ job'[o].bid = job[o].bid
             /\ \A p \in Orgs : p # o => job'[p] = job[p]
  BY <1>0, <1>4 DEF RequeueBackfill, RequeueBackfillJob, JobFields
<1>5. ASSUME NEW o \in Orgs, EnqueueBackfill(o)
      PROVE  /\ job'[o].status = "pending" /\ job'[o].cts = cursor.ts
             /\ job'[o].bts = cursor.ts /\ job'[o].bid = cursor.id
             /\ \A p \in Orgs : p # o => job'[p] = job[p]
  BY <1>0, <1>5 DEF EnqueueBackfill
<1> QED
  BY <1>1, <1>2, <1>3, <1>4, <1>5

\* A round moves the cursor by MaxGap at most;
Ranges ==
  \A c \in Callers : rd[c].ph \in {"rescan", "main", "commit"} =>
    rd[c].since < rd[c].sub /\ rd[c].sub <= rd[c].since + MaxGap

\* an organisation with a job is linked, has a boundary, and its job is done
\* when everything was read;
Linked ==
  /\ PlatformOrgs \subseteq linked
  /\ \A o \in Orgs : /\ enq[o] \in {"associated", "queued"} => o \in linked
                     /\ job[o].status # "none" => cursor.ts > 0
                     /\ job[o].status = "done" => job[o].cts <= 0

\* a slice works at the cursor of its job;
SliceRuns == bf.ph # "idle" => job[bf.org].status = "running" /\ bf.hi = job[bf.org].cts

\* and detail rows are of rows in the ledger.
Recorded == \A i \in detail : ledger[i] > 0

SideInv == LogTimed /\ Followed /\ Ranges /\ Linked /\ SliceRuns /\ Recorded /\ Dense(log)

\* The clock and the log are the gateway's.
LEMMA LogTimedStep == ASSUME TypeInv, LogTimed, [Next]_vars PROVE LogTimed'
<1>1. UNCHANGED <<now, log>> \/ Gateway
  BY DEF Next, Forward, Backfill, Operator, Faults, RunStart, RescanPage, MainPage,
         CommitBaseline, CommitRound, AbandonRound, SliceStart, NextWindow, BackfillPage,
         BackfillWrite, BackfillProgress, EndSlice, Associate, EnqueueBackfill,
         RequeueBackfill, EnqueueFails, BackfillError, Crash, PurgeOldUsageDetail, upstream, vars
<1>2. CASE UNCHANGED <<now, log>>
  BY <1>2 DEF LogTimed
<1> QED
  BY <1>1, <1>2, LogStep

\* A call of one caller goes on or ends.
LEMMA RangesStep ==
  ASSUME BooksInv, TypeInv, Followed, Ranges, [Next]_vars
  PROVE  Ranges'
<1> DEFINE In(r) == r.ph \in {"rescan", "main", "commit"} =>
                      r.since < r.sub /\ r.sub <= r.since + MaxGap
<1>0. In(NoRound) /\ \A c \in Callers : In(rd[c])
  BY DEF NoRound, Ranges
<1>1. ASSUME NEW c \in Callers, Forward(c) \/ AbandonRound(c) PROVE Ranges'
  <2>2. rd[c].max \in 0..MaxLog
    BY DEF TypeInv, RoundsFit, RoundFits
  <2>3. \A d \in Callers : d # c => rd'[d] = rd[d]
    BY <1>1, <2>2, StartShape, RescanShape, MainShape, LeaveShape
       DEF AbandonRound, Leave, Forward, CommitBaseline, CommitRound
  <2>4. In(rd'[c])
    <3>1. CASE RunStart(c)
      <4>1. CASE cursor.ts = 0
        BY <3>1, <4>1, StartShape
      <4>2. CASE cursor.ts # 0
        <5>1. cursor.ts < now - Lag /\ cursor.ts \in Int /\ now - Lag \in Int
          BY <3>1, <4>2, CursorNumbers DEF RunStart
        <5>2. UntilSub(cursor.ts, now - Lag) \in (cursor.ts + 1)..(now - Lag)
          BY <5>1, UntilSubAhead, Zenon
        <5>3. rd'[c].sub \in (cursor.ts + 1)..(now - Lag) /\ rd'[c].since = cursor.ts
          BY <3>1, <4>2, <5>2, StartShape
        <5>4. now <= cursor.ts + Lag + MaxGap
          BY <4>2, CursorNumbers DEF Followed
        <5> QED
          BY <5>1, <5>3, <5>4, CursorNumbers
      <4> QED
        BY <4>1, <4>2
    <3>2. CASE RescanPage(c) \/ MainPage(c)
      <4>1. rd'[c].since = rd[c].since /\ rd'[c].sub = rd[c].sub
        BY <2>2, <3>2, RescanShape, MainShape
      <4>2. rd[c].ph \in {"rescan", "main", "commit"}
        BY <3>2 DEF RescanPage, MainPage
      <4> QED
        BY <1>0, <4>1, <4>2
    <3>3. CASE AbandonRound(c) \/ CommitBaseline(c) \/ CommitRound(c)
      BY <1>0, <3>3, LeaveShape DEF AbandonRound, Leave, CommitBaseline, CommitRound
    <3> QED
      BY <1>1, <3>1, <3>2, <3>3 DEF Forward
  <2> QED
    BY <1>0, <2>3, <2>4 DEF Ranges
<1>2. ASSUME NEW n \in Nodes, Crash(n) PROVE Ranges'
  <2>1. \A c \in Callers : rd'[c] = IF NodeOf[c] = n THEN NoRound ELSE rd[c]
    BY <1>2 DEF Crash
  <2> QED
    BY <1>0, <2>1 DEF Ranges
<1>3. CASE UNCHANGED rd
  BY <1>3 DEF Ranges
<1>4. \/ UNCHANGED rd \/ \E c \in Callers : Forward(c) \/ AbandonRound(c)
      \/ \E n \in Nodes : Crash(n)
  BY DEF Next, Gateway, Tick, CommitRow, InsertRow, Backfill, Operator, Faults, SliceStart,
         NextWindow, BackfillPage, BackfillWrite, BackfillProgress, EndSlice, Associate,
         EnqueueBackfill, RequeueBackfill, EnqueueFails, BackfillError, PurgeOldUsageDetail, vars
<1> QED
  BY <1>1, <1>2, <1>3, <1>4

\* Ledger rows stay, and detail rows come with them.
LEMMA RecordedStep ==
  ASSUME BooksInv, Recorded, [Next]_vars
  PROVE  /\ Recorded'
         /\ \A i \in Ids : ledger[i] > 0 => ledger'[i] > 0
<1>0. detail \subseteq Ids /\ ledger \in BagType
  BY DEF BooksInv, Tables
<1>1. ASSUME NEW b \in BagType, CommitUsageOnly(b)
      PROVE  Recorded' /\ \A i \in Ids : ledger[i] > 0 => ledger'[i] > 0
  <2>1. \A i \in Ids : /\ ledger'[i] = ledger[i] + b[i]
                       /\ i \in Support(b) => b[i] > 0
                       /\ b[i] \in Nat /\ ledger[i] \in Nat
    BY <1>0, <1>1, BagLaws DEF CommitUsageOnly, AddToLedgerBucketTx, BagType
  <2>2. detail' = detail \cup Support(b) /\ Support(b) \subseteq Ids
    BY <1>1 DEF CommitUsageOnly, InsertUsageDetailTx, Support
  <2> QED
    BY <1>0, <2>1, <2>2 DEF Recorded
<1>2. ASSUME NEW c \in Callers, CommitRound(c)
      PROVE  rd[c].acc \in BagType /\ CommitUsageOnly(rd[c].acc)
  BY <1>2 DEF CommitRound, BooksInv, Reading, RoundOK
<1>3. ASSUME BackfillWrite
      PROVE  Unrecorded(bf.keep) \in BagType /\ CommitUsageOnly(Unrecorded(bf.keep))
  BY <1>3, BagLaws DEF BackfillWrite, BooksInv, Reading, SliceOK, Unrecorded
<1>4. ASSUME UNCHANGED ledger, detail' \subseteq detail
      PROVE  Recorded' /\ \A i \in Ids : ledger[i] > 0 => ledger'[i] > 0
  BY <1>4 DEF Recorded
<1>5. \/ \E c \in Callers : CommitRound(c)
      \/ BackfillWrite
      \/ UNCHANGED ledger /\ detail' \subseteq detail
  BY DEF Next, Forward, Gateway, Tick, CommitRow, InsertRow, Backfill, Operator, Faults, RunStart,
         RescanPage, MainPage, CommitBaseline, AbandonRound, SliceStart,
         NextWindow, BackfillPage, BackfillProgress, EndSlice, Associate,
         EnqueueBackfill, RequeueBackfill, EnqueueFails, BackfillError, Crash,
         PurgeOldUsageDetail, PurgeUsageDetailBefore, store, vars
<1>6. CASE \E c \in Callers : CommitRound(c)
  BY <1>1, <1>2, <1>6
<1>7. CASE BackfillWrite
  BY <1>1, <1>3, <1>7
<1> QED
  BY <1>4, <1>5, <1>6, <1>7

\* Organisations are linked before they have a job.
LEMMA LinkedStep ==
  ASSUME BooksInv, TypeInv, Followed, Linked, SliceRuns, [Next]_vars
  PROVE  Linked'
<1>0. /\ DOMAIN enq = Orgs /\ PlatformOrgs \subseteq linked /\ cursor.ts \in Nat
      /\ \A o \in Orgs : /\ enq[o] \in {"associated", "queued"} => o \in linked
                         /\ job[o].status # "none" => cursor.ts > 0
                         /\ job[o].status = "done" => job[o].cts <= 0
  BY CursorNumbers DEF Linked
<1>1. ASSUME NEW c \in Callers, Forward(c) PROVE Linked'
  <2>1. UNCHANGED <<linked, enq, job>>
    BY <1>1 DEF Forward, RunStart, RescanPage, MainPage, CommitBaseline, CommitRound, store
  <2>2. cursor'.ts >= cursor.ts /\ cursor'.ts \in Nat
    <3>1. CASE CommitBaseline(c) \/ CommitRound(c)
      BY <3>1, CursorMoves
    <3>2. CASE RunStart(c) \/ RescanPage(c) \/ MainPage(c)
      BY <1>0, <3>2 DEF RunStart, RescanPage, MainPage, store
    <3> QED
      BY <1>1, <3>1, <3>2 DEF Forward
  <2>3. cursor.ts > 0 => cursor'.ts > 0
    BY <1>0, <2>2
  <2> QED
    BY <1>0, <2>1, <2>3 DEF Linked
<1>2. ASSUME UNCHANGED <<linked, cursor>>,
             \A o \in Orgs : /\ enq'[o] \in {enq[o], "failed"}
                             /\ job[o].status = "none" => job'[o].status = "none"
                             /\ job'[o].status = "done" => job'[o].cts <= 0
      PROVE  Linked'
  BY <1>0, <1>2 DEF Linked
<1>3. CASE SliceStart
  <2>1. UNCHANGED <<linked, cursor, enq>>
    BY <1>3 DEF SliceStart
  <2>2. PICK p \in Orgs : /\ job[p].status \in {"pending", "running"}
                          /\ job'[p].status = "running"
                          /\ \A o \in Orgs : o # p => job'[o] = job[o]
    BY <1>3, JobShape
  <2>3. \A o \in Orgs : /\ job[o].status = "none" => job'[o].status = "none"
                        /\ job'[o].status = "done" => job'[o].cts <= 0
    BY <1>0, <2>2
  <2> QED
    BY <1>2, <2>1, <2>3
<1>4. CASE EndSlice
  <2>1. UNCHANGED <<linked, cursor, enq>>
    BY <1>4 DEF EndSlice
  <2>2. /\ bf.hi = job[bf.org].cts /\ job[bf.org].status = "running"
        /\ \A p \in Orgs : /\ job'[p].cts = job[p].cts
                           /\ \/ job'[p].status = job[p].status
                              \/ p = bf.org /\ bf.hi <= 0 /\ job'[p].status = "done"
    BY <1>4, JobShape DEF EndSlice, SliceRuns
  <2>3. \A o \in Orgs : /\ job[o].status = "none" => job'[o].status = "none"
                        /\ job'[o].status = "done" => job'[o].cts <= 0
    BY <1>0, <2>2
  <2> QED
    BY <1>2, <2>1, <2>3
<1>5. CASE BackfillProgress
  <2>1. UNCHANGED <<linked, cursor, enq>>
    BY <1>5 DEF BackfillProgress
  <2>2. /\ job'[bf.org].status = "running" /\ job[bf.org].status = "running"
        /\ \A p \in Orgs : p # bf.org => job'[p] = job[p]
    BY <1>5, JobShape DEF BackfillProgress, SliceRuns
  <2>3. \A o \in Orgs : /\ job[o].status = "none" => job'[o].status = "none"
                        /\ job'[o].status = "done" => job'[o].cts <= 0
    BY <1>0, <2>2
  <2> QED
    BY <1>2, <2>1, <2>3
<1>6. ASSUME NEW o \in Orgs, RequeueBackfill(o) PROVE Linked'
  <2>1. UNCHANGED <<linked, cursor, enq>>
    BY <1>6 DEF RequeueBackfill
  <2>2. /\ job'[o].status = "pending" /\ job[o].status # "none"
        /\ \A p \in Orgs : p # o => job'[p] = job[p]
    BY <1>6, JobShape
  <2>3. \A p \in Orgs : /\ job[p].status = "none" => job'[p].status = "none"
                        /\ job'[p].status = "done" => job'[p].cts <= 0
    BY <1>0, <2>2
  <2> QED
    BY <1>2, <2>1, <2>3
<1>7. ASSUME NEW o \in Orgs, EnqueueBackfill(o) PROVE Linked'
  <2>1. /\ UNCHANGED <<linked, cursor>> /\ enq[o] = "associated" /\ cursor.ts > 0
        /\ enq' = [enq EXCEPT ![o] = "queued"]
    BY <1>7 DEF EnqueueBackfill
  <2>2. /\ job'[o].status = "pending" /\ \A p \in Orgs : p # o => job'[p] = job[p]
    BY <1>7, JobShape
  <2>3. \A p \in Orgs : enq'[p] \in {"associated", "queued"} => p \in linked
    BY <1>0, <2>1
  <2>4. \A p \in Orgs : job'[p].status = "done" => job'[p].cts <= 0
    BY <1>0, <2>2
  <2> QED
    BY <1>0, <2>1, <2>3, <2>4 DEF Linked
<1>8. ASSUME NEW o \in Orgs, Associate(o) PROVE Linked'
  <2>1. /\ UNCHANGED <<job, cursor>> /\ linked' = linked \cup {o}
        /\ enq' = [enq EXCEPT ![o] = "associated"]
    BY <1>8 DEF Associate
  <2>2. \A p \in Orgs : enq'[p] \in {"associated", "queued"} => p \in linked'
    BY <1>0, <2>1
  <2> QED
    BY <1>0, <2>1, <2>2 DEF Linked
<1>9. ASSUME NEW o \in Orgs, EnqueueFails(o) PROVE Linked'
  <2>1. UNCHANGED <<job, cursor, linked>> /\ enq' = [enq EXCEPT ![o] = "failed"]
    BY <1>9 DEF EnqueueFails, store
  <2>2. \A p \in Orgs : enq'[p] \in {enq[p], "failed"}
    BY <1>0, <2>1
  <2> QED
    BY <1>0, <1>2, <2>1, <2>2
<1>10. ASSUME NEW n \in Nodes, Crash(n) PROVE Linked'
  <2>1. UNCHANGED <<job, cursor, linked>> /\ \A p \in Orgs : enq'[p] \in {enq[p], "failed"}
    BY <1>10 DEF Crash, store
  <2> QED
    BY <1>0, <1>2, <2>1
<1>11. CASE UNCHANGED <<linked, cursor, enq, job>>
  BY <1>11 DEF Linked
<1>12. \/ UNCHANGED <<linked, cursor, enq, job>> \/ SliceStart \/ EndSlice \/ BackfillProgress
       \/ \E c \in Callers : Forward(c)
       \/ \E o \in Orgs : RequeueBackfill(o) \/ EnqueueBackfill(o) \/ Associate(o) \/ EnqueueFails(o)
       \/ \E n \in Nodes : Crash(n)
  BY DEF Next, Gateway, Tick, CommitRow, InsertRow, Backfill, Operator, Faults, AbandonRound,
         NextWindow, BackfillPage, BackfillWrite, BackfillError, PurgeOldUsageDetail, store, vars
<1> QED
  BY <1>1, <1>3, <1>4, <1>5, <1>6, <1>7, <1>8, <1>9, <1>10, <1>11, <1>12

\* Slices run one at a time, and a running job is not queued again.
LEMMA SliceRunsStep ==
  ASSUME BooksInv, TypeInv, SliceRuns, [Next]_vars
  PROVE  SliceRuns'
<1>0. NoSlice.ph = "idle"
  BY DEF NoSlice
<1>1. CASE SliceStart
  BY <1>1, JobShape DEF SliceRuns
<1>2. CASE bf' = NoSlice
  BY <1>0, <1>2 DEF SliceRuns
<1>3. CASE NextWindow \/ BackfillPage \/ BackfillWrite
  <2>1. UNCHANGED job /\ bf'.org = bf.org /\ bf'.hi = bf.hi
    BY <1>3, SliceShape DEF NextWindow, BackfillPage, BackfillWrite, store
  <2>2. bf.ph # "idle"
    BY <1>3 DEF NextWindow, BackfillPage, BackfillWrite
  <2> QED
    BY <2>1, <2>2 DEF SliceRuns
<1>4. CASE BackfillProgress
  <2>1. job[bf.org].status = "running"
    BY <1>4 DEF SliceRuns, BackfillProgress
  <2>2. bf'.org = bf.org /\ bf'.hi = bf.lo - 1
    BY <1>4, SliceShape
  <2> QED
    BY <1>4, <2>1, <2>2, JobShape DEF SliceRuns
<1>5. ASSUME NEW o \in Orgs, RequeueBackfill(o) \/ EnqueueBackfill(o), UNCHANGED bf PROVE SliceRuns'
  <2>1. CASE bf.ph = "idle"
    BY <1>5, <2>1 DEF SliceRuns
  <2>2. CASE bf.ph # "idle"
    <3>1. bf.org \in Orgs /\ job[bf.org].status = "running"
      BY <2>2 DEF SliceRuns, TypeInv, SliceFits
    <3>2. o # bf.org
      BY <1>5, <3>1, JobShape DEF EnqueueBackfill, TypeInv, JobsFit
    <3>3. job'[bf.org] = job[bf.org]
      BY <1>5, <3>1, <3>2, JobShape
    <3> QED
      BY <1>5, <2>2, <3>3 DEF SliceRuns
  <2> QED
    BY <2>1, <2>2
<1>6. CASE UNCHANGED <<bf, job>>
  BY <1>6 DEF SliceRuns
<1>7. \/ UNCHANGED <<bf, job>> \/ SliceStart \/ bf' = NoSlice
      \/ NextWindow \/ BackfillPage \/ BackfillWrite \/ BackfillProgress
      \/ \E o \in Orgs : (RequeueBackfill(o) \/ EnqueueBackfill(o)) /\ UNCHANGED bf
  BY DEF Next, Gateway, Tick, CommitRow, InsertRow, Backfill, Operator, Faults, AbandonRound,
         Forward, RunStart, RescanPage, MainPage, CommitBaseline, CommitRound, EndSlice,
         BackfillError, PurgeOldUsageDetail, Associate, EnqueueFails, Crash, RequeueBackfill,
         EnqueueBackfill, store, vars
<1> QED
  BY <1>1, <1>2, <1>3, <1>4, <1>5, <1>6, <1>7

\* The sides hold together.
LEMMA SideStep ==
  ASSUME BooksInv, TypeInv, SideInv, [Next]_vars
  PROVE  SideInv'
<1>1. LogTimed /\ Followed /\ Ranges /\ Linked /\ SliceRuns /\ Recorded /\ Dense(log)
  BY DEF SideInv
<1>2. LogTimed' /\ Followed' /\ Ranges' /\ Linked' /\ SliceRuns' /\ Recorded' /\ Dense(log')
  BY <1>1, LogTimedStep, FollowedStep, RangesStep, LinkedStep, SliceRunsStep, RecordedStep, DenseStep
<1> QED
  BY <1>2 DEF SideInv

\* Row i of log l is in the rescan window of round r, and out of reach for the
\* rescan that follows r.
Leaves(i, r, l) ==
  /\ l[i].st = "visible" /\ l[i].ts >= r.since - Overlap /\ l[i].ts < r.since
  /\ l[i].ts < r.sub - Overlap

\* The pages of the rescan so far hold every such row.
Scanned(r, l) ==
  \A i \in Ids \ ZeroQuota :
    Leaves(i, r, l) /\ Before(RescanWin(l, r), r.page, i) => r.acc[i] > 0

Scans == \A c \in Callers : rd[c].ph = "rescan" => Scanned(rd[c], log)

\* Such a row is in the rescan window.
LEMMA LeavesInWindow ==
  ASSUME NEW l, NEW r, r.since \in Nat, NEW i \in Ids, l[i].ts \in Nat, Leaves(i, r, l)
  PROVE  i \in RescanWin(l, r)
<1>0. Overlap \in Nat
  BY ConstantsAssumption
<1>1. RescanFrom(r.since) \in Nat /\ l[i].ts >= RescanFrom(r.since) /\ l[i].ts <= r.since - 1
  BY <1>0 DEF RescanFrom, Greatest, Leaves
<1> QED
  BY <1>1 DEF RescanWin, Win, Leaves

\* It was visible when the round began: a row that joins the log is younger.
LEMMA LeavesBefore ==
  ASSUME DelayCovered, NEW t \in Nat, NEW r, RoundFits(r, t), NEW l, NEW m, NEW k, Joins(l, m, k),
         l[k].ts \in Nat, t <= l[k].ts + MaxDelay, NEW i \in Ids, Leaves(i, r, m)
  PROVE  i # k /\ Leaves(i, r, l)
<1>0. MaxDelay \in Nat /\ Lag \in Nat /\ Overlap \in Nat /\ MaxDelay <= Lag + Overlap
  BY ConstantsAssumption DEF DelayCovered
<1>1. r.sub \in Nat /\ r.sub <= t - Lag
  BY <1>0 DEF RoundFits
<1>2. m[i].ts = l[i].ts /\ (m[i].st = "visible" <=> l[i].st = "visible" \/ i = k)
  BY DEF Joins
<1>3. ~(l[k].ts < r.sub - Overlap)
  BY <1>0, <1>1
<1> QED
  BY <1>2, <1>3 DEF Leaves

\* What joins the log moves rows to later pages.
LEMMA ScannedJoins ==
  ASSUME DelayCovered, NEW t \in Nat, NEW r, RoundFits(r, t), NEW l, NEW m, NEW k, Joins(l, m, k),
         l[k].ts \in Nat, t <= l[k].ts + MaxDelay, Scanned(r, l)
  PROVE  Scanned(r, m)
<1> SUFFICES ASSUME NEW i \in Ids \ ZeroQuota, Leaves(i, r, m), Before(RescanWin(m, r), r.page, i)
             PROVE  r.acc[i] > 0
  BY DEF Scanned
<1>1. Leaves(i, r, l)
  BY LeavesBefore
<1>2. RescanWin(l, r) \subseteq RescanWin(m, r) /\ RescanWin(m, r) \subseteq Ids
  BY WinJoins DEF RescanWin, Win
<1>3. r.page \in Nat \ {0}
  BY DEF RoundFits
<1>4. Before(RescanWin(l, r), r.page, i)
  BY <1>2, <1>3, PagesCover
<1> QED
  BY <1>1, <1>4 DEF Scanned

\* A page adds its rows.
LEMMA ScannedPage ==
  ASSUME BooksInv, TypeInv, Scans, NEW c \in Callers, RescanPage(c),
         NEW i \in Ids \ ZeroQuota, Leaves(i, rd[c], log),
         Before(RescanWin(log, rd[c]), rd[c].page + 1, i)
  PROVE  Rescanned(rd[c])[i] > 0
<1>0. /\ rd[c].acc \in BagType /\ rd[c].ph = "rescan" /\ rd[c].page \in Nat \ {0}
      /\ rd[c].since \in Nat /\ log[i].ts \in Nat
  BY CursorNumbers DEF BooksInv, Reading, RoundOK, RescanPage, TypeInv, RoundsFit, RoundFits
<1> DEFINE W == RescanWin(log, rd[c])
           b == BagOf(Positive(Page(RescanWindow(rd[c]), rd[c].page)))
<1>1. W \subseteq Ids /\ RescanWindow(rd[c]) = W
  BY WindowsAre DEF RescanWin, Win
<1>2. i \in W
  BY <1>0, LeavesInWindow
<1>3. Before(W, rd[c].page, i) \/ i \in Page(W, rd[c].page)
  <2> HIDE DEF W
  <2> QED
    BY <1>0, <1>1, <1>2, PagesCover DEF W
<1>4. rd[c].acc[i] > 0 \/ b[i] = 1
  <2>1. CASE Before(W, rd[c].page, i)
    BY <1>0, <2>1 DEF Scans, Scanned
  <2>2. CASE i \in Page(W, rd[c].page)
    BY <1>1, <2>2 DEF BagOf, Positive
  <2> QED
    BY <1>3, <2>1, <2>2
<1>5. b \in BagType
  BY BagLaws
<1>6. Rescanned(rd[c])[i] = rd[c].acc[i] + b[i]
  <2> HIDE DEF b
  <2>1. Plus(rd[c].acc, b)[i] = rd[c].acc[i] + b[i]
    BY <1>0, <1>5, BagLaws
  <2> QED
    BY <2>1 DEF Rescanned, b
<1>7. rd[c].acc[i] \in Nat /\ b[i] \in Nat
  BY <1>0, <1>5 DEF BagType
<1> HIDE DEF b
<1> QED
  BY <1>4, <1>6, <1>7

\* At its end the rescan has every row that leaves its reach.
LEMMA ScannedAll ==
  ASSUME RescanFits, BooksInv, TypeInv, Dense(log), Scans, NEW c \in Callers, RescanPage(c),
         LastPage(RescanWindow(rd[c]), rd[c].page, RescanMaxPages),
         NEW i \in Ids \ ZeroQuota, Leaves(i, rd[c], log)
  PROVE  Rescanned(rd[c])[i] > 0
<1>0. rd[c].page \in Nat \ {0} /\ rd[c].since \in Nat /\ log[i].ts \in Nat
      /\ RescanMaxPages \in Nat
  BY CursorNumbers, ConstantsAssumption DEF TypeInv, RoundsFit, RoundFits
<1> DEFINE W == RescanWin(log, rd[c])
<1>1. W \subseteq Ids /\ RescanWindow(rd[c]) = W
  BY WindowsAre DEF RescanWin, Win
<1>2. i \in W
  BY <1>0, LeavesInWindow
<1>3. Cardinality(W) <= RescanMaxPages * PageSize
  BY <1>0, RescanWindowFits
<1>4. Before(W, rd[c].page + 1, i)
  <2> HIDE DEF W
  <2> QED
    BY <1>0, <1>1, <1>2, <1>3, PagesCover
<1> QED
  BY <1>4, ScannedPage

\* Rescans in progress keep what they have read.
LEMMA ScansStep ==
  ASSUME DelayCovered, BooksInv, TypeInv, LogTimed, Scans, [Next]_vars
  PROVE  Scans'
<1>0. /\ \A c \in Callers : RoundFits(rd[c], now) /\ rd[c].max \in 0..MaxLog /\ rd[c].since \in Nat
      /\ now \in Nat /\ NoRound.ph = "idle" /\ \A i \in Ids : log[i].ts \in Nat
  BY CursorNumbers DEF TypeInv, RoundsFit, RoundFits, NoRound
<1>1. CASE Gateway
  <2>1. UNCHANGED rd
    BY <1>1 DEF Gateway, Tick, CommitRow, InsertRow
  <2>2. CASE SameVisible(log, log')
    <3>1. \A from, to : Win(log', from, to) = Win(log, from, to)
      BY <2>2 DEF SameVisible, Win
    <3>2. \A r : RescanWin(log', r) = RescanWin(log, r)
      BY <3>1 DEF RescanWin
    <3>3. \A r : \A i \in Ids : Leaves(i, r, log') => Leaves(i, r, log)
      BY <2>2 DEF SameVisible, Leaves
    <3>4. \A r : Scanned(r, log) => Scanned(r, log')
      BY <3>2, <3>3 DEF Scanned
    <3> QED
      BY <2>1, <3>4 DEF Scans
  <2>3. CASE \E k \in Ids : /\ Joins(log, log', k) /\ log[k].ts \in Nat
                            /\ now <= log[k].ts + MaxDelay /\ UNCHANGED now
    <3>1. PICK k \in Ids : Joins(log, log', k) /\ log[k].ts \in Nat /\ now <= log[k].ts + MaxDelay
      BY <2>3
    <3>2. \A c \in Callers : Scanned(rd[c], log) => Scanned(rd[c], log')
      BY <1>0, <3>1, ScannedJoins
    <3> QED
      BY <2>1, <3>2 DEF Scans
  <2> QED
    BY <1>1, <2>2, <2>3, LogStep
<1>2. ASSUME NEW c \in Callers, Forward(c) \/ AbandonRound(c) PROVE Scans'
  <2>1. UNCHANGED log
    BY <1>2 DEF Forward, RunStart, RescanPage, MainPage, CommitBaseline, CommitRound,
                AbandonRound, upstream
  <2>2. \A d \in Callers : d # c => rd'[d] = rd[d]
    BY <1>0, <1>2, StartShape, RescanShape, MainShape, LeaveShape
       DEF AbandonRound, Leave, Forward, CommitBaseline, CommitRound
  <2>3. rd'[c].ph = "rescan" => Scanned(rd'[c], log)
    <3>1. CASE RunStart(c)
      <4>1. rd'[c].page = 1 /\ rd'[c].since \in Nat
        BY <3>1, StartShape, CursorNumbers
      <4>2. ASSUME NEW i \in Ids, Leaves(i, rd'[c], log) PROVE ~Before(RescanWin(log, rd'[c]), 1, i)
        <5>1. i \in RescanWin(log, rd'[c])
          BY <1>0, <4>1, <4>2, LeavesInWindow
        <5>2. RescanWin(log, rd'[c]) \subseteq Ids
          BY DEF RescanWin, Win
        <5> QED
          BY <5>1, <5>2, NothingBefore
      <4> QED
        BY <4>1, <4>2 DEF Scanned
    <3>2. CASE RescanPage(c)
      <4>1. CASE rd'[c].ph = "main"
        BY <4>1
      <4>2. CASE /\ rd'[c].ph = "rescan" /\ rd'[c].page = rd[c].page + 1
                 /\ rd'[c].acc = Rescanned(rd[c])
        <5>1. rd'[c].since = rd[c].since /\ rd'[c].sub = rd[c].sub
          BY <3>2, RescanShape
        <5>2. RescanWin(log, rd'[c]) = RescanWin(log, rd[c])
          BY <5>1 DEF RescanWin
        <5>3. \A i \in Ids : Leaves(i, rd'[c], log) => Leaves(i, rd[c], log)
          BY <5>1 DEF Leaves
        <5> QED
          BY <3>2, <4>2, <5>2, <5>3, ScannedPage DEF Scanned
      <4> QED
        BY <3>2, <4>1, <4>2, RescanShape
    <3>3. CASE MainPage(c)
      BY <1>0, <3>3, MainShape
    <3>4. CASE AbandonRound(c) \/ CommitBaseline(c) \/ CommitRound(c)
      BY <1>0, <3>4, LeaveShape DEF AbandonRound, Leave, CommitBaseline, CommitRound
    <3> QED
      BY <1>2, <3>1, <3>2, <3>3, <3>4 DEF Forward
  <2> QED
    BY <2>1, <2>2, <2>3 DEF Scans
<1>3. ASSUME NEW n \in Nodes, Crash(n) PROVE Scans'
  <2>1. UNCHANGED log /\ \A c \in Callers : rd'[c] = IF NodeOf[c] = n THEN NoRound ELSE rd[c]
    BY <1>3 DEF Crash, upstream
  <2> QED
    BY <1>0, <2>1 DEF Scans
<1>4. CASE UNCHANGED <<rd, log>>
  BY <1>4 DEF Scans
<1>5. \/ UNCHANGED <<rd, log>> \/ Gateway \/ \E c \in Callers : Forward(c) \/ AbandonRound(c)
      \/ \E n \in Nodes : Crash(n)
  BY DEF Next, Backfill, Operator, Faults, SliceStart,
         NextWindow, BackfillPage, BackfillWrite, BackfillProgress, EndSlice, Associate,
         EnqueueBackfill, RequeueBackfill, EnqueueFails, BackfillError, PurgeOldUsageDetail,
         upstream, vars
<1> QED
  BY <1>1, <1>2, <1>3, <1>4, <1>5

\* The times that slice s leaves to job j of organisation o.
Left(s, o, j) == IF s.ph = "progress" /\ s.org = o THEN s.lo - 1 ELSE j.cts

\* The pages that slice s has read hold row i.
ReadPast(s, l, i) == s.ph = "write" \/ (s.ph = "read" /\ Before(OwnWin(l, s), s.page, i))

\* Row i is behind the boundary of job j, in a window to come or in the one
\* being read, and what was read of that holds it.
ToBackfill(i, s, j, l) ==
  /\ Behind(i, j, l) /\ l[i].ts <= Left(s, Owner[i], j)
  /\ i \in OwnWin(l, s) /\ ReadPast(s, l, i) => s.keep[i] > 0

\* The window being read can be read in full.
SliceFull ==
  bf.ph = "read" /\ PlatformOrgs # Orgs => Cardinality(OwnWin(log, bf)) <= Capacity

\* A window is chosen to be read in full, and nothing joins it.
LEMMA SliceFullStep ==
  ASSUME BackfillFits, BooksInv, TypeInv, LogTimed, Dense(log), SliceFull, [Next]_vars
  PROVE  SliceFull'
<1>0. /\ \A l, s : OwnWin(l, s) \subseteq Ids /\ Cardinality(OwnWin(l, s)) \in Nat
                   /\ Cardinality(OwnWin(l, s)) <= MaxLog
      /\ MaxLog \in Nat /\ Capacity \in Nat /\ MaxDensity \in Nat /\ MaxDelay \in Nat /\ Lag \in Nat
  <2>1. \A l, s : OwnWin(l, s) \subseteq Ids
    BY DEF OwnWin, Win
  <2> QED
    BY <2>1, RowCounts, ConstantsAssumption DEF Capacity
<1>1. CASE PlatformOrgs = Orgs \/ MaxLog <= Capacity
  BY <1>0, <1>1 DEF SliceFull
<1>2. CASE MaxDelay < Lag /\ MaxDensity <= Capacity
  <2>1. CASE NextWindow
    <3>1. bf.hi \in Nat /\ bf.org \in Orgs
      BY <2>1 DEF NextWindow, TypeInv, SliceFits, JobsFit, JobFits
    <3>2. PICK lo \in 0..bf.hi :
             /\ lo = LowerBound(bf.org, bf.hi)
             /\ Cardinality(WindowOf(bf.org, lo, bf.hi)) <= Capacity \/ lo >= bf.hi - 1
      BY <3>1, LowerBoundInside, Zenon
    <3>3. bf'.lo = lo /\ bf'.hi = bf.hi /\ bf'.org = bf.org /\ log' = log
      BY <2>1, <3>2, SliceShape DEF NextWindow, upstream
    <3>4. OwnWin(log', bf') = WindowOf(bf.org, lo, bf.hi)
      BY <3>3 DEF OwnWin, WindowOf, Win, Window
    <3>5. CASE lo >= bf.hi - 1
      <4>1. OwnWin(log, bf') \subseteq Close(log, lo) /\ Close(log, lo) \subseteq Ids
        BY <3>1, <3>3, <3>5, CursorNumbers DEF OwnWin, Win, Close
      <4>2. Cardinality(Close(log, lo)) <= MaxDensity
        BY <3>1 DEF Dense
      <4>3. /\ Cardinality(OwnWin(log, bf')) <= Cardinality(Close(log, lo))
            /\ Cardinality(Close(log, lo)) \in Nat
        BY <4>1, RowCounts
      <4>4. Cardinality(OwnWin(log, bf')) <= Capacity
        BY <1>0, <1>2, <4>2, <4>3
      <4> QED
        BY <3>3, <4>4 DEF SliceFull
    <3> QED
      BY <3>2, <3>4, <3>5 DEF SliceFull
  <2>2. CASE BackfillPage
    <3>1. bf'.lo = bf.lo /\ bf'.hi = bf.hi /\ bf'.org = bf.org /\ log' = log /\ bf.ph = "read"
      BY <2>2, SliceShape DEF BackfillPage, upstream
    <3>2. OwnWin(log', bf') = OwnWin(log, bf)
      BY <3>1 DEF OwnWin
    <3> QED
      BY <3>1, <3>2 DEF SliceFull
  <2>3. CASE Gateway
    <3>1. UNCHANGED bf
      BY <2>3 DEF Gateway, Tick, CommitRow, InsertRow
    <3>2. SUFFICES ASSUME bf.ph = "read" PROVE OwnWin(log', bf) = OwnWin(log, bf)
      BY <3>1 DEF SliceFull
    <3>3. CASE SameVisible(log, log')
      BY <3>3 DEF SameVisible, OwnWin, Win
    <3>4. CASE \E k \in Ids : /\ Joins(log, log', k) /\ log[k].ts \in Nat
                              /\ now <= log[k].ts + MaxDelay /\ UNCHANGED now
      <4>1. PICK k \in Ids : Joins(log, log', k) /\ log[k].ts \in Nat /\ now <= log[k].ts + MaxDelay
        BY <3>4
      <4>2. bf.hi \in Int /\ bf.hi <= now - Lag /\ now \in Nat
        <5>1. bf.org \in Orgs /\ bf.hi \in -1..job[bf.org].bts
          BY <3>2 DEF TypeInv, SliceFits
        <5>2. job[bf.org].bts \in 0..(now - Lag) /\ now \in Nat
          BY <5>1, CursorNumbers DEF TypeInv, JobsFit, JobFits
        <5> QED
          BY <5>1, <5>2, <1>0
      <4>3. ~(log[k].ts <= bf.hi)
        BY <1>0, <1>2, <4>1, <4>2
      <4>4. Win(log', bf.lo, bf.hi) = Win(log, bf.lo, bf.hi)
        BY <4>1, <4>3, WinJoins
      <4> QED
        BY <4>4 DEF OwnWin
    <3> QED
      BY <2>3, <3>3, <3>4, LogStep
  <2>4. CASE bf'.ph # "read"
    BY <2>4 DEF SliceFull
  <2>5. CASE UNCHANGED <<bf, log>>
    BY <2>5 DEF SliceFull
  <2>6. NoSlice.ph = "idle"
    BY DEF NoSlice
  <2>7. \/ UNCHANGED <<bf, log>> \/ Gateway \/ NextWindow \/ BackfillPage \/ bf'.ph # "read"
    <3>1. CASE Backfill
      BY <2>6, <3>1, SliceShape, JobShape DEF Backfill
    <3>2. CASE BackfillError \/ \E n \in Nodes : Crash(n)
      BY <2>6, <3>2 DEF BackfillError, Crash, upstream
    <3> QED
      BY <3>1, <3>2 DEF Next, Forward, Operator, Faults, RunStart, RescanPage, MainPage,
         CommitBaseline, CommitRound, AbandonRound, Associate, EnqueueBackfill,
         RequeueBackfill, EnqueueFails, PurgeOldUsageDetail, upstream, vars
  <2> QED
    BY <2>1, <2>2, <2>3, <2>4, <2>5, <2>7
<1> QED
  BY <1>1, <1>2 DEF BackfillFits

\* A row stays with the backfill when its job moves up and the slice is new,
\* or ended, or the same.
LEMMA BackfillSame ==
  ASSUME NEW i, NEW s, NEW u, NEW j, NEW k, NEW l, ToBackfill(i, s, j, l),
         k.bts = j.bts, k.bid = j.bid, l[i].ts <= Left(u, Owner[i], k),
         u = s \/ u.ph \notin {"read", "write"}
  PROVE  ToBackfill(i, u, k, l)
<1>1. Behind(i, k, l)
  BY DEF ToBackfill, Behind
<1> QED
  BY <1>1 DEF ToBackfill, ReadPast

\* The gateway moves no row that is visible.
LEMMA BackfillLog ==
  ASSUME TypeInv, NEW m, SameVisible(log, m) \/ \E k \in Ids : Joins(log, m, k),
         NEW i \in Ids, log[i].st = "visible", NEW j, ToBackfill(i, bf, j, log)
  PROVE  ToBackfill(i, bf, j, m)
<1>1. m[i].st = "visible" /\ m[i].ts = log[i].ts
  BY DEF SameVisible, Joins
<1>2. OwnWin(log, bf) \subseteq OwnWin(m, bf) /\ OwnWin(m, bf) \subseteq Ids
  BY DEF SameVisible, Joins, OwnWin, Win
<1>3. i \in OwnWin(m, bf) => i \in OwnWin(log, bf)
  BY <1>1 DEF OwnWin, Win
<1>4. bf.page \in Nat \ {0}
  BY DEF TypeInv, SliceFits
<1>5. Before(OwnWin(m, bf), bf.page, i) => Before(OwnWin(log, bf), bf.page, i)
  BY <1>2, <1>4, PagesCover
<1>6. Behind(i, j, m) <=> Behind(i, j, log)
  BY <1>1 DEF Behind
<1> QED
  BY <1>1, <1>3, <1>5, <1>6 DEF ToBackfill, ReadPast

\* A page of the window adds its rows, and the last page the rest.
LEMMA BackfillPageKeeps ==
  ASSUME BooksInv, TypeInv, SliceFull, PlatformOrgs # Orgs, BackfillPage,
         NEW i \in Ids \ ZeroQuota, ToBackfill(i, bf, job[Owner[i]], log)
  PROVE  ToBackfill(i, bf', job[Owner[i]], log)
<1> DEFINE W == OwnWin(log, bf)
           b == BagOf(OwnRows(bf))
<1>0. /\ bf'.org = bf.org /\ bf'.hi = bf.hi /\ bf'.lo = bf.lo /\ bf'.page = bf.page + 1
      /\ bf'.keep = Plus(bf.keep, b) /\ bf.ph = "read"
      /\ \/ LastPage(OwnWindow(bf), bf.page, MaxPages) /\ bf'.ph = "write"
         \/ bf'.ph = "read"
  BY SliceShape DEF BackfillPage
<1>1. bf.page \in Nat \ {0} /\ bf.keep \in BagType /\ MaxPages \in Nat
  BY ConstantsAssumption DEF TypeInv, SliceFits, BooksInv, Reading, SliceOK
<1>2. W \subseteq Ids /\ OwnWindow(bf) = W /\ Cardinality(W) <= MaxPages * PageSize
  BY <1>0, WindowsAre DEF OwnWin, Win, SliceFull, Capacity
<1>3. OwnWin(log, bf') = W
  BY <1>0 DEF OwnWin
<1>4. ASSUME i \in W, ReadPast(bf', log, i) PROVE Before(W, bf.page + 1, i)
  <2>1. CASE bf'.ph = "read"
    BY <1>0, <1>3, <1>4, <2>1 DEF ReadPast
  <2>2. CASE LastPage(OwnWindow(bf), bf.page, MaxPages)
    <3> HIDE DEF W
    <3> QED
      BY <1>1, <1>2, <1>4, <2>2, PagesCover
  <2> QED
    BY <1>0, <2>1, <2>2
<1>5. ASSUME i \in W, Before(W, bf.page + 1, i) PROVE bf.keep[i] > 0 \/ b[i] = 1
  <2>1. Before(W, bf.page, i) \/ i \in Page(W, bf.page)
    <3> HIDE DEF W
    <3> QED
      BY <1>1, <1>2, <1>5, PagesCover
  <2>2. CASE Before(W, bf.page, i)
    BY <1>0, <1>5, <2>2 DEF ToBackfill, ReadPast
  <2>3. CASE i \in Page(W, bf.page)
    <3>1. Owner[i] = bf.org
      BY <1>5 DEF OwnWin
    <3>2. BelongsToBackfill(i, job[bf.org])
      BY <3>1, WindowsAre DEF ToBackfill
    <3>3. i \in OwnRows(bf)
      BY <1>2, <2>3, <3>2 DEF OwnRows, Positive
    <3> QED
      BY <3>3 DEF BagOf
  <2> QED
    BY <2>1, <2>2, <2>3
<1>6. b \in BagType
  BY BagLaws
<1>7. bf'.keep[i] = bf.keep[i] + b[i] /\ bf.keep[i] \in Nat /\ b[i] \in Nat
  <2> HIDE DEF b
  <2>1. Plus(bf.keep, b)[i] = bf.keep[i] + b[i]
    BY <1>1, <1>6, BagLaws
  <2> QED
    BY <2>1, <1>0, <1>1, <1>6 DEF BagType
<1>8. i \in W /\ ReadPast(bf', log, i) => bf'.keep[i] > 0
  <2> HIDE DEF b, W
  <2> QED
    BY <1>4, <1>5, <1>7
<1>9. Left(bf', Owner[i], job[Owner[i]]) = Left(bf, Owner[i], job[Owner[i]])
  BY <1>0 DEF Left
<1> QED
  BY <1>3, <1>8, <1>9 DEF ToBackfill

\* The write phase books what was read, unless it is booked.
LEMMA BackfillWriteKeeps ==
  ASSUME BooksInv, TypeInv, SideInv, BackfillWrite, NEW i \in Ids \ ZeroQuota,
         log[i].st = "visible", Owner[i] \in Orgs, job[Owner[i]].status # "none",
         ToBackfill(i, bf, job[Owner[i]], log)
  PROVE  ledger'[i] > 0 \/ ToBackfill(i, bf', job[Owner[i]], log)
<1>0. /\ bf'.ph = "progress" /\ bf'.org = bf.org /\ bf'.hi = bf.hi /\ bf'.lo = bf.lo
      /\ bf.ph = "write"
  BY SliceShape DEF BackfillWrite
<1>1. bf.keep \in BagType /\ ledger \in BagType /\ bf.org \in Orgs /\ bf.lo \in 0..bf.hi
  BY <1>0 DEF TypeInv, SliceFits, BooksInv, Reading, SliceOK, Tables
<1>2. CASE i \in OwnWin(log, bf)
  <2>1. bf.keep[i] > 0
    BY <1>0, <1>2 DEF ToBackfill, ReadPast
  <2>2. Owner[i] \in linked
    BY DEF SideInv, Linked, TypeInv, JobsFit
  <2>3. CASE i \in detail
    <3>1. ledger[i] > 0
      BY <2>3 DEF SideInv, Recorded
    <3>2. [Next]_vars
      BY DEF Next, Backfill
    <3> QED
      BY <3>1, <3>2, RecordedStep DEF SideInv
  <2>4. CASE i \notin detail
    <3> DEFINE b == Unrecorded(bf.keep)
    <3>1. b[i] = bf.keep[i]
      BY <2>2, <2>4 DEF Unrecorded, Restricted, Attributed
    <3>2. b \in BagType
      BY <1>1, BagLaws DEF Unrecorded
    <3>3. ledger' = Plus(ledger, b)
      BY DEF BackfillWrite, CommitUsageOnly, AddToLedgerBucketTx
    <3> HIDE DEF b
    <3>4. ledger'[i] = ledger[i] + b[i] /\ ledger[i] \in Nat /\ b[i] \in Nat
      BY <1>1, <3>2, <3>3, BagLaws DEF BagType
    <3> QED
      BY <2>1, <3>1, <3>4
  <2> QED
    BY <2>3, <2>4
<1>3. CASE i \notin OwnWin(log, bf)
  <2>1. log[i].ts <= Left(bf', Owner[i], job[Owner[i]])
    <3>1. log[i].ts <= job[Owner[i]].cts
      BY <1>0 DEF ToBackfill, Left
    <3>2. CASE Owner[i] # bf.org
      BY <1>0, <3>1, <3>2 DEF Left
    <3>3. CASE Owner[i] = bf.org
      <4>1. log[i].ts <= bf.hi
        BY <1>0, <3>1, <3>3 DEF SideInv, SliceRuns
      <4>2. ~(log[i].ts >= bf.lo)
        BY <1>3, <3>3, <4>1 DEF OwnWin, Win
      <4>3. log[i].ts \in Nat /\ bf.lo \in Nat
        BY <1>1, CursorNumbers
      <4>4. log[i].ts <= bf.lo - 1
        BY <4>2, <4>3
      <4> QED
        BY <1>0, <3>3, <4>4 DEF Left
    <3> QED
      BY <3>2, <3>3
  <2>2. bf'.ph \notin {"read", "write"}
    BY <1>0
  <2> QED
    BY <2>1, <2>2, BackfillSame
<1> QED
  BY <1>2, <1>3

\* Jobs appear by EnqueueBackfill only, and stay.
LEMMA JobsStay ==
  ASSUME TypeInv, SliceRuns, [Next]_vars, NEW o \in Orgs
  PROVE  \/ EnqueueBackfill(o) /\ job[o].status = "none"
         \/ job'[o].status = "none" <=> job[o].status = "none"
<1>1. \/ UNCHANGED job \/ SliceStart \/ EndSlice \/ BackfillProgress
      \/ \E p \in Orgs : RequeueBackfill(p) \/ EnqueueBackfill(p)
  BY DEF Next, Gateway, Tick, CommitRow, InsertRow, Backfill, Operator, Faults, AbandonRound,
         Forward, RunStart, RescanPage, MainPage, CommitBaseline, CommitRound, NextWindow,
         BackfillPage, BackfillWrite, BackfillError, PurgeOldUsageDetail, Associate, EnqueueFails,
         Crash, store, vars
<1>2. CASE SliceStart
  BY <1>2, JobShape
<1>3. CASE EndSlice
  BY <1>3, JobShape DEF EndSlice, SliceRuns
<1>4. CASE BackfillProgress
  BY <1>4, JobShape
<1>5. ASSUME NEW p \in Orgs, RequeueBackfill(p)
      PROVE  job'[o].status = "none" <=> job[o].status = "none"
  BY <1>5, JobShape
<1>6. ASSUME NEW p \in Orgs, EnqueueBackfill(p)
      PROVE  \/ EnqueueBackfill(o) /\ job[o].status = "none"
             \/ job'[o].status = "none" <=> job[o].status = "none"
  <2>1. job[p].status = "none"
    BY <1>6 DEF EnqueueBackfill, TypeInv, JobsFit
  <2>2. CASE p # o
    BY <1>6, <2>2, JobShape
  <2> QED
    BY <1>6, <2>1, <2>2
<1> QED
  BY <1>1, <1>2, <1>3, <1>4, <1>5, <1>6

\* A row in the ledger, or with the backfill of its organisation, is safe,
Safe(i) ==
  \/ ledger[i] > 0
  \/ /\ Owner[i] \in Orgs \ PlatformOrgs /\ job[Owner[i]].status # "none"
     /\ ToBackfill(i, bf, job[Owner[i]], log)

\* for ever.
LEMMA SafeStays ==
  ASSUME BooksInv, TypeInv, SideInv, SliceFull, [Next]_vars, NEW i \in Ids \ ZeroQuota,
         log[i].st = "visible", Safe(i)
  PROVE  Safe(i)'
<1>0. SliceRuns /\ Recorded /\ LogTimed
  BY DEF SideInv
<1>1. CASE ledger[i] > 0
  BY <1>0, <1>1, RecordedStep DEF Safe
<1>2. CASE /\ Owner[i] \in Orgs \ PlatformOrgs /\ job[Owner[i]].status # "none"
           /\ ToBackfill(i, bf, job[Owner[i]], log)
  <2> DEFINE o == Owner[i]
  <2>1. job'[o].status # "none" /\ PlatformOrgs # Orgs
    BY <1>0, <1>2, JobsStay
  <2>2. SUFFICES ledger'[i] > 0 \/ ToBackfill(i, bf', job'[o], log')
    BY <1>2, <2>1 DEF Safe
  <2>3. /\ log[i].ts <= Left(bf, o, job[o]) /\ NoSlice.ph = "idle" /\ log[i].ts \in Nat
        /\ job[o].bts \in Nat /\ job[o].cts \in Int /\ job[o].cts <= job[o].bts
    <3>1. JobFits(job[o], now) /\ now \in Nat
      BY <1>2, CursorNumbers DEF TypeInv, JobsFit
    <3> QED
      BY <1>2, <3>1, CursorNumbers DEF ToBackfill, NoSlice, JobFits
  <2>4. bf.ph = "progress" /\ bf.org = o => bf.lo - 1 <= job[o].cts /\ bf.lo \in Nat
    <3> SUFFICES ASSUME bf.ph = "progress", bf.org = o PROVE bf.lo - 1 <= job[o].cts /\ bf.lo \in Nat
      OBVIOUS
    <3>1. bf.hi = job[o].cts /\ bf.lo \in 0..bf.hi
      BY <1>0 DEF SliceRuns, TypeInv, SliceFits
    <3> QED
      BY <2>3, <3>1
  <2>5. log[i].ts <= job[o].cts
    BY <2>3, <2>4 DEF Left
  <2>6. CASE UNCHANGED <<bf, job, log>>
    BY <1>2, <2>6
  <2>7. CASE Gateway
    <3>1. UNCHANGED <<bf, job>>
      BY <2>7 DEF Gateway, Tick, CommitRow, InsertRow, store
    <3>2. SameVisible(log, log') \/ \E k \in Ids : Joins(log, log', k)
      BY <1>0, <2>7, LogStep
    <3> QED
      BY <1>2, <3>1, <3>2, BackfillLog
  <2>8. CASE BackfillPage
    BY <1>2, <2>1, <2>8, BackfillPageKeeps DEF BackfillPage, upstream, store
  <2>9. CASE BackfillWrite
    BY <1>2, <2>9, BackfillWriteKeeps DEF BackfillWrite, upstream
  <2>10. CASE NextWindow
    <3>1. bf'.page = 1 /\ bf'.ph = "read" /\ bf.ph = "next" /\ UNCHANGED <<job, log>>
      BY <2>10, SliceShape DEF NextWindow, upstream, store
    <3>2. OwnWin(log, bf') \subseteq Ids
      BY DEF OwnWin, Win
    <3>3. i \in OwnWin(log, bf') => ~ReadPast(bf', log, i)
      BY <3>1, <3>2, NothingBefore DEF ReadPast
    <3>4. log[i].ts <= Left(bf', o, job[o])
      BY <2>5, <3>1 DEF Left
    <3> QED
      BY <1>2, <3>1, <3>3, <3>4 DEF ToBackfill
  <2>11. CASE SliceStart
    <3>1. /\ UNCHANGED log /\ bf'.ph = "next" /\ job'[o].cts = job[o].cts
          /\ job'[o].bts = job[o].bts /\ job'[o].bid = job[o].bid
      BY <1>2, <2>11, JobShape DEF SliceStart, upstream
    <3>2. log[i].ts <= Left(bf', o, job'[o])
      BY <2>5, <3>1 DEF Left
    <3> QED
      BY <1>2, <3>1, <3>2, BackfillSame
  <2>12. CASE EndSlice
    <3>1. /\ UNCHANGED log /\ bf' = NoSlice /\ job'[o].cts = job[o].cts
          /\ job'[o].bts = job[o].bts /\ job'[o].bid = job[o].bid
      BY <1>2, <2>12, JobShape DEF EndSlice, upstream
    <3>2. log[i].ts <= Left(bf', o, job'[o])
      BY <2>3, <2>5, <3>1 DEF Left
    <3> QED
      BY <1>2, <2>3, <3>1, <3>2, BackfillSame
  <2>13. CASE BackfillProgress
    <3>1. UNCHANGED log /\ bf'.ph = "next" /\ bf.ph = "progress"
      BY <2>13, SliceShape DEF BackfillProgress, upstream
    <3>2. job'[o].bts = job[o].bts /\ job'[o].bid = job[o].bid
      BY <1>2, <2>13, JobShape
    <3>3. log[i].ts <= Left(bf', o, job'[o])
      <4>1. CASE bf.org = o
        BY <2>3, <2>13, <3>1, <4>1, JobShape DEF Left
      <4>2. CASE bf.org # o
        BY <1>2, <2>5, <2>13, <3>1, <4>2, JobShape DEF Left
      <4> QED
        BY <4>1, <4>2
    <3> QED
      BY <1>2, <3>1, <3>2, <3>3, BackfillSame
  <2>14. CASE bf' = NoSlice /\ UNCHANGED <<log, job>>
    <3>1. log[i].ts <= Left(bf', o, job[o])
      BY <2>3, <2>5, <2>14 DEF Left
    <3> QED
      BY <1>2, <2>3, <2>14, <3>1, BackfillSame
  <2>15. ASSUME NEW p \in Orgs, RequeueBackfill(p) \/ EnqueueBackfill(p)
         PROVE  ToBackfill(i, bf', job'[o], log')
    <3>1. UNCHANGED <<log, bf>>
      BY <2>15 DEF RequeueBackfill, EnqueueBackfill, upstream
    <3>2. CASE p # o
      <4>1. job'[o] = job[o]
        BY <1>2, <2>15, <3>2, JobShape
      <4> QED
        BY <1>2, <3>1, <4>1
    <3>3. CASE p = o
      <4>1. RequeueBackfill(o)
        BY <1>2, <2>15, <3>3 DEF EnqueueBackfill, TypeInv, JobsFit
      <4>2. /\ job[o].status # "running" /\ job'[o].cts = job[o].bts
            /\ job'[o].bts = job[o].bts /\ job'[o].bid = job[o].bid
        BY <1>2, <4>1, JobShape
      <4>3. ~(bf.ph = "progress" /\ bf.org = o)
        BY <1>0, <4>2 DEF SliceRuns
      <4>4. log[i].ts <= Left(bf, o, job'[o])
        BY <2>3, <2>5, <4>2, <4>3 DEF Left
      <4> QED
        BY <1>2, <3>1, <4>2, <4>4, BackfillSame
    <3> QED
      BY <3>2, <3>3
  <2>16. \/ UNCHANGED <<bf, job, log>> \/ Gateway \/ Backfill
         \/ bf' = NoSlice /\ UNCHANGED <<log, job>>
         \/ \E p \in Orgs : RequeueBackfill(p) \/ EnqueueBackfill(p)
    BY DEF Next, Operator, Faults, AbandonRound, Forward, RunStart, RescanPage, MainPage,
         CommitBaseline, CommitRound, BackfillError, PurgeOldUsageDetail, Associate, EnqueueFails,
         Crash, upstream, store, vars
  <2> QED
    BY <2>6, <2>7, <2>8, <2>9, <2>10, <2>11, <2>12, <2>13, <2>14, <2>15, <2>16 DEF Backfill
<1> QED
  BY <1>1, <1>2 DEF Safe

\* The accounts are to hold row i: an organisation of gate A after the first
\* run, or one of gate B with a job.
Awaited(i) ==
  \/ Owner[i] \in PlatformOrgs /\ log[i].ts >= base
  \/ Owner[i] \in Orgs \ PlatformOrgs /\ job[Owner[i]].status # "none"

\* Such a row is safe or in reach of the next rescan,
Reached ==
  \A i \in Ids \ ZeroQuota : log[i].st = "visible" /\ Awaited(i) =>
    Safe(i) \/ log[i].ts >= cursor.ts - Overlap

\* and a round that can still commit holds the rows that leave this reach,
\* unless its rescan was over before their organisation was linked.
Carried ==
  \A c \in Callers : Current(rd[c], cursor.ver) /\ rd[c].ph \in {"main", "commit"} =>
    \A i \in Ids \ ZeroQuota : Leaves(i, rd[c], log) /\ Owner[i] \in Orgs =>
      \/ rd[c].acc[i] > 0 \/ Safe(i)
      \/ Owner[i] \notin PlatformOrgs /\ job[Owner[i]].status = "none"

LostInv == SideInv /\ SliceFull /\ Scans /\ Reached /\ Carried

\* A job made now covers what is behind the cursor.
LEMMA EnqueueCovers ==
  ASSUME TypeInv, SliceRuns, NEW o \in Orgs, EnqueueBackfill(o), o \notin PlatformOrgs,
         NEW i \in Ids, Owner[i] = o, log[i].ts < cursor.ts
  PROVE  Safe(i)'
<1>1. /\ job'[o].status = "pending" /\ job'[o].cts = cursor.ts /\ job'[o].bts = cursor.ts
      /\ UNCHANGED <<log, bf>>
  BY JobShape DEF EnqueueBackfill, upstream
<1>2. job[o].status = "none"
  BY DEF EnqueueBackfill, TypeInv, JobsFit
<1>3. ~(bf.ph # "idle" /\ bf.org = o)
  BY <1>2 DEF SliceRuns
<1>4. Behind(i, job'[o], log)
  BY <1>1 DEF Behind
<1>5. log[i].ts <= Left(bf, o, job'[o])
  BY <1>1, <1>3, CursorNumbers DEF Left
<1>6. ~(i \in OwnWin(log, bf) /\ ReadPast(bf, log, i))
  BY <1>3 DEF OwnWin, ReadPast
<1>7. ToBackfill(i, bf, job'[o], log)
  BY <1>4, <1>5, <1>6 DEF ToBackfill
<1> QED
  BY <1>1, <1>7 DEF Safe

\* Steps other than commits, enqueueing and rows that join the log.
LEMMA ReachedQuiet ==
  ASSUME BooksInv, TypeInv, SideInv, SliceFull, Reached, [Next]_vars, SameVisible(log, log'),
         UNCHANGED <<cursor, base>>,
         \A o \in Orgs : job'[o].status = "none" <=> job[o].status = "none"
  PROVE  Reached'
<1> SUFFICES ASSUME NEW i \in Ids \ ZeroQuota, log'[i].st = "visible", Awaited(i)'
             PROVE  Safe(i)' \/ log'[i].ts >= cursor.ts - Overlap
  BY DEF Reached
<1>1. log[i].st = "visible" /\ log'[i].ts = log[i].ts
  BY DEF SameVisible
<1>2. Awaited(i)
  BY <1>1 DEF Awaited
<1>3. Safe(i) \/ log[i].ts >= cursor.ts - Overlap
  BY <1>1, <1>2 DEF Reached
<1> QED
  BY <1>1, <1>3, SafeStays

\* The cursor moves over rows that its round holds.
LEMMA CommitReached ==
  ASSUME GapCovered, BooksInv, TypeInv, LostInv, [Next]_vars, NEW c \in Callers, CommitRound(c)
  PROVE  Reached'
<1>0. UNCHANGED <<log, base, job>> /\ rd[c].ph = "commit" /\ cursor.ver = rd[c].ver
  BY DEF CommitRound, CursorUnmoved, upstream
<1>1. /\ SideInv /\ SliceFull /\ Followed /\ Ranges /\ GapCovered
  BY DEF LostInv, SideInv
<1>2. /\ rd[c].since = cursor.ts /\ cursor'.ts = Greatest(cursor.ts, rd[c].sub)
  BY <1>1, CursorMoves
<1>3. rd[c].since < rd[c].sub /\ rd[c].sub <= rd[c].since + MaxGap
  BY <1>0, <1>1 DEF Ranges
<1>4. cursor'.ts = rd[c].sub
  BY <1>2, <1>3, CursorNumbers DEF Greatest
<1> SUFFICES ASSUME NEW i \in Ids \ ZeroQuota, log[i].st = "visible", Awaited(i)',
                    ~(log[i].ts >= cursor'.ts - Overlap)
             PROVE  Safe(i)'
  BY <1>0 DEF Reached
<1>5. Awaited(i)
  BY <1>0 DEF Awaited
<1>6. CASE Safe(i)
  BY <1>1, <1>6, SafeStays
<1>7. CASE ~Safe(i)
  <2>1. log[i].ts >= cursor.ts - Overlap
    BY <1>5, <1>7 DEF LostInv, Reached
  <2>2. MaxGap <= Overlap
    BY DEF GapCovered
  <2>3. Leaves(i, rd[c], log)
    BY <1>2, <1>3, <1>4, <2>1, <2>2, CursorNumbers DEF Leaves
  <2>4. Owner[i] \in Orgs /\ (Owner[i] \notin PlatformOrgs => job[Owner[i]].status # "none")
    BY <1>5, ConstantsAssumption DEF Awaited
  <2>5. rd[c].acc[i] > 0
    BY <1>0, <1>7, <2>3, <2>4 DEF LostInv, Carried, Current
  <2>6. ledger'[i] = ledger[i] + rd[c].acc[i] /\ ledger[i] \in Nat /\ rd[c].acc[i] \in Nat
    <3>1. ledger \in BagType /\ rd[c].acc \in BagType
      BY DEF BooksInv, Tables, Reading, RoundOK
    <3>2. ledger' = Plus(ledger, rd[c].acc)
      BY DEF CommitRound, CommitUsageOnly, AddToLedgerBucketTx
    <3> QED
      BY <3>1, <3>2, BagLaws DEF BagType
  <2>7. ledger'[i] > 0
    BY <2>5, <2>6
  <2> QED
    BY <2>7 DEF Safe
<1> QED
  BY <1>6, <1>7

\* Every step keeps rows safe or in reach.
LEMMA ReachedStep ==
  ASSUME GapCovered, DelayCovered, BooksInv, TypeInv, LostInv, [Next]_vars
  PROVE  Reached'
<1>0. SideInv /\ SliceFull /\ Reached /\ SliceRuns /\ Followed /\ LogTimed /\ Linked
  BY DEF LostInv, SideInv
<1>1. ASSUME NEW c \in Callers, CommitRound(c) PROVE Reached'
  BY <1>1, CommitReached
<1>2. ASSUME NEW c \in Callers, CommitBaseline(c) PROVE Reached'
  <2>1. UNCHANGED <<log, job>> /\ base' = rd[c].sub /\ rd[c].ph = "baseline"
    BY <1>2 DEF CommitBaseline, upstream
  <2>2. rd[c].since = cursor.ts /\ cursor'.ts = Greatest(cursor.ts, rd[c].sub)
    BY <1>0, <1>2, CursorMoves
  <2>3. rd[c].since = 0
    BY <1>0, <2>1 DEF Followed, RoundFollows
  <2>4. cursor'.ts = rd[c].sub /\ cursor.ts = 0
    BY <2>2, <2>3, CursorNumbers DEF Greatest
  <2>5. \A o \in Orgs : job[o].status = "none"
    BY <1>0, <2>4 DEF Linked
  <2>6. \A i \in Ids : Awaited(i)' => log[i].ts >= cursor'.ts
    BY <2>1, <2>4, <2>5 DEF Awaited
  <2>7. \A i \in Ids : log[i].ts >= rd[c].sub => log[i].ts >= rd[c].sub - Overlap
    BY CursorNumbers
  <2> QED
    BY <2>1, <2>4, <2>6, <2>7 DEF Reached
<1>3. CASE Gateway
  <2>1. UNCHANGED <<cursor, base, job>>
    BY <1>3 DEF Gateway, Tick, CommitRow, InsertRow, store
  <2>2. CASE SameVisible(log, log')
    BY <1>0, <2>1, <2>2, ReachedQuiet
  <2>3. CASE \E k \in Ids : /\ Joins(log, log', k) /\ log[k].ts \in Nat
                            /\ now <= log[k].ts + MaxDelay /\ UNCHANGED now
    <3>1. PICK k \in Ids : Joins(log, log', k) /\ log[k].ts \in Nat /\ now <= log[k].ts + MaxDelay
      BY <2>3
    <3>2. log[k].ts >= cursor.ts - Overlap
      <4>1. cursor.ts <= now - Lag /\ MaxDelay <= Lag + Overlap /\ MaxDelay \in Nat
        BY CursorNumbers, ConstantsAssumption DEF TypeInv, CursorFits, DelayCovered
      <4> QED
        BY <3>1, <4>1, CursorNumbers
    <3> SUFFICES ASSUME NEW i \in Ids \ ZeroQuota, log'[i].st = "visible", Awaited(i)'
                 PROVE  Safe(i)' \/ log'[i].ts >= cursor.ts - Overlap
      BY <2>1 DEF Reached
    <3>3. log'[i].ts = log[i].ts /\ (log[i].st = "visible" \/ i = k)
      BY <3>1 DEF Joins
    <3>4. Awaited(i)
      BY <2>1, <3>3 DEF Awaited
    <3>5. CASE i = k
      BY <3>2, <3>3, <3>5
    <3>6. CASE log[i].st = "visible"
      <4>1. Safe(i) \/ log[i].ts >= cursor.ts - Overlap
        BY <1>0, <3>4, <3>6 DEF Reached
      <4> QED
        BY <1>0, <3>3, <3>6, <4>1, SafeStays
    <3> QED
      BY <3>3, <3>5, <3>6
  <2> QED
    BY <1>0, <1>3, <2>2, <2>3, LogStep
<1>4. ASSUME NEW o \in Orgs, EnqueueBackfill(o) PROVE Reached'
  <2>1. UNCHANGED <<cursor, base, log>> /\ \A p \in Orgs : p # o => job'[p] = job[p]
    BY <1>4, JobShape DEF EnqueueBackfill, upstream
  <2> SUFFICES ASSUME NEW i \in Ids \ ZeroQuota, log[i].st = "visible", Awaited(i)'
               PROVE  Safe(i)' \/ log[i].ts >= cursor.ts - Overlap
    BY <2>1 DEF Reached
  <2>2. CASE Owner[i] = o /\ o \notin PlatformOrgs
    <3>1. CASE log[i].ts < cursor.ts
      BY <1>0, <1>4, <2>2, <3>1, EnqueueCovers
    <3>2. CASE ~(log[i].ts < cursor.ts)
      BY <3>2, CursorNumbers
    <3> QED
      BY <3>1, <3>2
  <2>3. CASE ~(Owner[i] = o /\ o \notin PlatformOrgs)
    <3>1. Awaited(i)
      BY <2>1, <2>3 DEF Awaited
    <3>2. Safe(i) \/ log[i].ts >= cursor.ts - Overlap
      BY <1>0, <3>1 DEF Reached
    <3> QED
      BY <1>0, <3>2, SafeStays
  <2> QED
    BY <2>2, <2>3
<1>5. ASSUME UNCHANGED <<cursor, base, log>>, \A o \in Orgs : ~EnqueueBackfill(o) PROVE Reached'
  <2>1. \A o \in Orgs : job'[o].status = "none" <=> job[o].status = "none"
    BY <1>0, <1>5, JobsStay
  <2>2. SameVisible(log, log')
    BY <1>5 DEF SameVisible
  <2> QED
    BY <1>0, <1>5, <2>1, <2>2, ReachedQuiet
<1>6. \/ UNCHANGED <<cursor, base, log>> \/ Gateway
      \/ \E c \in Callers : CommitRound(c) \/ CommitBaseline(c)
  BY DEF Next, Backfill, Operator, Faults, AbandonRound, Forward, RunStart, RescanPage, MainPage,
         SliceStart, NextWindow, BackfillPage, BackfillWrite, BackfillProgress, EndSlice,
         BackfillError, PurgeOldUsageDetail, Associate, EnqueueBackfill, RequeueBackfill,
         EnqueueFails, Crash, upstream, store, vars
<1> QED
  BY <1>1, <1>2, <1>3, <1>4, <1>5, <1>6

\* Caller c holds what it has to: its part of Carried.
Carries(c) ==
  Current(rd[c], cursor.ver) /\ rd[c].ph \in {"main", "commit"} =>
    \A i \in Ids \ ZeroQuota : Leaves(i, rd[c], log) /\ Owner[i] \in Orgs =>
      \/ rd[c].acc[i] > 0 \/ Safe(i)
      \/ Owner[i] \notin PlatformOrgs /\ job[Owner[i]].status = "none"

\* A call that goes on, or at least has read no less.
LEMMA CarriesOn ==
  ASSUME BooksInv, TypeInv, LostInv, [Next]_vars, NEW c \in Callers, UNCHANGED cursor,
         rd'[c].ph \in {"main", "commit"} =>
           /\ rd[c].ph \in {"main", "commit"} /\ rd'[c].ver = rd[c].ver
           /\ \A i \in Ids : Leaves(i, rd'[c], log') => Leaves(i, rd[c], log)
           /\ \A i \in Ids : rd[c].acc[i] > 0 => rd'[c].acc[i] > 0
  PROVE  Carries(c)'
<1>0. SideInv /\ SliceFull /\ SliceRuns /\ Followed
  BY DEF LostInv, SideInv
<1> SUFFICES ASSUME Current(rd'[c], cursor.ver), rd'[c].ph \in {"main", "commit"},
                    NEW i \in Ids \ ZeroQuota, Leaves(i, rd'[c], log'), Owner[i] \in Orgs
             PROVE  \/ rd'[c].acc[i] > 0 \/ Safe(i)'
                    \/ Owner[i] \notin PlatformOrgs /\ job'[Owner[i]].status = "none"
  BY DEF Carries
<1>1. /\ rd[c].ph \in {"main", "commit"} /\ Current(rd[c], cursor.ver)
      /\ Leaves(i, rd[c], log) /\ log[i].st = "visible"
  BY DEF Current, Leaves
<1>2. \/ rd[c].acc[i] > 0 \/ Safe(i)
      \/ Owner[i] \notin PlatformOrgs /\ job[Owner[i]].status = "none"
  BY <1>1 DEF LostInv, Carried
<1>3. CASE rd[c].acc[i] > 0
  BY <1>3
<1>4. CASE Safe(i)
  BY <1>0, <1>1, <1>4, SafeStays
<1>5. CASE Owner[i] \notin PlatformOrgs /\ job[Owner[i]].status = "none"
  <2>1. CASE EnqueueBackfill(Owner[i])
    <3>1. rd[c].since = cursor.ts
      BY <1>0, <1>1 DEF Followed, RoundFollows
    <3>2. log[i].ts < cursor.ts
      BY <1>1, <3>1 DEF Leaves
    <3> QED
      BY <1>0, <1>5, <2>1, <3>2, EnqueueCovers
  <2>2. CASE job'[Owner[i]].status = "none"
    BY <1>5, <2>2
  <2> QED
    BY <1>0, <1>5, <2>1, <2>2, JobsStay
<1> QED
  BY <1>2, <1>3, <1>4, <1>5

\* The rescan ends: what it does not keep is booked, or of an organisation
\* that is not linked.
LEMMA RescanCarries ==
  ASSUME RescanFits, BooksInv, TypeInv, LostInv, NEW c \in Callers, RescanPage(c)
  PROVE  Carries(c)'
<1>0. Dense(log) /\ Scans /\ Recorded /\ Linked
  BY DEF LostInv, SideInv
<1>1. CASE rd'[c].ph = "rescan"
  BY <1>1 DEF Carries
<1>2. CASE /\ LastPage(RescanWindow(rd[c]), rd[c].page, RescanMaxPages)
           /\ rd'[c].acc = Restricted(Rescanned(rd[c]), Attributed(Ids \ detail))
  <2>0. UNCHANGED <<log, ledger, job, bf>> /\ rd'[c].since = rd[c].since /\ rd'[c].sub = rd[c].sub
    BY RescanShape DEF RescanPage, upstream, store
  <2> SUFFICES ASSUME NEW i \in Ids \ ZeroQuota, Leaves(i, rd'[c], log), Owner[i] \in Orgs
               PROVE  \/ rd'[c].acc[i] > 0 \/ Safe(i)'
                      \/ Owner[i] \notin PlatformOrgs /\ job[Owner[i]].status = "none"
    BY <2>0 DEF Carries
  <2>1. Leaves(i, rd[c], log)
    BY <2>0 DEF Leaves
  <2>2. Rescanned(rd[c])[i] > 0
    BY <1>0, <1>2, <2>1, ScannedAll
  <2>3. CASE i \in detail
    <3>1. ledger'[i] > 0
      BY <1>0, <2>0, <2>3 DEF Recorded
    <3> QED
      BY <3>1 DEF Safe
  <2>4. CASE Owner[i] \notin linked
    <3>1. Owner[i] \notin PlatformOrgs /\ enq[Owner[i]] # "queued"
      BY <1>0, <2>4 DEF Linked
    <3>2. job[Owner[i]].status = "none"
      BY <3>1 DEF TypeInv, JobsFit
    <3> QED
      BY <3>1, <3>2
  <2>5. CASE i \notin detail /\ Owner[i] \in linked
    <3>1. rd'[c].acc[i] = Rescanned(rd[c])[i]
      BY <1>2, <2>5 DEF Restricted, Attributed
    <3> QED
      BY <2>2, <3>1
  <2> QED
    BY <2>3, <2>4, <2>5
<1> QED
  BY <1>1, <1>2, RescanShape

\* Every step keeps what rounds hold.
LEMMA CarriedStep ==
  ASSUME RescanFits, DelayCovered, BooksInv, TypeInv, LostInv, [Next]_vars
  PROVE  Carried'
<1>0. /\ SideInv /\ SliceFull /\ Scans /\ Followed /\ LogTimed
      /\ NoRound.ph = "idle" /\ now \in Nat
      /\ \A c \in Callers : RoundFits(rd[c], now) /\ rd[c].max \in 0..MaxLog
  BY CursorNumbers DEF LostInv, SideInv, NoRound, TypeInv, RoundsFit, RoundFits
<1>1. SUFFICES ASSUME NEW d \in Callers PROVE Carries(d)'
  BY DEF Carried, Carries
<1>2. ASSUME NEW c \in Callers, CommitBaseline(c) \/ CommitRound(c) PROVE Carries(d)'
  <2>1. rd'[d].ver < cursor'.ver /\ cursor'.ver = cursor.ver + 1 /\ rd'[d].ver \in Nat
    <3>1. rd'[d] = NoRound \/ rd'[d] = rd[d]
      BY <1>2, LeaveShape DEF CommitBaseline, CommitRound, Leave
    <3>2. NoRound.ver = 0
      BY DEF NoRound
    <3> QED
      BY <1>0, <1>2, <3>1, <3>2, CursorMoves, CursorNumbers
  <2>2. ~Current(rd'[d], cursor'.ver)
    BY <2>1, CursorNumbers DEF Current
  <2> QED
    BY <2>2 DEF Carries
<1>3. ASSUME UNCHANGED <<cursor, log>>, rd'[d] = rd[d] \/ rd'[d].ph \notin {"main", "commit"}
      PROVE  Carries(d)'
  BY <1>3, CarriesOn
<1>4. ASSUME NEW c \in Callers, RunStart(c) \/ AbandonRound(c) PROVE Carries(d)'
  <2>1. UNCHANGED <<cursor, log>>
    BY <1>4 DEF RunStart, AbandonRound, upstream, store
  <2>2. rd'[d] = rd[d] \/ rd'[d].ph \notin {"main", "commit"}
    BY <1>0, <1>4, StartShape, LeaveShape DEF AbandonRound, Leave
  <2> QED
    BY <1>3, <2>1, <2>2
<1>5. ASSUME NEW c \in Callers, RescanPage(c) PROVE Carries(d)'
  <2>1. UNCHANGED <<cursor, log>>
    BY <1>5 DEF RescanPage, upstream, store
  <2>2. CASE d = c
    BY <1>5, <2>2, RescanCarries
  <2>3. CASE d # c
    BY <1>3, <1>5, <2>1, <2>3, RescanShape
  <2> QED
    BY <2>2, <2>3
<1>6. ASSUME NEW c \in Callers, MainPage(c) PROVE Carries(d)'
  <2>1. UNCHANGED <<cursor, log>>
    BY <1>6 DEF MainPage, upstream, store
  <2>2. CASE d # c
    BY <1>0, <1>3, <1>6, <2>1, <2>2, MainShape
  <2>3. CASE d = c
    <3>1. /\ rd[c].ph = "main" /\ rd'[c].ver = rd[c].ver /\ rd'[c].since = rd[c].since
          /\ rd'[c].sub = rd[c].sub /\ rd'[c].acc = MainRead(rd[c])
      BY <1>0, <1>6, MainShape DEF MainPage
    <3>2. \A i \in Ids : Leaves(i, rd'[c], log) => Leaves(i, rd[c], log)
      BY <3>1 DEF Leaves
    <3>3. ASSUME NEW i \in Ids, rd[c].acc[i] > 0 PROVE MainRead(rd[c])[i] > 0
      <4> DEFINE b == BagOf(Attributed(Positive(NewRows(rd[c]))))
      <4>1. rd[c].acc \in BagType /\ b \in BagType
        BY BagLaws DEF BooksInv, Reading, RoundOK
      <4>2. MainRead(rd[c]) = Plus(rd[c].acc, b)
        BY DEF MainRead
      <4> HIDE DEF b
      <4>3. MainRead(rd[c])[i] = rd[c].acc[i] + b[i] /\ rd[c].acc[i] \in Nat /\ b[i] \in Nat
        BY <4>1, <4>2, BagLaws DEF BagType
      <4> QED
        BY <3>3, <4>3
    <3> QED
      BY <2>1, <2>3, <3>1, <3>2, <3>3, CarriesOn
  <2> QED
    BY <2>2, <2>3
<1>7. CASE Gateway
  <2>1. UNCHANGED <<cursor, rd>>
    BY <1>7 DEF Gateway, Tick, CommitRow, InsertRow, store
  <2>2. \A i \in Ids : Leaves(i, rd[d], log') => Leaves(i, rd[d], log)
    <3>1. CASE SameVisible(log, log')
      BY <3>1 DEF SameVisible, Leaves
    <3>2. CASE \E k \in Ids : /\ Joins(log, log', k) /\ log[k].ts \in Nat
                              /\ now <= log[k].ts + MaxDelay /\ UNCHANGED now
      BY <1>0, <3>2, LeavesBefore
    <3> QED
      BY <1>0, <1>7, <3>1, <3>2, LogStep
  <2> QED
    BY <2>1, <2>2, CarriesOn
<1>8. ASSUME NEW n \in Nodes, Crash(n) PROVE Carries(d)'
  <2>1. UNCHANGED <<cursor, log>> /\ (rd'[d] = NoRound \/ rd'[d] = rd[d])
    BY <1>8 DEF Crash, upstream, store
  <2> QED
    BY <1>0, <1>3, <2>1
<1>9. CASE UNCHANGED <<cursor, log, rd>>
  BY <1>3, <1>9
<1>10. \/ UNCHANGED <<cursor, log, rd>> \/ Gateway \/ \E n \in Nodes : Crash(n)
       \/ \E c \in Callers : Forward(c) \/ AbandonRound(c)
  BY DEF Next, Backfill, Operator, Faults,
         SliceStart, NextWindow, BackfillPage, BackfillWrite, BackfillProgress, EndSlice,
         BackfillError, PurgeOldUsageDetail, Associate, EnqueueBackfill, RequeueBackfill,
         EnqueueFails, upstream, store, vars
<1> QED
  BY <1>2, <1>4, <1>5, <1>6, <1>7, <1>8, <1>9, <1>10 DEF Forward

\* The initial state has no rows, calls or jobs.
LEMMA LostInit == ASSUME Init PROVE LostInv
<1>0. /\ log = [i \in Ids |-> [st |-> "free", ts |-> 0]] /\ cursor.ts = 0 /\ detail = {}
      /\ linked = PlatformOrgs /\ rd = [c \in Callers |-> NoRound] /\ bf = NoSlice
      /\ NoRound.ph = "idle" /\ NoSlice.ph = "idle" /\ NoJob.status = "none"
      /\ job = [o \in Orgs |-> NoJob]
      /\ enq = [o \in Orgs |-> IF o \in PlatformOrgs THEN "gateA" ELSE "new"]
  BY DEF Init, NoRound, NoSlice, NoJob
<1>1. OnceInv
  BY OnceInit
<1>2. Dense(log)
  <2>1. \A t \in Nat : Close(log, t) = {}
    BY <1>0 DEF Close
  <2> QED
    BY <2>1, FS_EmptySet, ConstantsAssumption DEF Dense
<1>3. Ranges /\ SliceRuns /\ Recorded /\ SliceFull /\ Scans /\ Carried
  BY <1>0 DEF Ranges, SliceRuns, Recorded, SliceFull, Scans, Carried
<1>4. Linked
  BY <1>0 DEF Linked
<1>5. Reached
  BY <1>0 DEF Reached
<1> QED
  BY <1>1, <1>2, <1>3, <1>4, <1>5 DEF LostInv, SideInv, OnceInv

\* No call is lost: however rows commit late and with inverted ids, rounds
\* fail, processes crash, organisations are associated while a round reads and
\* backfills are requeued, a row that no later round will read again is in
\* usage_ledger, provided that the cursor moves by no more than the overlap,
\* that a row is visible within lag and overlap, and that neither the rescan
\* nor a backfill window is cut off by its page limit.
THEOREM NoRowLost ==
  ASSUME GapCovered, DelayCovered, RescanFits, BackfillFits
  PROVE  Spec => []NothingLost
<1>1. Init => BooksInv /\ TypeInv /\ LostInv
  BY BooksInit, TypeInit, LostInit
<1>2. BooksInv /\ TypeInv /\ LostInv /\ [Next]_vars => (BooksInv /\ TypeInv /\ LostInv)'
  <2> SUFFICES ASSUME BooksInv, TypeInv, LostInv, [Next]_vars
               PROVE  BooksInv' /\ TypeInv' /\ LostInv'
    OBVIOUS
  <2>1. SideInv /\ SliceFull /\ Scans /\ LogTimed /\ Dense(log)
    BY DEF LostInv, SideInv
  <2>2. SideInv' /\ SliceFull' /\ Scans' /\ Reached' /\ Carried'
    BY <2>1, SideStep, SliceFullStep, ScansStep, ReachedStep, CarriedStep
  <2> QED
    BY <2>2, BooksStep, TypeStep DEF LostInv
<1>3. TypeInv /\ LostInv => NothingLost
  <2> SUFFICES ASSUME TypeInv, LostInv, NEW i \in Ids, Settled(i), Due(i) PROVE ledger[i] > 0
    BY DEF NothingLost
  <2>1. /\ i \in Ids \ ZeroQuota /\ log[i].st = "visible" /\ log[i].ts < cursor.ts - Overlap
        /\ log[i].ts \in 1..now
    BY DEF Settled, Due, LostInv, SideInv, LogTimed
  <2>2. Awaited(i)
    BY DEF Due, Awaited
  <2>3. Safe(i)
    <3>1. ~(log[i].ts >= cursor.ts - Overlap)
      BY <2>1, CursorNumbers
    <3> QED
      BY <2>1, <2>2, <3>1 DEF LostInv, Reached
  <2>4. ASSUME Owner[i] \in Orgs \ PlatformOrgs, ToBackfill(i, bf, job[Owner[i]], log) PROVE FALSE
    <3>1. job[Owner[i]].status = "done"
      BY <2>4 DEF Due
    <3>2. job[Owner[i]].cts <= 0 /\ ~(bf.ph = "progress" /\ bf.org = Owner[i])
      BY <2>4, <3>1 DEF LostInv, SideInv, Linked, SliceRuns
    <3>3. log[i].ts <= job[Owner[i]].cts
      BY <2>4, <3>2 DEF ToBackfill, Left
    <3>4. JobFits(job[Owner[i]], now) /\ now \in Nat
      BY <2>4, CursorNumbers DEF TypeInv, JobsFit
    <3>5. job[Owner[i]].cts \in Int
      BY <3>4, ConstantsAssumption DEF JobFits
    <3> QED
      BY <2>1, <3>2, <3>3, <3>5, CursorNumbers
  <2> QED
    BY <2>3, <2>4 DEF Safe
<1> QED
  BY <1>1, <1>2, <1>3, PTL DEF Spec
=============================================================================
