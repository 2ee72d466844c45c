------------------------ MODULE EscrowBucketsProofs ------------------------
(***************************************************************************)
(* The rows of escrow_bucket and the loops over them implement the totals  *)
(* of EscrowLedger, for every amount, room and number of buckets.  A loop  *)
(* is a recursive function; what it computes is proved by induction on the *)
(* number of passes, over the sets of passes at which its invariant holds. *)
(***************************************************************************)
EXTENDS EscrowBuckets, FiniteSetTheorems, NaturalsInduction, WellFoundedInduction, TLAPS

-----------------------------------------------------------------------------
(* Induction over positions, for sets in place of predicates.              *)

\* A set of numbers has a least one.
LEMMA LeastNat ==
  ASSUME NEW T, T \subseteq Nat, T # {} PROVE \E m \in T : \A k \in T : m <= k
<1>1. IsWellFoundedOn(OpToRel(<, Nat), Nat)
  BY NatLessThanWellFounded
<1>2. \E x \in T : \A y \in T : ~ (<<y, x>> \in OpToRel(<, Nat))
  BY <1>1, WFMin
<1>3. OpToRel(<, Nat) = {ss \in Nat \X Nat : ss[1] < ss[2]}
  BY Zenon DEF OpToRel
<1> DEFINE R == {ss \in Nat \X Nat : ss[1] < ss[2]}
<1>4. PICK x \in T : \A y \in T : ~ (<<y, x>> \in R)
  BY <1>2, <1>3, Zenon
<1>5. \A y \in T : ~(y < x)
  BY <1>4
<1> QED
  BY <1>5

\* A set that holds 0 and with every position the next one holds all of them.
LEMMA Upto ==
  ASSUME NEW N \in Nat, NEW P, 0 \in P, \A k \in 1..N : k - 1 \in P => k \in P
  PROVE  \A k \in 0..N : k \in P
<1> DEFINE Bad == {k \in 0..N : k \notin P}
<1>1. ASSUME Bad # {} PROVE FALSE
  <2>1. PICK m \in Bad : \A k \in Bad : m <= k
    <3>1. Bad \subseteq Nat
      OBVIOUS
    <3> HIDE DEF Bad
    <3> QED
      BY <1>1, <3>1, LeastNat
  <2>2. m \in 1..N /\ m - 1 \in 0..N /\ m - 1 \notin Bad
    BY <2>1
  <2> QED
    BY <2>1, <2>2
<1> QED
  BY <1>1

\* f runs from a over the positions up to N.
Runs(N, a, step, f) == f[0] = a /\ \A k \in 1..N : f[k] = step[<<k, f[k - 1]>>]

\* A loop is well defined.
LEMMA RunExists ==
  ASSUME NEW N \in Nat, NEW D, NEW a \in D, NEW step \in [(1..N) \X D -> D]
  PROVE  \E f \in [0..N -> D] : Runs(N, a, step, f)
<1> DEFINE P == {m \in 0..N : \E f \in [0..m -> D] : Runs(m, a, step, f)}
<1>1. 0 \in P
  <2>1. [k \in 0..0 |-> a] \in [0..0 -> D] /\ Runs(0, a, step, [k \in 0..0 |-> a])
    BY DEF Runs
  <2> QED
    BY <2>1
<1>2. ASSUME NEW m \in 1..N, m - 1 \in P PROVE m \in P
  <2>1. PICK f \in [0..(m - 1) -> D] : Runs(m - 1, a, step, f)
    BY <1>2
  <2> DEFINE v == step[<<m, f[m - 1]>>]
             g == [k \in 0..m |-> IF k = m THEN v ELSE f[k]]
  <2>2. v \in D
    <3>1. f[m - 1] \in D
      OBVIOUS
    <3> QED
      BY <3>1
  <2>3. g \in [0..m -> D]
    BY <2>2
  <2>4. g[0] = a
    BY <2>1 DEF Runs
  <2>5. \A k \in 1..m : g[k] = step[<<k, g[k - 1]>>]
    <3>1. \A k \in 1..(m - 1) : g[k] = f[k] /\ g[k - 1] = f[k - 1]
      OBVIOUS
    <3>2. g[m] = v /\ g[m - 1] = f[m - 1]
      OBVIOUS
    <3>3. \A k \in 1..m : k = m \/ k \in 1..(m - 1)
      OBVIOUS
    <3> QED
      BY <2>1, <3>1, <3>2, <3>3 DEF Runs
  <2>6. Runs(m, a, step, g)
    BY <2>4, <2>5 DEF Runs
  <2> HIDE DEF g
  <2> QED
    BY <2>3, <2>6
<1> HIDE DEF P
<1>3. N \in P
  BY <1>1, <1>2, Upto
<1> QED
  BY <1>3 DEF P

-----------------------------------------------------------------------------
(* The sum over the rows.                                                  *)

Buckets == [amount : Nat, status : {"active", "holding", "merged"}]

\* What bucket b adds to the sum for a status.
Part(b, status) == IF b.status = status THEN b.amount ELSE 0

\* Parts are numbers.
LEMMA PartTyped ==
  ASSUME NEW status
  PROVE  /\ \A b \in Buckets : Part(b, status) \in Nat
         /\ \A t \in Seq(Buckets) : \A i \in DOMAIN t : t[i] \in Buckets /\ Part(t[i], status) \in Nat
<1>1. \A b \in Buckets : Part(b, status) \in Nat
  BY DEF Part, Buckets
<1> QED
  BY <1>1

\* f holds the partial sums of the table t.
Totalled(t, status, f) ==
  /\ f \in [0..Len(t) -> Nat] /\ f[0] = 0
  /\ \A i \in 1..Len(t) : f[i] = f[i - 1] + Part(t[i], status)

\* SumOf is the last of the partial sums.
LEMMA SumRun ==
  ASSUME NEW t \in Seq(Buckets), NEW status
  PROVE  \E f : Totalled(t, status, f) /\ SumOf(t, status) = f[Len(t)]
<1> DEFINE N == Len(t)
           Def(f) == f = [i \in 0..N |->
                            IF i = 0 THEN 0
                            ELSE f[i - 1] + (IF t[i].status = status THEN t[i].amount ELSE 0)]
           step == [p \in (1..N) \X Nat |-> p[2] + Part(t[p[1]], status)]
<1>1. N \in Nat /\ DOMAIN t = 1..N /\ \A i \in 1..N : Part(t[i], status) \in Nat
  BY PartTyped
<1>2. \E f : Def(f)
  <2>1. step \in [(1..N) \X Nat -> Nat]
    BY <1>1
  <2>2. \A k \in 1..N : \A v \in Nat : step[<<k, v>>] = v + Part(t[k], status)
    OBVIOUS
  <2> HIDE DEF step
  <2>3. PICK f \in [0..N -> Nat] : Runs(N, 0, step, f)
    BY <1>1, <2>1, RunExists
  <2>4. \A k \in 1..N : f[k - 1] \in Nat /\ f[k] = f[k - 1] + Part(t[k], status)
    <3>1. \A k \in 1..N : k - 1 \in 0..N
      OBVIOUS
    <3>2. \A k \in 1..N : f[k - 1] \in Nat
      BY <3>1
    <3> QED
      BY <2>2, <2>3, <3>2 DEF Runs
  <2>5. f[0] = 0
    BY <2>3 DEF Runs
  <2>6. Def(f)
    BY <1>1, <2>4, <2>5 DEF Part
  <2> QED
    BY <2>6
<1> DEFINE total == CHOOSE f : Def(f)
<1>3. Def(total)
  <2> HIDE DEF Def
  <2> QED
    BY <1>2
<1>4. SumOf(t, status) = total[N]
  BY Zenon DEF SumOf
<1> HIDE DEF total
<1>5. total[0] = 0 /\ \A i \in 1..N : total[i] = total[i - 1] + Part(t[i], status)
  BY <1>1, <1>3 DEF Part
<1> DEFINE P == {i \in 0..N : total[i] \in Nat}
<1>6. \A i \in 0..N : i \in P
  <2>1. 0 \in P /\ \A k \in 1..N : k - 1 \in P => k \in P
    BY <1>1, <1>5
  <2> HIDE DEF P
  <2> QED
    BY <1>1, <2>1, Upto
<1>7. total \in [0..N -> Nat]
  BY <1>3, <1>6
<1> QED
  BY <1>4, <1>5, <1>7 DEF Totalled

\* Sums are numbers.
LEMMA SumTyped ==
  ASSUME NEW t \in Seq(Buckets), NEW status
  PROVE  SumOf(t, status) \in Nat
<1>1. PICK f : Totalled(t, status, f) /\ SumOf(t, status) = f[Len(t)]
  BY SumRun
<1>2. Len(t) \in 0..Len(t)
  OBVIOUS
<1> QED
  BY <1>1, <1>2 DEF Totalled

\* Changing a row changes the sum by the difference.
LEMMA SumUpdate ==
  ASSUME NEW t \in Seq(Buckets), NEW h \in DOMAIN t, NEW b \in Buckets, NEW status
  PROVE  /\ [t EXCEPT ![h] = b] \in Seq(Buckets)
         /\ Len([t EXCEPT ![h] = b]) = Len(t)
         /\ SumOf([t EXCEPT ![h] = b], status)
              = SumOf(t, status) - Part(t[h], status) + Part(b, status)
<1> DEFINE u == [t EXCEPT ![h] = b]
           N == Len(t)
<1>1. /\ u \in Seq(Buckets) /\ Len(u) = N /\ N \in Nat /\ h \in 1..N
      /\ u[h] = b /\ \A i \in 1..N : i # h => u[i] = t[i]
  OBVIOUS
<1>2. Part(b, status) \in Nat /\ \A i \in 1..N : Part(t[i], status) \in Nat
  BY PartTyped
<1> HIDE DEF u
<1>3. PICK f : Totalled(t, status, f) /\ SumOf(t, status) = f[N]
  BY SumRun
<1>4. PICK g : Totalled(u, status, g) /\ SumOf(u, status) = g[N]
  BY <1>1, SumRun
<1> DEFINE P == {k \in 0..N : g[k] = f[k] + (IF k < h THEN 0 ELSE Part(b, status) - Part(t[h], status))}
<1>5. f \in [0..N -> Nat] /\ g \in [0..N -> Nat] /\ f[0] = 0 /\ g[0] = 0
      /\ \A k \in 1..N : f[k] = f[k - 1] + Part(t[k], status) /\ g[k] = g[k - 1] + Part(u[k], status)
  BY <1>1, <1>3, <1>4 DEF Totalled
<1>6. 0 \in P
  BY <1>1, <1>5
<1>7. ASSUME NEW k \in 1..N, k - 1 \in P PROVE k \in P
  <2>1. f[k] = f[k - 1] + Part(t[k], status) /\ g[k] = g[k - 1] + Part(u[k], status)
        /\ g[k - 1] = f[k - 1] + (IF k - 1 < h THEN 0 ELSE Part(b, status) - Part(t[h], status))
        /\ f[k - 1] \in Nat /\ g[k - 1] \in Nat /\ Part(t[k], status) \in Nat /\ Part(t[h], status) \in Nat
    BY <1>1, <1>2, <1>5, <1>7
  <2>2. CASE k = h
    BY <1>1, <1>2, <2>1, <2>2
  <2>3. CASE k # h
    <3>1. u[k] = t[k]
      BY <1>1, <2>3
    <3> QED
      BY <1>1, <1>2, <2>1, <2>3, <3>1
  <2> QED
    BY <2>2, <2>3
<1>8. N \in P
  <2> HIDE DEF P
  <2>1. \A k \in 0..N : k \in P
    BY <1>1, <1>6, <1>7, Upto
  <2>2. N \in 0..N
    OBVIOUS
  <2> QED
    BY <2>1, <2>2
<1>9. g[N] = f[N] + (Part(b, status) - Part(t[h], status))
  BY <1>1, <1>8
<1>10. SumOf(u, status) = SumOf(t, status) - Part(t[h], status) + Part(b, status)
  <2>1. f[N] \in Nat /\ Part(t[h], status) \in Nat
    BY <1>1, <1>2, <1>5
  <2> QED
    BY <1>2, <1>3, <1>4, <1>9, <2>1
<1> QED
  BY <1>1, <1>10 DEF u

\* A new row adds its part.
LEMMA SumAppend ==
  ASSUME NEW t \in Seq(Buckets), NEW b \in Buckets, NEW status
  PROVE  /\ Append(t, b) \in Seq(Buckets)
         /\ SumOf(Append(t, b), status) = SumOf(t, status) + Part(b, status)
<1> DEFINE u == Append(t, b)
           N == Len(t)
<1>1. /\ u \in Seq(Buckets) /\ Len(u) = N + 1 /\ N \in Nat
      /\ u[N + 1] = b /\ \A i \in 1..N : u[i] = t[i]
  OBVIOUS
<1>2. Part(b, status) \in Nat /\ \A i \in 1..N : Part(t[i], status) \in Nat
  BY PartTyped
<1> HIDE DEF u
<1>3. PICK f : Totalled(t, status, f) /\ SumOf(t, status) = f[N]
  BY SumRun
<1>4. PICK g : Totalled(u, status, g) /\ SumOf(u, status) = g[N + 1]
  BY <1>1, SumRun
<1> DEFINE P == {k \in 0..N : g[k] = f[k]}
<1>5. /\ f \in [0..N -> Nat] /\ g \in [0..(N + 1) -> Nat] /\ f[0] = 0 /\ g[0] = 0
      /\ \A k \in 1..N : f[k] = f[k - 1] + Part(t[k], status)
      /\ \A k \in 1..(N + 1) : g[k] = g[k - 1] + Part(u[k], status)
  BY <1>1, <1>3, <1>4 DEF Totalled
<1>6. 0 \in P /\ \A k \in 1..N : k - 1 \in P => k \in P
  BY SMTT(30), <1>1, <1>5
<1>7. N \in P
  <2> HIDE DEF P
  <2>1. \A k \in 0..N : k \in P
    BY <1>1, <1>6, Upto
  <2>2. N \in 0..N
    OBVIOUS
  <2> QED
    BY <2>1, <2>2
<1>8. g[N + 1] = f[N] + Part(b, status)
  <2>1. g[N + 1] = g[N] + Part(b, status)
    BY <1>1, <1>5
  <2> QED
    BY <1>7, <2>1
<1> QED
  BY <1>1, <1>3, <1>4, <1>8 DEF u

\* Rows without the status add nothing.
LEMMA SumNone ==
  ASSUME NEW t \in Seq(Buckets), NEW status, WithStatus(t, status) = {}
  PROVE  SumOf(t, status) = 0
<1> DEFINE N == Len(t)
<1>0. N \in Nat
  OBVIOUS
<1>1. PICK f : Totalled(t, status, f) /\ SumOf(t, status) = f[N]
  BY SumRun
<1>2. \A i \in 1..N : Part(t[i], status) = 0
  BY DEF Part, WithStatus
<1> DEFINE P == {k \in 0..N : f[k] = 0}
<1>3. 0 \in P /\ \A k \in 1..N : k - 1 \in P => k \in P
  BY <1>1, <1>2 DEF Totalled
<1>4. N \in P
  <2> HIDE DEF P
  <2>1. \A k \in 0..N : k \in P
    BY <1>0, <1>3, Upto
  <2>2. N \in 0..N
    OBVIOUS
  <2> QED
    BY <2>1, <2>2
<1> QED
  BY <1>1, <1>4

-----------------------------------------------------------------------------
(* The loops.                                                              *)

\* First and Last are members, and the least and the greatest ones.
LEMMA FirstIs ==
  ASSUME NEW S, S \subseteq Nat, S # {}
  PROVE  First(S) \in S /\ \A j \in S : First(S) <= j
  BY LeastNat DEF First

\* Least is the smaller one.
LEMMA LeastIs ==
  ASSUME NEW a \in Int, NEW b \in Int
  PROVE  Least(a, b) \in {a, b} /\ Least(a, b) <= a /\ Least(a, b) <= b
  BY DEF Least

MergeStates == [rows : Seq(Buckets), remaining : Nat, merged : Nat]

\* The bucket that a pass takes d from.
Drained(b, d) == Bucket(b.amount - d, IF b.amount - d = 0 THEN "merged" ELSE "holding")

\* What is taken from a holding bucket leaves its sum and nothing else.
LEMMA DrainedIs ==
  ASSUME NEW t \in Seq(Buckets), NEW h \in DOMAIN t, t[h].status = "holding",
         NEW d \in Nat, d <= t[h].amount
  PROVE  LET u == [t EXCEPT ![h] = Drained(t[h], d)] IN
         /\ u \in Seq(Buckets) /\ Len(u) = Len(t) /\ u[h] = Drained(t[h], d)
         /\ \A i \in DOMAIN t : i # h => u[i] = t[i]
         /\ u[h].status \in {"holding", "merged"} /\ (d = t[h].amount => u[h].status = "merged")
         /\ SumOf(u, "holding") = SumOf(t, "holding") - d
         /\ SumOf(u, "active") = SumOf(t, "active")
<1> DEFINE b == Drained(t[h], d)
           u == [t EXCEPT ![h] = b]
<1>1. t[h] \in Buckets /\ t[h].amount \in Nat
  <2>1. t[h] \in Buckets
    BY PartTyped
  <2> QED
    BY <2>1 DEF Buckets
<1>2. b.amount = t[h].amount - d /\ b.status = IF t[h].amount - d = 0 THEN "merged" ELSE "holding"
  BY DEF Drained, Bucket
<1>3. b \in Buckets
  BY <1>1 DEF Drained, Bucket, Buckets
<1> HIDE DEF b
<1>4. u \in Seq(Buckets) /\ Len(u) = Len(t) /\ u[h] = b /\ \A i \in DOMAIN t : i # h => u[i] = t[i]
  BY <1>3
<1>5. \A status : SumOf(u, status) = SumOf(t, status) - Part(t[h], status) + Part(b, status)
  BY <1>3, SumUpdate
<1>6. Part(t[h], "holding") = t[h].amount /\ Part(t[h], "active") = 0 /\ Part(b, "active") = 0
      /\ Part(b, "holding") = t[h].amount - d
  BY <1>1, <1>2 DEF Part
<1>7. SumOf(t, "holding") \in Nat /\ SumOf(t, "active") \in Nat
  BY SumTyped
<1>8. SumOf(u, "holding") = SumOf(t, "holding") - d /\ SumOf(u, "active") = SumOf(t, "active")
  <2> HIDE DEF u
  <2>1. /\ SumOf(u, "holding") = SumOf(t, "holding") - t[h].amount + (t[h].amount - d)
        /\ SumOf(u, "active") = SumOf(t, "active") - 0 + 0
    BY <1>5, <1>6
  <2> QED
    BY <1>1, <1>7, <2>1
<1> QED
  BY <1>1, <1>2, <1>4, <1>8 DEF b

\* A pass of a refill is over, or takes from the oldest holding bucket.
LEMMA MergePassIs ==
  ASSUME NEW s \in MergeStates
  PROVE  \/ /\ s.remaining = 0 \/ WithStatus(s.rows, "holding") = {}
            /\ MergePass(s) = s
         \/ \E h \in DOMAIN s.rows, d \in Nat :
              /\ s.rows[h].status = "holding"
              /\ \A i \in DOMAIN s.rows : i < h => s.rows[i].status # "holding"
              /\ d <= s.rows[h].amount /\ d <= s.remaining
              /\ d = s.rows[h].amount \/ d = s.remaining
              /\ MergePass(s) = [rows |-> [s.rows EXCEPT ![h] = Drained(s.rows[h], d)],
                                 remaining |-> s.remaining - d, merged |-> s.merged + d]
<1>1. s.rows \in Seq(Buckets) /\ s.remaining \in Nat /\ s.merged \in Nat
  BY DEF MergeStates
<1>2. CASE s.remaining <= 0 \/ WithStatus(s.rows, "holding") = {}
  BY <1>1, <1>2 DEF MergePass
<1>3. CASE ~(s.remaining <= 0 \/ WithStatus(s.rows, "holding") = {})
  <2> DEFINE W == WithStatus(s.rows, "holding")
             h == First(W)
             d == Least(s.rows[h].amount, s.remaining)
  <2>1. W \subseteq DOMAIN s.rows /\ DOMAIN s.rows \subseteq Nat
        /\ \A i \in DOMAIN s.rows : i \in W <=> s.rows[i].status = "holding"
    BY <1>1 DEF WithStatus
  <2>2. h \in W /\ \A j \in W : h <= j
    <3> HIDE DEF W
    <3> QED
      BY <1>3, <2>1, FirstIs DEF W
  <2>3. MergePass(s) = [rows |-> [s.rows EXCEPT ![h] = Drained(s.rows[h], d)],
                        remaining |-> s.remaining - d, merged |-> s.merged + d]
    BY <1>3 DEF MergePass, NextHoldingBucketTx, Take, Drained
  <2> HIDE DEF W, h
  <2>4. h \in DOMAIN s.rows /\ s.rows[h].status = "holding"
    BY <2>1, <2>2
  <2>5. \A i \in DOMAIN s.rows : i < h => s.rows[i].status # "holding"
    BY <2>1, <2>2
  <2>6. s.rows[h].amount \in Nat
    <3>1. s.rows[h] \in Buckets
      BY <1>1, <2>4, PartTyped
    <3> QED
      BY <3>1 DEF Buckets
  <2>7. d \in Nat /\ d <= s.rows[h].amount /\ d <= s.remaining /\ (d = s.rows[h].amount \/ d = s.remaining)
    BY <1>1, <2>6 DEF Least
  <2> HIDE DEF d
  <2> QED
    BY <2>3, <2>4, <2>5, <2>7
<1> QED
  BY <1>2, <1>3

\* Passes stay among the states.
LEMMA MergePassTyped ==
  ASSUME NEW s \in MergeStates
  PROVE  MergePass(s) \in MergeStates
<1>1. ASSUME NEW h \in DOMAIN s.rows, NEW d \in Nat, s.rows[h].status = "holding",
             d <= s.rows[h].amount, d <= s.remaining,
             MergePass(s) = [rows |-> [s.rows EXCEPT ![h] = Drained(s.rows[h], d)],
                             remaining |-> s.remaining - d, merged |-> s.merged + d]
      PROVE  MergePass(s) \in MergeStates
  <2>1. s.rows \in Seq(Buckets) /\ s.remaining \in Nat /\ s.merged \in Nat
    BY DEF MergeStates
  <2>2. [s.rows EXCEPT ![h] = Drained(s.rows[h], d)] \in Seq(Buckets)
    BY <1>1, <2>1, DrainedIs
  <2>3. s.remaining - d \in Nat /\ s.merged + d \in Nat
    BY <1>1, <2>1
  <2> QED
    BY <1>1, <2>2, <2>3 DEF MergeStates
<1> QED
  BY <1>1, MergePassIs

\* The passes of a refill.
LEMMA MergeRun ==
  ASSUME NEW t \in Seq(Buckets), NEW room \in Nat
  PROVE  \E f \in [0..Len(t) -> MergeStates] :
           /\ f[0] = [rows |-> t, remaining |-> room, merged |-> 0]
           /\ \A k \in 1..Len(t) : f[k] = MergePass(f[k - 1])
           /\ MergeLoop(t, room) = f[Len(t)]
<1> DEFINE N == Len(t)
           a == [rows |-> t, remaining |-> room, merged |-> 0]
           step == [p \in (1..N) \X MergeStates |-> MergePass(p[2])]
           Def(f) == f = [k \in 0..N |-> IF k = 0 THEN a ELSE MergePass(f[k - 1])]
<1>1. N \in Nat /\ a \in MergeStates
  BY DEF MergeStates
<1>2. step \in [(1..N) \X MergeStates -> MergeStates]
  BY MergePassTyped
<1>3. \A k \in 1..N : \A s \in MergeStates : step[<<k, s>>] = MergePass(s)
  OBVIOUS
<1> HIDE DEF step, a
<1>4. PICK g \in [0..N -> MergeStates] : Runs(N, a, step, g)
  BY <1>1, <1>2, RunExists
<1>5. g[0] = a /\ \A k \in 1..N : g[k - 1] \in MergeStates /\ g[k] = MergePass(g[k - 1])
  <2>1. \A k \in 1..N : k - 1 \in 0..N
    BY <1>1
  <2>2. \A k \in 1..N : g[k - 1] \in MergeStates
    BY <2>1
  <2> QED
    BY <1>3, <1>4, <2>2 DEF Runs
<1>6. Def(g)
  BY <1>1, <1>5
<1> DEFINE f == CHOOSE x : Def(x)
<1>7. Def(f)
  <2> HIDE DEF Def
  <2> QED
    BY <1>6
<1>8. MergeLoop(t, room) = f[N]
  BY Zenon DEF MergeLoop, a
<1> HIDE DEF f
<1>9. f[0] = a /\ \A k \in 1..N : f[k] = MergePass(f[k - 1])
  BY <1>1, <1>7
<1> DEFINE P == {k \in 0..N : f[k] \in MergeStates}
<1>10. 0 \in P /\ \A k \in 1..N : k - 1 \in P => k \in P
  BY <1>1, <1>9, MergePassTyped
<1>11. \A k \in 0..N : k \in P
  <2> HIDE DEF P
  <2> QED
    BY <1>1, <1>10, Upto
<1>12. f \in [0..N -> MergeStates]
  BY <1>7, <1>11
<1> QED
  BY <1>8, <1>9, <1>12 DEF a

\* After k passes of a refill of table t: money moves and does not change,
\* only holding buckets are touched, one only when all older ones are used
\* up, and the k oldest rows are done unless there is nothing left to merge.
Merging(t, room, k, s) ==
  /\ s \in MergeStates /\ Len(s.rows) = Len(t)
  /\ SumOf(s.rows, "holding") + s.merged = SumOf(t, "holding")
  /\ SumOf(s.rows, "active") = SumOf(t, "active")
  /\ s.remaining + s.merged = room
  /\ \A i \in DOMAIN t : IF t[i].status = "holding" THEN s.rows[i].status \in {"holding", "merged"}
                         ELSE s.rows[i] = t[i]
  /\ \A i, j \in DOMAIN t : i < j /\ s.rows[j] # t[j] => s.rows[i].status # "holding"
  /\ s.remaining = 0 \/ \A i \in DOMAIN t : i <= k => s.rows[i].status # "holding"

\* One pass.
LEMMA MergingStep ==
  ASSUME NEW t \in Seq(Buckets), NEW room \in Nat, NEW k \in Nat \ {0}, NEW s,
         Merging(t, room, k - 1, s)
  PROVE  Merging(t, room, k, MergePass(s))
<1>1. /\ s \in MergeStates /\ s.rows \in Seq(Buckets) /\ s.remaining \in Nat /\ s.merged \in Nat
      /\ DOMAIN s.rows = DOMAIN t /\ DOMAIN t \subseteq Nat /\ Len(s.rows) = Len(t)
  BY DEF Merging, MergeStates
<1>2. CASE (s.remaining = 0 \/ WithStatus(s.rows, "holding") = {}) /\ MergePass(s) = s
  <2>1. s.remaining = 0 \/ \A i \in DOMAIN t : s.rows[i].status # "holding"
    BY <1>1, <1>2 DEF WithStatus
  <2> QED
    BY <1>2, <2>1 DEF Merging
<1>3. ASSUME NEW h \in DOMAIN s.rows, NEW d \in Nat, s.rows[h].status = "holding",
             \A i \in DOMAIN s.rows : i < h => s.rows[i].status # "holding",
             d <= s.rows[h].amount, d <= s.remaining, d = s.rows[h].amount \/ d = s.remaining,
             MergePass(s) = [rows |-> [s.rows EXCEPT ![h] = Drained(s.rows[h], d)],
                             remaining |-> s.remaining - d, merged |-> s.merged + d]
      PROVE  Merging(t, room, k, MergePass(s))
  <2> DEFINE u == [s.rows EXCEPT ![h] = Drained(s.rows[h], d)]
             r == MergePass(s)
  <2>1. /\ u \in Seq(Buckets) /\ Len(u) = Len(s.rows)
        /\ \A i \in DOMAIN s.rows : i # h => u[i] = s.rows[i]
        /\ u[h].status \in {"holding", "merged"} /\ (d = s.rows[h].amount => u[h].status = "merged")
        /\ SumOf(u, "holding") = SumOf(s.rows, "holding") - d
        /\ SumOf(u, "active") = SumOf(s.rows, "active")
    BY <1>1, <1>3, DrainedIs
  <2>2. r.rows = u /\ r.remaining = s.remaining - d /\ r.merged = s.merged + d
    BY <1>3
  <2>3. r \in MergeStates
    BY <1>1, MergePassTyped
  <2> HIDE DEF u, r
  <2>4. SumOf(r.rows, "holding") + r.merged = SumOf(t, "holding") /\ r.remaining + r.merged = room
    <3>1. SumOf(s.rows, "holding") + s.merged = SumOf(t, "holding") /\ s.remaining + s.merged = room
      BY DEF Merging
    <3>2. SumOf(s.rows, "holding") \in Nat
      BY <1>1, SumTyped
    <3> QED
      BY <1>1, <2>1, <2>2, <3>1, <3>2
  <2>5. t[h].status = "holding"
    BY <1>1, <1>3 DEF Merging
  <2>6. \A i \in DOMAIN t : IF t[i].status = "holding" THEN u[i].status \in {"holding", "merged"}
                            ELSE u[i] = t[i]
    BY <1>1, <2>1, <2>5 DEF Merging
  <2>7. ASSUME NEW i \in DOMAIN t, NEW j \in DOMAIN t, i < j, u[j] # t[j]
        PROVE  u[i].status # "holding"
    <3>1. CASE j = h
      <4>1. i # h /\ s.rows[i].status # "holding"
        BY <1>1, <1>3, <2>7, <3>1
      <4> QED
        BY <1>1, <2>1, <4>1
    <3>2. CASE j # h
      <4>1. s.rows[j] # t[j]
        BY <1>1, <2>1, <2>7, <3>2
      <4>2. s.rows[i].status # "holding"
        BY <2>7, <4>1 DEF Merging
      <4>3. i # h
        BY <1>3, <4>2
      <4> QED
        BY <1>1, <2>1, <4>2, <4>3
    <3> QED
      BY <3>1, <3>2
  <2>8. r.remaining = 0 \/ \A i \in DOMAIN t : i <= k => u[i].status # "holding"
    <3>1. CASE d = s.remaining
      BY <1>1, <2>2, <3>1
    <3>2. CASE d = s.rows[h].amount /\ s.remaining # 0
      <4>1. \A i \in DOMAIN t : i <= k - 1 => s.rows[i].status # "holding"
        BY <3>2 DEF Merging
      <4>2. ~(h <= k - 1) /\ h \in Nat
        BY <1>1, <1>3, <4>1
      <4>3. \A i \in DOMAIN t : i <= k => i < h \/ i = h
        BY <1>1, <4>2
      <4> QED
        BY <1>1, <1>3, <2>1, <3>2, <4>3
    <3>3. CASE s.remaining = 0
      BY <1>1, <1>3, <2>2, <3>3
    <3> QED
      BY <1>3, <3>1, <3>2, <3>3
  <2>9. Len(r.rows) = Len(t) /\ SumOf(r.rows, "active") = SumOf(t, "active")
    BY <1>1, <2>1, <2>2 DEF Merging
  <2>10. Merging(t, room, k, r)
    BY <2>2, <2>3, <2>4, <2>6, <2>7, <2>8, <2>9 DEF Merging
  <2> QED
    BY <2>10 DEF r
<1> QED
  BY <1>1, <1>2, <1>3, MergePassIs

\* The whole loop: it merges the room, or all that is held if that is less.
LEMMA MergeLoopIs ==
  ASSUME NEW t \in Seq(Buckets), NEW room \in Nat
  PROVE  /\ Merging(t, room, Len(t), MergeLoop(t, room))
         /\ MergeLoop(t, room).merged = Least(room, SumOf(t, "holding"))
<1> DEFINE N == Len(t)
           m == MergeLoop(t, room)
<1>0. N \in Nat /\ DOMAIN t = 1..N
  OBVIOUS
<1>1. PICK f \in [0..N -> MergeStates] :
        /\ f[0] = [rows |-> t, remaining |-> room, merged |-> 0]
        /\ \A k \in 1..N : f[k] = MergePass(f[k - 1])
        /\ m = f[N]
  BY MergeRun
<1>2. Merging(t, room, 0, f[0])
  <2>1. f[0].rows = t /\ f[0].remaining = room /\ f[0].merged = 0 /\ f[0] \in MergeStates
    BY <1>0, <1>1
  <2>2. SumOf(t, "holding") \in Nat
    BY SumTyped
  <2>3. \A i \in DOMAIN t : ~(i <= 0)
    BY <1>0
  <2> QED
    BY <2>1, <2>2, <2>3 DEF Merging
<1> DEFINE P == {k \in 0..N : Merging(t, room, k, f[k])}
<1>3. ASSUME NEW k \in 1..N, k - 1 \in P PROVE k \in P
  <2>1. Merging(t, room, k - 1, f[k - 1]) /\ k \in Nat \ {0} /\ k \in 0..N
    BY <1>0, <1>3
  <2>2. Merging(t, room, k, MergePass(f[k - 1]))
    BY <2>1, MergingStep
  <2> QED
    BY <1>1, <2>1, <2>2
<1>4. Merging(t, room, N, m)
  <2>1. 0 \in P
    BY <1>0, <1>2
  <2>2. \A k \in 0..N : k \in P
    <3> HIDE DEF P
    <3> QED
      BY <1>0, <1>3, <2>1, Upto
  <2>3. N \in P
    BY <1>0, <2>2
  <2> QED
    BY <1>1, <2>3
<1> HIDE DEF m
<1>5. m.rows \in Seq(Buckets) /\ m.remaining \in Nat /\ m.merged \in Nat /\ DOMAIN m.rows = DOMAIN t
      /\ SumOf(m.rows, "holding") + m.merged = SumOf(t, "holding") /\ m.remaining + m.merged = room
  BY <1>4 DEF Merging, MergeStates
<1>6. SumOf(m.rows, "holding") \in Nat /\ SumOf(t, "holding") \in Nat
  BY <1>5, SumTyped
<1>7. m.remaining = 0 \/ SumOf(m.rows, "holding") = 0
  <2>1. CASE \A i \in DOMAIN t : i <= N => m.rows[i].status # "holding"
    <3>1. WithStatus(m.rows, "holding") = {}
      BY <1>0, <1>5, <2>1 DEF WithStatus
    <3> QED
      BY <1>5, <3>1, SumNone
  <2> QED
    BY <1>4, <2>1 DEF Merging
<1>8. m.merged = Least(room, SumOf(t, "holding"))
  BY <1>5, <1>6, <1>7 DEF Least
<1> QED
  BY <1>4, <1>8 DEF m

\* Last is the greatest member.
LEMMA LastIs ==
  ASSUME NEW N \in Nat, NEW S, S \subseteq 1..N, S # {}
  PROVE  Last(S) \in S /\ \A j \in S : j <= Last(S)
<1> DEFINE T == {N - x : x \in S}
<1>0. \A j \in S : j \in Int /\ 1 <= j /\ j <= N
  <2>1. \A j \in 1..N : j \in Int /\ 1 <= j /\ j <= N
    OBVIOUS
  <2> QED
    BY <2>1
<1>1. T \subseteq Nat /\ T # {}
  <2>1. PICK e \in S : TRUE
    OBVIOUS
  <2>2. \A j \in S : N - j \in Nat
    BY <1>0
  <2>3. N - e \in T
    OBVIOUS
  <2> QED
    BY <2>2, <2>3
<1>2. PICK m \in T : \A k \in T : m <= k
  <2> HIDE DEF T
  <2> QED
    BY <1>1, LeastNat
<1>3. PICK x \in S : m = N - x
  OBVIOUS
<1>4. \A j \in S : x >= j
  <2> TAKE j \in S
  <2>1. N - j \in T
    OBVIOUS
  <2>2. N - x <= N - j
    BY <1>2, <1>3, <2>1
  <2>3. x \in Int /\ j \in Int
    BY <1>0
  <2> QED
    BY <2>2, <2>3
<1>5. Last(S) \in S /\ \A j \in S : Last(S) >= j
  BY <1>3, <1>4 DEF Last
<1> QED
  BY <1>0, <1>5

ReduceStates == [rows : Seq(Buckets), remaining : Nat, todo : SUBSET Nat]

\* After k passes of a refund of a from table t: what was taken left the held
\* money, only holding buckets are touched, and the k newest rows are done and
\* used up unless nothing remains to be taken.
Reducing(t, a, k, s) ==
  /\ s \in ReduceStates /\ Len(s.rows) = Len(t) /\ s.remaining <= a
  /\ SumOf(s.rows, "holding") + (a - s.remaining) = SumOf(t, "holding")
  /\ SumOf(s.rows, "active") = SumOf(t, "active")
  /\ \A i \in DOMAIN t : IF t[i].status = "holding" THEN s.rows[i].status \in {"holding", "merged"}
                         ELSE s.rows[i] = t[i]
  /\ s.todo \subseteq WithStatus(s.rows, "holding")
  /\ s.remaining = 0 \/ (/\ WithStatus(s.rows, "holding") \subseteq s.todo
                         /\ \A i \in s.todo : i <= Len(t) - k)

\* One pass.
LEMMA ReducingStep ==
  ASSUME NEW t \in Seq(Buckets), NEW a \in Nat, NEW k \in Nat \ {0}, NEW s,
         Reducing(t, a, k - 1, s)
  PROVE  Reducing(t, a, k, ReducePass(s))
<1>1. /\ s \in ReduceStates /\ s.rows \in Seq(Buckets) /\ s.remaining \in Nat /\ s.todo \subseteq Nat
      /\ DOMAIN s.rows = DOMAIN t /\ DOMAIN t = 1..Len(t) /\ Len(t) \in Nat /\ Len(s.rows) = Len(t)
      /\ s.remaining <= a
  BY DEF Reducing, ReduceStates
<1>2. CASE s.remaining <= 0 \/ s.todo = {}
  <2>1. ReducePass(s) = s
    BY <1>2 DEF ReducePass
  <2>2. s.remaining = 0 \/ s.todo = {}
    BY <1>1, <1>2
  <2> QED
    BY <2>1, <2>2 DEF Reducing
<1>3. CASE ~(s.remaining <= 0 \/ s.todo = {})
  <2> DEFINE h == Last(s.todo)
             d == Least(s.remaining, s.rows[h].amount)
             u == [s.rows EXCEPT ![h] = Drained(s.rows[h], d)]
             r == ReducePass(s)
  <2>1. s.todo \subseteq 1..Len(t) /\ s.todo # {}
        /\ \A i \in s.todo : i \in DOMAIN t /\ s.rows[i].status = "holding"
    BY <1>1, <1>3 DEF Reducing, WithStatus
  <2>2. h \in s.todo /\ \A j \in s.todo : j <= h
    BY <1>1, <2>1, LastIs
  <2>3. r = [rows |-> u, remaining |-> s.remaining - d, todo |-> s.todo \ {h}]
    BY <1>3 DEF ReducePass, Reduced, Drained
  <2>4. h \in DOMAIN s.rows /\ s.rows[h].status = "holding" /\ h \in DOMAIN t
    <3> HIDE DEF h
    <3> QED
      BY <1>1, <2>1, <2>2
  <2>5. s.rows[h].amount \in Nat
    <3> HIDE DEF h
    <3>1. s.rows[h] \in Buckets
      BY <1>1, <2>4, PartTyped
    <3> QED
      BY <3>1 DEF Buckets
  <2>6. d \in Nat /\ d <= s.rows[h].amount /\ d <= s.remaining /\ (d = s.rows[h].amount \/ d = s.remaining)
    <3> HIDE DEF h
    <3> QED
      BY <1>1, <2>5 DEF Least
  <2> HIDE DEF h, d
  <2>7. /\ u \in Seq(Buckets) /\ Len(u) = Len(s.rows)
        /\ \A i \in DOMAIN s.rows : i # h => u[i] = s.rows[i]
        /\ u[h].status \in {"holding", "merged"} /\ (d = s.rows[h].amount => u[h].status = "merged")
        /\ SumOf(u, "holding") = SumOf(s.rows, "holding") - d
        /\ SumOf(u, "active") = SumOf(s.rows, "active")
    BY <1>1, <2>4, <2>6, DrainedIs
  <2>8. r.rows = u /\ r.remaining = s.remaining - d /\ r.todo = s.todo \ {h}
    BY <2>3
  <2> HIDE DEF u
  <2>9. r \in ReduceStates /\ r.remaining \in Nat /\ r.remaining <= a
    BY <1>1, <2>3, <2>6, <2>7, <2>8 DEF ReduceStates
  <2> HIDE DEF r
  <2>10. SumOf(r.rows, "holding") + (a - r.remaining) = SumOf(t, "holding")
    <3>1. SumOf(s.rows, "holding") + (a - s.remaining) = SumOf(t, "holding")
      BY DEF Reducing
    <3>2. SumOf(s.rows, "holding") \in Nat
      BY <1>1, SumTyped
    <3> QED
      BY <1>1, <2>6, <2>7, <2>8, <3>1, <3>2
  <2>11. t[h].status = "holding"
    BY <2>4 DEF Reducing
  <2>12. \A i \in DOMAIN t : IF t[i].status = "holding" THEN u[i].status \in {"holding", "merged"}
                             ELSE u[i] = t[i]
    BY <1>1, <2>7, <2>11 DEF Reducing
  <2>13. r.todo \subseteq WithStatus(r.rows, "holding")
    <3>1. DOMAIN u = DOMAIN t
      BY <1>1, <2>7
    <3>2. \A i \in s.todo \ {h} : i \in DOMAIN u /\ u[i].status = "holding"
      BY <1>1, <2>1, <2>7, <3>1
    <3> QED
      BY <2>8, <3>2 DEF WithStatus
  <2>14. r.remaining = 0 \/ (/\ WithStatus(r.rows, "holding") \subseteq r.todo
                             /\ \A i \in r.todo : i <= Len(t) - k)
    <3>1. CASE d = s.remaining
      BY <1>1, <2>8, <3>1
    <3>2. CASE d = s.rows[h].amount
      <4>1. /\ WithStatus(s.rows, "holding") \subseteq s.todo
            /\ \A i \in s.todo : i <= Len(t) - (k - 1)
        BY <1>1, <1>3 DEF Reducing
      <4>2. DOMAIN u = DOMAIN s.rows /\ u[h].status = "merged"
        BY <1>1, <2>7, <3>2
      <4>3. WithStatus(u, "holding") \subseteq WithStatus(s.rows, "holding") \ {h}
        BY <2>7, <4>2 DEF WithStatus
      <4>4. \A i \in s.todo \ {h} : i <= Len(t) - k
        <5>1. \A i \in s.todo : i \in Int
          BY <2>1
        <5>2. \A i \in s.todo \ {h} : i < h /\ h <= Len(t) - (k - 1)
          BY <2>2, <4>1, <5>1
        <5> QED
          BY <1>1, <2>2, <5>1, <5>2
      <4> QED
        BY <2>8, <4>1, <4>3, <4>4
    <3> QED
      BY <2>6, <3>1, <3>2
  <2>15. Len(r.rows) = Len(t) /\ SumOf(r.rows, "active") = SumOf(t, "active")
    BY <1>1, <2>7, <2>8 DEF Reducing
  <2>16. Reducing(t, a, k, r)
    BY <2>8, <2>9, <2>10, <2>12, <2>13, <2>14, <2>15 DEF Reducing
  <2> QED
    BY <2>16 DEF r
<1> QED
  BY <1>2, <1>3

\* Passes stay among the states.
LEMMA ReducePassTyped ==
  ASSUME NEW N \in Nat, NEW s \in ReduceStates, Len(s.rows) = N, s.todo \subseteq 1..N
  PROVE  /\ ReducePass(s) \in ReduceStates /\ Len(ReducePass(s).rows) = N
         /\ ReducePass(s).todo \subseteq 1..N
<1>1. s.rows \in Seq(Buckets) /\ s.remaining \in Nat /\ DOMAIN s.rows = 1..N
  BY DEF ReduceStates
<1>2. CASE s.remaining <= 0 \/ s.todo = {}
  BY <1>2 DEF ReducePass
<1>3. CASE ~(s.remaining <= 0 \/ s.todo = {})
  <2> DEFINE h == Last(s.todo)
             d == Least(s.remaining, s.rows[h].amount)
             b == Drained(s.rows[h], d)
  <2>1. h \in 1..N
    BY <1>3, LastIs
  <2>2. ReducePass(s) = [rows |-> [s.rows EXCEPT ![h] = b], remaining |-> s.remaining - d,
                         todo |-> s.todo \ {h}]
    BY <1>3 DEF ReducePass, Reduced, Drained
  <2> HIDE DEF h
  <2>3. s.rows[h].amount \in Nat
    <3>1. s.rows[h] \in Buckets
      BY <1>1, <2>1, PartTyped
    <3> QED
      BY <3>1 DEF Buckets
  <2>4. d \in Nat /\ d <= s.rows[h].amount /\ d <= s.remaining
    BY <1>1, <2>3 DEF Least
  <2> HIDE DEF d
  <2>5. b \in Buckets
    BY <2>3, <2>4 DEF Drained, Bucket, Buckets
  <2> HIDE DEF b
  <2>6. [s.rows EXCEPT ![h] = b] \in Seq(Buckets) /\ Len([s.rows EXCEPT ![h] = b]) = N
    BY <1>1, <2>1, <2>5
  <2>7. s.remaining - d \in Nat /\ s.todo \ {h} \in SUBSET Nat
    BY <1>1, <2>4 DEF ReduceStates
  <2> QED
    BY <2>2, <2>6, <2>7 DEF ReduceStates
<1> QED
  BY <1>2, <1>3

\* The passes of a refund.
LEMMA ReduceRun ==
  ASSUME NEW t \in Seq(Buckets), NEW a \in Nat
  PROVE  \E f :
           /\ f[0] = [rows |-> t, remaining |-> a, todo |-> WithStatus(t, "holding")]
           /\ \A k \in 1..Len(t) : f[k] = ReducePass(f[k - 1])
           /\ ReduceLoop(t, a) = f[Len(t)]
<1> DEFINE N == Len(t)
           i0 == [rows |-> t, remaining |-> a, todo |-> WithStatus(t, "holding")]
           D == {s \in ReduceStates : Len(s.rows) = N /\ s.todo \subseteq 1..N}
           step == [p \in (1..N) \X D |-> ReducePass(p[2])]
           Def(f) == f = [k \in 0..N |-> IF k = 0 THEN i0 ELSE ReducePass(f[k - 1])]
<1>1. N \in Nat /\ i0 \in D
  <2>1. N \in Nat /\ WithStatus(t, "holding") \subseteq 1..N /\ 1..N \subseteq Nat
    BY DEF WithStatus
  <2> QED
    BY <2>1 DEF ReduceStates
<1>2. step \in [(1..N) \X D -> D]
  <2>1. \A s \in D : ReducePass(s) \in D
    BY <1>1, ReducePassTyped
  <2> HIDE DEF D
  <2> QED
    BY <2>1
<1>3. \A k \in 1..N : \A s \in D : step[<<k, s>>] = ReducePass(s)
  <2> HIDE DEF D
  <2> QED
    OBVIOUS
<1> HIDE DEF step, i0, D
<1>4. PICK g \in [0..N -> D] : Runs(N, i0, step, g)
  BY <1>1, <1>2, RunExists
<1>5. g[0] = i0 /\ \A k \in 1..N : g[k] = ReducePass(g[k - 1])
  <2>1. \A k \in 1..N : k - 1 \in 0..N
    BY <1>1
  <2>2. \A k \in 1..N : g[k - 1] \in D
    BY <2>1
  <2> QED
    BY <1>3, <1>4, <2>2 DEF Runs
<1>6. Def(g)
  BY <1>1, <1>5
<1> DEFINE f == CHOOSE x : Def(x)
<1>7. Def(f)
  <2> HIDE DEF Def
  <2> QED
    BY <1>6
<1>8. ReduceLoop(t, a) = f[N]
  BY Zenon DEF ReduceLoop, i0
<1> HIDE DEF f
<1>9. f[0] = i0 /\ \A k \in 1..N : f[k] = ReducePass(f[k - 1])
  BY <1>1, <1>7
<1> QED
  BY <1>8, <1>9 DEF i0

\* The whole loop: held money pays as much as there is, and what remains is
\* for bucket 1.
LEMMA ReduceLoopIs ==
  ASSUME NEW t \in Seq(Buckets), NEW a \in Nat
  PROVE  /\ Reducing(t, a, Len(t), ReduceLoop(t, a))
         /\ ReduceLoop(t, a).remaining = a - Least(a, SumOf(t, "holding"))
<1> DEFINE N == Len(t)
           m == ReduceLoop(t, a)
<1>0. N \in Nat /\ DOMAIN t = 1..N
  OBVIOUS
<1>1. PICK f :
        /\ f[0] = [rows |-> t, remaining |-> a, todo |-> WithStatus(t, "holding")]
        /\ \A k \in 1..N : f[k] = ReducePass(f[k - 1])
        /\ m = f[N]
  BY ReduceRun
<1>2. Reducing(t, a, 0, f[0])
  <2>1. f[0].rows = t /\ f[0].remaining = a /\ f[0].todo = WithStatus(t, "holding")
    BY <1>1
  <2>2. SumOf(t, "holding") \in Nat
    BY SumTyped
  <2>3. WithStatus(t, "holding") \subseteq 1..N /\ WithStatus(t, "holding") \subseteq Nat
    BY <1>0 DEF WithStatus
  <2>4. f[0] \in ReduceStates
    BY <1>1, <2>3 DEF ReduceStates
  <2>5. \A i \in WithStatus(t, "holding") : i <= Len(t) - 0
    BY <1>0, <2>3
  <2>6. SumOf(t, "holding") + (a - a) = SumOf(t, "holding") /\ a <= a
    BY <2>2
  <2> QED
    BY <2>1, <2>4, <2>5, <2>6 DEF Reducing
<1> DEFINE P == {k \in 0..N : Reducing(t, a, k, f[k])}
<1>3. ASSUME NEW k \in 1..N, k - 1 \in P PROVE k \in P
  <2>1. Reducing(t, a, k - 1, f[k - 1]) /\ k \in Nat \ {0} /\ k \in 0..N
    BY <1>0, <1>3
  <2>2. Reducing(t, a, k, ReducePass(f[k - 1]))
    BY <2>1, ReducingStep
  <2> QED
    BY <1>1, <2>1, <2>2
<1>4. Reducing(t, a, N, m)
  <2>1. 0 \in P
    BY <1>0, <1>2
  <2>2. \A k \in 0..N : k \in P
    <3> HIDE DEF P
    <3> QED
      BY <1>0, <1>3, <2>1, Upto
  <2>3. N \in P
    BY <1>0, <2>2
  <2> QED
    BY <1>1, <2>3
<1> HIDE DEF m
<1>5. m.rows \in Seq(Buckets) /\ m.remaining \in Nat /\ m.remaining <= a /\ DOMAIN m.rows = 1..N
      /\ SumOf(m.rows, "holding") + (a - m.remaining) = SumOf(t, "holding")
  BY <1>0, <1>4 DEF Reducing, ReduceStates
<1>6. SumOf(m.rows, "holding") \in Nat /\ SumOf(t, "holding") \in Nat
  BY <1>5, SumTyped
<1>7. m.remaining = 0 \/ SumOf(m.rows, "holding") = 0
  <2>1. CASE /\ WithStatus(m.rows, "holding") \subseteq m.todo
             /\ \A i \in m.todo : i <= Len(t) - N
    <3>1. WithStatus(m.rows, "holding") \subseteq 1..N
      BY <1>5 DEF WithStatus
    <3>2. \A i \in 1..N : ~(i <= Len(t) - N)
      BY <1>0
    <3>3. WithStatus(m.rows, "holding") = {}
      BY <2>1, <3>1, <3>2
    <3> QED
      BY <1>5, <3>3, SumNone
  <2> QED
    BY <1>4, <2>1 DEF Reducing
<1>8. m.remaining = a - Least(a, SumOf(t, "holding"))
  BY <1>5, <1>6, <1>7 DEF Least
<1> QED
  BY <1>4, <1>8 DEF m

-----------------------------------------------------------------------------
(* The table.                                                              *)

\* Bucket 1 is the active one, and the only one.
Shaped(t) == \A i \in DOMAIN t : t[i].status = "active" <=> i = 1

\* The buckets hold what was paid in and not paid back.
BucketsInv ==
  /\ TypeOK /\ Shaped(rows)
  /\ SumOf(rows, "active") + SumOf(rows, "holding") = recharged - refunded

\* Bucket 1 is found, and has all that is released.
LEMMA ActiveIs ==
  ASSUME NEW t \in Seq(Buckets), Shaped(t), t # <<>>
  PROVE  /\ 1 \in DOMAIN t /\ First(WithStatus(t, "active")) = 1 /\ t[1].amount \in Nat
         /\ SumOf(t, "active") = t[1].amount
<1>1. 1 \in DOMAIN t
  OBVIOUS
<1>2. WithStatus(t, "active") = {1}
  BY <1>1 DEF WithStatus, Shaped
<1>3. First({1}) = 1
  <2>1. First({1}) \in {1}
    BY FirstIs
  <2> QED
    BY <2>1
<1>4. t[1] \in Buckets /\ t[1].amount \in Nat /\ t[1].status = "active"
  <2>1. t[1] \in Buckets
    BY <1>1, PartTyped
  <2> QED
    BY <1>1, <2>1 DEF Buckets, Shaped
<1> DEFINE b == Bucket(0, "merged")
           u == [t EXCEPT ![1] = b]
<1>5. b \in Buckets /\ Part(b, "active") = 0 /\ Part(t[1], "active") = t[1].amount /\ b.status = "merged"
  BY <1>4 DEF Bucket, Buckets, Part
<1> HIDE DEF b
<1>6. u \in Seq(Buckets) /\ SumOf(u, "active") = SumOf(t, "active") - Part(t[1], "active") + Part(b, "active")
  BY <1>1, <1>5, SumUpdate
<1>7. WithStatus(u, "active") = {}
  <2>1. DOMAIN u = DOMAIN t /\ u[1] = b /\ \A i \in DOMAIN t : i # 1 => u[i] = t[i]
    BY <1>1
  <2> HIDE DEF u
  <2> QED
    BY <1>5, <2>1 DEF WithStatus, Shaped
<1> HIDE DEF u
<1>8. SumOf(u, "active") = 0
  BY <1>6, <1>7, SumNone
<1>9. SumOf(t, "active") \in Nat
  BY SumTyped
<1>10. SumOf(t, "active") = t[1].amount
  BY <1>4, <1>5, <1>6, <1>8, <1>9
<1> QED
  BY <1>1, <1>2, <1>3, <1>4, <1>10

\* Bucket 1 gains or loses v.
LEMMA ActiveMoves ==
  ASSUME NEW t \in Seq(Buckets), Shaped(t), t # <<>>, NEW v \in Int, t[1].amount + v \in Nat
  PROVE  LET u == [t EXCEPT ![1].amount = @ + v] IN
         /\ u \in Seq(Buckets) /\ Len(u) = Len(t) /\ Shaped(u)
         /\ \A i \in DOMAIN t : u[i].status = t[i].status /\ (i # 1 => u[i] = t[i])
         /\ SumOf(u, "active") = SumOf(t, "active") + v
         /\ SumOf(u, "holding") = SumOf(t, "holding")
<1>1. /\ 1 \in DOMAIN t /\ t[1].amount \in Nat /\ SumOf(t, "active") = t[1].amount
      /\ t[1] \in Buckets /\ t[1].status = "active"
  <2>1. 1 \in DOMAIN t
    OBVIOUS
  <2> QED
    BY <2>1, ActiveIs, PartTyped DEF Shaped
<1> DEFINE b == [t[1] EXCEPT !.amount = t[1].amount + v]
           u == [t EXCEPT ![1] = b]
<1>2. b \in Buckets /\ b.amount = t[1].amount + v /\ b.status = "active"
  BY <1>1 DEF Buckets
<1>3. [t EXCEPT ![1].amount = @ + v] = u
  OBVIOUS
<1> HIDE DEF b
<1>4. /\ u \in Seq(Buckets) /\ Len(u) = Len(t)
      /\ \A s : SumOf(u, s) = SumOf(t, s) - Part(t[1], s) + Part(b, s)
  BY <1>1, <1>2, SumUpdate
<1>5. DOMAIN u = DOMAIN t /\ u[1] = b /\ \A i \in DOMAIN t : i # 1 => u[i] = t[i]
  BY <1>1
<1> HIDE DEF u
<1>6. \A i \in DOMAIN t : u[i].status = t[i].status
  BY <1>1, <1>2, <1>5
<1>7. Shaped(u)
  BY <1>5, <1>6 DEF Shaped
<1>8. /\ Part(t[1], "active") = t[1].amount /\ Part(b, "active") = t[1].amount + v
      /\ Part(t[1], "holding") = 0 /\ Part(b, "holding") = 0
  BY <1>1, <1>2 DEF Part
<1>9. SumOf(t, "holding") \in Nat
  BY SumTyped
<1>10. /\ SumOf(u, "active") = t[1].amount - t[1].amount + (t[1].amount + v)
       /\ SumOf(u, "holding") = SumOf(t, "holding") - 0 + 0
  BY <1>1, <1>4, <1>8
<1>11. SumOf(u, "active") = SumOf(t, "active") + v /\ SumOf(u, "holding") = SumOf(t, "holding")
  BY <1>1, <1>9, <1>10
<1> QED
  BY <1>3, <1>4, <1>5, <1>6, <1>7, <1>11

\* A holding bucket at the end changes nothing but the held money.
LEMMA HoldingAdded ==
  ASSUME NEW t \in Seq(Buckets), Shaped(t), t # <<>>, NEW v \in Nat
  PROVE  LET u == Append(t, Bucket(v, "holding")) IN
         /\ u \in Seq(Buckets) /\ Shaped(u) /\ u # <<>>
         /\ \A i \in DOMAIN t : i \in DOMAIN u /\ u[i] = t[i]
         /\ SumOf(u, "active") = SumOf(t, "active")
         /\ SumOf(u, "holding") = SumOf(t, "holding") + v
<1> DEFINE b == Bucket(v, "holding")
           u == Append(t, b)
<1>1. b \in Buckets /\ b.status = "holding" /\ Part(b, "active") = 0 /\ Part(b, "holding") = v
  BY DEF Bucket, Buckets, Part
<1> HIDE DEF b
<1>2. /\ u \in Seq(Buckets) /\ \A s : SumOf(u, s) = SumOf(t, s) + Part(b, s)
  BY <1>1, SumAppend
<1>3. /\ DOMAIN t = 1..Len(t) /\ DOMAIN u = 1..(Len(t) + 1) /\ u[Len(t) + 1] = b /\ Len(t) \in Nat \ {0}
      /\ \A i \in 1..Len(t) : u[i] = t[i]
  BY <1>1
<1> HIDE DEF u
<1>4. Shaped(u)
  <2>1. \A i \in DOMAIN u : i \in DOMAIN t \/ i = Len(t) + 1
    BY <1>3
  <2> QED
    BY <1>1, <1>3, <2>1 DEF Shaped
<1>5. SumOf(t, "active") \in Nat /\ SumOf(t, "holding") \in Nat
  BY SumTyped
<1>6. SumOf(u, "active") = SumOf(t, "active") /\ SumOf(u, "holding") = SumOf(t, "holding") + v
  <2>1. SumOf(u, "active") = SumOf(t, "active") + 0 /\ SumOf(u, "holding") = SumOf(t, "holding") + v
    BY <1>1, <1>2
  <2> QED
    BY <1>5, <2>1
<1>7. u # <<>>
  BY <1>3
<1> QED
  BY <1>2, <1>3, <1>4, <1>6, <1>7 DEF u, b

\* The first bucket.
LEMMA FirstBucket ==
  ASSUME NEW v \in Nat
  PROVE  LET u == <<Bucket(v, "active")>> IN
         /\ u \in Seq(Buckets) /\ Shaped(u) /\ u # <<>>
         /\ SumOf(u, "active") = v /\ SumOf(u, "holding") = 0
<1> DEFINE b == Bucket(v, "active")
           u == <<b>>
<1>1. b \in Buckets /\ b.status = "active" /\ b.amount = v
  BY DEF Bucket, Buckets
<1> HIDE DEF b
<1>2. u \in Seq(Buckets) /\ DOMAIN u = {1} /\ u[1] = b /\ u # <<>>
  BY <1>1
<1> HIDE DEF u
<1>3. Shaped(u) /\ WithStatus(u, "holding") = {}
  BY <1>1, <1>2 DEF Shaped, WithStatus
<1>4. SumOf(u, "active") = v
  BY <1>1, <1>2, <1>3, ActiveIs
<1>5. SumOf(u, "holding") = 0
  BY <1>2, <1>3, SumNone
<1> QED
  BY <1>2, <1>3, <1>4, <1>5 DEF u, b

\* An empty table.
LEMMA NoBuckets == <<>> \in Seq(Buckets) /\ Shaped(<<>>) /\ SumOf(<<>>, "active") = 0
                   /\ SumOf(<<>>, "holding") = 0
<1>1. <<>> \in Seq(Buckets) /\ DOMAIN <<>> = {}
  OBVIOUS
<1>2. \A s : WithStatus(<<>>, s) = {}
  BY <1>1 DEF WithStatus
<1> QED
  BY <1>1, <1>2, SumNone DEF Shaped

-----------------------------------------------------------------------------
(* The actions.                                                            *)

\* The constants and the table, as the lemmas want them.
LEMMA Typed ==
  /\ \A a \in Amounts : a \in Nat /\ a > 0
  /\ \A room \in Room : room \in Nat
  /\ TypeOK => rows \in Seq(Buckets) /\ recharged \in Nat /\ refunded \in Nat /\ n \in 0..MaxRecharges
BY BucketsAssumption DEF TypeOK, Buckets

\* A recharge adds what fits to bucket 1 and the rest to the held money, and
\* leaves the older holding buckets alone.
LEMMA RechargeIs ==
  ASSUME NEW a \in Amounts, NEW room \in Room, TypeOK, Shaped(rows), Recharge(a, room)
  PROVE  /\ Least(a, room) \in 0..a
         /\ rows' \in Seq(Buckets) /\ Shaped(rows')
         /\ \A i \in DOMAIN rows : rows[i].status = "holding" => rows'[i] = rows[i]
         /\ SumOf(rows', "active") = SumOf(rows, "active") + Least(a, room)
         /\ SumOf(rows', "holding") = SumOf(rows, "holding") + (a - Least(a, room))
<1> DEFINE fit == Least(a, room)
           active == IF rows = <<>> THEN <<Bucket(fit, "active")>>
                     ELSE [rows EXCEPT ![Active].amount = @ + fit]
<1>1. rows \in Seq(Buckets) /\ a \in Nat /\ room \in Nat
  BY Typed
<1>2. fit \in Nat /\ fit \in 0..a /\ a - fit \in Nat /\ (~(a > fit) => a - fit = 0)
  <2>1. fit \in {a, room} /\ fit <= a
    BY <1>1, LeastIs
  <2> QED
    BY <1>1, <2>1
<1>3. SumOf(rows, "active") \in Nat /\ SumOf(rows, "holding") \in Nat
  BY <1>1, SumTyped
<1>4. rows' = IF a > fit THEN Append(active, Bucket(a - fit, "holding")) ELSE active
  BY DEF Recharge
<1> HIDE DEF fit
<1>5. /\ active \in Seq(Buckets) /\ Shaped(active) /\ active # <<>>
      /\ \A i \in DOMAIN rows : i \in DOMAIN active /\ (rows[i].status = "holding" => active[i] = rows[i])
      /\ SumOf(active, "active") = SumOf(rows, "active") + fit
      /\ SumOf(active, "holding") = SumOf(rows, "holding")
  <2>1. CASE rows = <<>>
    <3>1. active = <<Bucket(fit, "active")>> /\ DOMAIN rows = {}
      BY <2>1
    <3>2. SumOf(rows, "active") = 0 /\ SumOf(rows, "holding") = 0
      BY <2>1, NoBuckets
    <3>3. /\ active \in Seq(Buckets) /\ Shaped(active) /\ active # <<>>
          /\ SumOf(active, "active") = fit /\ SumOf(active, "holding") = 0
      BY <1>2, <3>1, FirstBucket
    <3> HIDE DEF active
    <3> QED
      BY <1>2, <3>1, <3>2, <3>3
  <2>2. CASE rows # <<>>
    <3>1. Active = 1 /\ rows[1].amount \in Nat /\ 1 \in DOMAIN rows
      BY <1>1, <2>2, ActiveIs DEF Active
    <3>2. active = [rows EXCEPT ![1].amount = @ + fit]
      BY <2>2, <3>1
    <3>3. /\ active \in Seq(Buckets) /\ Len(active) = Len(rows) /\ Shaped(active)
          /\ \A i \in DOMAIN rows : active[i].status = rows[i].status /\ (i # 1 => active[i] = rows[i])
          /\ SumOf(active, "active") = SumOf(rows, "active") + fit
          /\ SumOf(active, "holding") = SumOf(rows, "holding")
      <4>1. fit \in Int /\ rows[1].amount + fit \in Nat
        BY <1>2, <3>1
      <4> DEFINE u == [rows EXCEPT ![1].amount = @ + fit]
      <4>2. /\ u \in Seq(Buckets) /\ Len(u) = Len(rows) /\ Shaped(u)
            /\ \A i \in DOMAIN rows : u[i].status = rows[i].status /\ (i # 1 => u[i] = rows[i])
            /\ SumOf(u, "active") = SumOf(rows, "active") + fit
            /\ SumOf(u, "holding") = SumOf(rows, "holding")
        BY <1>1, <2>2, <4>1, ActiveMoves
      <4>3. active = u
        BY <3>2
      <4> HIDE DEF u, active
      <4> QED
        BY <4>2, <4>3
    <3> HIDE DEF active
    <3>4. rows[1].status = "active"
      BY <3>1 DEF Shaped
    <3>5. active # <<>> /\ DOMAIN active = DOMAIN rows
      BY <1>1, <2>2, <3>3
    <3> QED
      BY <3>3, <3>4, <3>5
  <2> QED
    BY <2>1, <2>2
<1> HIDE DEF active
<1>6. /\ rows' \in Seq(Buckets) /\ Shaped(rows')
      /\ \A i \in DOMAIN rows : rows[i].status = "holding" => rows'[i] = rows[i]
      /\ SumOf(rows', "active") = SumOf(rows, "active") + fit
      /\ SumOf(rows', "holding") = SumOf(rows, "holding") + (a - fit)
  <2>1. CASE a > fit
    <3> DEFINE u == Append(active, Bucket(a - fit, "holding"))
    <3>1. rows' = u
      BY <1>4, <2>1
    <3>2. /\ u \in Seq(Buckets) /\ Shaped(u)
          /\ \A i \in DOMAIN active : i \in DOMAIN u /\ u[i] = active[i]
          /\ SumOf(u, "active") = SumOf(active, "active")
          /\ SumOf(u, "holding") = SumOf(active, "holding") + (a - fit)
      BY <1>2, <1>5, HoldingAdded
    <3> HIDE DEF u
    <3> QED
      BY <1>5, <3>1, <3>2
  <2>2. CASE ~(a > fit)
    <3>1. rows' = active /\ a - fit = 0
      BY <1>2, <1>4, <2>2
    <3>2. SumOf(rows, "holding") = SumOf(rows, "holding") + (a - fit)
      BY <1>3, <3>1
    <3> QED
      BY <1>5, <3>1, <3>2
  <2> QED
    BY <2>1, <2>2
<1> QED
  BY <1>2, <1>6 DEF fit

\* A refill moves exactly what the room and the held money allow, the oldest
\* money first.
LEMMA MergeIs ==
  ASSUME NEW room \in Room, TypeOK, Shaped(rows), MergeHoldingIntoActiveTx(room)
  PROVE  /\ rows' \in Seq(Buckets) /\ Shaped(rows')
         /\ \A i, j \in DOMAIN rows :
              i < j /\ rows[j].status = "holding" /\ rows'[j] # rows[j] => rows'[i].status # "holding"
         /\ Least(room, SumOf(rows, "holding")) \in 0..SumOf(rows, "holding")
         /\ SumOf(rows', "active") = SumOf(rows, "active") + Least(room, SumOf(rows, "holding"))
         /\ SumOf(rows', "holding") = SumOf(rows, "holding") - Least(room, SumOf(rows, "holding"))
<1> DEFINE m == MergeLoop(rows, room)
           held == SumOf(rows, "holding")
<1>1. rows \in Seq(Buckets) /\ room \in Nat
  BY Typed
<1>2. held \in Nat
  BY <1>1, SumTyped
<1>3. rows' = [m.rows EXCEPT ![Active].amount = @ + m.merged] /\ rows # <<>>
  BY DEF MergeHoldingIntoActiveTx, WithStatus
<1>4. Active = 1 /\ 1 \in DOMAIN rows /\ rows[1].amount \in Nat /\ rows[1].status = "active"
  BY <1>1, <1>3, ActiveIs DEF Active, Shaped
<1>5. Merging(rows, room, Len(rows), m) /\ m.merged = Least(room, held)
  BY <1>1, MergeLoopIs
<1> HIDE DEF m, held
<1>6. Least(room, held) \in 0..held
  <2>1. Least(room, held) \in {room, held} /\ Least(room, held) <= held
    BY <1>1, <1>2, LeastIs
  <2> QED
    BY <1>1, <1>2, <2>1
<1>7. /\ m.rows \in Seq(Buckets) /\ m.merged \in Nat /\ Len(m.rows) = Len(rows)
      /\ SumOf(m.rows, "holding") + m.merged = held
      /\ SumOf(m.rows, "active") = SumOf(rows, "active")
      /\ \A i \in DOMAIN rows : IF rows[i].status = "holding" THEN m.rows[i].status \in {"holding", "merged"}
                                ELSE m.rows[i] = rows[i]
      /\ \A i, j \in DOMAIN rows : i < j /\ m.rows[j] # rows[j] => m.rows[i].status # "holding"
  <2>1. m.rows \in Seq(Buckets) /\ m.merged \in Nat
    BY <1>5 DEF Merging, MergeStates
  <2> QED
    BY <1>5, <2>1 DEF Merging, held
<1>8. DOMAIN m.rows = DOMAIN rows /\ m.rows # <<>>
  BY <1>1, <1>3, <1>7
<1>9. Shaped(m.rows)
  BY <1>7, <1>8 DEF Shaped
<1>10. m.rows[1] = rows[1]
  BY <1>4, <1>7
<1> DEFINE u == [m.rows EXCEPT ![1].amount = @ + m.merged]
<1>11. rows' = u
  BY <1>3, <1>4
<1>12. /\ u \in Seq(Buckets) /\ Shaped(u)
       /\ \A i \in DOMAIN m.rows : u[i].status = m.rows[i].status /\ (i # 1 => u[i] = m.rows[i])
       /\ SumOf(u, "active") = SumOf(m.rows, "active") + m.merged
       /\ SumOf(u, "holding") = SumOf(m.rows, "holding")
  <2>1. m.merged \in Int /\ m.rows[1].amount + m.merged \in Nat
    BY <1>4, <1>7, <1>10
  <2> QED
    BY ZenonT(60), <1>7, <1>8, <1>9, <2>1, ActiveMoves
<1> HIDE DEF u
<1>13. \A i, j \in DOMAIN rows :
         i < j /\ rows[j].status = "holding" /\ rows'[j] # rows[j] => rows'[i].status # "holding"
  <2> SUFFICES ASSUME NEW i \in DOMAIN rows, NEW j \in DOMAIN rows, i < j,
                      rows[j].status = "holding", u[j] # rows[j]
               PROVE  u[i].status # "holding"
    BY <1>11
  <2>1. j # 1
    BY <1>4
  <2>2. u[j] = m.rows[j] /\ u[i].status = m.rows[i].status
    BY <1>8, <1>12, <2>1
  <2> QED
    BY <1>7, <2>2
<1>14. SumOf(u, "active") = SumOf(rows, "active") + Least(room, held)
  BY <1>5, <1>7, <1>12
<1>15. SumOf(u, "holding") = held - Least(room, held)
  <2>1. SumOf(m.rows, "holding") \in Nat
    BY <1>7, SumTyped
  <2> QED
    BY <1>2, <1>5, <1>7, <1>12, <2>1
<1> QED
  BY <1>6, <1>11, <1>12, <1>13, <1>14, <1>15 DEF held

\* The rest that the loop leaves is covered by bucket 1 whenever the balance
\* covers the refund.
LEMMA RefundCovered ==
  ASSUME NEW a \in Amounts, BucketsInv, a <= recharged - refunded
  PROVE  LET held == Least(a, SumOf(rows, "holding")) IN
         /\ rows # <<>> /\ Active = 1 /\ held \in 0..a
         /\ ReduceLoop(rows, a).remaining = a - held
         /\ WindowDec(a) = a - held
         /\ a - held <= rows[1].amount
         /\ Sufficient(a)
<1> DEFINE hold == SumOf(rows, "holding")
           held == Least(a, hold)
<1>1. rows \in Seq(Buckets) /\ a \in Nat /\ a > 0 /\ recharged \in Nat /\ refunded \in Nat /\ Shaped(rows)
  BY Typed DEF BucketsInv
<1>2. SumOf(rows, "active") + hold = recharged - refunded
  BY DEF BucketsInv
<1>3. hold \in Nat /\ ReduceLoop(rows, a).remaining = a - held
  BY <1>1, SumTyped, ReduceLoopIs
<1>4. rows # <<>>
  <2>1. SUFFICES ASSUME rows = <<>> PROVE FALSE
    OBVIOUS
  <2>2. SumOf(rows, "active") = 0 /\ hold = 0
    BY <2>1, NoBuckets
  <2> HIDE DEF hold
  <2> QED
    BY <1>1, <1>2, <2>2
<1>5. Active = 1 /\ rows[1].amount \in Nat /\ SumOf(rows, "active") = rows[1].amount
  BY <1>1, <1>4, ActiveIs DEF Active
<1> HIDE DEF hold
<1>6. held \in 0..a /\ (held = a \/ held = hold)
  <2>1. held \in {a, hold} /\ held <= a
    BY <1>1, <1>3, LeastIs
  <2> QED
    BY <1>1, <1>3, <2>1
<1> HIDE DEF held
<1>7. a - held \in Nat /\ a - held <= rows[1].amount
  BY <1>1, <1>2, <1>3, <1>5, <1>6
<1>8. WindowDec(a) = a - held
  <2>1. 1 \in WithStatus(rows, "active")
    BY <1>1, <1>4, ActiveIs DEF WithStatus, Shaped
  <2> QED
    BY <1>3, <1>5, <1>7, <2>1 DEF WindowDec, Least
<1>9. Sufficient(a)
  BY <1>3, <1>7, <1>8 DEF Sufficient
<1> QED
  BY <1>3, <1>4, <1>5, <1>6, <1>7, <1>8, <1>9 DEF held, hold

\* A refund takes the held money first and the rest of bucket 1.
LEMMA ReduceIs ==
  ASSUME NEW a \in Amounts, BucketsInv, ReduceEscrowTx(a)
  PROVE  LET held == Least(a, SumOf(rows, "holding")) IN
         /\ held \in 0..a
         /\ rows' \in Seq(Buckets) /\ Shaped(rows')
         /\ SumOf(rows', "active") = SumOf(rows, "active") - (a - held)
         /\ SumOf(rows', "holding") = SumOf(rows, "holding") - held
<1> DEFINE hold == SumOf(rows, "holding")
           held == Least(a, hold)
           r == ReduceLoop(rows, a)
<1>1. rows \in Seq(Buckets) /\ a \in Nat /\ Shaped(rows)
  BY Typed DEF BucketsInv
<1>2. a <= recharged - refunded
  BY DEF ReduceEscrowTx
<1>3. /\ rows # <<>> /\ Active = 1 /\ held \in 0..a /\ r.remaining = a - held
      /\ WindowDec(a) = a - held /\ a - held <= rows[1].amount
  BY <1>2, RefundCovered
<1>4. rows' = IF r.remaining > 0 THEN [r.rows EXCEPT ![1].amount = @ - (a - held)] ELSE r.rows
  BY <1>3 DEF ReduceEscrowTx
<1>5. Reducing(rows, a, Len(rows), r)
  BY <1>1, ReduceLoopIs
<1>6. hold \in Nat /\ SumOf(rows, "active") \in Nat
  BY <1>1, SumTyped
<1>7. 1 \in DOMAIN rows /\ rows[1].amount \in Nat /\ rows[1].status = "active"
  BY <1>1, <1>3, ActiveIs DEF Shaped
<1> HIDE DEF r
<1>8. /\ r.rows \in Seq(Buckets) /\ Len(r.rows) = Len(rows)
      /\ SumOf(r.rows, "holding") + (a - r.remaining) = hold
      /\ SumOf(r.rows, "active") = SumOf(rows, "active")
      /\ \A i \in DOMAIN rows : IF rows[i].status = "holding" THEN r.rows[i].status \in {"holding", "merged"}
                                ELSE r.rows[i] = rows[i]
  <2>1. r.rows \in Seq(Buckets)
    BY <1>5 DEF Reducing, ReduceStates
  <2> QED
    BY <1>5, <2>1 DEF Reducing
<1> HIDE DEF held, hold
<1>9. SumOf(r.rows, "holding") = hold - held
  <2>1. SumOf(r.rows, "holding") \in Nat
    BY <1>8, SumTyped
  <2> QED
    BY <1>1, <1>3, <1>6, <1>8, <2>1
<1>10. DOMAIN r.rows = DOMAIN rows /\ r.rows # <<>> /\ r.rows[1] = rows[1]
  BY <1>1, <1>3, <1>7, <1>8
<1>11. Shaped(r.rows)
  BY <1>1, <1>8, <1>10 DEF Shaped
<1>12. CASE r.remaining > 0
  <2> DEFINE v == held - a
             u == [r.rows EXCEPT ![1].amount = @ + v]
  <2>1. v \in Int /\ r.rows[1].amount + v \in Nat /\ r.rows[1].amount - (a - held) = r.rows[1].amount + v
    BY <1>1, <1>3, <1>7, <1>10
  <2>2. rows' = u
    <3>1. rows' = [r.rows EXCEPT ![1].amount = @ - (a - held)]
      BY <1>4, <1>12
    <3> QED
      BY <2>1, <3>1
  <2> HIDE DEF v
  <2>3. /\ u \in Seq(Buckets) /\ Shaped(u)
        /\ SumOf(u, "active") = SumOf(r.rows, "active") + v
        /\ SumOf(u, "holding") = SumOf(r.rows, "holding")
    BY <1>8, <1>10, <1>11, <2>1, ActiveMoves
  <2> HIDE DEF u
  <2>4. SumOf(u, "active") = SumOf(rows, "active") - (a - held)
    BY <1>1, <1>3, <1>6, <1>8, <2>3 DEF v
  <2> QED
    BY <1>3, <1>9, <2>2, <2>3, <2>4 DEF held, hold
<1>13. CASE ~(r.remaining > 0)
  <2>1. rows' = r.rows
    BY <1>4, <1>13
  <2>2. SumOf(r.rows, "active") = SumOf(rows, "active") - (a - held)
    BY <1>1, <1>3, <1>6, <1>8, <1>13
  <2> QED
    BY <1>3, <1>8, <1>9, <1>11, <2>1, <2>2 DEF held, hold
<1> QED
  BY <1>12, <1>13

-----------------------------------------------------------------------------
(* The specification.                                                      *)

\* A step of Next is a recharge, a refill or a refund.
LEMMA Steps ==
  ASSUME Next
  PROVE  \/ \E a \in Amounts : \E room \in Room : Recharge(a, room)
         \/ \E room \in Room : MergeHoldingIntoActiveTx(room)
         \/ \E a \in Amounts : ReduceEscrowTx(a)
BY DEF Next

\* The invariant holds at the start.
LEMMA BucketsStart == Init => BucketsInv
<1> SUFFICES ASSUME Init PROVE BucketsInv
  OBVIOUS
<1>1. rows = <<>> /\ recharged = 0 /\ refunded = 0 /\ n = 0
  BY DEF Init
<1>2. TypeOK
  BY <1>1, BucketsAssumption, NoBuckets DEF TypeOK, Buckets
<1>3. Shaped(rows) /\ SumOf(rows, "active") = 0 /\ SumOf(rows, "holding") = 0
  BY <1>1, NoBuckets
<1> QED
  BY <1>1, <1>2, <1>3 DEF BucketsInv

\* Every step keeps it.
LEMMA BucketsStep == BucketsInv /\ [Next]_vars => BucketsInv'
<1> SUFFICES ASSUME BucketsInv, [Next]_vars PROVE BucketsInv'
  OBVIOUS
<1>1. /\ rows \in Seq(Buckets) /\ recharged \in Nat /\ refunded \in Nat /\ n \in 0..MaxRecharges
      /\ TypeOK /\ Shaped(rows) /\ MaxRecharges \in Nat
      /\ SumOf(rows, "active") + SumOf(rows, "holding") = recharged - refunded
  BY Typed, BucketsAssumption DEF BucketsInv
<1>2. SumOf(rows, "active") \in Nat /\ SumOf(rows, "holding") \in Nat
  BY <1>1, SumTyped
<1>3. SUFFICES /\ rows' \in Seq(Buckets) /\ Shaped(rows')
               /\ recharged' \in Nat /\ refunded' \in Nat /\ n' \in 0..MaxRecharges
               /\ SumOf(rows', "active") + SumOf(rows', "holding") = recharged' - refunded'
  BY DEF BucketsInv, TypeOK, Buckets
<1>4. ASSUME NEW a \in Amounts, NEW room \in Room, Recharge(a, room) PROVE
        /\ rows' \in Seq(Buckets) /\ Shaped(rows')
        /\ recharged' \in Nat /\ refunded' \in Nat /\ n' \in 0..MaxRecharges
        /\ SumOf(rows', "active") + SumOf(rows', "holding") = recharged' - refunded'
  <2> DEFINE fit == Least(a, room)
  <2>1. /\ fit \in 0..a /\ rows' \in Seq(Buckets) /\ Shaped(rows')
        /\ SumOf(rows', "active") = SumOf(rows, "active") + fit
        /\ SumOf(rows', "holding") = SumOf(rows, "holding") + (a - fit)
    BY <1>1, <1>4, RechargeIs
  <2>2. /\ recharged' = recharged + a /\ refunded' = refunded /\ n' = n + 1 /\ n < MaxRecharges
        /\ a \in Nat
    BY <1>4, Typed DEF Recharge
  <2> HIDE DEF fit
  <2> QED
    BY SMTT(30), <1>1, <1>2, <2>1, <2>2
<1>5. ASSUME NEW room \in Room, MergeHoldingIntoActiveTx(room) PROVE
        /\ rows' \in Seq(Buckets) /\ Shaped(rows')
        /\ recharged' \in Nat /\ refunded' \in Nat /\ n' \in 0..MaxRecharges
        /\ SumOf(rows', "active") + SumOf(rows', "holding") = recharged' - refunded'
  <2> DEFINE m == Least(room, SumOf(rows, "holding"))
  <2>1. /\ m \in 0..SumOf(rows, "holding") /\ rows' \in Seq(Buckets) /\ Shaped(rows')
        /\ SumOf(rows', "active") = SumOf(rows, "active") + m
        /\ SumOf(rows', "holding") = SumOf(rows, "holding") - m
    BY <1>1, <1>5, MergeIs
  <2>2. recharged' = recharged /\ refunded' = refunded /\ n' = n
    BY <1>5 DEF MergeHoldingIntoActiveTx
  <2> HIDE DEF m
  <2> QED
    BY <1>1, <1>2, <2>1, <2>2
<1>6. ASSUME NEW a \in Amounts, ReduceEscrowTx(a) PROVE
        /\ rows' \in Seq(Buckets) /\ Shaped(rows')
        /\ recharged' \in Nat /\ refunded' \in Nat /\ n' \in 0..MaxRecharges
        /\ SumOf(rows', "active") + SumOf(rows', "holding") = recharged' - refunded'
  <2> DEFINE held == Least(a, SumOf(rows, "holding"))
  <2>1. /\ held \in 0..a /\ rows' \in Seq(Buckets) /\ Shaped(rows')
        /\ SumOf(rows', "active") = SumOf(rows, "active") - (a - held)
        /\ SumOf(rows', "holding") = SumOf(rows, "holding") - held
    BY <1>6, ReduceIs
  <2>2. recharged' = recharged /\ refunded' = refunded + a /\ n' = n /\ a \in Nat
    BY <1>6, Typed DEF ReduceEscrowTx
  <2> HIDE DEF held
  <2> QED
    BY SMTT(30), <1>1, <1>2, <2>1, <2>2
<1>7. CASE UNCHANGED vars
  <2>1. rows' = rows /\ recharged' = recharged /\ refunded' = refunded /\ n' = n
    BY <1>7 DEF vars
  <2> QED
    BY <1>1, <2>1
<1> QED
  BY <1>4, <1>5, <1>6, <1>7, Steps

\* The table has one active bucket, the first, and its buckets hold what was
\* paid in and not paid back.
THEOREM BucketsHold == Spec => []BucketsInv
<1> QED
  BY BucketsStart, BucketsStep, PTL DEF Spec

\* Amounts of escrow_bucket stay non-negative and statuses known, whatever
\* sequence of recharges, refills and refunds.
THEOREM BucketsTyped == Spec => []TypeOK
<1>1. BucketsInv => TypeOK
  BY DEF BucketsInv
<1> QED
  BY <1>1, BucketsHold, PTL

\* ReduceEscrowTx never ends with ErrInsufficientBalance for a refund that
\* DebitBalanceTx admitted.
THEOREM RefundsPaid == Spec => []RefundNeverStuck
<1>1. BucketsInv => RefundNeverStuck
  BY RefundCovered DEF RefundNeverStuck
<1> QED
  BY <1>1, BucketsHold, PTL

\* MergeHoldingIntoActiveTx releases the oldest money first, and a recharge
\* releases no held money at all.
THEOREM ReleasesOldestFirst == Spec => OldestFirst
<1> DEFINE Step == \A i, j \in DOMAIN rows :
              (/\ i < j /\ refunded' = refunded
               /\ rows'[j] # rows[j] /\ rows[j].status = "holding")
                => rows'[i].status # "holding"
<1>1. BucketsInv /\ [Next]_vars => [Step]_vars
  <2> SUFFICES ASSUME BucketsInv, Next PROVE Step
    OBVIOUS
  <2>1. TypeOK /\ Shaped(rows)
    BY DEF BucketsInv
  <2>2. ASSUME NEW a \in Amounts, NEW room \in Room, Recharge(a, room) PROVE Step
    BY <2>1, <2>2, RechargeIs
  <2>3. ASSUME NEW room \in Room, MergeHoldingIntoActiveTx(room) PROVE Step
    BY <2>1, <2>3, MergeIs
  <2>4. ASSUME NEW a \in Amounts, ReduceEscrowTx(a) PROVE Step
    <3>1. refunded' = refunded + a /\ a \in Nat /\ a > 0 /\ refunded \in Nat
      BY <2>1, <2>4, Typed DEF ReduceEscrowTx
    <3>2. refunded' # refunded
      BY <3>1
    <3> QED
      BY <3>2
  <2> QED
    BY <2>2, <2>3, <2>4, Steps
<1> QED
  BY <1>1, BucketsHold, PTL DEF Spec, OldestFirst

\* A refill releases exactly what the room in the window and the held money
\* allow: the loop neither stops early nor takes too much.
THEOREM RefillExact ==
  Spec => [][\A room \in Room : MergeHoldingIntoActiveTx(room) =>
               /\ SumOf(rows', "active") = SumOf(rows, "active") + Least(room, SumOf(rows, "holding"))
               /\ SumOf(rows', "holding") = SumOf(rows, "holding") - Least(room, SumOf(rows, "holding"))]_vars
<1> DEFINE Step == \A room \in Room : MergeHoldingIntoActiveTx(room) =>
             /\ SumOf(rows', "active") = SumOf(rows, "active") + Least(room, SumOf(rows, "holding"))
             /\ SumOf(rows', "holding") = SumOf(rows, "holding") - Least(room, SumOf(rows, "holding"))
<1>1. BucketsInv /\ [Next]_vars => [Step]_vars
  <2>1. BucketsInv => TypeOK /\ Shaped(rows)
    BY DEF BucketsInv
  <2> QED
    BY <2>1, MergeIs
<1> QED
  BY <1>1, BucketsHold, PTL DEF Spec

\* The rows and the loops over them implement the totals of EscrowLedger.
THEOREM TotalsImplemented == Spec => TotalsSpec
<1>1. Init => Totals!Init
  <2> SUFFICES ASSUME Init PROVE Totals!Init
    OBVIOUS
  <2>1. rows = <<>> /\ recharged = 0 /\ refunded = 0
    BY DEF Init
  <2>2. SumOf(rows, "active") = 0 /\ SumOf(rows, "holding") = 0
    BY <2>1, NoBuckets
  <2> QED
    BY <2>1, <2>2 DEF Totals!Init
<1>2. BucketsInv /\ [Next]_vars => [Totals!Next]_(Totals!books)
  <2> SUFFICES ASSUME BucketsInv, [Next]_vars PROVE [Totals!Next]_(Totals!books)
    OBVIOUS
  <2>1. rows \in Seq(Buckets) /\ recharged \in Nat /\ refunded \in Nat /\ TypeOK /\ Shaped(rows)
    BY Typed DEF BucketsInv
  <2>2. SumOf(rows, "active") \in Nat /\ SumOf(rows, "holding") \in Nat
    BY <2>1, SumTyped
  <2>3. ASSUME NEW a \in Amounts, NEW room \in Room, Recharge(a, room) PROVE Totals!Next
    <3> DEFINE fit == Least(a, room)
    <3>1. /\ fit \in 0..a
          /\ SumOf(rows', "active") = SumOf(rows, "active") + fit
          /\ SumOf(rows', "holding") = SumOf(rows, "holding") + (a - fit)
      BY <2>1, <2>3, RechargeIs
    <3>2. recharged' = recharged + a /\ refunded' = refunded /\ a \in Nat
      BY <2>3, Typed DEF Recharge
    <3> HIDE DEF fit
    <3>3. recharged' - refunded' = (recharged - refunded) + a
      BY <2>1, <3>2
    <3>4. Totals!Recharge(a, fit)
      BY <3>1, <3>2, <3>3 DEF Totals!Recharge
    <3> QED
      BY <3>1, <3>4 DEF Totals!Next
  <2>4. ASSUME NEW room \in Room, MergeHoldingIntoActiveTx(room) PROVE [Totals!Next]_(Totals!books)
    <3> DEFINE m == Least(room, SumOf(rows, "holding"))
    <3>1. /\ m \in 0..SumOf(rows, "holding")
          /\ SumOf(rows', "active") = SumOf(rows, "active") + m
          /\ SumOf(rows', "holding") = SumOf(rows, "holding") - m
      BY <2>1, <2>4, MergeIs
    <3>2. recharged' = recharged /\ refunded' = refunded
      BY <2>4 DEF MergeHoldingIntoActiveTx
    <3> HIDE DEF m
    <3>3. CASE m = 0
      <4>1. SumOf(rows', "active") = SumOf(rows, "active") /\ SumOf(rows', "holding") = SumOf(rows, "holding")
        BY <2>2, <3>1, <3>3
      <4> QED
        BY <3>2, <4>1 DEF Totals!books
    <3>4. CASE m # 0
      <4>1. m \in 1..SumOf(rows, "holding") /\ m <= SumOf(rows, "holding")
        BY <2>2, <3>1, <3>4
      <4>2. Totals!Release(m)
        BY <3>1, <3>2, <4>1 DEF Totals!Release
      <4> QED
        BY <4>1, <4>2 DEF Totals!Next
    <3> QED
      BY <3>3, <3>4
  <2>5. ASSUME NEW a \in Amounts, ReduceEscrowTx(a) PROVE Totals!Next
    <3> DEFINE held == Least(a, SumOf(rows, "holding"))
    <3>1. /\ SumOf(rows', "active") = SumOf(rows, "active") - (a - held)
          /\ SumOf(rows', "holding") = SumOf(rows, "holding") - held
      BY <2>5, ReduceIs
    <3>2. /\ recharged' = recharged /\ refunded' = refunded + a /\ a \in Nat
          /\ a <= recharged - refunded
      BY <2>5, Typed DEF ReduceEscrowTx
    <3>3. recharged' - refunded' = (recharged - refunded) - a
      BY <2>1, <3>2
    <3>4. held = IF a <= SumOf(rows, "holding") THEN a ELSE SumOf(rows, "holding")
      BY DEF Least
    <3> HIDE DEF held
    <3>5. Totals!Refund(a)
      BY <3>1, <3>2, <3>3, <3>4 DEF Totals!Refund
    <3> QED
      BY <3>5 DEF Totals!Next
  <2>6. CASE UNCHANGED vars
    BY <2>6 DEF vars, Totals!books
  <2> QED
    BY <2>3, <2>4, <2>5, <2>6, Steps
<1> QED
  BY <1>1, <1>2, BucketsHold, PTL DEF Spec, TotalsSpec, Totals!Spec
=============================================================================
