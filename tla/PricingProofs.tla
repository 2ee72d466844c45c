---------------------------- MODULE PricingProofs ----------------------------
(***************************************************************************)
(* Proofs about KeyedLock, for any number of calls, keys and mutexes, and  *)
(* about Pricing: the discounts use the lock as KeyedLock allows, and on   *)
(* the lock rests that row and gateway agree.                              *)
(***************************************************************************)
EXTENDS Pricing, FiniteSetTheorems, TLAPS

-----------------------------------------------------------------------------
(* The lock.                                                               *)

(***************************************************************************)
(* The inductive invariant.  Mutual exclusion needs that two calls for one *)
(* key use one mutex, hence that a mutex in use is never removed from the  *)
(* table, hence that the counter is the number of users.                   *)
(***************************************************************************)
Refers ==
  \A t \in Calls : call[t] = Ended \/ (/\ call[t].ph # "idle"
                                       /\ call[t].key \in Keys /\ call[t].m \in Mutexes
                                       /\ locks[call[t].key] = call[t].m)

Counted == \A m \in Mutexes : refs[m] = Cardinality(Users(m))

InUse == \A k \in Keys : locks[k] # None => Users(locks[k]) # {}

OneKey == \A j, k \in Keys : locks[j] = locks[k] /\ locks[k] # None => j = k

Owned == \A m \in Mutexes, t \in Calls :
           owner[m] = t <=> (call[t].m = m /\ call[t].ph \in Locked)

LockInv == TypeOK /\ Refers /\ Counted /\ InUse /\ OneKey /\ Owned

\* The users of a mutex are finitely many.
LEMMA UsersFinite == \A m : IsFiniteSet(Users(m)) /\ Cardinality(Users(m)) \in Nat
  BY LockAssumption, FS_Subset, FS_CardinalityType DEF Users

\* The invariant holds initially.
LEMMA InitLockInv == Init => LockInv
<1> SUFFICES ASSUME Init PROVE LockInv
  OBVIOUS
<1>1. TypeOK /\ Refers /\ InUse /\ OneKey
  BY DEF Init, TypeOK, Refers, InUse, OneKey, Ended, Phases
<1>2. \A m \in Mutexes : Users(m) = {}
  BY LockAssumption DEF Init, Users, Ended
<1>3. Counted
  BY <1>2, FS_EmptySet DEF Init, Counted
<1>4. Owned
  BY LockAssumption DEF Init, Owned, Ended, Locked
<1> QED
  BY <1>1, <1>3, <1>4 DEF LockInv

\* A step that changes only the phase of a call keeps keys, mutexes and
\* counters.
LEMMA PhaseStep ==
  ASSUME LockInv, NEW t \in Calls, NEW ph \in Phases \ {"idle"}, call[t].ph # "idle",
         call' = [call EXCEPT ![t].ph = ph], UNCHANGED <<locks, refs>>,
         owner' \in [Mutexes -> Calls \cup {None}]
  PROVE  /\ TypeOK' /\ Refers' /\ Counted' /\ InUse' /\ OneKey'
         /\ call'[t].m = call[t].m /\ call'[t].ph = ph /\ call[t].m \in Mutexes
         /\ \A s \in Calls : s # t => call'[s] = call[s]
<1>1. call \in [Calls -> [ph : Phases, key : Keys \cup {None}, m : Mutexes \cup {None}]]
  BY DEF LockInv, TypeOK
<1>2. /\ call'[t] = [call[t] EXCEPT !.ph = ph]
      /\ \A s \in Calls : s # t => call'[s] = call[s]
      /\ call' \in [Calls -> [ph : Phases, key : Keys \cup {None}, m : Mutexes \cup {None}]]
  BY <1>1
<1>3. \A s \in Calls : call'[s].m = call[s].m /\ call'[s].key = call[s].key
  BY <1>1, <1>2
<1>4. \A m : Users(m)' = Users(m)
  BY <1>3 DEF Users
<1>5. call[t] # Ended
  BY DEF Ended
<1>6. Refers'
  BY <1>1, <1>2, <1>3, <1>5 DEF LockInv, Refers
<1>7. Counted' /\ InUse' /\ OneKey'
  BY <1>4 DEF LockInv, Counted, InUse, OneKey
<1>8. TypeOK'
  BY <1>2 DEF LockInv, TypeOK
<1> QED
  BY <1>1, <1>2, <1>3, <1>5, <1>6, <1>7, <1>8 DEF LockInv, Refers

\* Locking a free mutex.
LEMMA LockStep ==
  ASSUME LockInv, NEW t \in Calls, call[t].ph \in {"wait", "lost", "try"},
         NEW ph \in Locked, Lock(t, ph)
  PROVE  LockInv'
<1>1. owner' \in [Mutexes -> Calls \cup {None}]
  BY DEF Lock, LockInv, TypeOK
<1>2. /\ TypeOK' /\ Refers' /\ Counted' /\ InUse' /\ OneKey'
      /\ call'[t].m = call[t].m /\ call'[t].ph = ph /\ call[t].m \in Mutexes
      /\ \A s \in Calls : s # t => call'[s] = call[s]
  BY <1>1, PhaseStep DEF Lock, Locked, Phases
<1>3. Owned'
  <2> SUFFICES ASSUME NEW m \in Mutexes, NEW s \in Calls
               PROVE  owner'[m] = s <=> (call'[s].m = m /\ call'[s].ph \in Locked)
    BY DEF Owned
  <2>1. owner[call[t].m] = None /\ owner' = [owner EXCEPT ![call[t].m] = t]
    BY DEF Lock
  <2>2. owner \in [Mutexes -> Calls \cup {None}]
    BY DEF LockInv, TypeOK
  <2>3. owner[m] = s <=> (call[s].m = m /\ call[s].ph \in Locked)
    BY DEF LockInv, Owned
  <2>4. CASE s = t
    BY <1>2, <2>1, <2>2, <2>3, <2>4, LockAssumption DEF Locked
  <2>5. CASE s # t
    BY <1>2, <2>1, <2>2, <2>3, <2>5, LockAssumption
  <2> QED
    BY <2>4, <2>5
<1> QED
  BY <1>2, <1>3 DEF LockInv

\* Entering the table.
LEMMA GetStep ==
  ASSUME LockInv, NEW t \in Calls, NEW k \in Keys, NEW ph \in {"wait", "try"}, Get(t, k, ph)
  PROVE  LockInv'
<1>1. call \in [Calls -> [ph : Phases, key : Keys \cup {None}, m : Mutexes \cup {None}]]
  BY DEF LockInv, TypeOK
<1>2. PICK m \in Mutexes :
        /\ IF locks[k] = None
           THEN Users(m) = {} /\ \A j \in Keys : locks[j] # m
           ELSE m = locks[k]
        /\ locks' = [locks EXCEPT ![k] = m]
        /\ refs' = [refs EXCEPT ![m] = (IF locks[k] = None THEN 0 ELSE @) + 1]
        /\ call' = [call EXCEPT ![t] = [ph |-> ph, key |-> k, m |-> m]]
  BY DEF Get
<1>3. call[t] = Ended /\ UNCHANGED owner /\ call[t].m = None /\ call[t].ph = "idle"
  BY DEF Get, Ended
<1>4. /\ call'[t] = [ph |-> ph, key |-> k, m |-> m]
      /\ \A s \in Calls : s # t => call'[s] = call[s]
      /\ call' \in [Calls -> [ph : Phases, key : Keys \cup {None}, m : Mutexes \cup {None}]]
  BY <1>1, <1>2 DEF Phases
<1>5. /\ locks \in [Keys -> Mutexes \cup {None}] /\ refs \in [Mutexes -> Nat]
      /\ locks'[k] = m /\ \A j \in Keys : j # k => locks'[j] = locks[j]
  BY <1>2 DEF LockInv, TypeOK
<1>6. m # None /\ \A j \in Keys : j # k => locks[j] # m
  BY <1>2, <1>5, LockAssumption DEF LockInv, OneKey
<1>7. /\ Users(m)' = Users(m) \cup {t} /\ t \notin Users(m)
      /\ \A n \in Mutexes \ {m} : Users(n)' = Users(n)
  BY <1>3, <1>4, LockAssumption DEF Users
<1>8. refs'[m] = Cardinality(Users(m)) + 1
  <2>1. CASE locks[k] = None
    <3>1. Cardinality(Users(m)) = 0
      BY <1>2, <2>1, FS_EmptySet
    <3> QED
      BY <1>2, <1>5, <2>1, <3>1
  <2>2. CASE locks[k] # None
    BY <1>2, <1>5, <2>2 DEF LockInv, Counted
  <2> QED
    BY <2>1, <2>2
<1>9. Counted'
  <2>1. Cardinality(Users(m)') = Cardinality(Users(m)) + 1
    BY <1>7, UsersFinite, FS_AddElement
  <2>2. \A n \in Mutexes \ {m} : refs'[n] = Cardinality(Users(n)')
    BY <1>2, <1>5, <1>7 DEF LockInv, Counted
  <2> QED
    BY <1>8, <2>1, <2>2 DEF Counted
<1>10. TypeOK'
  <2>1. refs' \in [Mutexes -> Nat]
    BY <1>2, <1>5, <1>8, UsersFinite
  <2> QED
    BY <1>2, <1>3, <1>4, <1>5, <2>1 DEF LockInv, TypeOK
<1>11. Refers'
  <2>1. \A s \in Calls : s # t => call[s] = Ended \/ call[s].key # k \/ call[s].m = m
    BY <1>2, <1>6, LockAssumption DEF LockInv, Refers
  <2>2. /\ call'[t].ph # "idle" /\ call'[t].key = k /\ call'[t].m = m
    BY <1>4
  <2>3. \A s \in Calls : s # t => call'[s] = Ended \/ (/\ call'[s].ph # "idle"
                                   /\ call'[s].key \in Keys /\ call'[s].m \in Mutexes
                                   /\ locks'[call'[s].key] = call'[s].m)
    BY <1>4, <1>5, <2>1 DEF LockInv, Refers
  <2> QED
    BY <1>5, <2>2, <2>3 DEF Refers, Ended
<1>12. InUse' /\ OneKey'
  <2>1. OneKey'
    BY <1>5, <1>6 DEF LockInv, OneKey
  <2>2. ASSUME NEW j \in Keys, locks'[j] # None PROVE \E s \in Calls : call'[s].m = locks'[j]
    <3>1. CASE j = k
      BY <1>4, <1>5, <3>1
    <3>2. CASE j # k
      <4>1. PICK s \in Calls : call[s].m = locks[j]
        BY <1>5, <2>2, <3>2 DEF LockInv, InUse, Users
      <4> QED
        BY <1>3, <1>4, <1>5, <2>2, <3>2, <4>1
    <3> QED
      BY <3>1, <3>2
  <2> QED
    BY <2>1, <2>2 DEF InUse, Users
<1>13. Owned'
  BY <1>3, <1>4, LockAssumption DEF LockInv, Owned, Locked
<1> QED
  BY <1>9, <1>10, <1>11, <1>12, <1>13 DEF LockInv

\* Unlocking.
LEMMA UnlockStep ==
  ASSUME LockInv, NEW t \in Calls, Unlock(t)
  PROVE  LockInv'
<1>1. owner' \in [Mutexes -> Calls \cup {None}] /\ owner \in [Mutexes -> Calls \cup {None}]
  BY DEF Unlock, LockInv, TypeOK
<1>2. /\ TypeOK' /\ Refers' /\ Counted' /\ InUse' /\ OneKey'
      /\ call'[t].m = call[t].m /\ call'[t].ph = "unlocked" /\ call[t].m \in Mutexes
      /\ \A s \in Calls : s # t => call'[s] = call[s]
  BY <1>1, PhaseStep DEF Unlock, Phases
<1>3. Owned'
  <2> SUFFICES ASSUME NEW m \in Mutexes, NEW s \in Calls
               PROVE  owner'[m] = s <=> (call'[s].m = m /\ call'[s].ph \in Locked)
    BY DEF Owned
  <2>1. owner' = [owner EXCEPT ![call[t].m] = None] /\ owner[call[t].m] = t
    BY <1>2 DEF Unlock, LockInv, Owned, Locked
  <2>2. owner[m] = s <=> (call[s].m = m /\ call[s].ph \in Locked)
    BY DEF LockInv, Owned
  <2>3. CASE s = t
    BY <1>1, <1>2, <2>1, <2>2, <2>3, LockAssumption DEF Locked
  <2>4. CASE s # t
    BY <1>1, <1>2, <2>1, <2>2, <2>4, LockAssumption
  <2> QED
    BY <2>3, <2>4
<1> QED
  BY <1>2, <1>3 DEF LockInv

\* A step that leaves the mutexes alone and does not move its call into or
\* out of the phases that own one.
LEMMA QuietStep ==
  ASSUME LockInv, NEW t \in Calls, NEW ph \in Phases \ {"idle"}, call[t].ph # "idle",
         ph \in Locked <=> call[t].ph \in Locked,
         call' = [call EXCEPT ![t].ph = ph], UNCHANGED <<locks, refs, owner>>
  PROVE  LockInv'
<1>1. owner' \in [Mutexes -> Calls \cup {None}]
  BY DEF LockInv, TypeOK
<1>2. /\ TypeOK' /\ Refers' /\ Counted' /\ InUse' /\ OneKey'
      /\ call'[t].m = call[t].m /\ call'[t].ph = ph
      /\ \A s \in Calls : s # t => call'[s] = call[s]
  BY <1>1, PhaseStep
<1>3. Owned'
  BY <1>2 DEF LockInv, Owned
<1> QED
  BY <1>2, <1>3 DEF LockInv

\* Leaving the table: the last user takes the entry with it.
LEMMA PutStep ==
  ASSUME LockInv, NEW t \in Calls, Put(t)
  PROVE  LockInv'
<1>a. PICK m, k, left : m = call[t].m /\ k = call[t].key /\ left = refs[m] - 1
  OBVIOUS
<1>1. /\ call \in [Calls -> [ph : Phases, key : Keys \cup {None}, m : Mutexes \cup {None}]]
      /\ locks \in [Keys -> Mutexes \cup {None}] /\ refs \in [Mutexes -> Nat]
  BY DEF LockInv, TypeOK
<1>2. /\ call[t].ph \in {"unlocked", "busy"}
      /\ refs' = [refs EXCEPT ![m] = left]
      /\ locks' = IF left = 0 THEN [locks EXCEPT ![k] = None] ELSE locks
      /\ call' = [call EXCEPT ![t] = Ended]
      /\ UNCHANGED owner
  BY <1>a DEF Put, Dropped, Unused
<1>3. m \in Mutexes /\ k \in Keys /\ locks[k] = m /\ m # None
  BY <1>a, <1>2, LockAssumption DEF LockInv, Refers, Ended
<1>4. /\ call'[t] = Ended /\ \A s \in Calls : s # t => call'[s] = call[s]
      /\ call' \in [Calls -> [ph : Phases, key : Keys \cup {None}, m : Mutexes \cup {None}]]
  BY <1>1, <1>2 DEF Ended, Phases
<1>5. call'[t].m = None /\ call'[t].ph = "idle"
  BY <1>4 DEF Ended
<1>6. /\ Users(m)' = Users(m) \ {t} /\ t \in Users(m)
      /\ \A n \in Mutexes \ {m} : Users(n)' = Users(n)
  BY <1>a, <1>3, <1>4, <1>5, LockAssumption DEF Users
<1>7. Cardinality(Users(m) \ {t}) = left /\ left \in Nat
  <2>1. IsFiniteSet(Users(m)) /\ refs[m] = Cardinality(Users(m)) /\ refs[m] \in Nat
    BY <1>1, <1>3, UsersFinite DEF LockInv, Counted
  <2>2. IsFiniteSet(Users(m) \ {t}) /\ Cardinality(Users(m) \ {t}) = Cardinality(Users(m)) - 1
    BY <1>6, <2>1, FS_RemoveElement
  <2>3. Cardinality(Users(m) \ {t}) \in Nat
    BY <2>2, FS_CardinalityType
  <2> QED
    BY <1>a, <2>1, <2>2, <2>3
<1>8. left = 0 <=> Users(m) \ {t} = {}
  <2>1. IsFiniteSet(Users(m) \ {t})
    BY UsersFinite, FS_Subset
  <2> QED
    BY <1>7, <2>1, FS_EmptySet
<1>9. Counted'
  <2>1. refs'[m] = left /\ \A n \in Mutexes \ {m} : refs'[n] = refs[n]
    BY <1>1, <1>2, <1>3
  <2> QED
    BY <1>6, <1>7, <2>1 DEF LockInv, Counted
<1>10. TypeOK'
  <2>1. locks' \in [Keys -> Mutexes \cup {None}]
    BY <1>1, <1>2
  <2>2. refs' \in [Mutexes -> Nat]
    BY <1>1, <1>2, <1>7
  <2> QED
    BY <1>2, <1>4, <2>1, <2>2 DEF LockInv, TypeOK
<1>11. \A j \in Keys : locks'[j] = IF left = 0 /\ j = k THEN None ELSE locks[j]
  BY <1>1, <1>2
<1>12. Refers'
  <2>1. ASSUME NEW s \in Calls, s # t, call[s] # Ended, left = 0 PROVE call[s].key # k
    BY <1>3, <1>8, <2>1 DEF LockInv, Refers, Users
  <2>2. ASSUME NEW s \in Calls, s # t, call[s] # Ended
        PROVE  /\ call'[s].ph # "idle" /\ call'[s].key \in Keys /\ call'[s].m \in Mutexes
               /\ locks'[call'[s].key] = call'[s].m
    BY <1>4, <1>11, <2>1, <2>2 DEF LockInv, Refers
  <2> QED
    BY <1>4, <2>2 DEF Refers
<1>13. OneKey'
  BY <1>11 DEF LockInv, OneKey
<1>14. InUse'
  <2>1. ASSUME NEW j \in Keys, locks'[j] # None PROVE \E s \in Calls : call'[s].m = locks'[j]
    <3>1. locks'[j] = locks[j] /\ (j = k => left # 0)
      BY <1>11, <2>1
    <3>2. PICK s \in Users(locks[j]) : s # t
      <4>1. CASE j = k
        BY <1>3, <1>8, <3>1, <4>1
      <4>2. CASE j # k
        BY <1>a, <1>3, <2>1, <3>1, <4>2 DEF LockInv, InUse, OneKey, Users
      <4> QED
        BY <4>1, <4>2
    <3> QED
      BY <1>4, <3>1, <3>2 DEF Users
  <2> QED
    BY <2>1 DEF InUse, Users
<1>15. Owned'
  <2> SUFFICES ASSUME NEW n \in Mutexes, NEW s \in Calls
               PROVE  owner'[n] = s <=> (call'[s].m = n /\ call'[s].ph \in Locked)
    BY DEF Owned
  <2> QED
    BY <1>2, <1>4, <1>5, LockAssumption DEF LockInv, Owned, Locked
<1> QED
  BY <1>9, <1>10, <1>12, <1>13, <1>14, <1>15 DEF LockInv

\* Every step keeps the invariant.
LEMMA NextLockInv == LockInv /\ [Next]_vars => LockInv'
<1> SUFFICES ASSUME LockInv, [Next]_vars PROVE LockInv'
  OBVIOUS
<1>1. CASE UNCHANGED vars
  BY <1>1 DEF vars, LockInv, TypeOK, Refers, Counted, InUse, OneKey, Owned, Users
<1>2. ASSUME NEW t \in Calls, NEW k \in Keys, Get(t, k, "wait") \/ Get(t, k, "try")
      PROVE  LockInv'
  BY <1>2, GetStep
<1>3. ASSUME NEW t \in Calls, Locks(t) PROVE LockInv'
  BY <1>3, LockStep DEF Locks, Locked
<1>4. ASSUME NEW t \in Calls, Returns(t) PROVE LockInv'
  BY <1>4, QuietStep DEF Returns, Locked, Phases
<1>5. ASSUME NEW t \in Calls, Cancel(t) PROVE LockInv'
  <2>1. CASE call[t].ph = "wait"
    BY <1>5, <2>1, QuietStep DEF Cancel, Locked, Phases
  <2>2. CASE call[t].ph = "got"
    BY <1>5, <2>2, QuietStep DEF Cancel, Locked, Phases
  <2> QED
    BY <1>5, <2>1, <2>2 DEF Cancel
<1>6. ASSUME NEW t \in Calls, TryLocks(t) PROVE LockInv'
  <2>1. CASE Lock(t, "hold")
    BY <1>6, <2>1, LockStep DEF TryLocks, Locked
  <2>2. CASE call' = [call EXCEPT ![t].ph = "busy"] /\ UNCHANGED <<locks, refs, owner>>
    BY <1>6, <2>2, QuietStep DEF TryLocks, Locked, Phases
  <2> QED
    BY <1>6, <2>1, <2>2 DEF TryLocks
<1> QED
  BY <1>1, <1>2, <1>3, <1>4, <1>5, <1>6, UnlockStep, PutStep DEF Next, Step

\* The invariant holds for ever.
LEMMA LockInvariant == Spec => []LockInv
  BY InitLockInv, NextLockInv, PTL DEF Spec

\* Every variable of the locker stays in its type; in particular a counter
\* is never decremented below zero.
THEOREM LockTyped == Spec => []TypeOK
<1>1. LockInv => TypeOK
  BY DEF LockInv
<1> QED
  BY <1>1, LockInvariant, PTL

\* get and put count exactly: the mutex a call refers to is the one in the
\* table, and an entry nobody refers to is gone.
THEOREM LockRefsExact == Spec => []RefsExact
<1>1. LockInv => RefsExact
  BY DEF LockInv, RefsExact, Refers, InUse
<1> QED
  BY <1>1, LockInvariant, PTL

\* Acquire and TryAcquire give one key to one call at a time, for any
\* number of calls and whatever is cancelled.
THEOREM LockExclusive == Spec => []MutualExclusion
<1>1. LockInv => MutualExclusion
  <2> SUFFICES ASSUME LockInv, NEW k \in Keys, NEW s \in Holders(k), NEW t \in Holders(k)
               PROVE  s = t
    BY DEF MutualExclusion
  <2>1. /\ s \in Calls /\ t \in Calls /\ call[s].ph = "hold" /\ call[t].ph = "hold"
        /\ call[s].key = k /\ call[t].key = k
    BY DEF Holders
  <2>2. call[s] # Ended /\ call[t] # Ended
    BY <2>1 DEF Ended
  <2>3. call[s].m = locks[k] /\ call[t].m = locks[k] /\ locks[k] \in Mutexes
    BY <2>1, <2>2 DEF LockInv, Refers
  <2>4. owner[locks[k]] = s /\ owner[locks[k]] = t
    BY <2>1, <2>3 DEF LockInv, Owned, Locked
  <2> QED
    BY <2>4
<1> QED
  BY <1>1, LockInvariant, PTL

\* A holder owns the mutex of its key, which is the one in the table.
LEMMA HolderOwns ==
  ASSUME LockInv, NEW k \in Keys, NEW s \in Holders(k)
  PROVE  s \in Calls /\ locks[k] \in Mutexes /\ owner[locks[k]] = s
<1>1. s \in Calls /\ call[s].ph = "hold" /\ call[s].key = k /\ call[s] # Ended
  BY DEF Holders, Ended
<1>2. call[s].m = locks[k] /\ locks[k] \in Mutexes
  BY <1>1 DEF LockInv, Refers
<1> QED
  BY <1>1, <1>2 DEF LockInv, Owned, Locked

HolderKnown ==
  \A k \in Keys : /\ Holders(k) = {} => HolderOf(k) = None
                  /\ \A s \in Holders(k) : HolderOf(k) = s

\* The holder of the abstract lock is the one call in phase hold.
LEMMA HolderIs == LockInv => HolderKnown
<1> SUFFICES ASSUME LockInv, NEW k \in Keys
             PROVE  /\ Holders(k) = {} => HolderOf(k) = None
                    /\ \A s \in Holders(k) : HolderOf(k) = s
  BY DEF HolderKnown
<1>1. \A s, t \in Holders(k) : s = t
  BY HolderOwns
<1> QED
  BY <1>1 DEF HolderOf

\* The same after a step.
LEMMA HolderIsNext == LockInv' => HolderKnown'
  BY HolderIs, PTL

\* A key whose holders do not change keeps its abstract holder.
LEMMA SameHolder ==
  ASSUME NEW k \in Keys, Holders(k)' = Holders(k)
  PROVE  HolderOf(k)' = HolderOf(k)
  BY DEF HolderOf

\* Where nobody starts or stops holding, the abstract lock stutters.
LEMMA SameHolders ==
  ASSUME \A k \in Keys : Holders(k)' = Holders(k)
  PROVE  Holder' = Holder
<1>1. \A k \in Keys : HolderOf(k)' = HolderOf(k)
  BY SameHolder
<1> QED
  BY <1>1 DEF Holder

\* A call that starts to hold a key nobody owned takes the abstract lock.
LEMMA HoldStep ==
  ASSUME LockInv, LockInv', NEW t \in Calls, call[t].ph \in {"got", "try"},
         owner[call[t].m] \in {None, t}, call' = [call EXCEPT ![t].ph = "hold"]
  PROVE  \E k \in Keys : Atomic!Acquire(t, k)
<1>1. call \in [Calls -> [ph : Phases, key : Keys \cup {None}, m : Mutexes \cup {None}]]
  BY DEF LockInv, TypeOK
<1>2. PICK k \in Keys : k = call[t].key /\ call[t].m = locks[k]
  BY DEF LockInv, Refers, Ended
<1>3. /\ call'[t].ph = "hold" /\ call'[t].key = k
      /\ \A s \in Calls : s # t => call'[s] = call[s]
  BY <1>1, <1>2
<1>4. Holders(k) = {}
  <2> SUFFICES ASSUME NEW s \in Holders(k) PROVE FALSE
    OBVIOUS
  <2>1. owner[locks[k]] = s /\ s \in Calls
    BY HolderOwns
  <2>2. s = t
    BY <1>2, <2>1, LockAssumption
  <2> QED
    BY <2>2 DEF Holders
<1>5. t \in Holders(k)' /\ \A j \in Keys \ {k} : Holders(j)' = Holders(j)
  BY <1>2, <1>3 DEF Holders
<1>6. HolderOf(k) = None /\ HolderOf(k)' = t
  BY <1>4, <1>5, HolderIs, HolderIsNext DEF HolderKnown
<1>7. \A j \in Keys \ {k} : HolderOf(j)' = HolderOf(j)
  BY <1>5, SameHolder
<1>8. Holder[k] = None /\ Holder' = [Holder EXCEPT ![k] = t]
  BY <1>6, <1>7 DEF Holder
<1> QED
  BY <1>8 DEF Atomic!Acquire

\* Every step of the locker is a step of the abstract lock or a stutter.
LEMMA NextAtomic == LockInv /\ LockInv' /\ [Next]_vars => [Atomic!Next]_Holder
<1> SUFFICES ASSUME LockInv, LockInv', [Next]_vars PROVE [Atomic!Next]_Holder
  OBVIOUS
<1> USE DEF Atomic!Next
<1>a. call \in [Calls -> [ph : Phases, key : Keys \cup {None}, m : Mutexes \cup {None}]]
  BY DEF LockInv, TypeOK
<1>1. CASE UNCHANGED vars
  BY <1>1, SameHolders DEF vars, Holders
<1>2. ASSUME NEW t \in Calls, NEW k \in Keys, Get(t, k, "wait") \/ Get(t, k, "try")
      PROVE  Holder' = Holder
  <2>1. PICK m \in Mutexes, ph \in {"wait", "try"} : call' = [call EXCEPT ![t] = [ph |-> ph, key |-> k, m |-> m]]
    BY <1>2 DEF Get
  <2>2. call[t].ph = "idle"
    BY <1>2 DEF Get, Ended
  <2>3. \A j \in Keys : Holders(j)' = Holders(j)
    BY <1>a, <2>1, <2>2 DEF Holders
  <2> QED
    BY <2>3, SameHolders
<1>3. ASSUME NEW t \in Calls, NEW ph \in Phases \ {"hold"}, call[t].ph # "hold",
             call' = [call EXCEPT ![t].ph = ph]
      PROVE  Holder' = Holder
  <2>1. \A j \in Keys : Holders(j)' = Holders(j)
    BY <1>a, <1>3 DEF Holders
  <2> QED
    BY <2>1, SameHolders
<1>4. ASSUME NEW t \in Calls, Locks(t) PROVE Holder' = Holder
  BY <1>3, <1>4 DEF Locks, Lock, Phases
<1>5. ASSUME NEW t \in Calls, Cancel(t) PROVE Holder' = Holder
  BY <1>3, <1>5 DEF Cancel, Phases
<1>6. ASSUME NEW t \in Calls, Returns(t) PROVE \E k \in Keys : Atomic!Acquire(t, k)
  <2>1. call[t].m \in Mutexes /\ call[t].ph = "got"
    BY <1>6 DEF Returns, LockInv, Refers, Ended
  <2>2. owner[call[t].m] = t
    BY <2>1 DEF LockInv, Owned, Locked
  <2> QED
    BY <1>6, <2>1, <2>2, HoldStep DEF Returns
<1>7. ASSUME NEW t \in Calls, TryLocks(t)
      PROVE  Holder' = Holder \/ \E k \in Keys : Atomic!Acquire(t, k)
  <2>1. CASE Lock(t, "hold")
    BY <1>7, <2>1, HoldStep DEF TryLocks, Lock
  <2>2. CASE call' = [call EXCEPT ![t].ph = "busy"]
    BY <1>3, <1>7, <2>2 DEF TryLocks, Phases
  <2> QED
    BY <1>7, <2>1, <2>2 DEF TryLocks
<1>8. ASSUME NEW t \in Calls, Unlock(t)
      PROVE  Holder' = Holder \/ \E k \in Keys : Atomic!Release(t, k)
  <2>1. CASE call[t].ph = "freed"
    BY <1>3, <1>8, <2>1 DEF Unlock, Phases
  <2>2. CASE call[t].ph = "hold"
    <3>1. PICK k \in Keys : k = call[t].key
      BY <2>2 DEF LockInv, Refers, Ended
    <3>2. t \in Holders(k)
      BY <2>2, <3>1 DEF Holders
    <3>3. call' = [call EXCEPT ![t].ph = "unlocked"]
      BY <1>8 DEF Unlock
    <3>4. Holders(k)' = Holders(k) \ {t} /\ \A j \in Keys \ {k} : Holders(j)' = Holders(j)
      BY <1>a, <3>1, <3>3 DEF Holders
    <3>5. Holders(k) = {t}
      BY <3>2, HolderOwns
    <3>6. Holder[k] = t /\ Holder' = [Holder EXCEPT ![k] = None]
      <4>1. Holders(k)' = {}
        BY <3>4, <3>5
      <4>2. HolderOf(k) = t /\ HolderOf(k)' = None
        BY <3>2, <4>1, HolderIs, HolderIsNext DEF HolderKnown
      <4>3. \A j \in Keys \ {k} : HolderOf(j)' = HolderOf(j)
        BY <3>4, SameHolder
      <4> QED
        BY <4>2, <4>3 DEF Holder
    <3> QED
      BY <3>6 DEF Atomic!Release
  <2> QED
    BY <1>8, <2>1, <2>2 DEF Unlock
<1>9. ASSUME NEW t \in Calls, Put(t) PROVE Holder' = Holder
  <2>1. call' = [call EXCEPT ![t] = Ended] /\ call[t].ph # "hold"
    BY <1>9 DEF Put
  <2>2. \A j \in Keys : Holders(j)' = Holders(j)
    BY <1>a, <2>1 DEF Holders, Ended
  <2> QED
    BY <2>2, SameHolders
<1> QED
  BY <1>1, <1>2, <1>4, <1>5, <1>6, <1>7, <1>8, <1>9 DEF Next, Step

\* Acquire, TryAcquire and release implement an atomic lock per key, with
\* all their reference counting and their cancelled waiters, for any
\* number of calls, keys and mutexes.
THEOREM LockRefinement == Spec => AtomicSpec
<1>1. Init => Atomic!Init
  <2> SUFFICES ASSUME Init PROVE Atomic!Init
    OBVIOUS
  <2>1. \A k \in Keys : Holders(k) = {}
    BY DEF Init, Holders, Ended
  <2> QED
    BY <2>1 DEF Atomic!Init, Holder, HolderOf
<1> QED
  BY <1>1, LockInvariant, NextAtomic, PTL DEF Spec, AtomicSpec, Atomic!Spec

-----------------------------------------------------------------------------
(* The discounts.                                                          *)

Options == {RatioKey, UsableKey}
Entries == Groups \X ({0} \cup {f.rate : f \in Offers})
Modes == {"none", "total", "per_group"}
Ats == {"none", "lock", "get", "put", "match", "done", "fail", "cover"}
Option == [Orgs -> SUBSET Entries]
WorkType == [key : Options \cup {None}, at : Ats, org : Orgs \cup {None},
             grp : Groups \cup {None}, mode : Modes, want : SUBSET Entries,
             copy : Option \cup {None}, tries : Nat, sent : BOOLEAN, alone : BOOLEAN]

PricingTyped ==
  /\ option \in [Options -> Option]
  /\ discount \in [Orgs -> [mode : Modes, entries : SUBSET Entries]]
  /\ work \in [Calls -> WorkType]

\* Work in hand has an organisation and an option; the ratios come last.
Fits(w) ==
  /\ w.at = "none" => w = NoWork
  /\ w.at # "none" => w.org \in Orgs /\ w.key \in Options
  /\ w.at = "cover" => w.key = UsableKey /\ w.grp \in Groups
  /\ w.at = "match" => w.key = RatioKey
  /\ w.at = "lock" => ~w.sent
  /\ w.key = UsableKey => w.grp \in Groups
  /\ w.at = "put" => w.copy \in Option

\* Work and lock: who reads waits for the lock of the option or holds it, who
\* writes holds it, and who waits has sent nothing.
Linked(w, c) ==
  /\ w.at = "get" => c.ph \in {"wait", "got", "hold"} /\ c.key = w.key
  /\ w.at \in {"put", "match"} => c.ph = "hold" /\ c.key = w.key
  /\ c.ph \in {"wait", "got"} => w.at = "get" /\ ~w.sent

Working == \A t \in Calls : Fits(work[t]) /\ Linked(work[t], call[t])

\* Two changes of one organisation know of each other.
Apart ==
  \A t, u \in Calls : (t # u /\ work[t].key = RatioKey /\ work[u].key = RatioKey
                       /\ work[t].org = work[u].org) => ~work[t].alone

\* What is about to be written back is what the option still is.
Unmoved == \A t \in Calls : work[t].at = "put" => work[t].copy = option[work[t].key]

\* A change that is through, and ran alone, is at the gateway.
Reached ==
  \A t \in Calls : (work[t].at = "done" /\ work[t].key = RatioKey /\ work[t].alone) =>
    option[RatioKey][work[t].org] = work[t].want

\* Until a change has been sent, row and gateway agree.
Mirrored ==
  \A o \in Orgs \ torn :
    (\A t \in Calls : work[t].key = RatioKey /\ work[t].org = o => ~work[t].sent) =>
      option[RatioKey][o] = discount[o].entries

PricingInv ==
  LockInv /\ PricingTyped /\ Working /\ Apart /\ Unmoved /\ Reached /\ Mirrored

-----------------------------------------------------------------------------
(* Constants and types.                                                    *)

\* The option keys are keys, and none of them is nil.
LEMMA KeysDiffer ==
  RatioKey # UsableKey /\ RatioKey # None /\ UsableKey # None /\ Options \subseteq Keys
  BY PricingAssumption, LockAssumption DEF Options

\* A call without work.
LEMMA NoWorkFits ==
  /\ NoWork \in WorkType /\ Fits(NoWork)
  /\ NoWork.at = "none" /\ NoWork.key = None /\ NoWork.org = None /\ NoWork.sent = FALSE
<1>1. NoWork \in WorkType
  BY DEF NoWork, WorkType, Ats, Modes
<1>2. NoWork.at = "none" /\ NoWork.key = None /\ NoWork.org = None /\ NoWork.sent = FALSE
  BY DEF NoWork
<1> QED
  BY <1>1, <1>2, KeysDiffer DEF Fits

\* The parts of the invariant, under their names.
LEMMA PricingParts ==
  ASSUME PricingInv
  PROVE  /\ LockInv /\ PricingTyped /\ Working /\ Apart /\ Unmoved /\ Reached /\ Mirrored
         /\ option \in [Options -> Option] /\ work \in [Calls -> WorkType]
         /\ \A t \in Calls : Fits(work[t]) /\ Linked(work[t], call[t])
  BY DEF PricingInv, PricingTyped, Working

\* Two calls never hold one option.
LEMMA OneHolder ==
  ASSUME LockInv, NEW k \in Keys, NEW s \in Holders(k), NEW t \in Holders(k)
  PROVE  s = t
  BY HolderOwns

-----------------------------------------------------------------------------
(* Steps of one call.                                                      *)

\* The only writer of an option is the call that holds it.
OptionStep(t) ==
  \/ option' = option
  \/ /\ call[t].ph = "hold" /\ work[t].at = "put"
     /\ option' = [option EXCEPT ![work[t].key] = Merged(t)]

\* What is written back changes the entry of one organisation in one option;
\* nobody else is about to write back that option.
LEMMA WriteFrame ==
  ASSUME PricingInv, NEW t \in Calls, OptionStep(t)
  PROVE  /\ option' \in [Options -> Option]
         /\ \A u \in Calls : u # t /\ work[u].at = "put" =>
              option'[work[u].key] = option[work[u].key]
         /\ \A o \in Orgs : (o # work[t].org \/ work[t].key # RatioKey) =>
              option'[RatioKey][o] = option[RatioKey][o]
         /\ option' # option => option'[work[t].key][work[t].org] = work[t].want
<1>1. CASE option' = option
  BY <1>1, PricingParts
<1>2. CASE /\ call[t].ph = "hold" /\ work[t].at = "put"
           /\ option' = [option EXCEPT ![work[t].key] = Merged(t)]
  <2>1. /\ work[t] \in WorkType /\ Fits(work[t]) /\ Linked(work[t], call[t])
        /\ work[t].copy = option[work[t].key] /\ option \in [Options -> Option]
    BY <1>2, PricingParts DEF Unmoved
  <2>2. /\ work[t].org \in Orgs /\ work[t].key \in Options /\ call[t].key = work[t].key
        /\ work[t].want \in SUBSET Entries
    BY <1>2, <2>1 DEF Fits, Linked, WorkType
  <2>3. Merged(t) = [option[work[t].key] EXCEPT ![work[t].org] = work[t].want]
    BY <2>1 DEF Merged
  <2>4. /\ Merged(t) \in Option /\ Merged(t)[work[t].org] = work[t].want
        /\ \A o \in Orgs : o # work[t].org => Merged(t)[o] = option[work[t].key][o]
    BY <2>1, <2>2, <2>3 DEF Option
  <2>5. option' \in [Options -> Option] /\ option'[work[t].key] = Merged(t)
        /\ \A k \in Options : k # work[t].key => option'[k] = option[k]
    BY <1>2, <2>1, <2>2, <2>4
  <2>6. ASSUME NEW u \in Calls, u # t, work[u].at = "put"
        PROVE  option'[work[u].key] = option[work[u].key]
    <3>1. Fits(work[u]) /\ Linked(work[u], call[u])
      BY PricingParts
    <3>2. work[u].key \in Options /\ call[u].ph = "hold" /\ call[u].key = work[u].key
      BY <2>6, <3>1 DEF Fits, Linked
    <3>3. work[u].key # work[t].key
      <4>1. SUFFICES ASSUME work[u].key = work[t].key PROVE FALSE
        OBVIOUS
      <4>2. PICK k \in Keys : k = work[t].key
        BY <2>2, KeysDiffer
      <4>3. u \in Holders(k) /\ t \in Holders(k)
        BY <1>2, <2>2, <3>2, <4>1, <4>2 DEF Holders
      <4> QED
        BY <2>6, <4>3, OneHolder, PricingParts
    <3> QED
      BY <2>5, <3>2, <3>3
  <2> QED
    BY <2>2, <2>4, <2>5, <2>6 DEF Options
<1> QED
  BY <1>1, <1>2 DEF OptionStep

\* A call that goes on with the work it has, or gives it up.
Goes(t, w) ==
  /\ work' = [work EXCEPT ![t] = w]
  /\ w.key = RatioKey => /\ work[t].key = RatioKey /\ w.org = work[t].org
                         /\ w.alone => work[t].alone
  /\ \A u \in Calls : u # t => call'[u] = call[u]

\* Such a step keeps everything but the agreement of row and gateway.
LEMMA GoesOn ==
  ASSUME PricingInv, NEW t \in Calls, NEW w \in WorkType, Goes(t, w), OptionStep(t),
         Fits(w), Linked(w, call'[t]),
         discount' \in [Orgs -> [mode : Modes, entries : SUBSET Entries]],
         w.at = "put" => w.copy = option'[w.key],
         w.at = "done" /\ w.key = RatioKey => option'[RatioKey][w.org] = w.want
                                             \/ (work[t] = w /\ option' = option)
  PROVE  PricingTyped' /\ Working' /\ Apart' /\ Unmoved' /\ Reached'
<1>1. /\ work' \in [Calls -> WorkType] /\ work'[t] = w
      /\ \A u \in Calls : u # t => work'[u] = work[u] /\ call'[u] = call[u]
  BY PricingParts DEF Goes
<1>2. PricingTyped'
  BY <1>1, WriteFrame DEF PricingTyped
<1>3. Working'
  <2>1. ASSUME NEW u \in Calls PROVE Fits(work'[u]) /\ Linked(work'[u], call'[u])
    BY <1>1, PricingParts
  <2> QED
    BY <2>1 DEF Working, Fits, Linked
<1>4. Apart'
  <2>1. ASSUME NEW u \in Calls, NEW v \in Calls, u # v, work'[u].key = RatioKey,
               work'[v].key = RatioKey, work'[u].org = work'[v].org
        PROVE  ~work'[u].alone
    <3>1. work[u].key = RatioKey /\ work[v].key = RatioKey /\ work[u].org = work[v].org
          /\ (work'[u].alone => work[u].alone)
      BY <1>1, <2>1 DEF Goes
    <3> QED
      BY <2>1, <3>1, PricingParts DEF Apart
  <2> QED
    BY <2>1 DEF Apart
<1>5. Unmoved'
  BY <1>1, WriteFrame, PricingParts DEF Unmoved
<1>6. Reached'
  <2>1. ASSUME NEW u \in Calls, work'[u].at = "done", work'[u].key = RatioKey, work'[u].alone
        PROVE  option'[RatioKey][work'[u].org] = work'[u].want
    <3>1. CASE u = t
      BY <1>1, <2>1, <3>1, PricingParts DEF Reached
    <3>2. CASE u # t
      <4>1. work'[u] = work[u] /\ work[u].org \in Orgs
        BY <1>1, <2>1, <3>2, PricingParts DEF Fits
      <4>2. work[t].org # work[u].org \/ work[t].key # RatioKey
        BY <2>1, <3>2, <4>1, PricingParts DEF Apart
      <4>3. option[RatioKey][work[u].org] = work[u].want
        BY <2>1, <4>1, PricingParts DEF Reached
      <4> QED
        BY <4>1, <4>2, <4>3, WriteFrame
    <3> QED
      BY <3>1, <3>2
  <2> QED
    BY <2>1 DEF Reached
<1> QED
  BY <1>2, <1>3, <1>4, <1>5, <1>6

\* Before the row is written, what was agreed on stays so: a change is at the
\* gateway from its first PUT on, and counts as sent until it is over.
LEMMA MirrorStays ==
  ASSUME PricingInv, NEW t \in Calls, NEW w \in WorkType, Goes(t, w), OptionStep(t),
         UNCHANGED <<discount, torn>>,
         work[t].key = RatioKey /\ work[t].sent => w.key = RatioKey /\ w.sent,
         option' # option /\ work[t].key = RatioKey => w.key = RatioKey /\ w.sent
  PROVE  Mirrored'
<1>1. /\ work' \in [Calls -> WorkType] /\ work'[t] = w
      /\ \A u \in Calls : u # t => work'[u] = work[u]
  BY PricingParts DEF Goes
<1>2. ASSUME NEW o \in Orgs, o \notin torn',
             \A u \in Calls : work'[u].key = RatioKey /\ work'[u].org = o => ~work'[u].sent
      PROVE  option'[RatioKey][o] = discount'[o].entries
  <2>1. \A u \in Calls : work[u].key = RatioKey /\ work[u].org = o => ~work[u].sent
    BY <1>1, <1>2 DEF Goes
  <2>2. option[RatioKey][o] = discount[o].entries
    BY <1>2, <2>1, PricingParts DEF Mirrored
  <2>3. option'[RatioKey][o] = option[RatioKey][o]
    <3>1. CASE option' = option
      BY <3>1
    <3>2. CASE option' # option /\ work[t].key = RatioKey
      BY <1>1, <1>2, <3>2, WriteFrame DEF Goes
    <3>3. CASE work[t].key # RatioKey
      BY <3>3, WriteFrame
    <3> QED
      BY <3>1, <3>2, <3>3
  <2> QED
    BY <2>2, <2>3
<1> QED
  BY <1>2 DEF Mirrored

-----------------------------------------------------------------------------
(* The lock.                                                               *)

\* Whatever a call of Pricing does, the lock takes one of its own steps or
\* none, and only for that call.
LEMMA LocksUsed ==
  ASSUME PricingInv, [PricingNext]_pricingVars
  PROVE  [Next]_vars
<1>1. CASE UNCHANGED pricingVars
  BY <1>1 DEF pricingVars, lockVars, vars
<1>2. ASSUME NEW t \in Calls, UNCHANGED lockVars PROVE [Next]_vars
  BY <1>2 DEF lockVars, vars
<1>3. ASSUME NEW t \in Calls, Acquire(t) PROVE Next
  <2>1. work[t].key \in Keys
    BY <1>3, PricingParts, KeysDiffer DEF Acquire, Fits
  <2> QED
    BY <1>3, <2>1 DEF Acquire, Next
<1>4. ASSUME NEW t \in Calls, TryAcquire(t) PROVE Next
  BY <1>4, KeysDiffer DEF TryAcquire, Next, Options
<1>5. ASSUME NEW t \in Calls, Cancelled(t) \/ Release(t) \/ Waiting(t) PROVE Next
  BY <1>5 DEF Cancelled, Release, Waiting, Next, Step
<1>6. ASSUME NEW t \in Calls,
             \/ \E o \in Orgs, f \in Offers : ConfigureDiscount(t, o, f)
             \/ \E o \in Orgs, g \in Groups : AddOrgUsableGroup(t, o, g)
             \/ ensureTotalDiscountCoversGroup(t) \/ getOptionJSON(t) \/ writeOnce(t)
             \/ orgRatiosMatch(t) \/ Finish(t)
      PROVE  UNCHANGED lockVars
  BY <1>6 DEF ConfigureDiscount, AddOrgUsableGroup, ensureTotalDiscountCoversGroup,
              getOptionJSON, writeOnce, orgRatiosMatch, Finish
<1> QED
  BY <1>1, <1>2, <1>3, <1>4, <1>5, <1>6 DEF PricingNext, Proceeds

\* A step of the lock leaves the other calls alone.
LEMMA LockFrame ==
  ASSUME LockInv, NEW t \in Calls
  PROVE  /\ \A k, ph : Get(t, k, ph) =>
              /\ call[t] = Ended /\ call'[t].ph = ph /\ call'[t].key = k
              /\ \A u \in Calls : u # t => call'[u] = call[u]
         /\ Locks(t) \/ Returns(t) \/ TryLocks(t) \/ Put(t) \/ Cancel(t) \/ Unlock(t) =>
              \A u \in Calls : u # t => call'[u] = call[u]
<1>1. call \in [Calls -> [ph : Phases, key : Keys \cup {None}, m : Mutexes \cup {None}]]
  BY DEF LockInv, TypeOK
<1>2. ASSUME NEW k, NEW ph, Get(t, k, ph)
      PROVE  /\ call[t] = Ended /\ call'[t].ph = ph /\ call'[t].key = k
             /\ \A u \in Calls : u # t => call'[u] = call[u]
  <2>1. PICK m \in Mutexes : call' = [call EXCEPT ![t] = [ph |-> ph, key |-> k, m |-> m]]
    BY <1>2 DEF Get
  <2> QED
    BY <1>1, <1>2, <2>1 DEF Get
<1>3. ASSUME Locks(t) \/ Returns(t) \/ TryLocks(t) \/ Put(t) \/ Cancel(t) \/ Unlock(t)
      PROVE  \A u \in Calls : u # t => call'[u] = call[u]
  BY <1>1, <1>3 DEF Locks, Lock, Returns, TryLocks, Put, Cancel, Unlock
<1> QED
  BY <1>2, <1>3

\* What the phase of call t becomes when it waits, returns or gives back.
LEMMA PhaseFrame ==
  ASSUME LockInv, NEW t \in Calls, NEW w \in WorkType, Linked(w, call[t]),
         \/ Locks(t) \/ Returns(t) \/ TryLocks(t) \/ Put(t)
         \/ Unlock(t) /\ (call[t].ph = "hold" => w.at \in {"done", "fail", "none"})
  PROVE  Linked(w, call'[t])
<1>1. call \in [Calls -> [ph : Phases, key : Keys \cup {None}, m : Mutexes \cup {None}]]
  BY DEF LockInv, TypeOK
<1>2. ASSUME NEW ph, call' = [call EXCEPT ![t].ph = ph]
      PROVE  call'[t].ph = ph /\ call'[t].key = call[t].key
  BY <1>1, <1>2
<1>3. CASE Locks(t)
  BY <1>2, <1>3 DEF Locks, Lock, Linked
<1>4. CASE Returns(t)
  BY <1>2, <1>4 DEF Returns, Linked
<1>5. CASE TryLocks(t)
  BY <1>2, <1>5 DEF TryLocks, Lock, Linked
<1>6. CASE Put(t)
  <2>1. call'[t] = Ended /\ call[t].ph \in {"unlocked", "busy"}
    BY <1>1, <1>6 DEF Put
  <2>2. call'[t].ph = "idle"
    BY <2>1 DEF Ended
  <2> QED
    BY <2>1, <2>2 DEF Linked
<1>7. CASE Unlock(t) /\ (call[t].ph = "hold" => w.at \in {"done", "fail", "none"})
  BY <1>2, <1>7 DEF Unlock, Linked
<1> QED
  BY <1>3, <1>4, <1>5, <1>6, <1>7

\* A step of the lock alone keeps the invariant.
LEMMA LockOnlyKeeps ==
  ASSUME PricingInv, LockInv', NEW t \in Calls, Linked(work[t], call'[t]),
         \A u \in Calls : u # t => call'[u] = call[u],
         UNCHANGED <<option, discount, work, torn>>
  PROVE  PricingInv'
<1> DEFINE w == work[t]
<1>1. w \in WorkType /\ Goes(t, w) /\ OptionStep(t) /\ Fits(w)
  BY PricingParts DEF Goes, OptionStep
<1>2. discount' \in [Orgs -> [mode : Modes, entries : SUBSET Entries]]
  BY PricingParts DEF PricingTyped
<1>3. w.at = "put" => w.copy = option'[w.key]
  BY PricingParts DEF Unmoved
<1>4. PricingTyped' /\ Working' /\ Apart' /\ Unmoved' /\ Reached'
  BY <1>1, <1>2, <1>3, GoesOn
<1>5. Mirrored'
  BY <1>1, MirrorStays
<1> QED
  BY <1>4, <1>5 DEF PricingInv

\* Waiting, trying and giving back.
LEMMA LockStepsKeep ==
  ASSUME PricingInv, LockInv', NEW t \in Calls, Release(t) \/ Waiting(t) \/ TryAcquire(t)
  PROVE  PricingInv'
<1>0. LockInv /\ work[t] \in WorkType /\ Linked(work[t], call[t])
  BY PricingParts
<1>1. UNCHANGED <<option, discount, work, torn>>
  BY DEF Release, Waiting, TryAcquire
<1>2. CASE Release(t)
  BY <1>0, <1>1, <1>2, PhaseFrame, LockFrame, LockOnlyKeeps DEF Release
<1>3. CASE Waiting(t)
  BY <1>0, <1>1, <1>3, PhaseFrame, LockFrame, LockOnlyKeeps DEF Waiting
<1>4. CASE TryAcquire(t)
  <2>1. /\ work[t].at = "none" /\ call'[t].ph = "try"
        /\ \A u \in Calls : u # t => call'[u] = call[u]
    BY <1>0, <1>4, LockFrame, NoWorkFits DEF TryAcquire
  <2>2. Linked(work[t], call'[t])
    BY <2>1 DEF Linked
  <2> QED
    BY <1>1, <2>1, <2>2, LockOnlyKeeps
<1> QED
  BY <1>2, <1>3, <1>4

-----------------------------------------------------------------------------
(* Under the lock.                                                         *)

\* A step in which the call goes on with its work, the row not written, keeps
\* the invariant.
LEMMA WorkKeeps ==
  ASSUME PricingInv, LockInv', NEW t \in Calls, NEW w \in WorkType, Goes(t, w), OptionStep(t),
         Fits(w), Linked(w, call'[t]), UNCHANGED <<discount, torn>>,
         w.at = "put" => w.copy = option'[w.key],
         w.at = "done" /\ w.key = RatioKey => option'[RatioKey][w.org] = w.want,
         work[t].key = RatioKey /\ work[t].sent => w.key = RatioKey /\ w.sent,
         option' # option /\ work[t].key = RatioKey => w.key = RatioKey /\ w.sent
  PROVE  PricingInv'
<1>1. discount' \in [Orgs -> [mode : Modes, entries : SUBSET Entries]]
  BY PricingParts DEF PricingTyped
<1>2. PricingTyped' /\ Working' /\ Apart' /\ Unmoved' /\ Reached'
  BY <1>1, GoesOn
<1>3. Mirrored'
  BY MirrorStays
<1> QED
  BY <1>2, <1>3 DEF PricingInv

\* Acquire goes for the lock of the option.
LEMMA AcquireKeeps ==
  ASSUME PricingInv, LockInv', NEW t \in Calls, Acquire(t)
  PROVE  PricingInv'
<1> DEFINE w == [work[t] EXCEPT !.at = "get"]
<1>0. work[t] \in WorkType /\ Fits(work[t]) /\ work[t].at = "lock" /\ LockInv
  BY PricingParts DEF Acquire
<1>1. w \in WorkType /\ w.at = "get" /\ w.key = work[t].key /\ w.org = work[t].org
      /\ w.sent = work[t].sent /\ w.alone = work[t].alone /\ w.grp = work[t].grp
  BY <1>0 DEF WorkType, Ats
<1>2. /\ call'[t].ph = "wait" /\ call'[t].key = work[t].key
      /\ \A u \in Calls : u # t => call'[u] = call[u]
  BY <1>0, LockFrame DEF Acquire
<1>3. Fits(w) /\ Linked(w, call'[t])
  BY <1>0, <1>1, <1>2 DEF Fits, Linked
<1>4. work' = [work EXCEPT ![t] = w] /\ UNCHANGED <<option, discount, torn>>
  BY <1>0 DEF Acquire
<1> HIDE DEF w
<1>5. Goes(t, w) /\ OptionStep(t)
  BY <1>1, <1>2, <1>4 DEF Goes, OptionStep
<1> QED
  BY <1>0, <1>1, <1>3, <1>4, <1>5, WorkKeeps

\* What remains of work that is given up: nothing, or the second half of an
\* opening.
LEMMA GivenUp ==
  ASSUME PricingInv, NEW t \in Calls, work[t].at # "none"
  PROVE  /\ GiveUp(t) \in WorkType /\ Fits(GiveUp(t)) /\ GiveUp(t).key # RatioKey
         /\ GiveUp(t).at \in {"none", "cover"}
<1>0. work[t] \in WorkType /\ Fits(work[t])
  BY PricingParts
<1>1. CASE work[t].key = UsableKey
  <2>1. GiveUp(t) = [work[t] EXCEPT !.at = "cover"]
    BY <1>1 DEF GiveUp
  <2>2. /\ GiveUp(t) \in WorkType /\ GiveUp(t).at = "cover" /\ GiveUp(t).key = work[t].key
        /\ GiveUp(t).org = work[t].org /\ GiveUp(t).grp = work[t].grp
    BY <1>0, <2>1 DEF WorkType, Ats
  <2> QED
    BY <1>0, <1>1, <2>2, KeysDiffer DEF Fits
<1>2. CASE work[t].key # UsableKey
  BY <1>2, NoWorkFits, KeysDiffer DEF GiveUp
<1> QED
  BY <1>1, <1>2

\* A cancelled call has sent nothing.
LEMMA CancelledKeeps ==
  ASSUME PricingInv, LockInv', NEW t \in Calls, Cancelled(t)
  PROVE  PricingInv'
<1>0. /\ work[t] \in WorkType /\ Fits(work[t]) /\ Linked(work[t], call[t]) /\ LockInv
      /\ call[t].ph \in {"wait", "got"}
  BY PricingParts DEF Cancelled, Cancel
<1>1. work[t].at = "get" /\ ~work[t].sent
  BY <1>0 DEF Linked
<1>2. call'[t].ph \in {"lost", "freed"}
  <2>1. call \in [Calls -> [ph : Phases, key : Keys \cup {None}, m : Mutexes \cup {None}]]
    BY <1>0 DEF LockInv, TypeOK
  <2> QED
    BY <2>1 DEF Cancelled, Cancel
<1>3. PICK w \in WorkType : w = GiveUp(t)
  BY <1>1, GivenUp
<1>4. Fits(w) /\ w.key # RatioKey /\ w.at \in {"none", "cover"}
  BY <1>1, <1>3, GivenUp
<1>5. Linked(w, call'[t])
  BY <1>2, <1>4 DEF Linked
<1>6. Goes(t, w) /\ OptionStep(t) /\ UNCHANGED <<option, discount, torn>>
  BY <1>0, <1>3, <1>4, LockFrame DEF Goes, OptionStep, Cancelled
<1> QED
  BY <1>1, <1>4, <1>5, <1>6, WorkKeeps

\* The entries that a group becomes usable by are typed.
LEMMA UsableTyped ==
  ASSUME PricingInv, NEW t \in Calls, work[t].key = UsableKey, work[t].at # "none"
  PROVE  option[UsableKey][work[t].org] \cup {<<work[t].grp, 0>>} \in SUBSET Entries
<1>1. work[t].grp \in Groups /\ work[t].org \in Orgs
  BY PricingParts DEF Fits
<1>2. option[UsableKey] \in Option
  BY PricingParts DEF Options
<1> QED
  BY <1>1, <1>2 DEF Option, Entries

\* The option is read by its holder, as it is.
LEMMA ReadKeeps ==
  ASSUME PricingInv, LockInv', NEW t \in Calls, getOptionJSON(t)
  PROVE  PricingInv'
<1>0. /\ work[t] \in WorkType /\ Fits(work[t]) /\ Linked(work[t], call[t])
      /\ call[t].ph = "hold" /\ work[t].at = "get" /\ work[t].key \in Options
      /\ work[t].org \in Orgs /\ call[t].key = work[t].key
      /\ UNCHANGED <<lockVars, option, discount, torn>>
  BY PricingParts DEF getOptionJSON, Ready, Holds, Fits, Linked
<1>1. call' = call /\ option[work[t].key] \in Option /\ OptionStep(t)
  BY <1>0, PricingParts DEF lockVars, OptionStep
<1>2. PICK o, g, k, c : /\ o = work[t].org /\ g = work[t].grp /\ k = work[t].key
                        /\ c = option[work[t].key]
  OBVIOUS
<1>3. ASSUME NEW w \in WorkType, work' = [work EXCEPT ![t] = w], w.key = work[t].key,
             w.org = work[t].org, w.grp = work[t].grp, w.sent = work[t].sent,
             w.alone = work[t].alone, w.at \in {"put", "done", "fail"},
             w.at = "put" => w.copy = option[w.key],
             w.at = "done" => w.key = UsableKey
      PROVE  PricingInv'
  <2>1. Fits(w) /\ Linked(w, call'[t])
    BY <1>0, <1>1, <1>3 DEF Fits, Linked
  <2>2. Goes(t, w)
    BY <1>1, <1>3 DEF Goes
  <2> QED
    BY <1>0, <1>1, <1>3, <2>1, <2>2, KeysDiffer, WorkKeeps
<1>4. CASE work' = [work EXCEPT ![t].at = "fail"]
  <2> DEFINE w == [work[t] EXCEPT !.at = "fail"]
  <2>1. w \in WorkType /\ w.key = work[t].key /\ w.org = work[t].org /\ w.grp = work[t].grp
        /\ w.sent = work[t].sent /\ w.alone = work[t].alone /\ w.at = "fail"
    BY <1>0 DEF WorkType, Ats
  <2>2. work' = [work EXCEPT ![t] = w]
    BY <1>4
  <2> HIDE DEF w
  <2> QED
    BY <1>3, <2>1, <2>2
<1>5. CASE work' = [work EXCEPT ![t].copy = option[work[t].key], ![t].at = "put"]
  <2> DEFINE w == [work[t] EXCEPT !.copy = c, !.at = "put"]
  <2>1. w \in WorkType /\ w.key = work[t].key /\ w.org = work[t].org /\ w.grp = work[t].grp
        /\ w.sent = work[t].sent /\ w.alone = work[t].alone /\ w.at = "put" /\ w.copy = c
    BY <1>0, <1>1, <1>2 DEF WorkType, Ats
  <2>2. work' = [work EXCEPT ![t] = w]
    BY <1>2, <1>5
  <2> HIDE DEF w
  <2> QED
    BY <1>2, <1>3, <2>1, <2>2
<1>6. ASSUME work[t].key = UsableKey, NEW a \in {"put", "done"},
             work' = [work EXCEPT ![t].copy = option[k], ![t].want = option[k][o] \cup {<<g, 0>>},
                                  ![t].at = a]
      PROVE  PricingInv'
  <2>1. PICK e \in SUBSET Entries : e = option[k][o] \cup {<<g, 0>>}
    BY <1>0, <1>2, <1>6, UsableTyped
  <2> DEFINE w == [work[t] EXCEPT !.copy = c, !.want = e, !.at = a]
  <2>2. w \in WorkType /\ w.key = work[t].key /\ w.org = work[t].org /\ w.grp = work[t].grp
        /\ w.sent = work[t].sent /\ w.alone = work[t].alone /\ w.at = a /\ w.copy = c
    BY <1>0, <1>1, <1>2 DEF WorkType, Ats
  <2>3. work' = [work EXCEPT ![t] = w]
    BY <1>2, <1>6, <2>1
  <2> HIDE DEF w
  <2> QED
    BY <1>2, <1>3, <1>6, <2>2, <2>3
<1>7. \/ work' = [work EXCEPT ![t].at = "fail"]
      \/ work' = [work EXCEPT ![t].copy = option[k], ![t].at = "put"]
      \/ /\ k = UsableKey
         /\ work' = [work EXCEPT ![t].copy = option[k], ![t].want = option[k][o] \cup {<<g, 0>>},
                                 ![t].at = IF <<g, 0>> \in option[k][o] THEN "done" ELSE "put"]
  BY <1>2 DEF getOptionJSON
<1>8. ASSUME k = UsableKey,
             work' = [work EXCEPT ![t].copy = option[k], ![t].want = option[k][o] \cup {<<g, 0>>},
                                  ![t].at = IF <<g, 0>> \in option[k][o] THEN "done" ELSE "put"]
      PROVE  PricingInv'
  <2>1. PICK a \in {"put", "done"} : a = IF <<g, 0>> \in option[k][o] THEN "done" ELSE "put"
    OBVIOUS
  <2> QED
    BY <1>2, <1>6, <1>8, <2>1
<1> QED
  BY <1>2, <1>4, <1>5, <1>7, <1>8

\* The holder writes back what it read, with its own entry replaced; an answer
\* that is lost leaves both outcomes open, and the change counts as sent.
LEMMA WriteKeeps ==
  ASSUME PricingInv, LockInv', NEW t \in Calls, writeOnce(t)
  PROVE  PricingInv'
<1>0. /\ work[t] \in WorkType /\ Fits(work[t]) /\ Linked(work[t], call[t])
      /\ call[t].ph = "hold" /\ work[t].at = "put" /\ work[t].key \in Options
      /\ work[t].org \in Orgs /\ call[t].key = work[t].key
      /\ UNCHANGED <<lockVars, discount, torn>>
  BY PricingParts DEF writeOnce, Holds, Fits, Linked
<1>1. call' = call
  BY <1>0 DEF lockVars
<1>2. OptionStep(t)
  BY <1>0 DEF writeOnce, OptionStep
<1>3. ASSUME NEW a \in {"match", "done", "fail"},
             work' = [work EXCEPT ![t].sent = TRUE, ![t].copy = None, ![t].at = a],
             a = "match" => work[t].key = RatioKey,
             a = "done" => option' = [option EXCEPT ![work[t].key] = Merged(t)]
      PROVE  PricingInv'
  <2> DEFINE w == [work[t] EXCEPT !.sent = TRUE, !.copy = None, !.at = a]
  <2>1. w \in WorkType
    BY <1>0 DEF WorkType, Ats
  <2>2. /\ w.key = work[t].key /\ w.org = work[t].org /\ w.grp = work[t].grp /\ w.sent = TRUE
        /\ w.alone = work[t].alone /\ w.at = a /\ w.want = work[t].want
    BY <1>0 DEF WorkType
  <2>3. work' = [work EXCEPT ![t] = w]
    BY <1>3
  <2> HIDE DEF w
  <2>4. Fits(w) /\ Linked(w, call'[t])
    BY <1>0, <1>1, <1>3, <2>2 DEF Fits, Linked
  <2>5. Goes(t, w)
    BY <1>1, <2>2, <2>3 DEF Goes
  <2>6. ASSUME a = "done", work[t].key = RatioKey PROVE option'[RatioKey][w.org] = w.want
    <3>1. option'[RatioKey] = Merged(t)
      BY <1>3, <2>6, PricingParts DEF Options
    <3>2. work[t].copy = option[RatioKey] /\ option[RatioKey] \in Option
      BY <1>0, <2>6, PricingParts DEF Unmoved, Options
    <3> QED
      BY <1>0, <2>2, <3>1, <3>2 DEF Merged, Option
  <2> QED
    BY <1>0, <1>2, <2>1, <2>2, <2>4, <2>5, <2>6, WorkKeeps
<1>4. CASE /\ option' = [option EXCEPT ![work[t].key] = Merged(t)]
           /\ work' = [work EXCEPT ![t].sent = TRUE, ![t].copy = None,
                                ![t].at = IF work[t].key = RatioKey /\ work[t].tries < Backoffs
                                          THEN "match" ELSE "done"]
  <2>1. PICK a \in {"match", "done"} :
          /\ a = IF work[t].key = RatioKey /\ work[t].tries < Backoffs THEN "match" ELSE "done"
          /\ a = "match" => work[t].key = RatioKey
    OBVIOUS
  <2> QED
    BY <1>3, <1>4, <2>1
<1>5. CASE work' = [work EXCEPT ![t].sent = TRUE, ![t].copy = None, ![t].at = "fail"]
  BY <1>3, <1>5
<1> QED
  BY <1>4, <1>5 DEF writeOnce

\* Read back: done, again, or given up.
LEMMA MatchKeeps ==
  ASSUME PricingInv, LockInv', NEW t \in Calls, orgRatiosMatch(t)
  PROVE  PricingInv'
<1>0. /\ work[t] \in WorkType /\ Fits(work[t]) /\ Linked(work[t], call[t])
      /\ call[t].ph = "hold" /\ work[t].at = "match" /\ work[t].key = RatioKey
      /\ work[t].org \in Orgs /\ call[t].key = work[t].key
      /\ UNCHANGED <<lockVars, option, discount, torn>>
  BY PricingParts DEF orgRatiosMatch, Holds, Fits, Linked
<1>1. call' = call /\ OptionStep(t)
  BY <1>0 DEF lockVars, OptionStep
<1>2. ASSUME NEW w \in WorkType, work' = [work EXCEPT ![t] = w], w.key = work[t].key,
             w.org = work[t].org, w.grp = work[t].grp, w.sent = work[t].sent,
             w.alone = work[t].alone, w.want = work[t].want, w.at \in {"done", "get", "fail"},
             w.at = "done" => option[RatioKey][work[t].org] = work[t].want
      PROVE  PricingInv'
  <2>1. Fits(w) /\ Linked(w, call'[t])
    BY <1>0, <1>1, <1>2 DEF Fits, Linked
  <2>2. Goes(t, w)
    BY <1>1, <1>2 DEF Goes
  <2> QED
    BY <1>0, <1>1, <1>2, <2>1, <2>2, WorkKeeps
<1>3. ASSUME NEW a \in {"done", "fail"}, work' = [work EXCEPT ![t].at = a],
             a = "done" => option[RatioKey][work[t].org] = work[t].want
      PROVE  PricingInv'
  <2> DEFINE w == [work[t] EXCEPT !.at = a]
  <2>1. w \in WorkType /\ w.key = work[t].key /\ w.org = work[t].org /\ w.grp = work[t].grp
        /\ w.sent = work[t].sent /\ w.alone = work[t].alone /\ w.want = work[t].want /\ w.at = a
    BY <1>0 DEF WorkType, Ats
  <2>2. work' = [work EXCEPT ![t] = w]
    BY <1>3
  <2> HIDE DEF w
  <2> QED
    BY <1>2, <1>3, <2>1, <2>2
<1>4. CASE work' = [work EXCEPT ![t].at = "get", ![t].tries = @ + 1]
  <2>1. PICK n \in Nat : n = work[t].tries + 1
    BY <1>0 DEF WorkType
  <2> DEFINE w == [work[t] EXCEPT !.at = "get", !.tries = n]
  <2>2. w \in WorkType /\ w.key = work[t].key /\ w.org = work[t].org /\ w.grp = work[t].grp
        /\ w.sent = work[t].sent /\ w.alone = work[t].alone /\ w.want = work[t].want
        /\ w.at = "get"
    BY <1>0 DEF WorkType, Ats
  <2>3. work' = [work EXCEPT ![t] = w]
    BY <1>0, <1>4, <2>1
  <2> HIDE DEF w
  <2> QED
    BY <1>2, <2>2, <2>3
<1> QED
  BY <1>3, <1>4 DEF orgRatiosMatch

-----------------------------------------------------------------------------
(* Before and after the lock.                                              *)

\* A new change of ratios: it and the changes that others have in hand for
\* the organisation know of each other from now on.
LEMMA RatiosKeep ==
  ASSUME PricingInv, LockInv', NEW t \in Calls, NEW o \in Orgs, NEW md \in Modes,
         NEW want \in SUBSET Entries, SetRatios(t, o, md, want),
         work[t].at \in {"none", "cover"}, UNCHANGED <<call, option, discount, torn>>
  PROVE  PricingInv'
<1> DEFINE alone == Others(t, o) = {}
           w == [NoWork EXCEPT !.key = RatioKey, !.at = "lock", !.org = o, !.mode = md,
                               !.want = want, !.alone = alone]
<1>0. /\ work \in [Calls -> WorkType] /\ work[t].key # RatioKey
      /\ \A u \in Calls : Fits(work[u]) /\ Linked(work[u], call[u])
  BY PricingParts, NoWorkFits, KeysDiffer DEF Fits
<1>1. w \in WorkType
  <2>1. PICK b \in BOOLEAN : b = alone
    OBVIOUS
  <2>2. [NoWork EXCEPT !.key = RatioKey, !.at = "lock", !.org = o, !.mode = md,
                       !.want = want, !.alone = b] \in WorkType
    BY NoWorkFits DEF WorkType, Ats, Options, NoWork
  <2> QED
    BY <2>1, <2>2
<1>2. w.key = RatioKey /\ w.at = "lock" /\ w.org = o /\ w.alone = alone /\ w.sent = FALSE
  BY DEF NoWork
<1>3. ASSUME NEW u \in Calls, u \in Others(t, o)
      PROVE  /\ work'[u] \in WorkType /\ work'[u].alone = FALSE
             /\ work'[u].key = work[u].key /\ work'[u].at = work[u].at
             /\ work'[u].org = work[u].org /\ work'[u].sent = work[u].sent
             /\ work'[u].copy = work[u].copy /\ work'[u].grp = work[u].grp /\ work[u].at # "none"
             /\ work'[u].want = work[u].want
  <2>1. u # t /\ work[u].at # "none" /\ work[u] \in WorkType
    BY <1>0, <1>3 DEF Others
  <2>2. work'[u] = [work[u] EXCEPT !.alone = FALSE]
    BY <1>3, <2>1 DEF SetRatios
  <2> QED
    BY <2>1, <2>2 DEF WorkType
<1>4. work'[t] = w
  <2>1. t \notin Others(t, o)
    BY DEF Others
  <2> QED
    BY <2>1 DEF SetRatios
<1>5. ASSUME NEW u \in Calls, u # t, u \notin Others(t, o) PROVE work'[u] = work[u]
  BY <1>5 DEF SetRatios
<1> HIDE DEF w, alone
<1>6. work' \in [Calls -> WorkType]
  <2>1. \A u \in Calls : work'[u] \in WorkType
    BY <1>0, <1>1, <1>3, <1>4, <1>5
  <2> QED
    BY <2>1 DEF SetRatios
<1>7. PricingTyped'
  BY <1>6, PricingParts DEF PricingTyped
<1>8. ASSUME NEW u \in Calls, u # t
      PROVE  /\ work'[u].key = work[u].key /\ work'[u].at = work[u].at
             /\ work'[u].org = work[u].org /\ work'[u].sent = work[u].sent
             /\ work'[u].copy = work[u].copy /\ work'[u].want = work[u].want
             /\ work'[u].alone => work[u].alone
             /\ Fits(work'[u]) /\ Linked(work'[u], call'[u])
  <2>1. CASE u \in Others(t, o)
    <3>1. /\ work'[u].key = work[u].key /\ work'[u].at = work[u].at
          /\ work'[u].org = work[u].org /\ work'[u].sent = work[u].sent
          /\ work'[u].copy = work[u].copy /\ work'[u].grp = work[u].grp
          /\ work'[u].want = work[u].want /\ ~work'[u].alone /\ work[u].at # "none"
      BY <1>3, <2>1
    <3>2. Linked(work'[u], call'[u])
      BY <1>0, <3>1 DEF Linked
    <3>3. Fits(work'[u])
      BY <1>0, <3>1 DEF Fits
    <3> QED
      BY <3>1, <3>2, <3>3
  <2>2. CASE u \notin Others(t, o)
    BY <1>0, <1>5, <1>8, <2>2
  <2> QED
    BY <2>1, <2>2
<1>9. Working'
  <2>1. Fits(w) /\ Linked(w, call'[t])
    BY <1>0, <1>2, KeysDiffer DEF Fits, Linked, Options
  <2>2. \A u \in Calls : Fits(work'[u]) /\ Linked(work'[u], call'[u])
    BY <1>4, <1>8, <2>1
  <2> QED
    BY <2>2 DEF Working, Fits, Linked
<1>10. Apart'
  <2>1. ASSUME NEW u \in Calls, NEW v \in Calls, u # v, work'[u].key = RatioKey,
               work'[v].key = RatioKey, work'[u].org = work'[v].org
        PROVE  ~work'[u].alone
    <3>1. CASE u = t
      <4>1. v \in Others(t, o)
        BY <1>0, <1>2, <1>4, <1>8, <2>1, <3>1, NoWorkFits, KeysDiffer DEF Others, Fits
      <4> QED
        BY <1>2, <1>4, <3>1, <4>1 DEF alone
    <3>2. CASE v = t
      <4>1. u \in Others(t, o)
        BY <1>0, <1>2, <1>4, <1>8, <2>1, <3>2, NoWorkFits, KeysDiffer DEF Others, Fits
      <4> QED
        BY <1>3, <4>1
    <3>3. CASE u # t /\ v # t
      BY <1>8, <2>1, <3>3, PricingParts DEF Apart
    <3> QED
      BY <3>1, <3>2, <3>3
  <2> QED
    BY <2>1 DEF Apart
<1>11. Unmoved'
  BY <1>2, <1>4, <1>8, PricingParts DEF Unmoved
<1>12. Reached'
  BY <1>2, <1>4, <1>8, PricingParts DEF Reached
<1>13. Mirrored'
  <2>1. ASSUME NEW p \in Orgs, p \notin torn',
               \A u \in Calls : work'[u].key = RatioKey /\ work'[u].org = p => ~work'[u].sent
        PROVE  option'[RatioKey][p] = discount'[p].entries
    <3>1. \A u \in Calls : work[u].key = RatioKey /\ work[u].org = p => ~work[u].sent
      BY <1>0, <1>8, <2>1
    <3> QED
      BY <2>1, <3>1, PricingParts DEF Mirrored
  <2> QED
    BY <2>1 DEF Mirrored
<1> QED
  BY <1>7, <1>9, <1>10, <1>11, <1>12, <1>13 DEF PricingInv

\* A discount covers groups that there are.
LEMMA CoveredTyped == ASSUME NEW f \in Offers PROVE Covered(f) \subseteq Groups
<1>1. /\ f.groups \subseteq Groups /\ Default \in Groups
      /\ TierGroups \cup {OrgGroup} \subseteq Groups \cup {None}
  BY PricingAssumption
<1>2. ASSUME NEW g \in TierGroups \cup {None} PROVE resolveTokenGroup(g) \in Groups
  BY <1>1, <1>2 DEF resolveTokenGroup
<1>3. orgInUseTokenGroups \subseteq Groups
  BY <1>2 DEF orgInUseTokenGroups
<1> QED
  BY <1>1, <1>3 DEF Covered

\* An operator sets a discount.
LEMMA ConfigureKeeps ==
  ASSUME PricingInv, LockInv', NEW t \in Calls, NEW o \in Orgs, NEW f \in Offers,
         ConfigureDiscount(t, o, f)
  PROVE  PricingInv'
<1> DEFINE new == {<<g, f.rate>> : g \in Covered(f)}
           kept == {e \in loadDiscountEntries(o) : e[1] \notin Covered(f)}
           want == CASE f.mode = "none" -> {}
                     [] f.mode = "total" -> new
                     [] f.mode = "per_group" -> kept \cup new
<1>1. f.mode \in Modes
  BY PricingAssumption DEF Modes
<1>2. new \subseteq Entries /\ kept \subseteq Entries
  <2>1. discount[o].entries \subseteq Entries
    BY PricingParts DEF PricingTyped
  <2> QED
    BY <2>1, CoveredTyped DEF Entries, loadDiscountEntries
<1>3. want \in SUBSET Entries
  BY <1>1, <1>2 DEF Modes
<1>4. SetRatios(t, o, f.mode, want) /\ UNCHANGED <<call, option, discount, torn>>
      /\ work[t] = NoWork
  BY DEF ConfigureDiscount, lockVars, Starts
<1> HIDE DEF want
<1>5. work[t].at = "none"
  BY <1>4, NoWorkFits
<1> QED
  BY <1>1, <1>3, <1>4, <1>5, RatiosKeep

\* A total discount is extended to the group of a new key.
LEMMA CoverKeeps ==
  ASSUME PricingInv, LockInv', NEW t \in Calls, ensureTotalDiscountCoversGroup(t)
  PROVE  PricingInv'
<1> DEFINE o == work[t].org
           g == work[t].grp
           had == loadDiscountEntries(o)
<1>0. /\ work[t] \in WorkType /\ Fits(work[t]) /\ Linked(work[t], call[t])
      /\ work[t].at = "cover" /\ UNCHANGED <<call, option, discount, torn>>
  BY PricingParts DEF ensureTotalDiscountCoversGroup, lockVars
<1>1. o \in Orgs /\ g \in Groups /\ work[t].key = UsableKey
  BY <1>0 DEF Fits
<1>2. ASSUME NEW e \in had, SetRatios(t, o, "total", had \cup {<<g, e[2]>>}) PROVE PricingInv'
  <2>1. had \subseteq Entries
    BY <1>1, PricingParts DEF PricingTyped, loadDiscountEntries
  <2>2. had \cup {<<g, e[2]>>} \in SUBSET Entries /\ "total" \in Modes
    BY <1>1, <2>1 DEF Entries, Modes
  <2> QED
    BY <1>0, <1>1, <1>2, <2>2, RatiosKeep
<1>3. CASE work' = [work EXCEPT ![t] = NoWork]
  <2>1. Goes(t, NoWork) /\ OptionStep(t) /\ Linked(NoWork, call'[t])
    BY <1>0, <1>3, NoWorkFits, KeysDiffer DEF Goes, OptionStep, Linked
  <2> QED
    BY <1>0, <1>1, <2>1, NoWorkFits, KeysDiffer, WorkKeeps
<1> QED
  BY <1>2, <1>3 DEF ensureTotalDiscountCoversGroup

\* An opening begins with the usable groups.
LEMMA UsableKeeps ==
  ASSUME PricingInv, LockInv', NEW t \in Calls, NEW o \in Orgs, NEW g \in Groups,
         AddOrgUsableGroup(t, o, g)
  PROVE  PricingInv'
<1> DEFINE w == [NoWork EXCEPT !.key = UsableKey, !.at = "lock", !.org = o, !.grp = g]
<1>0. /\ work[t] = NoWork /\ Linked(NoWork, call[t])
      /\ work' = [work EXCEPT ![t] = w] /\ UNCHANGED <<call, option, discount, torn>>
  BY PricingParts DEF AddOrgUsableGroup, Starts, lockVars
<1>1. w \in WorkType
  BY NoWorkFits DEF WorkType, Ats, Options, NoWork
<1>2. w.key = UsableKey /\ w.at = "lock" /\ w.org = o /\ w.grp = g /\ w.sent = FALSE
  BY DEF NoWork
<1> HIDE DEF w
<1>3. Fits(w) /\ Linked(w, call'[t])
  BY <1>0, <1>2, NoWorkFits DEF Fits, Linked, Options
<1>4. Goes(t, w) /\ OptionStep(t)
  BY <1>0, <1>2, KeysDiffer DEF Goes, OptionStep
<1> QED
  BY <1>0, <1>1, <1>2, <1>3, <1>4, NoWorkFits, KeysDiffer, WorkKeeps

\* The row is written, or not; a change that ran alone leaves row and gateway
\* in agreement, one that did not is remembered.
LEMMA FinishKeeps ==
  ASSUME PricingInv, LockInv', NEW t \in Calls, Finish(t)
  PROVE  PricingInv'
<1>0. /\ work[t] \in WorkType /\ Fits(work[t]) /\ work[t].at \in {"done", "fail"}
      /\ call[t] = Ended /\ UNCHANGED <<lockVars, option>>
      /\ work' = [work EXCEPT ![t] = GiveUp(t)]
  BY PricingParts DEF Finish
<1>1. work[t].org \in Orgs /\ work[t].mode \in Modes /\ work[t].want \in SUBSET Entries
  BY <1>0 DEF Fits, WorkType
<1>2. PICK w \in WorkType : w = GiveUp(t)
  BY <1>0, GivenUp
<1>3. Fits(w) /\ w.key # RatioKey /\ w.at \in {"none", "cover"}
  BY <1>0, <1>2, GivenUp
<1>4. call' = call /\ Linked(w, call'[t])
  BY <1>0, <1>3 DEF Linked, Ended, lockVars
<1>5. Goes(t, w) /\ OptionStep(t)
  BY <1>0, <1>2, <1>3, <1>4 DEF Goes, OptionStep
<1>6. \/ UNCHANGED discount
      \/ UpdateOrgDiscount(work[t].org, work[t].mode, work[t].want)
  BY DEF Finish
<1>7. discount' \in [Orgs -> [mode : Modes, entries : SUBSET Entries]]
      /\ \A o \in Orgs : o # work[t].org => discount'[o] = discount[o]
  <2>1. discount \in [Orgs -> [mode : Modes, entries : SUBSET Entries]]
    BY PricingParts DEF PricingTyped
  <2> QED
    BY <1>1, <1>6, <2>1 DEF UpdateOrgDiscount
<1>8. PricingTyped' /\ Working' /\ Apart' /\ Unmoved' /\ Reached'
  BY <1>3, <1>4, <1>5, <1>7, GoesOn
<1>9. \A u \in Calls : u # t => work'[u] = work[u]
  BY <1>5 DEF Goes
<1>10. ASSUME NEW o \in Orgs, o \notin torn',
              \A u \in Calls : work'[u].key = RatioKey /\ work'[u].org = o => ~work'[u].sent
       PROVE  option'[RatioKey][o] = discount'[o].entries
  <2>1. ASSUME work[t].key = RatioKey /\ work[t].org = o => ~work[t].sent, o \notin torn,
               discount'[o] = discount[o]
        PROVE  option'[RatioKey][o] = discount'[o].entries
    <3>1. \A u \in Calls : work[u].key = RatioKey /\ work[u].org = o => ~work[u].sent
      BY <1>9, <1>10, <2>1
    <3> QED
      BY <1>0, <2>1, <3>1, PricingParts DEF Mirrored
  <2>2. CASE work[t].key # RatioKey
    <3>1. UNCHANGED <<discount, torn>>
      BY <2>2 DEF Finish
    <3> QED
      BY <1>10, <2>1, <2>2, <3>1
  <2>3. CASE work[t].org # o
    <3>1. o \notin torn
      BY <1>10, <2>3 DEF Finish
    <3> QED
      BY <1>7, <2>1, <2>3, <3>1
  <2>4. CASE work[t].key = RatioKey /\ work[t].org = o
    <3>1. CASE /\ work[t].at = "done"
               /\ UpdateOrgDiscount(work[t].org, work[t].mode, work[t].want)
               /\ torn' = (IF work[t].alone THEN torn \ {work[t].org}
                           ELSE torn \cup {work[t].org})
      <4>1. work[t].alone
        BY <1>10, <2>4, <3>1
      <4>2. option[RatioKey][o] = work[t].want
        BY <2>4, <3>1, <4>1, PricingParts DEF Reached
      <4>3. discount'[o].entries = work[t].want
        BY <2>4, <3>1, PricingParts DEF UpdateOrgDiscount, PricingTyped
      <4> QED
        BY <1>0, <4>2, <4>3
    <3>2. CASE torn' = torn \cup {work[t].org}
      BY <1>10, <2>4, <3>2
    <3>3. CASE /\ work[t].at = "fail" /\ UNCHANGED discount
               /\ torn' = (IF work[t].sent THEN torn \cup {work[t].org} ELSE torn)
      BY <1>10, <2>1, <2>4, <3>3
    <3> QED
      BY <2>4, <3>1, <3>2, <3>3, KeysDiffer DEF Finish
  <2> QED
    BY <2>2, <2>3, <2>4
<1>11. Mirrored'
  BY <1>10 DEF Mirrored
<1> QED
  BY <1>8, <1>11 DEF PricingInv

-----------------------------------------------------------------------------
(* The invariant and what follows from it.                                 *)

\* No discount, no option, no work.
LEMMA PricingInitKeeps == PricingInit => PricingInv
<1> SUFFICES ASSUME PricingInit PROVE PricingInv
  OBVIOUS
<1>1. LockInv
  BY InitLockInv DEF PricingInit
<1>2. \A t \in Calls : work[t] = NoWork /\ call[t].ph = "idle"
  BY DEF PricingInit, Init, Ended
<1>3. PricingTyped
  BY NoWorkFits DEF PricingInit, PricingTyped, Options, Option, Modes
<1>4. Working
  BY <1>2, NoWorkFits DEF Working, Linked
<1>5. Apart /\ Unmoved /\ Reached
  BY <1>2, NoWorkFits, KeysDiffer DEF Apart, Unmoved, Reached
<1>6. Mirrored
  BY DEF PricingInit, Mirrored
<1> QED
  BY <1>1, <1>3, <1>4, <1>5, <1>6 DEF PricingInv

\* Every step keeps the invariant.
LEMMA PricingNextKeeps == PricingInv /\ [PricingNext]_pricingVars => PricingInv'
<1> SUFFICES ASSUME PricingInv, [PricingNext]_pricingVars PROVE PricingInv'
  OBVIOUS
<1>1. LockInv'
  BY LocksUsed, NextLockInv, PricingParts
<1>2. CASE UNCHANGED pricingVars
  BY <1>1, <1>2, PricingParts
     DEF pricingVars, lockVars, PricingInv, PricingTyped, Working, Fits, Linked, Apart, Unmoved,
         Reached, Mirrored
<1>3. ASSUME NEW t \in Calls,
             \/ \E o \in Orgs, f \in Offers : ConfigureDiscount(t, o, f)
             \/ \E o \in Orgs, g \in Groups : AddOrgUsableGroup(t, o, g)
      PROVE  PricingInv'
  BY <1>1, <1>3, ConfigureKeeps, UsableKeeps
<1>4. ASSUME NEW t \in Calls, TryAcquire(t) \/ Cancelled(t) \/ Proceeds(t)
      PROVE  PricingInv'
  BY <1>1, <1>4, LockStepsKeep, CancelledKeeps, CoverKeeps, AcquireKeeps, ReadKeeps, WriteKeeps,
     MatchKeeps, FinishKeeps DEF Proceeds
<1> QED
  BY <1>2, <1>3, <1>4 DEF PricingNext

\* The invariant holds in every reachable state.
LEMMA PricingInvariant == PricingSpec => []PricingInv
  BY PricingInitKeeps, PricingNextKeeps, PTL DEF PricingSpec

\* The discount handlers, whatever they do between taking and giving back the
\* lock, are users of the lock: every behaviour of the composition is one of
\* KeyedLock, and what is proved of the locker holds of them.
THEOREM PricingUsesLock == PricingSpec => Spec
<1>1. PricingInit => Init
  BY DEF PricingInit
<1>2. PricingInv /\ [PricingNext]_pricingVars => [Next]_vars
  BY LocksUsed
<1> QED
  BY <1>1, <1>2, PricingInvariant, PTL DEF PricingSpec, Spec

\* The options' locks are atomic locks for the discount handlers: reference
\* counts, waiting, cancellation and TryAcquire do not show.
THEOREM PricingLockAtomic == PricingSpec => AtomicSpec
  BY PricingUsesLock, LockRefinement, PTL

\* The lock table counts exactly while discounts are changed.
THEOREM PricingRefsExact == PricingSpec => []RefsExact
  BY PricingUsesLock, LockRefsExact, PTL

\* The discounts of an organisation at the gateway are those in its row, for
\* any number of organisations and writers of the shared option, retries,
\* lost answers and cancelled waiters, unless the last change of that very
\* organisation failed half-way or overlapped with another one.
THEOREM DiscountsMirrored == PricingSpec => []MirrorMatches
<1>1. PricingInv => MirrorMatches
  <2> SUFFICES ASSUME PricingInv, NEW o \in Orgs, Quiet(o), o \notin torn
               PROVE  option[RatioKey][o] = discount[o].entries /\ o \notin ReconcileDiscounts
    BY DEF MirrorMatches
  <2>1. option[RatioKey][o] = discount[o].entries
    BY PricingParts DEF Mirrored, Quiet
  <2> QED
    BY <2>1 DEF ReconcileDiscounts, reconcileOrgDiscount, loadDiscountEntries
<1> QED
  BY <1>1, PricingInvariant, PTL
=============================================================================
