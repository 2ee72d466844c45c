------------------------------ MODULE KeyedLock ------------------------------
(***************************************************************************)
(* InProcessLocker (pkg/lock/lock.go): one mutex per key, kept in a table  *)
(* while somebody refers to it.  An Acquire blocks in a goroutine of its   *)
(* own; when its context is cancelled the call returns and a second        *)
(* goroutine waits for the mutex only to give it back.  A call that has    *)
(* ended may start again, which stands for the next call.                  *)
(***************************************************************************)
EXTENDS Naturals, FiniteSets

CONSTANTS
  Calls,     \* calls of Acquire and TryAcquire in progress at a time
  Keys,
  Mutexes,   \* addresses of refCountedMutex
  None       \* nil

ASSUME LockAssumption ==
  IsFiniteSet(Calls) /\ None \notin Mutexes /\ None \notin Keys /\ None \notin Calls

VARIABLES
  locks,     \* the map from keys to mutexes
  refs,      \* refs[m]
  owner,     \* owner[m]: the call whose goroutine has locked m
  call       \* call[t]: phase, key and mutex of call t

vars == <<locks, refs, owner, call>>

\* wait: blocked in Lock; got: the goroutine has it, the caller has not
\* selected yet; hold; lost, freed: the same two after a cancellation;
\* unlocked: between Unlock and put; try, busy: TryAcquire.
Phases == {"idle", "wait", "got", "hold", "lost", "freed", "unlocked", "try", "busy"}
Locked == {"got", "hold", "freed"}

Ended == [ph |-> "idle", key |-> None, m |-> None]

Users(m) == {t \in Calls : call[t].m = m}

Init ==
  /\ locks = [k \in Keys |-> None]
  /\ refs = [m \in Mutexes |-> 0]
  /\ owner = [m \in Mutexes |-> None]
  /\ call = [t \in Calls |-> Ended]

\* get: the key's mutex, or a fresh one, with one more reference.
Get(t, k, ph) ==
  /\ call[t] = Ended
  /\ \E m \in Mutexes :
       /\ IF locks[k] = None
          THEN Users(m) = {} /\ \A j \in Keys : locks[j] # m
          ELSE m = locks[k]
       /\ locks' = [locks EXCEPT ![k] = m]
       /\ refs' = [refs EXCEPT ![m] = (IF locks[k] = None THEN 0 ELSE @) + 1]
       /\ call' = [call EXCEPT ![t] = [ph |-> ph, key |-> k, m |-> m]]
  /\ UNCHANGED owner

\* The mutex of call t is free and is locked.
Lock(t, ph) ==
  /\ owner[call[t].m] = None
  /\ owner' = [owner EXCEPT ![call[t].m] = t]
  /\ call' = [call EXCEPT ![t].ph = ph]
  /\ UNCHANGED <<locks, refs>>

\* The goroutine's Lock returns, before or after a cancellation.
Locks(t) ==
  \/ call[t].ph = "wait" /\ Lock(t, "got")
  \/ call[t].ph = "lost" /\ Lock(t, "freed")

\* Acquire returns the release function.
Returns(t) ==
  /\ call[t].ph = "got"
  /\ call' = [call EXCEPT ![t].ph = "hold"]
  /\ UNCHANGED <<locks, refs, owner>>

\* Mutant: the reference is returned at once, nobody waits for the mutex.
Cancel_NoWait(t) ==
  /\ call[t].ph \in {"wait", "got"}
  /\ call' = [call EXCEPT ![t].ph = "busy"]
  /\ UNCHANGED <<locks, refs, owner>>

\* ctx.Done; with both channels ready the select may still take this branch.
Cancel(t) ==
  /\ call[t].ph \in {"wait", "got"}
  /\ call' = [call EXCEPT ![t].ph = IF call[t].ph = "wait" THEN "lost" ELSE "freed"]
  /\ UNCHANGED <<locks, refs, owner>>

\* The release function, or the goroutine that cleans up.
Unlock(t) ==
  /\ call[t].ph \in {"hold", "freed"}
  /\ owner' = [owner EXCEPT ![call[t].m] = None]
  /\ call' = [call EXCEPT ![t].ph = "unlocked"]
  /\ UNCHANGED <<locks, refs>>

\* Mutant: a TryAcquire that fails keeps its reference.
TryLocks_NoPut(t) ==
  /\ call[t].ph = "try"
  /\ \/ Lock(t, "hold")
     \/ /\ owner[call[t].m] # None
        /\ call' = [call EXCEPT ![t] = Ended]
        /\ UNCHANGED <<locks, refs, owner>>

\* TryLock.
TryLocks(t) ==
  /\ call[t].ph = "try"
  /\ \/ Lock(t, "hold")
     \/ /\ owner[call[t].m] # None
        /\ call' = [call EXCEPT ![t].ph = "busy"]
        /\ UNCHANGED <<locks, refs, owner>>

\* Mutant: the entry goes when one reference is left.
Unused_Early(n) == n <= 1

Unused(n) == n = 0

Dropped(n) == n - 1

\* put: one reference less, the last one removes the entry.
Put(t) ==
  /\ call[t].ph \in {"unlocked", "busy"}
  /\ LET m == call[t].m
         left == Dropped(refs[m])
     IN /\ refs' = [refs EXCEPT ![m] = left]
        /\ locks' = IF Unused(left) THEN [locks EXCEPT ![call[t].key] = None] ELSE locks
  /\ call' = [call EXCEPT ![t] = Ended]
  /\ UNCHANGED owner

Step(t) == Locks(t) \/ Returns(t) \/ Unlock(t) \/ TryLocks(t) \/ Put(t)

Next ==
  \E t \in Calls :
    \/ \E k \in Keys : Get(t, k, "wait") \/ Get(t, k, "try")
    \/ Cancel(t)
    \/ Step(t)

Spec == Init /\ [][Next]_vars

-----------------------------------------------------------------------------
\* Every entry, counter and call stays in its type.
TypeOK ==
  /\ locks \in [Keys -> Mutexes \cup {None}]
  /\ refs \in [Mutexes -> Nat]
  /\ owner \in [Mutexes -> Calls \cup {None}]
  /\ call \in [Calls -> [ph : Phases, key : Keys \cup {None}, m : Mutexes \cup {None}]]

\* The table counts correctly: the entry of a key exists exactly while some
\* call refers to it, so that no mutex is removed under a waiter and no
\* entry stays behind.
RefsExact ==
  /\ \A t \in Calls : call[t] # Ended => locks[call[t].key] = call[t].m
  /\ \A k \in Keys : locks[k] # None => Users(locks[k]) # {}

Holders(k) == {t \in Calls : call[t].ph = "hold" /\ call[t].key = k}

HolderOf(k) == IF Holders(k) = {} THEN None ELSE CHOOSE t \in Holders(k) : TRUE

Holder == [k \in Keys |-> HolderOf(k)]

\* Two calls never hold one key, although the mutex of a key is made,
\* counted, handed over by cancelled waiters and removed again.
MutualExclusion == \A k \in Keys : \A s, t \in Holders(k) : s = t

Atomic == INSTANCE AtomicLock WITH Nobody <- None, holder <- Holder

\* Reference counts, cancellation and TryAcquire together implement an
\* atomic lock per key: a key passes from nobody to one call and back.
AtomicSpec == Atomic!Spec

\* Every call ends in the end, and gives its reference back, cancelled or
\* not: a cancelled waiter neither keeps the mutex nor stays in the table.
EveryCallEnds == \A t \in Calls : call[t].ph # "idle" ~> call[t].ph = "idle"
=============================================================================
