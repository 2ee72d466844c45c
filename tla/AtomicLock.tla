----------------------------- MODULE AtomicLock -----------------------------
(***************************************************************************)
(* What the users of pkg/lock rely on: a key has at most one holder, and a *)
(* call takes a free key or gives up its own, in one step.                 *)
(***************************************************************************)
CONSTANTS Keys, Calls, Nobody

VARIABLE holder   \* holder[k]: the call that holds key k

Init == holder = [k \in Keys |-> Nobody]

Acquire(t, k) == holder[k] = Nobody /\ holder' = [holder EXCEPT ![k] = t]

Release(t, k) == holder[k] = t /\ holder' = [holder EXCEPT ![k] = Nobody]

Next == \E t \in Calls, k \in Keys : Acquire(t, k) \/ Release(t, k)

Spec == Init /\ [][Next]_holder
=============================================================================
