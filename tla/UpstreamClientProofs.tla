------------------------ MODULE UpstreamClientProofs ------------------------
(* Proofs about UpstreamClient, for any number of calls and any limits.    *)
EXTENDS UpstreamClient, TLAPS

(***************************************************************************)
(* The three invariants are inductive together: a call in idle or backoff  *)
(* never owns the probe, so that what it does next cannot lose it.         *)
(***************************************************************************)
BreakerInv == TypeOK /\ ProbeOwned /\ ClosedBelowThreshold

Reqs == [Requests -> [ph : {"idle", "wait", "send", "backoff"},
                      try : 0 .. MaxRetries, probe : BOOLEAN]]

\* The invariant holds initially.
LEMMA InitBreakerInv == Init => BreakerInv
<1> SUFFICES ASSUME Init PROVE BreakerInv
  OBVIOUS
<1>1. 0 \in 0 .. MaxRetries /\ 0 \in 0 .. Threshold /\ 0 \in 0 .. MaxOutages /\ 0 \in 0 .. MaxCancels
  BY ClientAssumption
<1>2. Done \in [ph : {"idle", "wait", "send", "backoff"}, try : 0 .. MaxRetries, probe : BOOLEAN]
  BY <1>1 DEF Done
<1>3. req \in Reqs
  BY <1>2 DEF Init, Reqs
<1>4. TypeOK
  BY <1>1, <1>3 DEF Init, TypeOK, Reqs
<1>5. ProbeOwned
  BY DEF Init, ProbeOwned
<1>6. ClosedBelowThreshold
  BY ClientAssumption DEF Init, ClosedBelowThreshold
<1> QED
  BY <1>4, <1>5, <1>6 DEF BreakerInv

\* What a call of the breaker leaves behind when its owner settles.
LEMMA SettleBreaker ==
  ASSUME TypeOK, ClosedBelowThreshold, OnSuccess \/ OnFailure \/ ProbeAbort
  PROVE  /\ state' \in {"closed", "open", "half"} /\ fails' \in 0 .. Threshold
         /\ probing' = FALSE /\ cooled' \in BOOLEAN
         /\ ClosedBelowThreshold'
<1>1. CASE OnSuccess
  BY <1>1, ClientAssumption DEF OnSuccess, TypeOK, ClosedBelowThreshold
<1>2. CASE ProbeAbort
  BY <1>2, ClientAssumption DEF ProbeAbort, TypeOK, ClosedBelowThreshold
<1>3. CASE OnFailure
  <2>1. fails' \in 0 .. Threshold
    BY <1>3, ClientAssumption DEF OnFailure, TypeOK
  <2>2. CASE state = "half" \/ Trips(fails')
    <3>1. state' = "open" /\ cooled' = FALSE /\ probing' = FALSE
      BY <1>3, <2>2 DEF OnFailure
    <3> QED
      BY <2>1, <3>1 DEF ClosedBelowThreshold
  <2>3. CASE ~(state = "half" \/ Trips(fails'))
    <3>1. state' = state /\ cooled' = cooled /\ probing' = FALSE
      BY <1>3, <2>3 DEF OnFailure
    <3>2. fails' < Threshold
      BY <2>1, <2>3, ClientAssumption DEF Trips
    <3> QED
      BY <2>1, <3>1, <3>2 DEF TypeOK, ClosedBelowThreshold
  <2> QED
    BY <2>2, <2>3
<1> QED
  BY <1>1, <1>2, <1>3

\* A step that settles keeps the invariant.
LEMMA SettleStep ==
  ASSUME BreakerInv, OnSuccess \/ OnFailure \/ ProbeAbort, req' \in Reqs,
         up' = up, outages' = outages, cancels' \in 0 .. MaxCancels
  PROVE  BreakerInv'
<1>1. /\ state' \in {"closed", "open", "half"} /\ fails' \in 0 .. Threshold
      /\ probing' = FALSE /\ cooled' \in BOOLEAN
      /\ ClosedBelowThreshold'
  BY SettleBreaker DEF BreakerInv
<1>2. TypeOK'
  BY <1>1 DEF BreakerInv, TypeOK, Reqs
<1>3. ProbeOwned'
  BY <1>1 DEF ProbeOwned
<1> QED
  BY <1>1, <1>2, <1>3 DEF BreakerInv

\* A step that leaves the breaker alone keeps the invariant when every call
\* that owns the probe still does.
LEMMA QuietStep ==
  ASSUME BreakerInv, UNCHANGED breaker, req' \in Reqs,
         \A s \in Requests : req[s].probe /\ req[s].ph \in {"wait", "send"}
                             => req'[s].probe /\ req'[s].ph \in {"wait", "send"},
         up' \in BOOLEAN, outages' \in 0 .. MaxOutages, cancels' \in 0 .. MaxCancels
  PROVE  BreakerInv'
<1>1. TypeOK'
  BY DEF BreakerInv, TypeOK, Reqs, breaker
<1>2. ProbeOwned'
  BY DEF BreakerInv, ProbeOwned, breaker
<1>3. ClosedBelowThreshold'
  BY DEF BreakerInv, ClosedBelowThreshold, breaker
<1> QED
  BY <1>1, <1>2, <1>3 DEF BreakerInv

\* Every step keeps the invariant.
LEMMA NextBreakerInv == BreakerInv /\ [Next]_vars => BreakerInv'
<1> SUFFICES ASSUME BreakerInv, [Next]_vars PROVE BreakerInv'
  OBVIOUS
<1>a. req \in Reqs /\ up \in BOOLEAN /\ outages \in 0 .. MaxOutages /\ cancels \in 0 .. MaxCancels
  BY DEF BreakerInv, TypeOK, Reqs
<1>b. ASSUME NEW r \in Requests, Finish(r) PROVE req' \in Reqs
  BY <1>a, <1>b, ClientAssumption DEF Finish, Done, Reqs
<1>c. Cancelled => cancels' \in 0 .. MaxCancels
  BY <1>a, ClientAssumption DEF Cancelled
<1>1. CASE UNCHANGED vars
  BY <1>a, <1>1, QuietStep DEF vars
<1>2. ASSUME NEW r \in Requests, Allow(r) PROVE BreakerInv'
  <2>1. /\ req[r].ph = "idle"
        /\ req'[r] = [ph |-> "wait", try |-> 0, probe |-> state # "closed"]
        /\ \A s \in Requests : s # r => req'[s] = req[s]
        /\ req' \in Reqs
    BY <1>a, <1>2, ClientAssumption DEF Allow, Reqs
  <2>2. /\ state' = IF state = "open" THEN "half" ELSE state
        /\ UNCHANGED <<fails, cooled, up, outages, cancels>>
    BY <1>2 DEF Allow
  <2>3. probing' = (probing \/ state # "closed")
    BY <1>2 DEF Allow
  <2>4. TypeOK'
    <3>1. probing' \in BOOLEAN
      BY <2>3
    <3> QED
      BY <2>1, <2>2, <3>1 DEF BreakerInv, TypeOK, Reqs
  <2>5. ClosedBelowThreshold'
    BY <2>2 DEF BreakerInv, TypeOK, ClosedBelowThreshold
  <2>6. ProbeOwned'
    <3>1. CASE state # "closed"
      <4>a. (state # "closed") = TRUE
        BY <3>1
      <4>b. req'[r] = [ph |-> "wait", try |-> 0, probe |-> TRUE]
        BY <2>1, <4>a
      <4>1. req'[r].probe /\ req'[r].ph = "wait"
        BY <4>b
      <4> QED
        BY <4>1 DEF ProbeOwned
    <3>2. CASE state = "closed"
      BY <2>1, <2>3, <3>2 DEF BreakerInv, ProbeOwned
    <3> QED
      BY <3>1, <3>2
  <2> QED
    BY <2>4, <2>5, <2>6 DEF BreakerInv
<1>3. ASSUME NEW r \in Requests, Limited(r) \/ Retry(r) PROVE BreakerInv'
  <2>1. /\ req'[r] = [req[r] EXCEPT !.ph = "send"]
        /\ \A s \in Requests : s # r => req'[s] = req[s]
        /\ req' \in Reqs
    BY <1>a, <1>3 DEF Limited, Retry, Goto, Reqs
  <2>2. req'[r].probe = req[r].probe /\ req'[r].ph = "send"
    BY <1>a, <2>1 DEF Reqs
  <2> QED
    BY <1>a, <1>3, <2>1, <2>2, QuietStep DEF Limited, Retry
<1>4. ASSUME NEW r \in Requests, LimitFails(r) PROVE BreakerInv'
  BY <1>b, <1>c, <1>4, SettleStep DEF LimitFails
<1>5. ASSUME NEW r \in Requests, Answer(r) \/ Refused(r) PROVE BreakerInv'
  BY <1>a, <1>b, <1>5, SettleStep DEF Answer, Refused
<1>6. ASSUME NEW r \in Requests, Fails(r) PROVE BreakerInv'
  <2>1. req' \in Reqs
    <3>1. CASE req[r].try < MaxRetries
      <4>1. req[r].try + 1 \in 0 .. MaxRetries
        BY <1>a, <3>1, ClientAssumption DEF Reqs
      <4>2. req' = [req EXCEPT ![r] = [ph |-> "backoff", try |-> req[r].try + 1, probe |-> FALSE]]
        BY <1>6, <3>1 DEF Fails, Backoff
      <4> QED
        BY <1>a, <4>1, <4>2 DEF Reqs
    <3>2. CASE ~(req[r].try < MaxRetries)
      BY <1>b, <1>6, <3>2 DEF Fails, Backoff
    <3> QED
      BY <3>1, <3>2
  <2> QED
    BY <1>a, <1>6, <2>1, SettleStep DEF Fails
<1>7. ASSUME NEW r \in Requests, CancelSend(r) PROVE BreakerInv'
  BY <1>b, <1>c, <1>7, SettleStep DEF CancelSend
<1>8. ASSUME NEW r \in Requests, CancelBackoff(r) PROVE BreakerInv'
  <2>1. req[r].ph = "backoff" /\ req' \in Reqs /\ \A s \in Requests : s # r => req'[s] = req[s]
    BY <1>a, <1>b, <1>8 DEF CancelBackoff, Finish, Reqs
  <2> QED
    BY <1>a, <1>c, <1>8, <2>1, QuietStep DEF CancelBackoff
<1>9. CASE Cooldown
  <2>1. cooled' = TRUE /\ UNCHANGED <<state, fails, probing, req, up, outages, cancels>>
    BY <1>9 DEF Cooldown
  <2> QED
    BY <2>1 DEF BreakerInv, TypeOK, ProbeOwned, ClosedBelowThreshold
<1>10. CASE GoesDown \/ ComesBack
  <2>a. up' \in BOOLEAN
    BY <1>10 DEF GoesDown, ComesBack
  <2>b. outages' \in 0 .. MaxOutages
    BY <1>a, <1>10, ClientAssumption DEF GoesDown, ComesBack
  <2>1. up' \in BOOLEAN /\ outages' \in 0 .. MaxOutages
    BY <2>a, <2>b
  <2> QED
    BY <1>a, <1>10, <2>1, QuietStep DEF GoesDown, ComesBack
<1> QED
  BY <1>1, <1>2, <1>3, <1>4, <1>5, <1>6, <1>7, <1>8, <1>9, <1>10 DEF Next

\* The invariant holds for ever.
LEMMA BreakerInvariant == Spec => []BreakerInv
  BY InitBreakerInv, NextBreakerInv, PTL DEF Spec

\* Breaker and calls stay in their types, whatever overlaps.
THEOREM ClientTyped == Spec => []TypeOK
<1>1. BreakerInv => TypeOK
  BY DEF BreakerInv
<1> QED
  BY <1>1, BreakerInvariant, PTL

\* The half-open breaker can always be settled: probing is set only while
\* the call that set it is waiting or on the wire.
THEOREM ProbeNeverLost == Spec => []ProbeOwned
<1>1. BreakerInv => ProbeOwned
  BY DEF BreakerInv
<1> QED
  BY <1>1, BreakerInvariant, PTL

\* A closed breaker never carries Threshold failures in a row.
THEOREM ClosedMeansFewFailures == Spec => []ClosedBelowThreshold
<1>1. BreakerInv => ClosedBelowThreshold
  BY DEF BreakerInv
<1> QED
  BY <1>1, BreakerInvariant, PTL
=============================================================================
