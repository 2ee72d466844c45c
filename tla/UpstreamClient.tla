--------------------------- MODULE UpstreamClient ---------------------------
(***************************************************************************)
(* The single exit to new-api (adapter/newapi): client.do passes the       *)
(* circuit breaker, waits for the rate limiter, sends, and retries with a  *)
(* backoff.  Calls overlap: the breaker changes while a call waits, sends  *)
(* or backs off.  A call that has ended may start again.                   *)
(***************************************************************************)
EXTENDS Integers, FiniteSets

CONSTANTS
  Requests,    \* calls of do in progress at a time
  Threshold,   \* CBThreshold
  MaxRetries,
  MaxOutages,  \* bound: how often new-api goes down
  MaxCancels   \* bound: contexts cancelled

ASSUME ClientAssumption ==
  /\ Threshold \in Nat \ {0} /\ MaxRetries \in Nat
  /\ MaxOutages \in Nat /\ MaxCancels \in Nat

VARIABLES
  state,     \* of the breaker: closed, open, half
  fails,     \* consecFails, counted to Threshold: only >= threshold reads it
  probing,
  cooled,    \* cooldown has passed since openedAt
  req,       \* req[r]: phase, retries so far, whether allow gave it the probe
  up,        \* new-api answers in time
  outages, cancels

breaker == <<state, fails, probing, cooled>>
vars == <<breaker, req, up, outages, cancels>>

Done == [ph |-> "idle", try |-> 0, probe |-> FALSE]

Init ==
  /\ state = "closed" /\ fails = 0 /\ probing = FALSE /\ cooled = FALSE
  /\ req = [r \in Requests |-> Done]
  /\ up = TRUE /\ outages = 0 /\ cancels = 0

-----------------------------------------------------------------------------
\* The breaker.

\* Mutant: a success resets the counters and leaves the state.
OnSuccess_KeepsState ==
  /\ fails' = 0 /\ probing' = FALSE
  /\ UNCHANGED <<state, cooled>>

OnSuccess ==
  /\ state' = "closed" /\ fails' = 0 /\ probing' = FALSE
  /\ UNCHANGED cooled

ProbeAbort ==
  /\ probing' = FALSE
  /\ UNCHANGED <<state, fails, cooled>>

\* Mutant: > for >=.
Trips_Above(n) == n > Threshold

Trips(n) == n >= Threshold

OnFailure ==
  /\ fails' = IF fails < Threshold THEN fails + 1 ELSE fails
  /\ probing' = FALSE
  /\ IF state = "half" \/ Trips(fails')
     THEN state' = "open" /\ cooled' = FALSE
     ELSE UNCHANGED <<state, cooled>>

Admits == state = "closed" \/ (state = "open" /\ cooled) \/ (state = "half" /\ ~probing)

-----------------------------------------------------------------------------
\* client.do.  A call the breaker rejects changes nothing and is left out.

Goto(r, ph) == req' = [req EXCEPT ![r].ph = ph]
Finish(r) == req' = [req EXCEPT ![r] = Done]

Cancelled == cancels < MaxCancels /\ cancels' = cancels + 1

Allow(r) ==
  /\ req[r].ph = "idle"
  /\ Admits
  /\ state' = IF state = "open" THEN "half" ELSE state
  /\ probing' = (probing \/ state # "closed")
  /\ req' = [req EXCEPT ![r] = [ph |-> "wait", try |-> 0, probe |-> state # "closed"]]
  /\ UNCHANGED <<fails, cooled, up, outages, cancels>>

\* The limiter has a token.
Limited(r) ==
  /\ req[r].ph = "wait"
  /\ Goto(r, "send")
  /\ UNCHANGED <<breaker, up, outages, cancels>>

\* Mutant: a call that never left keeps the probe.
LimitFails_KeepProbe(r) ==
  /\ req[r].ph = "wait"
  /\ Cancelled /\ Finish(r)
  /\ UNCHANGED <<breaker, up, outages>>

\* The context ends while the call waits for a token.
LimitFails(r) ==
  /\ req[r].ph = "wait"
  /\ Cancelled /\ ProbeAbort /\ Finish(r)
  /\ UNCHANGED <<up, outages>>

Answer(r) ==
  /\ req[r].ph = "send" /\ up
  /\ OnSuccess /\ Finish(r)
  /\ UNCHANGED <<up, outages, cancels>>

\* new-api refuses (4xx, success:false): the connection works.
Refused(r) ==
  /\ req[r].ph = "send" /\ up
  /\ OnSuccess /\ Finish(r)
  /\ UNCHANGED <<up, outages, cancels>>

\* Mutant: the attempt is not counted.
Backoff_Forever(r) ==
  req' = [req EXCEPT ![r] = [ph |-> "backoff", try |-> req[r].try, probe |-> FALSE]]

\* Mutant: <= for <.
Backoff_Over(r) ==
  IF req[r].try <= MaxRetries
  THEN req' = [req EXCEPT ![r] = [ph |-> "backoff", try |-> req[r].try + 1, probe |-> FALSE]]
  ELSE Finish(r)

\* Another attempt, while there is one.
Backoff(r) ==
  IF req[r].try < MaxRetries
  THEN req' = [req EXCEPT ![r] = [ph |-> "backoff", try |-> req[r].try + 1, probe |-> FALSE]]
  ELSE Finish(r)

\* A transport error, a timeout or a 5xx.
Fails(r) ==
  /\ req[r].ph = "send" /\ ~up
  /\ OnFailure /\ Backoff(r)
  /\ UNCHANGED <<up, outages, cancels>>

\* The caller's context ends in doOnce: a transport error like any other,
\* after which sleepBackoff gives up.
CancelSend(r) ==
  /\ req[r].ph = "send"
  /\ Cancelled /\ OnFailure /\ Finish(r)
  /\ UNCHANGED <<up, outages>>

\* sleepBackoff ends, and the next attempt asks neither breaker nor limiter.
Retry(r) ==
  /\ req[r].ph = "backoff"
  /\ Goto(r, "send")
  /\ UNCHANGED <<breaker, up, outages, cancels>>

CancelBackoff(r) ==
  /\ req[r].ph = "backoff"
  /\ Cancelled /\ Finish(r)
  /\ UNCHANGED <<breaker, up, outages>>

\* Time passes.
Cooldown ==
  /\ state = "open" /\ ~cooled
  /\ cooled' = TRUE
  /\ UNCHANGED <<state, fails, probing, req, up, outages, cancels>>

\* The environment: new-api fails and comes back.
GoesDown ==
  /\ up /\ outages < MaxOutages
  /\ up' = FALSE /\ outages' = outages + 1
  /\ UNCHANGED <<breaker, req, cancels>>

ComesBack ==
  /\ ~up /\ up' = TRUE
  /\ UNCHANGED <<breaker, req, outages, cancels>>

Next ==
  \/ \E r \in Requests :
       \/ Allow(r) \/ Limited(r) \/ LimitFails(r)
       \/ Answer(r) \/ Refused(r) \/ Fails(r) \/ CancelSend(r)
       \/ Retry(r) \/ CancelBackoff(r)
  \/ Cooldown \/ GoesDown \/ ComesBack

Spec == Init /\ [][Next]_vars

\* Fairness: timers fire, the limiter refills (its rate is positive), a
\* request is answered or times out, and the workers keep calling.
FairSpec ==
  /\ Spec
  /\ WF_vars(Cooldown)
  /\ \A r \in Requests :
       /\ WF_vars(Allow(r))
       /\ WF_vars(Limited(r) \/ Retry(r))
       /\ WF_vars(Answer(r) \/ Refused(r) \/ Fails(r))

-----------------------------------------------------------------------------
\* Breaker and calls stay in their types.
TypeOK ==
  /\ state \in {"closed", "open", "half"} /\ fails \in 0 .. Threshold
  /\ probing \in BOOLEAN /\ cooled \in BOOLEAN /\ up \in BOOLEAN
  /\ req \in [Requests -> [ph : {"idle", "wait", "send", "backoff"},
                           try : 0 .. MaxRetries, probe : BOOLEAN]]
  /\ outages \in 0 .. MaxOutages /\ cancels \in 0 .. MaxCancels

\* The probe slot is taken only while the call that took it can still
\* settle it: no way a call ends (answered, refused, failed, cancelled in
\* the limiter or on the wire) leaves the breaker rejecting everybody.
ProbeOwned ==
  probing => \E r \in Requests : req[r].probe /\ req[r].ph \in {"wait", "send"}

\* A closed breaker has seen fewer than Threshold failures in a row, also
\* when calls admitted earlier settle after it has opened and closed.
ClosedBelowThreshold == state = "closed" => fails < Threshold

\* Once new-api stays up, the breaker closes and stays closed, whatever
\* was in flight, cancelled or refused before.
Recovers == (<>[]up) => <>[](state = "closed")

\* Every admitted call returns, also during an outage that does not end.
CallsReturn == \A r \in Requests : req[r].ph # "idle" ~> req[r].ph = "idle"
=============================================================================
