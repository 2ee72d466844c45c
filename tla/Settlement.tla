----------------------------- MODULE Settlement -----------------------------
(***************************************************************************)
(* The usage pipeline: forward settlement (service/settlement.go), history *)
(* backfill (service/backfill.go) and detail retention, reading the        *)
(* consumption log of the upstream gateway new-api and writing three       *)
(* tables: usage_ledger, usage_detail and settlement_cursor.               *)
(*                                                                         *)
(* Data abstraction.  A log row is its id; usage_ledger is a bag of ids    *)
(* (how many times the quota of a row was added to its bucket), as is the  *)
(* balance deduction; usage_detail is a set of ids (unique key             *)
(* newapi_log_id).  The hour buckets, models and keys only spread the bag  *)
(* over more rows and are left out.  Row ids and times are small integers. *)
(***************************************************************************)
EXTENDS Integers, FiniteSets

CONSTANTS
  MaxLog,          \* bound: rows the gateway ever writes
  Owner,           \* Owner[i]: organisation whose new-api user made call i
  ZeroQuota,       \* ids of rows with quota <= 0
  Orgs,            \* organisations (any other owner is a main-site customer)
  PlatformOrgs,    \* organisations of gate A, bound before the first run
  BillingOrgs,     \* billing_enabled, with a company_balance row, not observe
  Lag,             \* settlementLagSec
  Overlap,         \* settlementRescanOverlapSec
  PageSize, MaxPages, RescanMaxPages,
  WindowsPerTick,  \* backfillWindowsPerTick
  Retention,       \* usage detail retention, 0 = keep for ever
  Callers,         \* goroutines that call RunSettlement
  Worker,          \* the settlement worker, which also runs the backfill
  NodeOf,          \* NodeOf[c]: process (one settlementMu each) of caller c
  StartTime, MaxTime,   \* bounds of the clock
  MaxDelay,        \* bound: seconds from created_at to visibility of a row
  MaxGap,          \* bound: seconds the cursor may trail now - Lag
  MaxDensity,      \* bound: rows within one second of each other
  MaxCrashes       \* bound: process crashes

Ids == 1..MaxLog
Nodes == {NodeOf[c] : c \in Callers}
Nobody == "nobody"
Statuses == {"none", "pending", "running", "done"}

ASSUME ConstantsAssumption ==
  /\ MaxLog \in Nat /\ Lag \in Nat /\ Overlap \in Nat /\ Retention \in Nat
  /\ PageSize \in Nat \ {0} /\ MaxPages \in Nat \ {0}
  /\ RescanMaxPages \in Nat \ {0} /\ WindowsPerTick \in Nat \ {0}
  /\ StartTime \in Nat \ {0} /\ MaxTime \in Nat /\ StartTime > Lag /\ StartTime <= MaxTime
  /\ MaxDelay \in Nat /\ MaxGap \in Nat /\ MaxDensity \in Nat /\ MaxCrashes \in Nat
  /\ Worker \in Callers /\ Nobody \notin Callers /\ PlatformOrgs \subseteq Orgs
  /\ BillingOrgs \subseteq Orgs /\ ZeroQuota \subseteq Ids
  /\ Retention > 0 => Retention > Overlap + MaxDelay

VARIABLES
  now,       \* clock, unix seconds
  log,       \* log[i]: the gateway's row i: state and created_at
  cursor,    \* settlement_cursor row of org 0: ts, id, version
  detail,    \* usage_detail: set of newapi_log_id
  ledger,    \* usage_ledger: bag of row ids
  deducted,  \* company_balance.total_consumed: bag of row ids
  linked,    \* organisations with newapi_user_id set
  enq,       \* progress of the association of a gate B organisation
  job,       \* org_backfill_job rows
  mu,        \* settlementMu of each process
  rd,        \* the RunSettlement call in progress of each caller
  bf,        \* the RunBackfillSlice call in progress of the worker
  base,      \* history: cursor ts set by the first run, 0 before it
  crashes    \* crashes so far

upstream == <<now, log>>
store == <<cursor, detail, ledger, deducted, linked, job>>
vars == <<now, log, cursor, detail, ledger, deducted, linked, enq, job, mu,
          rd, bf, base, crashes>>

Empty == [i \in Ids |-> 0]
Plus(b, c) == [i \in Ids |-> b[i] + c[i]]
BagOf(S) == [i \in Ids |-> IF i \in S THEN 1 ELSE 0]
Restricted(b, S) == [i \in Ids |-> IF i \in S THEN b[i] ELSE 0]
Support(b) == {i \in Ids : b[i] > 0}
Greatest(a, b) == IF a > b THEN a ELSE b

NoRound == [ph |-> "idle", since |-> 0, sub |-> 0, id |-> 0, ver |-> 0,
            page |-> 1, acc |-> Empty, max |-> 0]
NoSlice == [ph |-> "idle", org |-> Nobody, hi |-> 0, lo |-> 0, page |-> 1,
            keep |-> Empty, wins |-> 0]
NoJob == [status |-> "none", bts |-> 0, bid |-> 0, cts |-> 0, nth |-> 0]

Init ==
  /\ now = StartTime
  /\ log = [i \in Ids |-> [st |-> "free", ts |-> 0]]
  /\ cursor = [ts |-> 0, id |-> 0, ver |-> 0]
  /\ detail = {} /\ ledger = Empty /\ deducted = Empty
  /\ linked = PlatformOrgs
  /\ enq = [o \in Orgs |-> IF o \in PlatformOrgs THEN "gateA" ELSE "new"]
  /\ job = [o \in Orgs |-> NoJob]
  /\ mu = [n \in Nodes |-> Nobody]
  /\ rd = [c \in Callers |-> NoRound]
  /\ bf = NoSlice
  /\ base = 0 /\ crashes = 0

-----------------------------------------------------------------------------
(* The gateway.  created_at is stamped when a call ends, the id is given by *)
(* the INSERT and the row is readable once its transaction commits: ids can *)
(* be inverted against created_at, and rows become visible late.           *)

Used == {i \in Ids : log[i].st # "free"}

Near(t) == {i \in Used : log[i].ts \in (t - 1)..(t + 1)}

InsertRow(i, t) ==
  /\ i \notin Used /\ \A j \in Ids : j < i => j \in Used
  /\ t \in Greatest(1, now - MaxDelay)..now
  /\ Cardinality(Near(t)) < MaxDensity
  /\ log' = [log EXCEPT ![i] = [st |-> "inserted", ts |-> t]]
  /\ UNCHANGED <<now, store, enq, mu, rd, bf, base, crashes>>

CommitRow(i) ==
  /\ log[i].st = "inserted"
  /\ log' = [log EXCEPT ![i].st = "visible"]
  /\ UNCHANGED <<now, store, enq, mu, rd, bf, base, crashes>>

\* Time passes, while no row is overdue, the cursor keeps up and no round
\* runs past its timeout.
Tick ==
  /\ now < MaxTime
  /\ \A i \in Ids : log[i].st = "inserted" => now < log[i].ts + MaxDelay
  /\ cursor.ts > 0 => now + 1 - Lag - cursor.ts <= MaxGap
  /\ \A c \in Callers : rd[c].ph # "idle" => now + 1 - Lag - rd[c].sub <= MaxGap
  /\ now' = now + 1
  /\ UNCHANGED <<log, store, enq, mu, rd, bf, base, crashes>>

\* GET /api/log/ over a closed interval, newest id first.
Window(from, to) ==
  {i \in Ids : log[i].st = "visible" /\ log[i].ts >= from /\ log[i].ts <= to}

Page(W, p) ==
  {i \in W : Cardinality({j \in W : j >= i}) \in ((p - 1) * PageSize + 1)..(p * PageSize)}

\* All rows have been returned, or the page limit is reached.
LastPage(W, p, max) == p * PageSize >= Cardinality(W) \/ p = max

WindowOf(o, from, to) == {i \in Window(from, to) : Owner[i] = o}

-----------------------------------------------------------------------------
(* Forward settlement.                                                     *)

Capacity == MaxPages * PageSize

\* Mutant: the window is read as it is, however many rows it holds.
UntilSub_Whole(since, until) == until

\* Bisection of the upper end until the window can be read in full.
UntilSub(since, until) ==
  LET shrink[u \in since..until] ==
        IF Cardinality(Window(since, u)) <= Capacity \/ u <= since + 1
        THEN u ELSE shrink[since + (u - since) \div 2]
  IN shrink[until]

Positive(S) == S \ ZeroQuota

\* ingestEntry skips a row whose user belongs to no platform organisation.
Attributed(S) == {i \in S : Owner[i] \in linked}

\* RunSettlement up to the choice of the window; the very first run only
\* places the cursor.
RunStart(c) ==
  /\ rd[c].ph = "idle" /\ mu[NodeOf[c]] = Nobody
  /\ c = Worker => bf.ph = "idle"
  /\ LET since == cursor.ts
         until == now - Lag
     IN /\ since > 0 => until > since
        /\ rd' = [rd EXCEPT ![c] =
             [NoRound EXCEPT !.ph = IF since = 0 THEN "baseline" ELSE "rescan",
                !.since = since,
                !.sub = IF since = 0 THEN until ELSE UntilSub(since, until),
                !.id = cursor.id, !.ver = cursor.ver, !.max = cursor.id]]
  /\ mu' = [mu EXCEPT ![NodeOf[c]] = c]
  /\ UNCHANGED <<upstream, store, enq, bf, base, crashes>>

\* Mutant: the rescan is left out.
RescanFrom_None(since) == since

\* The rescan goes back Overlap seconds and stops before the main window.
RescanFrom(since) == Greatest(0, since - Overlap)

\* Step 1a, one page of the late-commit rescan; rows that already have a
\* detail row are dropped after the last page.
RescanPage(c) ==
  /\ rd[c].ph = "rescan"
  /\ LET r == rd[c]
         W == Window(RescanFrom(r.since), r.since - 1)
         got == Plus(r.acc, BagOf(Positive(Page(W, r.page))))
     IN rd' = [rd EXCEPT ![c] =
          IF LastPage(W, r.page, RescanMaxPages)
          THEN [r EXCEPT !.ph = "main", !.page = 1,
                  !.acc = Restricted(got, Attributed(Ids \ detail))]
          ELSE [r EXCEPT !.page = @ + 1, !.acc = got]]
  /\ UNCHANGED <<upstream, store, enq, mu, bf, base, crashes>>

\* Rows of the main window above the id watermark of the cursor.
AboveWatermark(S, r) == {i \in S : i > r.id}

\* Step 1b, one page of the main window.
MainPage(c) ==
  /\ rd[c].ph = "main"
  /\ LET r == rd[c]
         W == Window(r.since, r.sub)
         new == AboveWatermark(Page(W, r.page), r)
         top == CHOOSE m \in new \cup {r.max} : \A i \in new \cup {r.max} : i <= m
         got == Plus(r.acc, BagOf(Attributed(Positive(new))))
     IN rd' = [rd EXCEPT ![c] =
          [r EXCEPT !.acc = got, !.max = top,
             !.ph = IF LastPage(W, r.page, MaxPages) THEN "commit" ELSE "main",
             !.page = @ + 1]]
  /\ UNCHANGED <<upstream, store, enq, mu, bf, base, crashes>>

\* Mutant: the cursor update does not compare the version.
CursorUnmoved_Any(r) == TRUE

CursorUnmoved(r) == cursor.ver = r.ver

AdvanceCursorTx(r, id) ==
  cursor' = [ts |-> Greatest(cursor.ts, r.sub), id |-> Greatest(cursor.id, id),
             ver |-> cursor.ver + 1]

\* usage_ledger accumulates, usage_detail is INSERT IGNORE.
AddToLedgerBucketTx(acc) == ledger' = Plus(ledger, acc)
InsertUsageDetailTx(acc) == detail' = detail \cup Support(acc)

CommitUsageOnly(acc) == AddToLedgerBucketTx(acc) /\ InsertUsageDetailTx(acc)

\* Mutant: an early return forgets the unlock.
Leave_Locked(c) == rd' = [rd EXCEPT ![c] = NoRound] /\ UNCHANGED mu

Leave(c) ==
  /\ rd' = [rd EXCEPT ![c] = NoRound]
  /\ mu' = [mu EXCEPT ![NodeOf[c]] = Nobody]

CommitBaseline(c) ==
  /\ rd[c].ph = "baseline" /\ CursorUnmoved(rd[c])
  /\ AdvanceCursorTx(rd[c], 0)
  /\ base' = rd[c].sub
  /\ Leave(c)
  /\ UNCHANGED <<upstream, detail, ledger, deducted, linked, enq, job, bf, crashes>>

\* Ledger, detail, deduction and cursor in one transaction.
CommitRound(c) ==
  /\ rd[c].ph = "commit" /\ CursorUnmoved(rd[c])
  /\ LET r == rd[c]
     IN /\ CommitUsageOnly(r.acc)
        /\ deducted' = Plus(deducted,
                            Restricted(r.acc, {i \in Ids : Owner[i] \in BillingOrgs}))
        /\ AdvanceCursorTx(r, r.max)
  /\ Leave(c)
  /\ UNCHANGED <<upstream, linked, enq, job, bf, base, crashes>>

\* An upstream or database error, or a lost cursor race: nothing is kept.
AbandonRound(c) ==
  /\ rd[c].ph # "idle"
  /\ Leave(c)
  /\ UNCHANGED <<upstream, store, enq, bf, base, crashes>>

-----------------------------------------------------------------------------
(* Association of a gate B organisation and its backfill job.              *)

Associate(o) ==
  /\ enq[o] = "new"
  /\ linked' = linked \cup {o}
  /\ enq' = [enq EXCEPT ![o] = "associated"]
  /\ UNCHANGED <<upstream, cursor, detail, ledger, deducted, job, mu, rd, bf, base, crashes>>

JobCount == Cardinality({o \in Orgs : job[o].status # "none"})

\* enqueueBackfill: the boundary is the cursor, read without settlementMu.
\* With an unset cursor the call first runs a settlement round (RunStart of
\* some caller), hence the guard.
EnqueueBackfill(o) ==
  /\ enq[o] = "associated" /\ cursor.ts > 0
  /\ job' = [job EXCEPT ![o] =
       [status |-> "pending", bts |-> cursor.ts, bid |-> cursor.id,
        cts |-> cursor.ts, nth |-> JobCount]]
  /\ enq' = [enq EXCEPT ![o] = "queued"]
  /\ UNCHANGED <<upstream, cursor, detail, ledger, deducted, linked, mu, rd, bf, base, crashes>>

\* The forced round or the INSERT failed: logged, the association stands.
EnqueueFails(o) ==
  /\ enq[o] = "associated"
  /\ enq' = [enq EXCEPT ![o] = "failed"]
  /\ UNCHANGED <<upstream, store, mu, rd, bf, base, crashes>>

RequeueBackfillJob(o) ==
  job' = [job EXCEPT ![o].status = "pending", ![o].cts = job[o].bts]

\* The operator's button; without a job row the request is refused.
RequeueBackfill(o) ==
  /\ job[o].status \notin {"none", "running"} /\ RequeueBackfillJob(o)
  /\ UNCHANGED <<upstream, cursor, detail, ledger, deducted, linked, enq, mu, rd, bf, base, crashes>>

-----------------------------------------------------------------------------
(* Backfill, run by the settlement worker after its forward round.         *)

\* Mutant: only pending jobs are picked up.
NextBackfillJob_PendingOnly == {o \in Orgs : job[o].status = "pending"}

NextBackfillJob ==
  {o \in Orgs : /\ job[o].status \in {"pending", "running"}
                /\ \A p \in Orgs : job[p].status \in {"pending", "running"} =>
                                     job[o].nth <= job[p].nth}

SliceStart ==
  /\ bf.ph = "idle" /\ rd[Worker].ph = "idle"
  /\ \E o \in NextBackfillJob :
       /\ job' = [job EXCEPT ![o].status = "running"]
       /\ bf' = [NoSlice EXCEPT !.ph = "next", !.org = o, !.hi = job[o].cts]
  /\ UNCHANGED <<upstream, cursor, detail, ledger, deducted, linked, enq, mu, rd, base, crashes>>

\* Bisection of the lower end, mirror image of UntilSub.
LowerBound(o, hi) ==
  LET grow[l \in 0..hi] ==
        IF Cardinality(WindowOf(o, l, hi)) <= Capacity \/ l >= hi - 1
        THEN l ELSE grow[hi - (hi - l) \div 2]
  IN grow[0]

\* The loop head: another window, or the slice ends.
NextWindow ==
  /\ bf.ph = "next" /\ bf.hi > 0 /\ bf.wins < WindowsPerTick
  /\ bf' = [bf EXCEPT !.ph = "read", !.lo = LowerBound(bf.org, bf.hi),
              !.page = 1, !.keep = Empty]
  /\ UNCHANGED <<upstream, store, enq, mu, rd, base, crashes>>

EndSlice ==
  /\ bf.ph = "next" /\ (bf.hi <= 0 \/ bf.wins = WindowsPerTick)
  /\ job' = IF bf.hi <= 0 THEN [job EXCEPT ![bf.org].status = "done"] ELSE job
  /\ bf' = NoSlice
  /\ UNCHANGED <<upstream, cursor, detail, ledger, deducted, linked, enq, mu, rd, base, crashes>>

\* Mutant: the boundary compares ids only.
BelongsToBackfill_IdOnly(i, j) == i <= j.bid

BelongsToBackfill(i, j) ==
  log[i].ts < j.bts \/ (log[i].ts = j.bts /\ i <= j.bid)

\* Read phase, without the mutex.
BackfillPage ==
  /\ bf.ph = "read"
  /\ LET W == WindowOf(bf.org, bf.lo, bf.hi)
         ours == {i \in Positive(Page(W, bf.page)) : BelongsToBackfill(i, job[bf.org])}
     IN bf' = [bf EXCEPT !.keep = Plus(@, BagOf(ours)), !.page = @ + 1,
                 !.ph = IF LastPage(W, bf.page, MaxPages) THEN "write" ELSE "read"]
  /\ UNCHANGED <<upstream, store, enq, mu, rd, base, crashes>>

\* Mutant: the write phase does not take settlementMu.
MutexFree_Ignored == TRUE

MutexFree == mu[NodeOf[Worker]] = Nobody

\* Rows of the window that have no detail row yet.
Unrecorded(keep) == Restricted(keep, Attributed(Ids \ detail))

\* Write phase: dedup and commit in one transaction under the mutex (an
\* empty window does not take it).  Never deducts, never moves the cursor.
BackfillWrite ==
  /\ bf.ph = "write"
  /\ bf.keep # Empty => MutexFree
  /\ CommitUsageOnly(Unrecorded(bf.keep))
  /\ bf' = [bf EXCEPT !.ph = "progress"]
  /\ UNCHANGED <<upstream, cursor, deducted, linked, job, enq, mu, rd, base, crashes>>

UpdateBackfillProgress(o, ts) == job' = [job EXCEPT ![o].cts = ts]

\* A statement of its own.
BackfillProgress ==
  /\ bf.ph = "progress"
  /\ UpdateBackfillProgress(bf.org, bf.lo - 1)
  /\ bf' = [bf EXCEPT !.ph = "next", !.hi = bf.lo - 1, !.wins = @ + 1]
  /\ UNCHANGED <<upstream, cursor, detail, ledger, deducted, linked, enq, mu, rd, base, crashes>>

\* An error in a slice: the job stays "running" and resumes at cts.  Waiting
\* for the mutex itself cannot fail.
BackfillError ==
  /\ bf.ph # "idle"
  /\ bf.ph = "write" => MutexFree
  /\ bf' = NoSlice
  /\ UNCHANGED <<upstream, store, enq, mu, rd, base, crashes>>

-----------------------------------------------------------------------------
PurgeUsageDetailBefore(cutoff) == detail' = {i \in detail : log[i].ts >= cutoff}

\* Off by default.
PurgeOldUsageDetail ==
  /\ Retention > 0
  /\ \E i \in detail : log[i].ts < now - Retention
  /\ PurgeUsageDetailBefore(now - Retention)
  /\ UNCHANGED <<upstream, cursor, ledger, deducted, linked, enq, job, mu, rd, bf, base, crashes>>

\* A process dies: its calls vanish, the tables stay.
Crash(n) ==
  /\ crashes < MaxCrashes /\ crashes' = crashes + 1
  /\ \/ \E c \in Callers : NodeOf[c] = n /\ rd[c].ph # "idle"
     \/ NodeOf[Worker] = n /\ (bf.ph # "idle" \/ \E o \in Orgs : enq[o] = "associated")
  /\ rd' = [c \in Callers |-> IF NodeOf[c] = n THEN NoRound ELSE rd[c]]
  /\ mu' = [mu EXCEPT ![n] = Nobody]
  /\ bf' = IF NodeOf[Worker] = n THEN NoSlice ELSE bf
  /\ enq' = IF NodeOf[Worker] = n
            THEN [o \in Orgs |-> IF enq[o] = "associated" THEN "failed" ELSE enq[o]]
            ELSE enq
  /\ UNCHANGED <<upstream, store, base>>

Gateway == Tick \/ \E i \in Ids : CommitRow(i) \/ \E t \in 1..now : InsertRow(i, t)

Forward(c) ==
  RunStart(c) \/ RescanPage(c) \/ MainPage(c) \/ CommitBaseline(c) \/ CommitRound(c)

Backfill ==
  SliceStart \/ NextWindow \/ BackfillPage \/ BackfillWrite \/ BackfillProgress \/ EndSlice

Operator(o) == Associate(o) \/ EnqueueBackfill(o) \/ RequeueBackfill(o)

Faults ==
  \/ \E c \in Callers : AbandonRound(c)
  \/ \E o \in Orgs : EnqueueFails(o)
  \/ BackfillError
  \/ \E n \in Nodes : Crash(n)

Next ==
  \/ Gateway
  \/ \E c \in Callers : Forward(c)
  \/ Backfill
  \/ \E o \in Orgs : Operator(o)
  \/ PurgeOldUsageDetail
  \/ Faults

Spec == Init /\ [][Next]_vars

-----------------------------------------------------------------------------
(* Properties.                                                             *)

\* Every table, lock and call in progress stays in its type.
TypeOK ==
  /\ now \in StartTime..MaxTime
  /\ log \in [Ids -> [st : {"free", "inserted", "visible"}, ts : 0..MaxTime]]
  /\ cursor \in [ts : 0..MaxTime, id : 0..MaxLog, ver : Nat]
  /\ detail \subseteq Ids /\ ledger \in [Ids -> Nat] /\ deducted \in [Ids -> Nat]
  /\ linked \subseteq Orgs
  /\ \A o \in Orgs : job[o].status \in Statuses /\ job[o].cts \in -1..job[o].bts
  /\ mu \in [Nodes -> Callers \cup {Nobody}]
  /\ \A c \in Callers : (rd[c].ph # "idle") <=> (mu[NodeOf[c]] = c)

\* A call is reported once: however forward rounds, the late-commit rescan,
\* backfill windows, crashes and requeues interleave, the quota of a log row
\* enters usage_ledger at most once (the table accumulates and has no key
\* per row), and the balance is charged at most that often.
ExactlyOnce == \A i \in Ids : ledger[i] <= 1 /\ deducted[i] <= ledger[i]

\* usage_ledger and usage_detail tell the same story: a row is in the sum
\* exactly when its detail row exists (nothing is purged in this run).
LedgerMatchesDetail == \A i \in Ids : (ledger[i] > 0) <=> (i \in detail)

\* Rows the next round can no longer reach: older than its rescan.
Settled(i) == log[i].st = "visible" /\ log[i].ts < cursor.ts - Overlap

\* Rows that the organisation's accounts must hold by then: everything since
\* the first run for a gate A organisation, and the whole history of a gate B
\* organisation once its backfill is done.
Due(i) ==
  /\ i \notin ZeroQuota
  /\ \/ Owner[i] \in PlatformOrgs /\ log[i].ts >= base
     \/ Owner[i] \in Orgs \ PlatformOrgs /\ job[Owner[i]].status = "done"

\* No call is lost: once the cursor is so far ahead that no later round will
\* read a row again, the row is in usage_ledger, even if it was committed
\* late, its id is inverted against created_at, or the organisation was
\* associated while a round was reading.
NothingLost == \A i \in Ids : Settled(i) /\ Due(i) => ledger[i] > 0

\* After an outage longer than the overlap, and with more rows to catch up on
\* than the page limits of the main window and of the rescan admit, no call of
\* a gate A organisation is lost: RunSettlement bisects the window (UntilSub)
\* and moves the cursor only to where it has read everything, in as many
\* rounds as that takes.  The rescan cannot make up for it here.
PlatformRowsKept ==
  \A i \in Ids : Owner[i] \in PlatformOrgs /\ Settled(i) /\ Due(i) => ledger[i] > 0

-----------------------------------------------------------------------------
(* Fairness.  The worker's ticker runs a slice after every forward round,  *)
(* so each step of a slice that can be tried again and again succeeds at   *)
(* some time (SF: reads may fail, but not for ever), and the context       *)
(* timeout of a round ends it (WF of AbandonRound).  MaxCrashes bounds the *)
(* crashes.                                                                *)

FairSpec ==
  /\ Spec
  /\ \A c \in Callers : WF_vars(AbandonRound(c))
  /\ SF_vars(SliceStart) /\ SF_vars(NextWindow \/ EndSlice)
  /\ \A k \in 1..MaxPages : SF_vars(BackfillPage /\ bf.page = k)
  /\ SF_vars(BackfillWrite) /\ SF_vars(BackfillProgress)

\* The queued backfill of a gate B organisation ends, whatever crashes, failed
\* reads and requeues come in between its windows: an interrupted job is picked
\* up again at its cursor, and a window with more rows than the page limit is
\* narrowed until it can be read.
BackfillCompletes ==
  \A o \in Orgs \ PlatformOrgs :
    (job[o].status = "pending") ~> (job[o].status = "done")
=============================================================================
