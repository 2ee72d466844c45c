# A TLA+ model of the NexusAPI enterprise platform

The platform (Go) sits beside the LLM gateway *new-api*. It sells quota to organisations,
gives their members keys, reads the gateway's consumption log, and keeps usage and money
accounts. new-api is a separate service: everything said of it here is taken from how the
adapter uses it.

## 1. The system

| Component (source under `src/`) | State | Operations | Hard behaviour | Status |
|---|---|---|---|---|
| Forward settlement (`service/settlement.go`, `repo/settlement.go`, `adapter/newapi/logs.go`) | `settlement_cursor` (time, id watermark, version), `usage_ledger`, `usage_detail`, `company_balance.total_consumed` | `RunSettlement` (first-run baseline, window bisection, late-commit rescan, main window, one commit), `PurgeOldUsageDetail` | log rows commit late and with inverted ids; paged reads of a moving log; worker, escrow drain and a second leader over one cursor | `Settlement` |
| History backfill (`service/backfill.go`, `repo/backfill.go`) | `org_backfill_job` | enqueue, slice, window, requeue | reads without the mutex, writes under it; crash between write and progress | `Settlement` |
| Escrow funding (`service/escrow.go`, `service/billing.go`, `repo/escrow.go`, `repo/balance.go`) | `company_balance`, `escrow_bucket`, `recharge`, `org_escrow_config`, the gateway user's quota | `Recharge`, `DebitBalance`, `RefillWindow`, `ReconcileEscrow`, settlement's deduction | commit first, remote ADD/SUBTRACT after; lost, repeated and late requests; crash in between; usage booked with a lag | `Escrow`, `EscrowBuckets`, `EscrowLedger` |
| Organisation status (`service/billing.go`, `service/org.go`) | `organization.status` | `recomputeOrgStatus`, `HardStopOrg` | read-then-write by several handlers without a lock | in `Escrow` |
| Keyed lock (`pkg/lock/lock.go`) | key table with reference counts | `Acquire`, `TryAcquire`, release | cancelled waiters, removal of the last reference | `KeyedLock`, `AtomicLock` |
| Upstream client (`adapter/newapi/client.go`, `ratelimit.go`) | circuit breaker, token bucket | `do`: allow, limiter, send, retry | results of calls admitted under an older breaker state | `UpstreamClient` |
| Quota override, policies, reset, grants (`service/quota.go`, `reset.go`, `worker_ops.go`, `repo/grant.go`, `repo/policy.go`) | tier, policy, grant and member rows; `remain_quota` of the member's token | `applyMemberOverride`, `AdjustQuota`, `SetTempPermission`, `RevokeGrant`, expiry and reset worker, `convergeOrgQuotas` | rows read before the lock; the status changes outside it; worker against operator; failed writes | `Quota` |
| Approval (`service/approval.go`, `repo/approval.go`) | `approval` rows | submit, decide, dispatch | two reviewers and two levels; decided but not dispatched | in `Quota` |
| Tiers, settings (`service/tier.go`, `admin_extra.go`) | `quota_tier`, `default_tier_id`, rules | create, update, delete, set default | read, check, then write later | in `Quota` |
| Members and keys (`service/member.go`, `quota.go`, `worker_ops.go`, `repo/member.go`, `member_key.go`, `adapter/newapi/adapter.go`) | `member`, `member_key_slot`, `member_key_token`, tokens at the gateway | open, rotate, create key, import, disable, offboard, restore, expire | several requests and statements per operation under no lock; lost answers; crash in between | `Members` |
| Identity and sessions (`service/identity.go`, `pkg/session`) | `session_epoch`, signed sessions | login, validate, change and reset password, assign role | epoch read early, signed late; change and bump are two statements | in `Members` |
| Provisioning and association (`service/member.go`, `org.go`, `repo/org.go`, `adapter/newapi/bootstrap.go`) | `organization` row with the gateway user and its credential; users at the gateway | `CreateOrg` (two doors), `EnsureOrgProvisioned`, `withOrgCred`, `EnsureFreshCred`, `ReassertWalletOnly`, `HardStopOrg` | a lock per process only; fetching a token ends the previous one; a user created by a request whose answer is lost | `Provisioning` |
| Gateway options and discounts (`adapter/newapi/options.go`, `groups.go`, `service/pricing.go`, `reconcile.go`) | one JSON option for all organisations, the discount in the row | `ConfigureDiscount`, `ensureTotalDiscountCoversGroup`, `AddOrgUsableGroup`, `ReconcileDiscounts` | read-modify-write of everybody's entries; row read before and written after the lock | `Pricing` on `KeyedLock` |
| Idempotency keys (`repo/idemp.go`) | `platform_idempotency` | begin, finish, drop | none: no caller outside the tests | not modelled |
| Teams, tickets, notifications, reports, login limiter, HTTP layer, crypto, start-up | rows, counters | CRUD, SQL aggregation, formatting | none beyond one statement each | not modelled |

Interactions. Handlers and workers call the gateway only through the upstream client.
Recharge, refund, refill and reconciliation of an organisation are serialised by the keyed
lock `escrow:org:N`; settlement takes no such lock and meets them only in the
`company_balance` row and in `usage_ledger`. The reconciliation first drains settlement,
so `RunSettlement` has two callers. Associating an organisation (gate B) links its gateway
user and then enqueues a backfill whose boundary is the settlement cursor at that moment.
A status change by settlement or recharge makes the quota module rewrite every cap; a key
rotation gives a member a token without a cap until the next dispatch; opening a member
provisions the organisation, may extend its discount, and makes a token: the three parts are
in `Provisioning`, `Pricing` and `Members`.

What makes the parts correct: a log row is counted once and none is lost (settlement,
backfill); the books balance, the window follows bucket 1, stays under the cap and is never
reduced below what the customer owns (escrow); a key has one holder (lock); the breaker
always recovers (client); caps count the grants in force and follow the configuration in the
end, a request is granted once (quota); a key handed out is attributed to its member for ever
and a session ends with the password it was issued for (members); an organisation has the one
user it is entitled to and a credential that heals (provisioning); one organisation's prices
are not overwritten by another's (pricing). `PROJECT.json` lists the hazards with the properties aimed at them.

## 2. Modules

| Module | Role |
|---|---|
| `Settlement`, `SettlementProofs` | forward rounds, backfill, retention, association, crashes; proofs; `MCSettlement` holds the instances and the claims of section 3 |
| `EscrowLedger` | abstract: the four transactions on totals (recharge, release, refund, deduct) |
| `Escrow` | handlers and workers step by step, the gateway's window, delivery faults; implements `EscrowLedger`; `MCEscrow` holds the instances and the claims of section 3 |
| `EscrowBuckets` | the bucket rows and the loops over them; implements the totals of `EscrowLedger`; instance `MCEscrowBuckets` |
| `EscrowProofs`, `EscrowBucketsProofs` | proofs about `Escrow` and about `EscrowBuckets` |
| `AtomicLock`, `KeyedLock` | one atomic lock per key; the reference-counted implementation, which refines it |
| `Pricing`, `PricingProofs` | extends `KeyedLock` with the users of its locks: discounts and the shared options; proofs about both; instance `MCPricing` |
| `UpstreamClient`, `UpstreamClientProofs` | `client.do` with breaker, limiter, retries; proofs; instance `MCUpstreamClient` |
| `Quota`, `QuotaProofs` | caps, policies, grants, approvals, tiers, status convergence, the quota worker; proofs; instances in `MCQuota` |
| `Members`, `MembersProofs` | member rows, key tables, tokens, sessions; proofs; instance `MCMembers` |
| `Provisioning`, `ProvisioningProofs` | organisation rows, gateway users, credentials; proofs; instance `MCProvisioning` |

### Settlement
A log row is its id with a state and `created_at`. `usage_ledger` and the deduction are bags
of row ids (how often a row's quota was added); `usage_detail` is a set (unique key
`newapi_log_id`). Hour buckets, models and keys only spread the bag and are left out.
`InsertRow` and `CommitRow` are the gateway: a row gets its id and time on insertion and is
visible on commit, up to `MaxDelay` later. `RunStart` is the start of `RunSettlement`
(cursor read and choice of the sub-window); `RescanPage` and `MainPage` read one page each,
so other processes run between pages; `CommitRound` is the transaction with the cursor's
version check; `AbandonRound` stands for every error return. The backfill has `SliceStart`,
`NextWindow`, `BackfillPage`, `BackfillWrite` (dedup and write in one transaction under
`settlementMu`), `BackfillProgress` (a statement of its own), `EndSlice`, `BackfillError`.
`Crash` ends the calls of a process and leaves the tables.

### Escrow
One organisation. A handler is a record with its phase: under the lock it reads the window
(`RechargeStart`), commits one transaction (`RechargeTx`), and only then calls the gateway
(`CallUpstream`); afterwards, without the lock, it recomputes the status (`StatusRead`,
`StatusWrite`). `Delivery` says what may go wrong with a request: "lost", "twice" (the
client's retry of a timed-out request), "late" (applied after the handler gave up).
`Consume` is a member's call at the gateway, `Settle` books it later, `BookHistory` books
usage from before funding (a backfill). Abstractions: the holding buckets are their sum (the
rows are in `EscrowBuckets`); the lock is atomic, which `KeyedLock` justifies; the status
check of `EnsureOrgProvisioned` and the read of the window in `applyRecharge` are one step
with the acquisition of the lock; requests that are rejected before any write are left
out; a failed `EnsureOrgProvisioned` reset of the initial quota is the constant `Gift`.

### KeyedLock
A call of `Acquire` has the goroutine's and the caller's steps: `Get` (get), `Locks` (the
goroutine's `Lock` returns), `Returns` or `Cancel` (the select, which may take either branch
when both are ready), `Unlock` and `Put` as separate steps. A fresh mutex is any one that
nobody refers to.

### UpstreamClient
`Allow`, `Limited`/`LimitFails`, `Answer`/`Refused`/`Fails`/`CancelSend`, `Retry`,
`CancelBackoff` follow `do`; the breaker's methods are operators. `consecFails` is counted
to the threshold, since only `>= threshold` reads it; `openedAt` with the cooldown is the
flag `cooled`. A call the breaker rejects changes nothing. The failure of `json.Marshal`
between limiter and loop is left out: every body is a struct or map of plain fields.

### Quota
One organisation, one process (the lock is in-process and the worker runs on the leader).
A call applies a set of member snapshots one by one: `Compute` takes the lock and reads
policies, tiers and grants, `Gate` reads the status, `Put` writes the token and gives the lock
back; the snapshot (tier, team, token) is the row as it was before the lock. Every handler that
ends in `applyMemberOverride` goes through these three. Two-statement handlers have two steps
(`RevokeGrant`/`RevokeMark`, `DecideApproval`/`AdvanceApproval`, `UpdateTier`/`WriteTier`,
`DeleteTier`/`SoftDeleteTier`, `recomputeOrgStatus`/`FlipStatus`). The worker is `Tick` to
`EndTick`. Abstractions: a grant is `over` or not and a policy `due` or not instead of a clock;
`observeMode` is a constant; policies are never deactivated; offboarding is left to `Members`;
`RotateKey` and `SetKeyIPWhitelist` appear by their effect on the cap (a new token, or the whole
token written back, without a limit); the balance behind a status change is `Escrow`'s.
History variables: `counted` (grants in the cap last written), `owed` (members whose dispatch
failed or was undone), `enders`, `undelivered`.

### Members
One organisation. A token is named by member and rotation number, which `CreateToken` uses to
adopt a token it finds; so `Find`, `Post`, `Locate`, `Reveal`, `Drop` are separate requests, each
of which may fail before or after it took effect, and `Save` is the transaction that records the
key. `handed` remembers which plaintext was returned to whom, `rev` counts the changes that are
to end sessions, `cut` the members for whom the bump failed. Over-approximated: imported members
have no password in the code, the model lets them log in.

### Provisioning
An access token is the number of the fetch that returned it, so "the stored token is the valid
one" can be said. `NodeOf` places handlers on replicas; `Free` is the lock of one replica.
`CreateUser` includes the client's retry: a lost answer followed by "already exists", or by a
lookup. `Outside` is the customer at the gateway (fetching a token, changing the preference).
`SetUserGroup` is one step (its GET and PUT are two requests in the code).

### Pricing
Extends `KeyedLock`, so that the steps of taking and cancelling a lock interleave with its use:
a call reads its row (`ConfigureDiscount`), takes the lock (`Acquire` and `KeyedLock`'s steps),
reads the whole option (`getOptionJSON`), writes it back (`writeOnce`), reads it again
(`orgRatiosMatch`), releases, and writes the row (`Finish`). An entry is a set of group and
rate; base ratios are constant. A call of `TryAcquire`, which has no caller in the repository
outside the lock's tests, stands for another user of the lock.

## 3. Runs

| Run | Shows |
|---|---|
| `settlement_late` | late and inverted rows, failed rounds, retention, two processes that both lead: rescan, watermark and cursor version count every row exactly once |
| `settlement_backfill` | association and backfill against the worker's and the drain's rounds, a crash, requeues |
| `settlement_pages` | after an outage longer than the overlap, up to four rows against a main window and a backfill window of two and a rescan of one: forward windows are bisected at the upper end and keep every row of a gate A organisation without the rescan's help (`PlatformRowsKept`), backfill windows are bisected at the lower end, and the queued backfill completes over a crash, failed reads and requeues. No row commits between two pages; the only caller is the worker, so rounds and slices take turns |
| `escrow_safe` | lost requests and a crash: window under the cap; reconciliation takes nothing the customer owns; without a fault bucket 1 and window agree whenever the lock is free |
| `escrow_chaos` | two recharges that split or are held whole, refunds that take held money first, refills; every delivery fault, a crash, hard stops, an uncleared gift: the books implement `EscrowLedger`, also where a later recharge or refill reads a window that a faulty request has altered, and an overfunded window is corrected in the end |
| `escrow_buckets` | the bucket loops implement the totals, oldest money first, no refund is stranded |
| `client` | the probe slot is never lost, the breaker recovers, calls return |
| `pricing` | discounts of two organisations in one option under the keyed lock, with cancelled waiters, a `TryAcquire`, lost answers: the table is exact, the lock implements `AtomicLock`, row and gateway agree unless the last change failed half-way or overlapped, every call ends |
| `quota_grants` | two requests (one passes by itself, one takes two reviews), two reviewers, revoking, expiry and key rotation, a failure or a crash: `GrantsCounted`, `ApprovalExactlyOnce`, `GrantEndsOnce` |
| `quota_caps` | status flips, hard stop, tiers, policies, settings, flags, whitelists: a stop reaches the caps (`StopReachesCaps`), and the caps settle on what the rows prescribe (`CapsConverge`) |
| `members` | two handlers, every operation, one fault: keys stay attributed, pointer and key table agree, sessions end with what they were issued for |
| `provisioning` | creation, association and first provisioning by three handlers on two replicas, credential refresh by the two handlers of one replica, two faults, no crash: every binding is a rightful one, one user per process and fault, one refresh per expiry and fault (`RefreshesPaid`), credentials heal |

`KeyedLock` by itself (`MutualExclusion`, `TypeOK`), `ClosedBelowThreshold` of the client and
`LedgerMatchesDetail` of the settlement are proved (section 4) and have no run of their own.

Claims of comments that the model refutes. They are not runs of their own; each is reproduced by
checking the formula alone with the named configuration, changed as said:

| Comment | The code | Formula, configuration |
|---|---|---|
| `service/settlement.go:286` every row counts once | offset pages shift when a row commits between two reads: a row is counted twice in one round | `ExactlyOnce`, `MCSettlement_pages` with `MaxDelay = 1`, under `Spec` |
| `service/settlement.go:29` a rescan cut off by its page limit goes on in the next round | pages come newest first and the next rescan starts later: the oldest of two late rows is never read | `NothingLost`, `MCSettlement_late` with `RescanMaxPages = 1`, `MaxDensity = 2` |
| `service/escrow.go:317` never below what the customer owns | the client repeats a timed-out SUBTRACT that had been applied | `ReconcileKeepsOwned`, `MCEscrow_safe` with `Delivery = {"twice"}` |
| `service/billing.go:405` a recomputation never ends a hard stop | it reads the status and writes later, without a condition | `HardStopSticks`, `MCEscrow_safe` with `Ops <- AllOps`, `MaxFaults = 0` |
| `service/settlement.go:287` advancing the id watermark is safe | a row with a small id and a late `created_at` lies below the watermark and is never read once the cursor lags by more than the overlap | `NothingLost`, `MCSettlement_late` with `MaxGap = 6` |
| `repo/backfill.go:138` a requeue never counts twice | after the retention purge it books old rows again | `ExactlyOnce`, `MCSettlement_backfill` with `Retention = 6`, `MaxTime = 10`, `MaxLog = 1` |
| `service/org.go:193` a failed enqueue is made up for by requeue | the requeue is refused: there is no job row | `FailedEnqueueRepairable` under `OperatorSpec`, `MCSettlement_pages` |
| `service/escrow.go:18` the lock prevents exceeding the cap | the client repeats a timed-out ADD that had been applied | `WindowWithinCap`, `MCEscrow_safe` with `Delivery = {"twice"}` |
| `service/escrow.go:317` never below what the customer owns | quota the platform never sold (an associated organisation that is recharged) is subtracted | `ReconcileKeepsOwned`, `MCEscrow_safe` with `Own = 1` |
| `service/escrow.go:377` usage before funding is excluded | usage booked after the baseline snapshot is not | `ReconcileKeepsOwned`, `MCEscrow_safe` with `Unbooked = 1` |
| `service/escrow.go:80` a failed ADD is made up for | reconciliation only alerts | `UnderfundHealed`, `MCEscrow_chaos` under `TickingSpec` |
| `service/escrow.go:23` bucket 1 stays below the cap | bucket 1 is cumulative | `BucketWithinCap`, `MCEscrow_safe` |
| `service/escrow.go:348` a correction takes at most 20% | a larger one is logged and carried out | `CorrectionIsSmall`, `MCEscrow_safe` |
| `service/billing.go:87` balance and available money agree | a refund is checked against a balance from which recent usage is not yet deducted | `RefundWithinUnspent`, `MCEscrow_safe` with `MaxFaults = 0` |
| `service/billing.go:26` the status follows the balance | a status computed from an older balance is written last | `StatusFollowsBalance`, `MCEscrow_safe` with `MaxFaults = 0` |
| `adapter/newapi/ratelimit.go:112` others wait for the probe's result | a call admitted earlier gives up in the limiter and frees another call's probe slot | `OneProbe`, `MCUpstreamClient` |
| `service/tier.go:211` the organisation's default tier is not deleted | `UpdateOrgSettings` sets `default_tier_id` and not `is_default`, which is all `DeleteTier` checks | `tier[dflt].alive`, `MCQuota_caps` with `MaxEdits = 2` under `Spec` |
| `service/member.go:752` a repeated rotation adopts its token | the token it would adopt may have a row of another rotation already | `NextKeyRecordable`, `MCMembers` with `MaxFaults = 0` |
| `service/quota.go:357` disabling ends the key at once | a rotation in progress hands out the next one | `DisabledKeyDead`, `MCMembers` with `MaxFaults = 0` |
| `repo/member.go:145` a restored member has no key | a rotation in progress writes into the deleted row | `RestoredWithoutKey`, `MCMembers` with `MaxFaults = 0` |
| `service/org.go:71` nothing half-made stays | a refused administrator account leaves the row | `NoHalfOrg`, `MCProvisioning` with `MaxFaults = 0` under `Spec` |
| `service/member.go:533` the override to 0 is safe | a recharge between binding and override is wiped | `OverrideSafe`, the same |
| `adapter/newapi/bootstrap.go:21` no active orphan | the user of the slower replica stays enabled | `NoActiveOrphan`, the same |
| `service/member.go:638` probing first weakens the race of refreshes | within one process it removes it; handlers of two replicas, whose locks are apart, both find the token expired by the probe and each fetches one, which ends the other's, possibly again and again | `RefreshesPaid`, `MCProvisioning` with `Does <- WorkOnBoth`, `MaxFaults = 0`, under `Spec` |
| `service/pricing.go:106` mirror and gateway always agree | two changes of one organisation that overlap leave them different | `AlwaysMatches`, `MCPricing` with `MaxFaults = 0` under `PricingSpec` |
| `adapter/newapi/options.go:161` the reconciliation reports it | entries only the gateway has are not compared | `DriftReported`, the same |

Seen while modelling, not formulas: a lost answer to the creation of a user, retried, is answered
"already exists" and leaves an active orphan; two failed requests and a name collision can disable
a stranger's user (`BindingSafe` counts the faults); nothing can re-enter the token of a door B
organisation, which messages tell the operator to do; `ReassertWalletOnly` does not refresh a
credential; two edits of a tier, or two per-group discounts, lose
one; offboarding bumps no epoch, so that an old session is valid again after a restore;
`findTokenByName` reads 100 tokens.

`RefreshesPaid` counts the fetches because they are numbered: the endless exchange of tokens between
two replicas has no cycle that TLC could close. `CredentialsHeal` therefore holds, and is checked,
for one refreshing replica; with two it is not claimed. The single retry after a refresh
(`member.go:710`) is no step of the model: it is another use of the token that the refresh returned.

Bounds. Settlement: one to four log rows, a clock of a few seconds with `Lag` 1 and `Overlap` 3 (1
in `settlement_pages`), delays up to the overlap: enough for a row to commit after the cursor passed
it, to leave the rescan's reach, and for two windows to share a second. Pages hold one row where
paging is the question. `MaxGap` bounds how far the cursor trails (the worker's interval; an outage
of three seconds in `settlement_pages`, so that a window has a second to be halved at and three rows
or more for two pages), `MaxDensity` how many rows share a second (the rescan has a page limit).
These runs switch deadlock checking off because the clock stops at `MaxTime`. `NothingLost` needs
`MaxGap <= Overlap`: a round in progress at the association whose cursor jumps farther loses the
boundary row of the gate B organisation (`NothingLost`, `MCSettlement_pages` under `Spec`). Where it
is checked, the rescan alone catches every row; `settlement_pages` therefore has a gap above the
overlap and speaks of gate A. Escrow: two handlers, which is what the lock distinguishes, plus the
settler; cap 3 with amounts 1 and 3 so that recharges fit, split and are held whole (in
`escrow_chaos` two transfers of 3 next to a gift of 1); one fault (a crash, a failed or misdelivered
request). Pricing and lock: three calls (one configures and opens, one configures, one tries), two
keys and two mutexes, two organisations, two writing handlers: one holds, one waits, one is
cancelled, and another organisation's entry is there to be lost. Client: three calls, threshold 2,
one retry, two outages: a call admitted before the breaker opened, a probe and a newcomer. Quota:
one member with a tier of its own, two handlers and the worker (members meet only in the lock and in
shared configuration), two grants, one edit of the configuration and one fault. Members: three
members (administrator, one opened, one imported), four tokens of which one is the customer's, four
calls: a rotation against any other operation with a login before and a validation after. Calls are
bounded, so the run may stop. Provisioning: two organisations, five users, two attempts at a name,
three turns (calls and outside events), two faults.

Fairness. `settlement_pages`: the worker's ticker and its steps come round again, each step that may
fail succeeds at some time (strong), and crashes are bounded. `escrow_chaos`: handlers finish
(weak), the reconciliation tick returns and is not prevented for ever by the lock or by failures
(strong; failures are bounded by `MaxFaults`), nothing is assumed of refills, settlement books
usage. `pricing`: calls proceed, and a waiter is served in the end (strong: Go's mutex hands over to
starving waiters). `quota_caps`: calls in progress go on, the worker ticks, periods turn and grants
run out (weak), a waiter gets the lock (strong). `provisioning`: calls go on and administrators keep
using every organisation (strong: the lock is free again and again); faults and outside events are
bounded. Client: timers fire, the limiter refills, requests are answered or time out, and the
workers keep calling (weak).

## 4. Proofs (TLAPS, for every value of the constants)

`EscrowProofs`, from `EscrowAssumption`:
- `TypeCorrect`, `BooksConserved`, `BooksRefinement` under any delivery fault. The inductive
  `BooksInv` adds to the types that each operation in progress carries what its transaction
  needs (`Carries`), the balance as a function of the totals, and
  released + held = recharged − refunded. A refund needs the last: it may take no more than
  is there because the check against the balance bounds it by released + held.
- `WindowCapped` assumes that a request is applied at most once (`Delivery ⊆ {"lost"}`;
  the table above shows it is needed). `WindowInv` says who is between reading the window
  and writing it holds the lock, and what such an operation carries still fits (`FitsCap`).
- `ReconcileSafe` assumes moreover `Own = 0` and `Unbooked = 0` (both are needed,
  by the table above). `WindowInv` relates usage, lag and spending and says
  that a target once computed stays at or above released − spent while members spend.
- `WindowMirrored` assumes `Own = 0` and `Unbooked = 0`, and nothing of `Delivery`: the property
  speaks of the time before the first fault. `MirrorInv`: between its commit and its request the
  holder of the lock owes the window exactly its amount, nobody else owes anything (`Owes`), and
  the ledger lags behind the window (`Lagged`), so that a reconciliation never gets to subtract.

`EscrowBucketsProofs`, from `BucketsAssumption`, for every amount, room and number of buckets:
`BucketsTyped`, `RefundsPaid`, `ReleasesOldestFirst`, `TotalsImplemented`, `RefillExact`.
`BucketsInv` says that the first bucket is the active one, and the only one (`Shaped`), and that
the buckets hold what was paid in and not paid back; a refund needs the latter, since its loop
leaves for bucket 1 what the held money does not cover. The loops are recursive functions of the
number of passes. That such a function exists is shown once (`RunExists`); what it computes is shown
by a loop invariant (`Merging`, `Reducing`: what is taken so far left the held money, buckets are
used up in order, and k passes use up k rows unless nothing remains) and a least counterexample
(`LeastNat`, `Upto`), which gives `MergeLoopIs` and `ReduceLoopIs`: a loop takes exactly the
smaller of what it may take and what is held.

`PricingProofs`, the lock, from `LockAssumption`: `LockTyped`, `LockRefsExact`, `LockExclusive`,
`LockRefinement`. `LockInv`: two calls for a key use one mutex (`Refers`), hence a mutex in
use is never removed, hence the counter is the number of users (`Counted`) and no mutex has
two keys (`OneKey`); the owner of a mutex is the call in an owning phase (`Owned`).

`UpstreamClientProofs`, from `ClientAssumption`: `ClientTyped`, `ProbeNeverLost`,
`ClosedMeansFewFailures`; the three are inductive together.

`PricingProofs`, the discounts, from `LockAssumption` and `PricingAssumption`:
`PricingUsesLock` shows that the composition is a behaviour of `KeyedLock`, so that the lock's
theorems hold of it (`PricingLockAtomic`, `PricingRefsExact`) instead of being proved again.
`DiscountsMirrored` needs more than the lock's exclusion: `PricingInv` says that a call between
reading the option and releasing the lock holds it (`Working`), that the copy it is about to write
back is what the option still is (`Unmoved`), that overlapping changes of one organisation know
of each other (`Apart`), that a change that is through and ran alone is at the gateway
(`Reached`), and that until a change has been sent row and gateway agree (`Mirrored`).

`MembersProofs`, from `MembersAssumption`: `MembersTyped`, `KeysStayAttributed`,
`PointersCurrent`, `SessionsEnd`. `MembersInv` adds to the types (`Typed`) that a row never
inserted is blank and a member is active only when its opening is complete (`RowsOK`), that the
call that inserted a row is the only one to give it its first key (`Owns`, `OwnersDiffer`,
`CallsOK`), and that a session, or a login about to become one, has an epoch that is past or the
password, role and status of that epoch, unless the bump is on its way or failed (`SessionsOK`).

`ProvisioningProofs`, from `ProvisioningAssumption`, for any number of replicas and faults:
`ProvisioningTyped`, `BindingsSafe`. `ProvInv` adds `CallsOK`: every step of a call has the
organisation and user it needs, of the right door, and a user it is about to log in to was made
for this organisation, or two requests have failed (`Relies`). No step undoes what calls rely on
(`Grows`): this is what makes the races of replicas harmless. `OneUserPerProcess` counts: `PoolInv`
says that a call that still looks for a name found no credential under the lock of its process,
so that every user made there before is paid for by a fault, and that one that has made a user
holds the lock until the user is bound, another replica was first, or a request has failed.

`QuotaProofs`, from `QuotaAssumption`, for any number of members, handlers, tiers, grants, edits
and faults:
- `GrantsEndOnce`, `ApprovalsExactlyOnce`. `CoreInv` adds to the shape of rows and calls (`Base`)
  that at most one handler dispatches a request, that it does so after the state became final,
  and that a grant in force has no ender (`ApprInv`, `EndsInv`).
- `StopsReachCaps`. The status changes outside the lock, so a cap above 0 may be about to be
  written when the organisation stops. `StopInv`: such a member is queued again in some call, or
  is owed a cap; a member with quota is queued, in work or owed one.
- `GrantsStayCounted` assumes that members start with a token (`Opened`). What a call is about to
  write counts the grants in force or will be written again (`CountInv`). Rows are read before
  the lock: a revocation that read the row before the member's first token existed skips the
  member (`quota.go` returns without a token), and would leave the first token's cap as it is.
  `KeysInv` says that this cannot happen to a member that had a token.
- `QuotaTyped`. `LimitsOK`: limits are integers or missing, also in the tier row that a handler is
  about to write back; `CapsOK`: what is about to be written is not negative. The code checks the
  sign of no limit, so this rests on the clamp and on the sum of the deltas being an integer, which
  is shown for the library's fold by a least counterexample (`SumInt`).

`SettlementProofs`, from `ConstantsAssumption`:
- `LedgerAgrees` (for `Retention = 0`), `ChargesBooked`. The inductive part is that whatever a
  round or a slice has read is a bag of rows (`Reading`), which enters ledger, detail and
  deduction in one transaction. These two do not depend on which rows a window returns.
- `SettlementTyped`. `TypeInv` says of every phase which window is being read and where the
  bisections end: above the start of the window and not above its end. A bisection is a recursive
  function, and what it returns is shown by a least counterexample (`LeastNat`): a search whose
  rank falls with every step exists, ends in the set it looks for, and stays where every step
  stays (`SearchExists`, `Search`, `SearchInside`; then `UntilSubSolves`, `UntilSubAhead`,
  `LowerBoundInside`, `TopInside`).
- `CountedExactlyOnce`. `OnceInv` says of a round that its rescan has read visible rows below the
  cursor that have no detail row, its main window rows above both watermarks, each at most once
  (`RoundsOnce`); of a slice the same for its window (`SliceOnce`); of the ledger that a row is
  in it once, with a detail row while the rescan can reach it (`CountedOnce`); and that a round
  which can still pass the version check holds no row of the ledger once its rescan is over (`Pending`). Hypotheses:
  `PagesFrozen` (no row commits into a window while its pages are read, or one page is all of it),
  `BackfillGuarded` (backfill runs in the process of the rounds and nothing is purged, or there
  is nothing to backfill), `RescanRetained` (retention outlives the rescan). The table of section
  3 shows that the first two are needed: pages that shift, a requeue after the purge. All runs
  satisfy them.
- `NoRowLost`. Gate A: a row that leaves the reach of the next rescan was visible, and in the
  rescan window, when the round that moves the cursor began (`Leaves`, `Scans`), so that the round
  holds it or the ledger has it by the time it commits (`Carried`). The argument never uses the
  main window: the rescan alone catches every row. Gate B: a row behind the boundary is in the
  ledger, in reach of a rescan, held by the slice, or in a window still to be read (`Safe`,
  `ToBackfill`, `SliceFull`), because the bisection of a window ends in one that its pages cover.
  Hypotheses, which the runs that check it satisfy: `GapCovered` (a round moves the cursor by the overlap at
  most; section 3 shows what happens otherwise), `DelayCovered` (a row is visible within lag and
  overlap), `RescanFits` and `BackfillFits` (no page limit cuts a window off). `BackfillFits` asks
  for delays below the lag unless everything fits: a late row that joins a full window pushes
  the oldest row of it past the last page.

Model-checked only: every liveness property (fairness is outside the prover), and two safety
properties. `PlatformRowsKept` is what the main window does by itself, which no theorem uses; it needs
that a second holds no more rows than one round can read (`MaxDensity <= MaxPages * PageSize`), since the
bisection stops at two seconds. `RefreshesPaid` needs that one process refreshes.

## 5. Not modelled, and the plan

Not modelled, because nothing in it takes more than one statement or because nobody calls it:
- idempotency keys: `BeginIdempotent` and its siblings have no caller outside the tests;
- tickets, notifications, teams' own rows, usage reports (SQL aggregation), the attempt limiter
  of the login (a counter in memory), the permission table;
- crypto, the HTTP layer (decoding, routing, formatting) and start-up: their concurrency is the
  interleaving of the modules' calls;
- `ReconcileBilling`, `ReconcileBalanceLedger`, `ReconcileBackfillLedger`: they read and alert;
  what they compare is a property of `Settlement` and `Escrow`.

Left out of modelled components: model soft-limit alerts; approvals dated by an explicit expiry;
the lag of the gateway's option cache (external, nothing bounds it); the lost update between
`SetUserGroup`'s GET and PUT; `SetGroupGroupRatio` and `DeleteGroupGroupRatio` (no callers);
the arithmetic of the token bucket. Several organisations share no escrow or quota state, so one
is modelled there. Leadership is an environment switch: two leaders are two processes in
`settlement_late`.

Plan:
1. The two safety properties that are only model-checked, `PlatformRowsKept` and `RefreshesPaid`; every
   other one of section 3 is proved. What the liveness properties leave to show is the
   safety part of their argument: that no step undoes what a repair has gained, as action
   properties of `Escrow`, `Quota` and `Provisioning`.
2. The hazards that have no property yet, each with its reason in `PROJECT.json`.
