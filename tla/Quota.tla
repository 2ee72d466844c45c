-------------------------------- MODULE Quota --------------------------------
(***************************************************************************)
(* The quota of the members of one organisation (service/quota.go,         *)
(* reset.go, worker_ops.go, approval.go, tier.go, admin_extra.go and the   *)
(* repo files behind them).                                                *)
(*                                                                         *)
(* Tiers, policies and temporary grants determine a cap for every member,  *)
(* which applyMemberOverride writes into remain_quota of the member's      *)
(* token at the gateway.  Request handlers and the quota worker call it    *)
(* concurrently; it computes and writes under one lock per organisation,   *)
(* but from a member row read before the lock was taken, and the status    *)
(* of the organisation changes outside the lock.                           *)
(*                                                                         *)
(* A limit or delta is a small integer.  Clock readings are left out: a    *)
(* grant is over or not, a policy is due in its period or not.  A token is *)
(* a number that grows with each replacement, 0 = none.                    *)
(***************************************************************************)
EXTENDS Integers, Sequences, FiniteSets, Functions, FiniteSetsExt

CONSTANTS
  Members, Teams, Tiers,
  TeamTier,        \* TeamTier[x]: default_tier_id of team x
  StartTier,       \* tier rows at the start
  StartRows,       \* populations to start with: member rows
  BaseTier,        \* the base tier that CreateOrg makes the default
  Handlers,        \* request handlers
  Worker,          \* the quota worker, run by the leader only
  Ops,             \* Ops[h]: operations that handler h performs
  Deltas,          \* adjustments: quota_add if positive, else quota_sub
  Limits,          \* limits of policies and tiers, which nobody checks for a sign
  Unset,           \* NULL: no limit given
  Requests,        \* Requests[a]: applicant, amount, duration, model asked for
  Rules,           \* approval rules: autoMax, autoDays, l1Max
  DefaultRules,    \* the rules when the organisation's cannot be read
  HardStopEnabled, \* hard_stop_enabled at the start
  ObserveMode,     \* observeMode
  MaxGrants, MaxPolicies, MaxTokens,   \* bounds: rows and tokens created
  MaxEdits,        \* bound: changes of configuration, status or tokens
  MaxFaults        \* bound: failed requests and crashes

Periods == {"daily", "weekly", "monthly"}
None == "none"
Org == "org"
Unlimited == -2
Nobody == "nobody"
Callers == Handlers \cup {Worker}
Scopes == {Org} \cup Teams \cup Members
Kinds == {"quota", "account_ttl", "model_add"}
ApprovalStates ==
  {"none", "auto_approved", "pending", "l1_approved", "approved", "rejected"}
Approvals == DOMAIN Requests

\* Member rows.
Rows == [tier : Tiers \cup {None}, team : Teams \cup {None}, tok : 0..MaxTokens, expired : BOOLEAN]

\* The limits of a tier.
TierLimits == [Periods -> Int \cup {Unset}]

ASSUME QuotaAssumption ==
  /\ IsFiniteSet(Members) /\ IsFiniteSet(Handlers) /\ Worker \notin Handlers
  /\ Nobody \notin Callers /\ None \notin Teams \cup Tiers \cup Members \cup Approvals
  /\ Deltas \subseteq Int \ {0} /\ Limits \subseteq Int /\ Unset \notin Int /\ BaseTier \in Tiers
  /\ HardStopEnabled \in BOOLEAN /\ ObserveMode \in BOOLEAN
  /\ {MaxGrants, MaxPolicies, MaxTokens, MaxEdits, MaxFaults} \subseteq Nat
  /\ StartRows \subseteq [Members -> Rows]
  /\ TeamTier \in [Teams -> Tiers \cup {None}]
  /\ DOMAIN StartTier = Tiers
  /\ \A t \in Tiers : /\ DOMAIN StartTier[t] = {"made", "alive", "dflt", "models", "limit"}
                      /\ StartTier[t].limit \in TierLimits
  /\ \A a \in Approvals : Requests[a].m \in Members /\ Requests[a].amount \in Int

VARIABLES
  row,       \* member rows: tier, team, token id, expired
  tier,      \* tier rows: made, alive, is_default, models, limit of each period
  dflt,      \* organization.default_tier_id
  policies,  \* quota_policy rows in id order
  rules,     \* approval rules of the organisation
  status,    \* organization.status
  hardstop,  \* hard_stop_enabled
  grants,    \* member_grant rows
  appr,      \* approval rows: state, is_level2, whether a new model is asked for
  up,        \* the member's token at the gateway: id, remain_quota
  lock,      \* holder of quota-override:org:N
  call,      \* call in progress of every caller
  edits, faults,
  counted,   \* history: grants in the last cap written for each member
  owed,      \* history: members whose last dispatch failed or was undone
  enders,    \* history: who was told to have ended each grant
  undelivered \* history: approved requests whose dispatch failed

config == <<tier, dflt, policies, rules, status, hardstop>>
history == <<counted, owed, enders, undelivered>>
vars == <<row, config, grants, appr, up, lock, call, edits, faults, history>>

NoSnap == [m |-> None, tier |-> None, team |-> None, tok |-> 0]

\* A call: phase, and the phase to resume in when todo, the set of member
\* snapshots still to be applied, is empty; the snapshot being applied with
\* the value computed and the grants counted in it; the request, grant, tier
\* or policy it works on and the state read from it; the verdict; expired
\* grants and due policies still to be processed; the periods whose boundary
\* has not passed since the tick began; the limits about to be written.
NoCall == [ph |-> "idle", then |-> "idle", todo |-> {}, cur |-> NoSnap, val |-> 0,
           cnt |-> {}, key |-> None, num |-> 0, seen |-> None, ok |-> FALSE,
           gs |-> {}, ps |-> {}, per |-> {}, lim |-> <<>>]

Snapshot(m) == [m |-> m, tier |-> row[m].tier, team |-> row[m].team, tok |-> row[m].tok]

Init ==
  /\ row \in StartRows /\ tier = StartTier /\ dflt = BaseTier
  /\ policies = <<[scope |-> Org, period |-> "monthly", limit |-> 0, due |-> TRUE]>>
  /\ rules \in Rules /\ status = "active" /\ hardstop = HardStopEnabled
  /\ grants = <<>>
  /\ appr = [a \in Approvals |-> [state |-> "none", level2 |-> FALSE, new |-> FALSE]]
  /\ up = [m \in Members |-> [tok |-> row[m].tok, cap |-> Unlimited]]
  /\ lock = Nobody /\ call = [c \in Callers |-> NoCall]
  /\ edits = 0 /\ faults = 0
  /\ counted = [m \in Members |-> {}] /\ owed = Members
  /\ enders = [g \in 1..MaxGrants |-> {}] /\ undelivered = {}

-----------------------------------------------------------------------------
(* The cap of a member.                                                    *)

First(S) == CHOOSE i \in S : \A j \in S : i <= j
PoliciesOf(s) == {i \in DOMAIN policies : policies[i].scope = s}

\* The organisation's period: its first policy, active or not.
orgPeriod ==
  IF PoliciesOf(Org) = {} THEN "monthly" ELSE policies[First(PoliciesOf(Org))].period

\* A limit set for the member, else for the team, whatever its period.
explicitOverride(m, x) ==
  LET mine == PoliciesOf(m) theirs == PoliciesOf(x) IN
  CASE mine # {} -> policies[First(mine)].limit
    [] mine = {} /\ theirs # {} -> policies[First(theirs)].limit
    [] OTHER -> Unset

\* The limit for the period, else the first of monthly, weekly, daily.
tierPeriodLimit(t, p) ==
  LET order == <<p, "monthly", "weekly", "daily">>
      given == {i \in DOMAIN order : tier[t].limit[order[i]] # Unset}
  IN IF given = {} THEN Unset ELSE tier[t].limit[order[First(given)]]

tierOf(s) ==
  CASE s.tier # None -> s.tier
    [] s.tier = None /\ s.team # None /\ TeamTier[s.team] # None -> TeamTier[s.team]
    [] OTHER -> dflt

\* Unset is the error: no tier, a deleted one, or one without limits.
resolveBaseQuota(s) ==
  LET lim == explicitOverride(s.m, s.team) t == tierOf(s) IN
  CASE lim # Unset -> lim
    [] lim = Unset /\ t # None /\ tier[t].alive -> tierPeriodLimit(t, orgPeriod)
    [] OTHER -> Unset

ListActiveQuotaGrants(m) ==
  {g \in DOMAIN grants : grants[g].m = m /\ grants[g].kind = "quota" /\ grants[g].st = "active"}

Clamp(v) == IF v < 0 THEN 0 ELSE v

computeOverride(s) ==
  Clamp(resolveBaseQuota(s)
        + SumFunctionOnSet([g \in DOMAIN grants |-> grants[g].delta], ListActiveQuotaGrants(s.m)))

gateByOrgStatus(v) ==
  IF ~ObserveMode /\ status = "stopped" /\ hardstop THEN 0 ELSE v

-----------------------------------------------------------------------------
(* applyMemberOverride, one member at a time, for every caller.            *)

\* The loop over the members goes on; a handler's call ends with its loop.
After(r) ==
  CASE r.todo # {} -> [r EXCEPT !.ph = "apply", !.cur = NoSnap, !.val = 0, !.cnt = {}]
    [] r.todo = {} /\ r.then = "idle" -> NoCall
    [] OTHER -> [r EXCEPT !.ph = r.then, !.cur = NoSnap, !.val = 0, !.cnt = {}]

\* Call c applies the members S next, then resumes in phase ph.
Apply(c, S, r, ph) == call' = [call EXCEPT ![c] = After([r EXCEPT !.todo = S, !.then = ph])]

\* Mutant: the lock is not waited for.
Free_Ignored(c) == TRUE

Free(c) == lock = Nobody

\* The lock is taken, then policies, tiers and grants are read.
Compute(c) ==
  /\ call[c].ph = "apply" /\ Free(c)
  /\ \E s \in call[c].todo :
       LET rest == [call[c] EXCEPT !.todo = @ \ {s}] IN
       \/ /\ resolveBaseQuota(s) = Unset
          /\ owed' = owed \cup {s.m}
          /\ call' = [call EXCEPT ![c] = After(rest)]
          /\ UNCHANGED lock
       \/ /\ resolveBaseQuota(s) # Unset
          /\ lock' = c
          /\ call' = [call EXCEPT ![c] = [rest EXCEPT !.ph = "gate", !.cur = s,
                                            !.val = computeOverride(s),
                                            !.cnt = ListActiveQuotaGrants(s.m)]]
          /\ UNCHANGED owed
  /\ UNCHANGED <<row, config, grants, appr, up, edits, faults, counted, enders, undelivered>>

\* The status is read; nothing is written in observe mode or without token.
Gate(c) ==
  /\ call[c].ph = "gate"
  /\ \/ /\ ObserveMode \/ call[c].cur.tok = 0
        /\ call' = [call EXCEPT ![c] = After(@)]
        /\ lock' = Nobody /\ UNCHANGED owed
     \/ /\ ~ObserveMode /\ call[c].cur.tok # 0
        /\ call' = [call EXCEPT ![c].ph = "put", ![c].val = gateByOrgStatus(@)]
        /\ owed' = owed \ {call[c].cur.m} /\ UNCHANGED lock
  /\ UNCHANGED <<row, config, grants, appr, up, edits, faults, counted, enders, undelivered>>

\* withOrgCred(UpdateToken): refused for a hard-stopped organisation, and
\* fails on a token that was replaced or deleted since the row was read.
Put(c) ==
  LET s == call[c].cur IN
  /\ call[c].ph = "put"
  /\ \/ /\ status # "hard_stopped" /\ up[s.m].tok = s.tok
        /\ up' = [up EXCEPT ![s.m].cap = call[c].val]
        /\ counted' = [counted EXCEPT ![s.m] = call[c].cnt]
        /\ UNCHANGED <<faults, owed>>
     \/ /\ status = "hard_stopped" \/ up[s.m].tok # s.tok \/ faults < MaxFaults
        /\ faults' = IF status # "hard_stopped" /\ up[s.m].tok = s.tok THEN faults + 1 ELSE faults
        /\ owed' = owed \cup {s.m} /\ UNCHANGED <<up, counted>>
  /\ call' = [call EXCEPT ![c] = After(@)]
  /\ lock' = Nobody
  /\ UNCHANGED <<row, config, grants, appr, edits, enders, undelivered>>

-----------------------------------------------------------------------------
(* Grants.                                                                 *)

May(h, op) == call[h].ph = "idle" /\ op \in Ops[h]

CreateGrant(m, kind, d, from) ==
  /\ Len(grants) < MaxGrants
  /\ grants' = Append(grants, [m |-> m, kind |-> kind, delta |-> d, from |-> from,
                               st |-> "active", over |-> FALSE])

\* Mutant: the update has no status predicate.
MarkGrantReverted_Blind(g, st, who) ==
  /\ grants' = [grants EXCEPT ![g].st = st]
  /\ enders' = [enders EXCEPT ![g] = @ \cup {who}]

\* UPDATE ... WHERE status = 'active': TRUE for the caller that ended it.
MarkGrantReverted(g, st, who) ==
  IF grants[g].st = "active"
  THEN /\ grants' = [grants EXCEPT ![g].st = st]
       /\ enders' = [enders EXCEPT ![g] = @ \cup {who}]
  ELSE UNCHANGED <<grants, enders>>

Marked(g) == grants[g].st = "active"

AdjustQuota(h, m, d) ==
  /\ May(h, "adjust") /\ CreateGrant(m, "quota", d, None)
  /\ Apply(h, {Snapshot(m)}, NoCall, "idle")
  /\ UNCHANGED <<row, config, appr, up, lock, edits, faults, history>>

\* account_ttl takes effect when it expires; model_add is only recorded.
SetTempPermission(h, m, kind) ==
  /\ May(h, "temp") /\ kind \in {"account_ttl", "model_add"} /\ CreateGrant(m, kind, 0, None)
  /\ UNCHANGED <<row, config, appr, up, lock, call, edits, faults, history>>

\* The grant and the member are read; the grant must be active.
RevokeGrant(h, g) ==
  /\ May(h, "revoke") /\ g \in DOMAIN grants /\ grants[g].st = "active"
  /\ call' = [call EXCEPT ![h] = [NoCall EXCEPT !.ph = "revoke", !.num = g,
                                    !.cur = Snapshot(grants[g].m)]]
  /\ UNCHANGED <<row, config, grants, appr, up, lock, edits, faults, history>>

RevokeMark(h) ==
  LET g == call[h].num IN
  /\ call[h].ph = "revoke"
  /\ MarkGrantReverted(g, "revoked", "revoke")
  /\ Apply(h, IF Marked(g) /\ grants[g].kind = "quota" THEN {call[h].cur} ELSE {}, NoCall, "idle")
  /\ UNCHANGED <<row, config, appr, up, lock, edits, faults, counted, owed, undelivered>>

-----------------------------------------------------------------------------
(* Approvals.                                                              *)

\* A model of the member's own tier; any, without a tier or without a list.
memberHasModel(m, x) ==
  LET t == row[m].tier IN t = None \/ ~tier[t].alive \/ tier[t].models = {} \/ x \in tier[t].models

\* A date counts the days until then; a request names one of the others.
durationDays(d) == CASE d = "3d" -> 3 [] d = "week" -> 7 [] OTHER -> 1

\* The rules of the organisation, or the default ones when the read fails.
GetApprovalRules(r) ==
  \/ r = rules /\ UNCHANGED faults
  \/ r = DefaultRules /\ faults < MaxFaults /\ faults' = faults + 1

Route(a, r) ==
  LET q == Requests[a]
      new == q.model # None /\ ~memberHasModel(q.m, q.model)
      auto == q.amount <= r.autoMax /\ durationDays(q.dur) <= r.autoDays
  IN [state |-> IF ~new /\ auto THEN "auto_approved" ELSE "pending",
      level2 |-> new \/ (~auto /\ q.amount > r.l1Max), new |-> new]

Dispatching(h, a) ==
  call' = [call EXCEPT ![h] = [NoCall EXCEPT !.ph = "dispatch", !.key = a]]

CreateApproval(a, e) == appr' = [appr EXCEPT ![a] = e]

SubmitApproval(h, a, r) ==
  /\ May(h, "submit") /\ appr[a].state = "none"
  /\ GetApprovalRules(r) /\ CreateApproval(a, Route(a, r))
  /\ IF Route(a, r).state = "auto_approved" THEN Dispatching(h, a) ELSE UNCHANGED call
  /\ UNCHANGED <<row, config, grants, up, lock, edits, history>>

\* The state is read; a team leader decides first reviews of the own team
\* only, an organisation administrator decides both.
DecideApproval(h, a, role, yes) ==
  /\ May(h, "decide")
  /\ appr[a].state = "pending" \/ (appr[a].state = "l1_approved" /\ role = "org_admin")
  /\ call' = [call EXCEPT ![h] = [NoCall EXCEPT !.ph = "decide", !.key = a,
                                    !.seen = appr[a].state, !.ok = yes]]
  /\ UNCHANGED <<row, config, grants, appr, up, lock, edits, faults, history>>

Decision(h) ==
  LET a == call[h].key IN
  CASE ~call[h].ok -> "rejected"
    [] call[h].ok /\ call[h].seen = "pending" /\ appr[a].level2 -> "l1_approved"
    [] OTHER -> "approved"

\* Mutant: the update has no state predicate.
Advanced_Always(h) == TRUE

\* UPDATE ... WHERE state = fromState.
Advanced(h) == appr[call[h].key].state = call[h].seen

AdvanceApproval(h) ==
  LET a == call[h].key IN
  /\ call[h].ph = "decide"
  /\ IF Advanced(h)
     THEN /\ appr' = [appr EXCEPT ![a].state = Decision(h)]
          /\ IF Decision(h) = "approved" THEN Dispatching(h, a)
             ELSE call' = [call EXCEPT ![h] = NoCall]
     ELSE call' = [call EXCEPT ![h] = NoCall] /\ UNCHANGED appr
  /\ UNCHANGED <<row, config, grants, up, lock, edits, faults, history>>

\* A failure leaves the request approved without a grant: nothing retries.
dispatchApproval(h) ==
  LET a == call[h].key q == Requests[a] new == appr[a].new IN
  /\ call[h].ph = "dispatch"
  /\ \/ /\ CreateGrant(q.m, IF new THEN "model_add" ELSE "quota", IF new THEN 0 ELSE q.amount, a)
        /\ Apply(h, IF ~new /\ row[q.m].tok # 0 THEN {Snapshot(q.m)} ELSE {}, NoCall, "idle")
        /\ UNCHANGED <<faults, undelivered>>
     \/ /\ faults < MaxFaults /\ faults' = faults + 1
        /\ undelivered' = undelivered \cup {a}
        /\ call' = [call EXCEPT ![h] = NoCall] /\ UNCHANGED grants
  /\ UNCHANGED <<row, config, appr, up, lock, edits, counted, owed, enders>>

-----------------------------------------------------------------------------
(* Configuration.                                                          *)

Edit(h, op) == May(h, op) /\ edits < MaxEdits /\ edits' = edits + 1

SetApprovalRules(h, r) ==
  /\ Edit(h, "rules") /\ rules' = r
  /\ UNCHANGED <<row, tier, dflt, policies, status, hardstop, grants, appr, up, lock, call,
                 faults, history>>

\* The row is written, then applied from the row read before with the new
\* team and tier put in.
UpdateMember(h, m, x, t) ==
  /\ Edit(h, "member") /\ t \in {None} \cup {u \in Tiers : tier[u].alive}
  /\ row' = [row EXCEPT ![m].team = IF x # None THEN x ELSE @, ![m].tier = IF t # None THEN t ELSE @]
  /\ Apply(h, IF x = None /\ t = None THEN {}
              ELSE {[Snapshot(m) EXCEPT !.team = row'[m].team, !.tier = row'[m].tier]}, NoCall, "idle")
  /\ UNCHANGED <<config, grants, appr, up, lock, faults, history>>

ListMembersByTier(t) == {m \in Members : row[m].tier = t /\ row[m].tok # 0}

CreateTier(h, t, p, lim) ==
  /\ Edit(h, "newtier") /\ ~tier[t].made
  /\ tier' = [tier EXCEPT ![t].made = TRUE, ![t].alive = TRUE, ![t].limit[p] = lim]
  /\ UNCHANGED <<row, dflt, policies, rules, status, hardstop, grants, appr, up, lock, call,
                 faults, history>>

\* The row is read, one limit is changed,
UpdateTier(h, t, p, lim) ==
  /\ Edit(h, "tier") /\ tier[t].alive
  /\ call' = [call EXCEPT ![h] = [NoCall EXCEPT !.ph = "tier", !.key = t,
                                    !.lim = [tier[t].limit EXCEPT ![p] = lim]]]
  /\ UNCHANGED <<row, config, grants, appr, up, lock, faults, history>>

\* and the whole row is written, unless the tier is gone.  Members that inherit
\* the tier from team or organisation are not applied.
WriteTier(h) ==
  LET t == call[h].key IN
  /\ call[h].ph = "tier"
  /\ \/ /\ tier[t].alive /\ tier' = [tier EXCEPT ![t].limit = call[h].lim]
        /\ Apply(h, {Snapshot(m) : m \in ListMembersByTier(t)}, NoCall, "idle")
     \/ ~tier[t].alive /\ call' = [call EXCEPT ![h] = NoCall] /\ UNCHANGED tier
  /\ UNCHANGED <<row, dflt, policies, rules, status, hardstop, grants, appr, up, lock, edits,
                 faults, history>>

CountMembersUsingTier(t) == Cardinality({m \in Members : row[m].tier = t})

\* is_default and the members are checked ...
DeleteTier(h, t) ==
  /\ May(h, "deltier") /\ tier[t].alive /\ ~tier[t].dflt
  /\ CountMembersUsingTier(t) = 0
  /\ call' = [call EXCEPT ![h] = [NoCall EXCEPT !.ph = "deltier", !.key = t]]
  /\ UNCHANGED <<row, config, grants, appr, up, lock, edits, faults, history>>

\* ... and the row is deleted later.
SoftDeleteTier(h) ==
  /\ call[h].ph = "deltier"
  /\ tier' = [tier EXCEPT ![call[h].key].alive = FALSE]
  /\ call' = [call EXCEPT ![h] = NoCall]
  /\ UNCHANGED <<row, dflt, policies, rules, status, hardstop, grants, appr, up, lock, edits,
                 faults, history>>

SetDefaultTier(h, t) ==
  /\ Edit(h, "dflt") /\ tier[t].alive
  /\ tier' = [u \in Tiers |-> [tier[u] EXCEPT !.dflt = (u = t)]] /\ dflt' = t
  /\ UNCHANGED <<row, policies, rules, status, hardstop, grants, appr, up, lock, call, faults,
                 history>>

\* Sets default_tier_id and leaves is_default as it was.
UpdateOrgSettings(h, t) ==
  /\ Edit(h, "settings") /\ tier[t].alive /\ dflt' = t
  /\ UNCHANGED <<row, tier, policies, rules, status, hardstop, grants, appr, up, lock, call,
                 faults, history>>

\* One row per scope and period; an update keeps the row's id.
UpsertQuotaPolicy(s, p, lim) ==
  LET at == {i \in DOMAIN policies : policies[i].scope = s /\ policies[i].period = p} IN
  IF at # {} THEN policies' = [policies EXCEPT ![First(at)].limit = lim]
  ELSE /\ Len(policies) < MaxPolicies
       /\ policies' = Append(policies, [scope |-> s, period |-> p, limit |-> lim, due |-> TRUE])

\* The caps of the scope follow at the next reset.
SetQuotaPolicy(h, s, p, lim) ==
  /\ Edit(h, "policy") /\ UpsertQuotaPolicy(s, p, lim)
  /\ UNCHANGED <<row, tier, dflt, rules, status, hardstop, grants, appr, up, lock, call, faults,
                 history>>

-----------------------------------------------------------------------------
(* Status of the organisation.                                             *)

ListActiveOverridableMembers == {m \in Members : row[m].tok # 0}

\* The target follows from a balance read before, which Escrow models.
recomputeOrgStatus(h, target) ==
  /\ Edit(h, "status") /\ status # "hard_stopped" /\ status # target
  /\ call' = [call EXCEPT ![h] = [NoCall EXCEPT !.ph = "flip", !.key = target, !.seen = status]]
  /\ UNCHANGED <<row, config, grants, appr, up, lock, faults, history>>

\* hard_stop_enabled.
GetOrgBillingFlags == hardstop

\* Mutant: the caps are converged when service resumes only.
Converges_OnResume(h) == hardstop /\ call[h].seen = "stopped"

Converges(h) == GetOrgBillingFlags /\ "stopped" \in {call[h].key, call[h].seen}

\* UpdateOrgStatus, then convergeOrgQuotas when "stopped" is entered or left.
\* A failed read of the flags or of the members skips the convergence.
FlipStatus(h) ==
  LET ms == ListActiveOverridableMembers IN
  /\ call[h].ph = "flip" /\ status' = call[h].key
  /\ \/ /\ Apply(h, IF Converges(h) THEN {Snapshot(m) : m \in ms} ELSE {}, NoCall, "idle")
        /\ UNCHANGED <<faults, owed>>
     \/ /\ faults < MaxFaults /\ faults' = faults + 1
        /\ Converges(h) /\ owed' = owed \cup ms
        /\ call' = [call EXCEPT ![h] = NoCall]
  /\ UNCHANGED <<row, tier, dflt, policies, rules, hardstop, grants, appr, up, lock, edits,
                 counted, enders, undelivered>>

HardStopOrg(h, stop) ==
  /\ Edit(h, "hardstop") /\ stop # (status = "hard_stopped")
  /\ status' = IF stop THEN "hard_stopped" ELSE "active"
  /\ UNCHANGED <<row, tier, dflt, policies, rules, hardstop, grants, appr, up, lock, call,
                 faults, history>>

\* The flag takes effect with the next dispatch.
SetBillingSettings(h) ==
  /\ Edit(h, "flags") /\ hardstop' = ~hardstop /\ owed' = Members
  /\ UNCHANGED <<row, tier, dflt, policies, rules, status, grants, appr, up, lock, call, faults,
                 counted, enders, undelivered>>

-----------------------------------------------------------------------------
(* Tokens: Members has the steps; here is what they do to the cap.         *)

\* RotateKey and CreateMemberToken make a new token without a limit.
RotateKey(h, m) ==
  /\ Edit(h, "rotate") /\ up[m].tok < MaxTokens /\ ~row[m].expired
  /\ up' = [up EXCEPT ![m] = [tok |-> @.tok + 1, cap |-> Unlimited]]
  /\ row' = [row EXCEPT ![m].tok = up[m].tok + 1]
  /\ owed' = owed \cup {m}
  /\ UNCHANGED <<config, grants, appr, lock, call, faults, counted, enders, undelivered>>

\* The whole token is written back, with unlimited_quota set.
SetKeyIPWhitelist(h, m) ==
  /\ Edit(h, "whitelist") /\ row[m].tok # 0 /\ row[m].tok = up[m].tok
  /\ up' = [up EXCEPT ![m].cap = Unlimited] /\ owed' = owed \cup {m}
  /\ UNCHANGED <<row, config, grants, appr, lock, call, faults, counted, enders, undelivered>>

-----------------------------------------------------------------------------
(* The quota worker: ReverseExpiredGrants, then ResetDuePolicies.          *)

ListExpiredActiveGrants ==
  {g \in DOMAIN grants : grants[g].over /\ grants[g].st = "active"}

Tick ==
  /\ call[Worker].ph = "idle" /\ ~ObserveMode
  /\ call' = [call EXCEPT ![Worker] = [NoCall EXCEPT !.ph = "expire", !.gs = ListExpiredActiveGrants]]
  /\ UNCHANGED <<row, config, grants, appr, up, lock, edits, faults, history>>

\* A grant ended by somebody else meanwhile is skipped; the member is read
\* again after the mark.
ReverseExpiredGrant(g) ==
  LET m == grants[g].m r == [call[Worker] EXCEPT !.gs = @ \ {g}] IN
  /\ call[Worker].ph = "expire" /\ g \in call[Worker].gs
  /\ MarkGrantReverted(g, "expired", "expire")
  /\ CASE Marked(g) /\ grants[g].kind = "quota" /\ row[m].tok # 0 ->
            Apply(Worker, {Snapshot(m)}, r, "expire")
       [] Marked(g) /\ grants[g].kind = "account_ttl" ->
            call' = [call EXCEPT ![Worker] = [r EXCEPT !.ph = "ttl", !.num = g, !.cur = Snapshot(m)]]
       [] OTHER -> call' = [call EXCEPT ![Worker] = r]
  /\ UNCHANGED <<row, config, appr, up, lock, edits, faults, counted, owed, undelivered>>

\* account_ttl: the token read from the row is deleted; not rolled back.
DeleteToken ==
  LET s == call[Worker].cur IN
  /\ call[Worker].ph = "ttl"
  /\ \/ /\ s.tok = 0 \/ status # "hard_stopped"
        /\ up' = [up EXCEPT ![s.m] = IF @.tok = s.tok THEN [tok |-> 0, cap |-> 0] ELSE @]
        /\ call' = [call EXCEPT ![Worker].ph = "clear"] /\ UNCHANGED faults
     \/ /\ s.tok # 0 /\ (status = "hard_stopped" \/ faults < MaxFaults)
        /\ faults' = IF status = "hard_stopped" THEN faults ELSE faults + 1
        /\ call' = [call EXCEPT ![Worker] = [@ EXCEPT !.ph = "expire", !.num = 0, !.cur = NoSnap]]
        /\ UNCHANGED up
  /\ UNCHANGED <<row, config, grants, appr, lock, edits, history>>

\* ClearMemberToken, if there was one, and UpdateMemberStatus.
ExpireMember ==
  LET s == call[Worker].cur IN
  /\ call[Worker].ph = "clear"
  /\ row' = [row EXCEPT ![s.m].tok = IF s.tok = 0 THEN @ ELSE 0, ![s.m].expired = TRUE]
  /\ call' = [call EXCEPT ![Worker] = [@ EXCEPT !.ph = "expire", !.num = 0, !.cur = NoSnap]]
  /\ UNCHANGED <<config, grants, appr, up, lock, edits, faults, history>>

Due == {i \in DOMAIN policies : policies[i].due}

ResetDuePolicies ==
  /\ call[Worker].ph = "expire" /\ call[Worker].gs = {}
  /\ call' = [call EXCEPT ![Worker] = [NoCall EXCEPT !.ph = "reset", !.ps = Due, !.per = Periods]]
  /\ UNCHANGED <<row, config, grants, appr, up, lock, edits, faults, history>>

\* Mutant: members that inherit their tier are left out.
policyScopeMembers_OwnTier(i) ==
  {m \in ListActiveOverridableMembers : row[m].tier # None}

policyScopeMembers(i) ==
  LET s == policies[i].scope IN
  {m \in ListActiveOverridableMembers : s \in {Org, row[m].team, m}}

ResetPolicy(i) ==
  /\ call[Worker].ph = "reset" /\ i \in call[Worker].ps
  /\ Apply(Worker, {Snapshot(m) : m \in policyScopeMembers(i)},
           [call[Worker] EXCEPT !.num = i, !.ps = @ \ {i}], "mark")
  /\ UNCHANGED <<row, config, grants, appr, up, lock, edits, faults, history>>

\* The policy counts as reset at the start of the tick, failed members
\* included; a failed update leaves it due.
MarkPolicyReset ==
  LET i == call[Worker].num IN
  /\ call[Worker].ph = "mark"
  /\ \/ /\ policies' = [policies EXCEPT ![i].due = policies[i].period \notin call[Worker].per]
        /\ UNCHANGED faults
     \/ faults < MaxFaults /\ faults' = faults + 1 /\ UNCHANGED policies
  /\ call' = [call EXCEPT ![Worker].ph = "reset", ![Worker].num = 0]
  /\ UNCHANGED <<row, tier, dflt, rules, status, hardstop, grants, appr, up, lock, edits, history>>

EndTick ==
  /\ call[Worker].ph = "reset" /\ call[Worker].ps = {}
  /\ call' = [call EXCEPT ![Worker] = NoCall]
  /\ UNCHANGED <<row, config, grants, appr, up, lock, edits, faults, history>>

-----------------------------------------------------------------------------
(* Time and crashes.                                                       *)

ExpireAt(g) ==
  /\ g \in DOMAIN grants /\ ~grants[g].over
  /\ grants' = [grants EXCEPT ![g].over = TRUE]
  /\ UNCHANGED <<row, config, appr, up, lock, call, edits, faults, history>>

\* periodBoundary moves on.
PeriodTurns(p) ==
  /\ \E i \in DOMAIN policies : policies[i].period = p /\ ~policies[i].due
  /\ policies' = [i \in DOMAIN policies |->
                    [policies[i] EXCEPT !.due = @ \/ policies[i].period = p]]
  /\ call' = [call EXCEPT ![Worker].per = @ \ {p}]
  /\ UNCHANGED <<row, tier, dflt, rules, status, hardstop, grants, appr, up, lock, edits, faults,
                 history>>

Touched(c) == {s.m : s \in call[c].todo \cup {call[c].cur}} \ {None}

\* The process dies: calls and the in-process lock are gone.
Crash ==
  /\ faults < MaxFaults /\ faults' = faults + 1
  /\ owed' = owed \cup UNION {Touched(c) : c \in Callers}
  /\ undelivered' = undelivered \cup {call[h].key : h \in {h \in Handlers : call[h].ph = "dispatch"}}
  /\ call' = [c \in Callers |-> NoCall] /\ lock' = Nobody
  /\ UNCHANGED <<row, config, grants, appr, up, edits, counted, enders>>

-----------------------------------------------------------------------------
Requested(h) ==
  \/ \E m \in Members, d \in Deltas : AdjustQuota(h, m, d)
  \/ \E m \in Members, k \in Kinds : SetTempPermission(h, m, k)
  \/ \E g \in DOMAIN grants : RevokeGrant(h, g)
  \/ \E a \in Approvals, r \in Rules \cup {DefaultRules} : SubmitApproval(h, a, r)
  \/ \E a \in Approvals, r \in {"org_admin", "team_leader"}, yes \in BOOLEAN :
       DecideApproval(h, a, r, yes)
  \/ \E r \in Rules : SetApprovalRules(h, r)
  \/ \E m \in Members, x \in Teams \cup {None}, t \in Tiers \cup {None} : UpdateMember(h, m, x, t)
  \/ \E t \in Tiers, p \in Periods, lim \in Limits :
       CreateTier(h, t, p, lim) \/ UpdateTier(h, t, p, lim)
  \/ \E t \in Tiers : DeleteTier(h, t) \/ SetDefaultTier(h, t) \/ UpdateOrgSettings(h, t)
  \/ \E s \in Scopes, p \in Periods, lim \in Limits : SetQuotaPolicy(h, s, p, lim)
  \/ \E s \in {"active", "low", "stopped"} : recomputeOrgStatus(h, s)
  \/ \E stop \in BOOLEAN : HardStopOrg(h, stop)
  \/ SetBillingSettings(h)
  \/ \E m \in Members : RotateKey(h, m) \/ SetKeyIPWhitelist(h, m)

Continued(h) ==
  \/ RevokeMark(h) \/ AdvanceApproval(h) \/ dispatchApproval(h)
  \/ WriteTier(h) \/ SoftDeleteTier(h) \/ FlipStatus(h)

Applying(c) == Compute(c) \/ Gate(c) \/ Put(c)

WorkerStep ==
  \/ Tick \/ DeleteToken \/ ExpireMember \/ ResetDuePolicies \/ MarkPolicyReset \/ EndTick
  \/ \E g \in DOMAIN grants : ReverseExpiredGrant(g)
  \/ \E i \in DOMAIN policies : ResetPolicy(i)

Next ==
  \/ \E h \in Handlers : Requested(h) \/ Continued(h)
  \/ \E c \in Callers : Applying(c)
  \/ WorkerStep
  \/ \E g \in DOMAIN grants : ExpireAt(g)
  \/ \E p \in Periods : PeriodTurns(p)
  \/ Crash

\* A call in progress goes on, the worker ticks for ever, time passes, and a
\* caller waiting for the lock gets it in turn (KeyedLock).
Fairness ==
  /\ \A h \in Handlers : WF_vars(Continued(h))
  /\ \A c \in Callers : SF_vars(Applying(c))
  /\ WF_vars(WorkerStep)
  /\ \A p \in Periods : WF_vars(PeriodTurns(p))
  /\ \A g \in 1..MaxGrants : WF_vars(ExpireAt(g))

Spec == Init /\ [][Next]_vars
FairSpec == Spec /\ Fairness

-----------------------------------------------------------------------------
Snaps == [m : Members \cup {None}, tier : Tiers \cup {None}, team : Teams \cup {None}, tok : Nat]

\* Rows, calls and the lock have their types, and the lock is held exactly by
\* a caller that is about to read the status or to write the cap.
TypeOK ==
  /\ \A m \in Members : row[m].tok \in 0..MaxTokens /\ up[m].tok \in 0..MaxTokens
                        /\ up[m].cap \in Nat \cup {Unlimited}
  /\ \A g \in DOMAIN grants : grants[g].m \in Members /\ grants[g].st \in {"active", "expired", "revoked"}
  /\ \A a \in Approvals : appr[a].state \in ApprovalStates
  /\ \A c \in Callers : /\ call[c].ph \in {"gate", "put"} <=> lock = c
                        /\ call[c].todo \cup {call[c].cur} \subseteq Snaps
  /\ owed \subseteq Members /\ dflt \in Tiers

Pending(m) == \E c \in Callers : m \in Touched(c)

\* Whatever the handlers and the worker interleave, and although rows are
\* read before the lock: the cap at the gateway counts exactly the grants in
\* force, unless a dispatch for the member is under way, failed or undone.
GrantsCounted ==
  \A m \in Members :
    (row[m].tok # 0 /\ m \notin owed /\ ~Pending(m)) => counted[m] = ListActiveQuotaGrants(m)

\* The status is written outside the lock; still a member of a stopped
\* organisation with hard stop on keeps no quota, unless a dispatch for the
\* member is under way, failed or undone.
StopReachesCaps ==
  \A m \in Members :
    (status = "stopped" /\ hardstop /\ row[m].tok # 0 /\ m \notin owed /\ ~Pending(m))
      => up[m].cap = 0

Sponsored(a) == {g \in DOMAIN grants : grants[g].from = a}
Final == {"auto_approved", "approved"}

\* Two reviewers and two stages: an approved request has one grant, once its
\* dispatch has neither failed nor is under way, and any other has none.
ApprovalExactlyOnce ==
  \A a \in Approvals :
    /\ Cardinality(Sponsored(a)) <= 1
    /\ Sponsored(a) # {} => appr[a].state \in Final
    /\ (appr[a].state \in Final /\ Sponsored(a) = {})
         => a \in undelivered \/ \E h \in Handlers : call[h].ph = "dispatch" /\ call[h].key = a

\* An administrator revokes a grant while the worker expires it: one of them
\* is told that it ended the grant, and the row says which.
GrantEndsOnce ==
  \A g \in DOMAIN grants :
    enders[g] = CASE grants[g].st = "active" -> {}
                  [] grants[g].st = "revoked" -> {"revoke"}
                  [] grants[g].st = "expired" -> {"expire"}

Resolvable(m) == resolveBaseQuota(Snapshot(m)) # Unset

\* Failed dispatches, caps computed from overtaken rows, replaced tokens and
\* changes that dispatch nothing are all made up for by the period resets:
\* once the configuration rests, every cap settles on the value that tiers,
\* policies, grants and status give, if the member's tier still exists.
CapsConverge ==
  <>[](\A m \in Members :
         (row[m].tok # 0 /\ row[m].tok = up[m].tok /\ Resolvable(m) /\ status # "hard_stopped")
           => up[m].cap = gateByOrgStatus(computeOverride(Snapshot(m))))
=============================================================================
