----------------------------- MODULE QuotaProofs -----------------------------
(***************************************************************************)
(* Proofs about Quota, for any number of members, tiers, requests, grants, *)
(* handlers, edits and faults.                                             *)
(***************************************************************************)
EXTENDS Quota, FiniteSetTheorems, NaturalsInduction, WellFoundedInduction, TLAPS

CallFields == {"ph", "then", "todo", "cur", "val", "cnt", "key", "num", "seen", "ok",
               "gs", "ps", "per", "lim"}

HandlerPhases == {"idle", "apply", "gate", "put", "revoke", "decide", "dispatch", "tier",
                  "deltier", "flip"}
WorkerPhases == {"idle", "apply", "gate", "put", "expire", "ttl", "clear", "reset", "mark"}
Grants == [m : Members, kind : Kinds, delta : Int, from : Approvals \cup {None},
           st : {"active", "expired", "revoked"}, over : BOOLEAN]
MemberSnaps == {s \in Snaps : s.m \in Members}

\* A call r of c is one that c can be in, with grants G and the lock held by l:
\* members are queued only while it applies them, the lock is held exactly
\* between reading and writing, and what a phase works on is there.
CallOK(c, r, G, l) ==
  /\ DOMAIN r = CallFields
  /\ r.ph \in IF c = Worker THEN WorkerPhases ELSE HandlerPhases
  /\ r.then \in IF c = Worker THEN {"idle", "expire", "mark"} ELSE {"idle"}
  /\ r.todo \subseteq MemberSnaps /\ r.cur \in Snaps
  /\ r.ph \notin {"apply", "gate", "put"} => r.todo = {}
  /\ r.ph \in {"gate", "put", "ttl", "clear"} => r.cur \in MemberSnaps
  /\ r.ph \in {"gate", "put"} <=> l = c
  /\ r.ph = "put" => r.cur.tok # 0
  /\ r.gs \subseteq DOMAIN G
  /\ r.ph = "revoke" => r.num \in DOMAIN G /\ r.cur.m = G[r.num].m
  /\ r.ph \in {"dispatch", "decide"} => r.key \in Approvals
  /\ r.ph = "decide" => r.seen \in {"pending", "l1_approved"}

\* Rows, tokens, grants and requests have their types.
RowsOK ==
  /\ row \in [Members -> Rows]
  /\ DOMAIN up = Members
  /\ \A m \in Members : DOMAIN up[m] = {"tok", "cap"} /\ up[m].tok \in 0..MaxTokens
  /\ DOMAIN counted = Members /\ owed \subseteq Members /\ dflt \in Tiers

GrantsOK ==
  /\ grants \in Seq(Grants) /\ Len(grants) <= MaxGrants /\ DOMAIN enders = 1..MaxGrants

ApprRowsOK ==
  /\ DOMAIN appr = Approvals
  /\ \A a \in Approvals : /\ DOMAIN appr[a] = {"state", "level2", "new"}
                          /\ appr[a].state \in ApprovalStates

CallsOK == DOMAIN call = Callers /\ \A c \in Callers : CallOK(c, call[c], grants, lock)

Base == RowsOK /\ GrantsOK /\ ApprRowsOK /\ CallsOK /\ lock \in Callers \cup {Nobody}

-----------------------------------------------------------------------------
(* What steps do, in parts.                                                *)

\* Grants stay, and end only from being in force, with the one who ended it on
\* record; a new one is in force.
GrantsMove ==
  /\ grants' \in Seq(Grants) /\ Len(grants') <= MaxGrants /\ DOMAIN enders' = 1..MaxGrants
  /\ DOMAIN grants \subseteq DOMAIN grants'
  /\ \A g \in DOMAIN grants :
       /\ grants'[g].m = grants[g].m /\ grants'[g].kind = grants[g].kind
       /\ grants'[g].from = grants[g].from
       /\ \/ grants'[g].st = grants[g].st /\ enders'[g] = enders[g]
          \/ /\ grants[g].st = "active" /\ grants'[g].st = "revoked"
             /\ enders'[g] = enders[g] \cup {"revoke"}
          \/ /\ grants[g].st = "active" /\ grants'[g].st = "expired"
             /\ enders'[g] = enders[g] \cup {"expire"}
  /\ \A g \in (1..MaxGrants) \ DOMAIN grants :
       enders'[g] = enders[g] /\ (g \in DOMAIN grants' => grants'[g].st = "active")

\* Caller c gets the call r.
CallStep(c, r) ==
  /\ DOMAIN call' = Callers /\ call'[c] = r
  /\ \A d \in Callers : d # c => call'[d] = call[d]
  /\ CallOK(c, r, grants', lock')
  /\ \A d \in Callers : d # c => (lock' = d <=> lock = d)

\* What After makes of a call: the loop goes on, or the call resumes.
LEMMA AfterIs ==
  ASSUME NEW r, DOMAIN r = CallFields
  PROVE  /\ DOMAIN After(r) = CallFields
         /\ After(r).todo = r.todo /\ After(r).cur = NoSnap
         /\ After(r).ph = IF r.todo # {} THEN "apply" ELSE r.then
         /\ After(r).then = r.then
         /\ After(r).gs = r.gs \/ After(r).gs = {}
         /\ After(r).num = r.num \/ After(r).ph = "idle"
  BY DEF After, CallFields, NoCall, NoSnap

\* Steps that leave the grants alone.
LEMMA GrantsStay ==
  ASSUME Base, UNCHANGED <<grants, enders>>
  PROVE  GrantsMove
  BY DEF Base, GrantsOK, GrantsMove

\* A grant created is a new one, in force.
LEMMA GrantCreated ==
  ASSUME Base, NEW m \in Members, NEW kind \in Kinds, NEW d \in Int,
         NEW from \in Approvals \cup {None}, CreateGrant(m, kind, d, from), UNCHANGED enders
  PROVE  /\ GrantsMove
         /\ DOMAIN grants' = DOMAIN grants \cup {Len(grants) + 1}
         /\ \A g \in DOMAIN grants : grants'[g] = grants[g]
         /\ grants'[Len(grants) + 1].m = m /\ grants'[Len(grants) + 1].kind = kind
         /\ grants'[Len(grants) + 1].from = from /\ Len(grants) + 1 \notin DOMAIN grants
<1> DEFINE e == [m |-> m, kind |-> kind, delta |-> d, from |-> from,
                 st |-> "active", over |-> FALSE]
<1>1. e \in Grants
  BY DEF Grants
<1>2. grants \in Seq(Grants) /\ Len(grants) \in Nat /\ Len(grants) < MaxGrants
      /\ grants' = Append(grants, e) /\ MaxGrants \in Nat
  BY QuotaAssumption DEF Base, GrantsOK, CreateGrant
<1>3. e.m = m /\ e.kind = kind /\ e.from = from /\ e.st = "active"
  OBVIOUS
<1> HIDE DEF e
<1>4. /\ grants' \in Seq(Grants) /\ Len(grants') = Len(grants) + 1
      /\ DOMAIN grants = 1..Len(grants) /\ DOMAIN grants' = 1..(Len(grants) + 1)
      /\ \A g \in DOMAIN grants : grants'[g] = grants[g]
      /\ grants'[Len(grants) + 1] = e
  BY <1>1, <1>2
<1>5. DOMAIN grants' = DOMAIN grants \cup {Len(grants) + 1} /\ Len(grants) + 1 \notin DOMAIN grants
      /\ DOMAIN grants \subseteq 1..MaxGrants
  BY <1>2, <1>4
<1> QED
  BY <1>2, <1>3, <1>4, <1>5 DEF Base, GrantsOK, GrantsMove

\* MarkGrantReverted closes one grant, the first time only.
LEMMA GrantMarked ==
  ASSUME Base, NEW g \in DOMAIN grants, NEW st, NEW who,
         (st = "revoked" /\ who = "revoke") \/ (st = "expired" /\ who = "expire"),
         MarkGrantReverted(g, st, who)
  PROVE  /\ GrantsMove /\ DOMAIN grants' = DOMAIN grants
         /\ ~Marked(g) => grants' = grants
         /\ \A i \in DOMAIN grants : i # g => grants'[i] = grants[i]
<1>0. CASE ~Marked(g)
  BY <1>0, GrantsStay DEF MarkGrantReverted, Marked
<1>1. CASE Marked(g)
  <2>1. grants \in Seq(Grants) /\ DOMAIN enders = 1..MaxGrants /\ Len(grants) \in Nat
        /\ DOMAIN grants = 1..Len(grants) /\ Len(grants) <= MaxGrants /\ MaxGrants \in Nat
    BY QuotaAssumption DEF Base, GrantsOK
  <2>2. grants' = [grants EXCEPT ![g].st = st] /\ enders' = [enders EXCEPT ![g] = @ \cup {who}]
        /\ grants[g].st = "active"
    BY <1>1 DEF MarkGrantReverted, Marked
  <2>3. grants[g] \in Grants /\ [grants[g] EXCEPT !.st = st] \in Grants
    <3>1. grants[g] \in Grants
      BY <2>1
    <3>2. \A e \in Grants : \A s \in {"active", "expired", "revoked"} : [e EXCEPT !.st = s] \in Grants
      BY DEF Grants
    <3> QED
      BY <3>1, <3>2
  <2>4. grants' \in Seq(Grants) /\ DOMAIN grants' = DOMAIN grants /\ Len(grants') = Len(grants)
    BY <2>1, <2>2, <2>3
  <2>5. grants'[g].st = st /\ grants'[g].m = grants[g].m /\ grants'[g].kind = grants[g].kind
        /\ grants'[g].from = grants[g].from /\ \A i \in DOMAIN grants : i # g => grants'[i] = grants[i]
    BY <2>1, <2>2, <2>3 DEF Grants
  <2>6. enders'[g] = enders[g] \cup {who} /\ DOMAIN enders' = 1..MaxGrants
        /\ \A i \in 1..MaxGrants : i # g => enders'[i] = enders[i]
    BY <2>1, <2>2
  <2> QED
    BY <1>1, <2>1, <2>2, <2>4, <2>5, <2>6 DEF GrantsMove
<1> QED
  BY <1>0, <1>1

-----------------------------------------------------------------------------
(* Calls.                                                                  *)

\* A dispatch for member m is queued, with a token, in the calls K.
QueuedIn(K, m) == \E c \in Callers : \E s \in K[c].todo : s.m = m /\ s.tok # 0

\* The grants in force of member m among G.
ActiveIn(G, m) ==
  {g \in DOMAIN G : G[g].m = m /\ G[g].kind = "quota" /\ G[g].st = "active"}

\* Call r becomes s by a step that neither takes nor releases the lock: what
\* is between reading and writing stays as it is, members stay queued, and
\* a snapshot is an old one or shows the row's token.
Keeps(r, s) ==
  /\ r.ph \in {"gate", "put"} => s.ph = r.ph /\ s.cur = r.cur /\ s.val = r.val /\ s.cnt = r.cnt
  /\ s.ph \in {"gate", "put"} => r.ph \in {"gate", "put"}
  /\ r.todo \subseteq s.todo
  /\ \A x \in s.todo \cup {s.cur} :
       x \in r.todo \cup {r.cur, NoSnap} \/ (x.m \in Members /\ x.tok = row[x.m].tok)

\* An idle caller meets what is said of its call.
LEMMA NoCallOK ==
  ASSUME NEW c \in Callers, NEW G, NEW l, l # c
  PROVE  CallOK(c, NoCall, G, l) /\ DOMAIN NoCall = CallFields
  BY DEF CallOK, NoCall, CallFields, NoSnap, Snaps, MemberSnaps, WorkerPhases, HandlerPhases

\* A call that is not changed remains one its caller can be in.
LEMMA CallStays ==
  ASSUME Base, GrantsMove, NEW c \in Callers, lock' = c <=> lock = c
  PROVE  CallOK(c, call[c], grants', lock')
<1>1. CallOK(c, call[c], grants, lock)
  BY DEF Base, CallsOK
<1>2. DOMAIN grants \subseteq DOMAIN grants' /\ \A g \in DOMAIN grants : grants'[g].m = grants[g].m
  BY DEF GrantsMove
<1> QED
  BY <1>1, <1>2 DEF CallOK

\* Steps that leave calls and lock alone.
LEMMA CallsStay ==
  ASSUME Base, GrantsMove, UNCHANGED <<call, lock>>
  PROVE  CallsOK' /\ \A c \in Callers : Keeps(call[c], call'[c])
<1>1. \A c \in Callers : CallOK(c, call[c], grants', lock')
  BY CallStays
<1> QED
  BY <1>1 DEF Base, CallsOK, Keeps

\* One call moves on, the others stay what they were.
LEMMA CallsMove ==
  ASSUME Base, GrantsMove, NEW c \in Callers, NEW r, CallStep(c, r)
  PROVE  CallsOK'
<1>1. \A d \in Callers : d # c => CallOK(d, call[d], grants', lock')
  BY CallStays DEF CallStep
<1> QED
  BY <1>1 DEF CallsOK, CallStep

\* A caller that is not applying members goes to another phase.
LEMMA CallSet ==
  ASSUME Base, GrantsMove, lock' = lock, NEW c \in Callers,
         call[c].ph \notin {"apply", "gate", "put"}, NEW r, call' = [call EXCEPT ![c] = r],
         CallOK(c, r, grants', lock), r.cur \in {call[c].cur, NoSnap} \/ r.cur.tok = row[r.cur.m].tok,
         r.cur.m \in Members \/ r.cur \in {call[c].cur, NoSnap},
         \A s \in r.todo : s \in {call[c].cur} \/ s.tok = row[s.m].tok
  PROVE  /\ CallsOK' /\ \A d \in Callers : Keeps(call[d], call'[d])
         /\ call'[c] = r /\ \A d \in Callers : d # c => call'[d] = call[d]
<1>1. DOMAIN call = Callers /\ CallOK(c, call[c], grants, lock)
  BY DEF Base, CallsOK
<1>2. CallStep(c, r)
  BY <1>1 DEF CallStep
<1>3. lock # c /\ call[c].todo = {}
  BY <1>1 DEF CallOK
<1>4. r.ph \notin {"gate", "put"} /\ r.todo \subseteq MemberSnaps
  BY <1>3 DEF CallOK
<1>5. Keeps(call[c], r)
  BY <1>3, <1>4 DEF Keeps, MemberSnaps
<1>6. \A d \in Callers : d # c => Keeps(call[d], call[d])
  BY DEF Keeps
<1>7. call'[c] = r /\ \A d \in Callers : d # c => call'[d] = call[d]
  BY <1>2 DEF CallStep
<1> QED
  BY <1>2, <1>5, <1>6, <1>7, CallsMove

\* A handler begins to apply the members S, or returns if there are none.
LEMMA HandlerApplies ==
  ASSUME Base, GrantsMove, lock' = lock, NEW h \in Handlers,
         call[h].ph \notin {"apply", "gate", "put"}, NEW S \in SUBSET MemberSnaps,
         \A s \in S : s = call[h].cur \/ s.tok = row[s.m].tok, Apply(h, S, NoCall, "idle")
  PROVE  /\ CallsOK' /\ \A d \in Callers : Keeps(call[d], call'[d])
         /\ call'[h].todo = S /\ call'[h].ph \in {"apply", "idle"}
         /\ \A d \in Callers : d # h => call'[d] = call[d]
<1> DEFINE q == [NoCall EXCEPT !.todo = S, !.then = "idle"]
           r == After(q)
<1>1. DOMAIN q = CallFields /\ q.todo = S /\ q.then = "idle" /\ q.gs = {}
  BY DEF NoCall, CallFields
<1>2. call' = [call EXCEPT ![h] = r]
  BY DEF Apply
<1> HIDE DEF q
<1>3. /\ DOMAIN r = CallFields /\ r.todo = S /\ r.cur = NoSnap
      /\ r.ph = (IF S # {} THEN "apply" ELSE "idle") /\ r.then = "idle" /\ r.gs = {}
  BY <1>1, AfterIs
<1> HIDE DEF r
<1>4. h \in Callers /\ h # Worker /\ lock # h
  BY QuotaAssumption DEF Callers, Base, CallsOK, CallOK
<1>5. CallOK(h, r, grants', lock)
  BY <1>3, <1>4 DEF CallOK, HandlerPhases, NoSnap, Snaps
<1> QED
  BY <1>2, <1>3, <1>4, <1>5, CallSet

-----------------------------------------------------------------------------
(* Steps outside applyMemberOverride.                                      *)

\* Member m is no worse off: a token that is new or unlimited is owed a cap, a
\* stop or a change of the grants in force queues the member, if it has a token
\* (a revocation may have read the row before there was one).
Benign(m) ==
  /\ row'[m].tok # 0 => row[m].tok # 0 \/ m \in owed'
  /\ m \notin owed' => up'[m].cap \in {up[m].cap, 0}
  /\ (status' = "stopped" /\ hardstop' /\ m \notin owed' /\ row'[m].tok # 0) =>
       (status = "stopped" /\ hardstop) \/ QueuedIn(call', m)
  /\ row'[m].tok # 0 =>
       \/ ActiveIn(grants', m) = ActiveIn(grants, m)
       \/ QueuedIn(call', m)
       \/ row' = row /\ \E h \in Handlers : /\ call[h].ph = "revoke" /\ call[h].cur.m = m
                                             /\ call[h].cur.tok = 0
  /\ row[m].tok = 0 /\ row[m].expired => row'[m].tok = 0 /\ row'[m].expired
  /\ row'[m].tok = 0 => row[m].tok = 0 \/ row'[m].expired
  /\ row'[m].tok = 0 /\ row[m].tok = 0 => row'[m].expired \/ row'[m].expired = row[m].expired

Outer ==
  /\ lock' = lock /\ counted' = counted /\ owed \subseteq owed'
  /\ \A c \in Callers : Keeps(call[c], call'[c])
  /\ \A m \in Members : Benign(m)

\* Requests and their dispatch are not touched.
Quiet ==
  /\ appr' = appr /\ undelivered' = undelivered
  /\ \A h \in Handlers : /\ call'[h].ph = "dispatch" <=> call[h].ph = "dispatch"
                         /\ call[h].ph = "dispatch" => call'[h].key = call[h].key
  /\ \A g \in DOMAIN grants' \ DOMAIN grants : grants'[g].from = None

Calm == Base' /\ GrantsMove /\ Outer /\ Quiet

\* Nothing that the members depend on changes.
Rests == UNCHANGED <<row, up, counted, owed, status, hardstop, grants, enders, appr, undelivered, lock>>

\* Steps that change only configuration.
LEMMA RestsCalm ==
  ASSUME Base, Rests, dflt' \in Tiers, UNCHANGED call
  PROVE  Calm
<1>1. GrantsMove
  BY GrantsStay DEF Rests
<1>2. CallsOK' /\ \A c \in Callers : Keeps(call[c], call'[c])
  BY <1>1, CallsStay DEF Rests
<1>3. RowsOK' /\ GrantsOK' /\ ApprRowsOK' /\ lock' \in Callers \cup {Nobody}
  BY DEF Base, Rests, RowsOK, GrantsOK, ApprRowsOK
<1>4. ASSUME NEW m \in Members PROVE Benign(m)
  BY DEF Benign, Rests, Base, RowsOK
<1> QED
  BY <1>1, <1>2, <1>3, <1>4 DEF Calm, Base, Outer, Quiet, Rests

\* Only the call of c changes, and it applies nobody.
LEMMA CallCalm ==
  ASSUME Base, Rests, dflt' = dflt, NEW c \in Callers,
         call[c].ph \notin {"apply", "gate", "put", "dispatch"}, NEW r,
         call' = [call EXCEPT ![c] = r], CallOK(c, r, grants, lock), r.ph # "dispatch", r.todo = {},
         r.cur \in {call[c].cur, NoSnap} \/ (r.cur.m \in Members /\ r.cur.tok = row[r.cur.m].tok)
  PROVE  Calm
<1>1. GrantsMove
  BY GrantsStay DEF Rests
<1>2. /\ CallsOK' /\ \A d \in Callers : Keeps(call[d], call'[d])
      /\ call'[c] = r /\ \A d \in Callers : d # c => call'[d] = call[d]
  BY <1>1, CallSet DEF Rests
<1>3. RowsOK' /\ GrantsOK' /\ ApprRowsOK' /\ lock' \in Callers \cup {Nobody}
  BY DEF Base, Rests, RowsOK, GrantsOK, ApprRowsOK
<1>4. ASSUME NEW m \in Members PROVE Benign(m)
  BY DEF Benign, Rests, Base, RowsOK
<1>5. Handlers \subseteq Callers
  BY DEF Callers
<1> QED
  BY <1>1, <1>2, <1>3, <1>4, <1>5 DEF Calm, Base, Outer, Quiet, Rests

\* A handler begins with a fresh call in phase ph, for key, grant num and
\* the row cur.
LEMMA FreshOK ==
  ASSUME NEW h \in Handlers, NEW G, lock # h, NEW r, DOMAIN r = CallFields,
         r.ph \in {"revoke", "decide", "dispatch", "tier", "deltier", "flip", "idle"},
         r.then = "idle", r.todo = {}, r.gs = {}, r.cur \in Snaps,
         r.ph = "revoke" => r.num \in DOMAIN G /\ r.cur.m = G[r.num].m,
         r.ph \in {"dispatch", "decide"} => r.key \in Approvals,
         r.ph = "decide" => r.seen \in {"pending", "l1_approved"}
  PROVE  CallOK(h, r, G, lock)
  BY QuotaAssumption DEF CallOK, HandlerPhases, Callers

\* What the invariant says of a handler.
LEMMA Idle ==
  ASSUME Base, NEW h \in Handlers
  PROVE  /\ h \in Callers /\ h # Worker /\ CallOK(h, call[h], grants, lock)
         /\ call[h].ph \notin {"gate", "put"} => lock # h
  BY QuotaAssumption DEF Base, CallsOK, CallOK, Callers

\* The member row a handler reads before it takes the lock.
LEMMA SnapshotOK ==
  ASSUME Base, NEW m \in Members
  PROVE  Snapshot(m) \in MemberSnaps /\ Snapshot(m).m = m /\ Snapshot(m).tok = row[m].tok
  BY QuotaAssumption DEF Base, RowsOK, Snapshot, MemberSnaps, Snaps, Rows

\* The row of a grant that exists.
LEMMA GrantIs ==
  ASSUME Base, NEW g \in DOMAIN grants
  PROVE  /\ grants[g] \in Grants /\ grants[g].m \in Members /\ g \in 1..MaxGrants
         /\ grants[g].kind \in Kinds /\ grants[g].st \in {"active", "expired", "revoked"}
<1>1. grants \in Seq(Grants) /\ Len(grants) <= MaxGrants /\ MaxGrants \in Nat
  BY QuotaAssumption DEF Base, GrantsOK
<1>2. grants[g] \in Grants /\ g \in 1..MaxGrants
  BY <1>1
<1> QED
  BY <1>2 DEF Grants

\* Requests that only read and remember.
LEMMA RevokeGrantCalm ==
  ASSUME Base, NEW h \in Handlers, NEW g \in DOMAIN grants, RevokeGrant(h, g)
  PROVE  Calm
<1> DEFINE r == [NoCall EXCEPT !.ph = "revoke", !.num = g, !.cur = Snapshot(grants[g].m)]
<1>1. grants[g].m \in Members
  BY GrantIs
<1>2. Snapshot(grants[g].m) \in MemberSnaps /\ Snapshot(grants[g].m).m = grants[g].m
      /\ Snapshot(grants[g].m).tok = row[grants[g].m].tok
  BY <1>1, SnapshotOK
<1>3. /\ DOMAIN r = CallFields /\ r.ph = "revoke" /\ r.then = "idle" /\ r.todo = {} /\ r.gs = {}
      /\ r.cur = Snapshot(grants[g].m) /\ r.num = g
  BY DEF NoCall, CallFields
<1>4. call' = [call EXCEPT ![h] = r] /\ Rests /\ dflt' = dflt /\ call[h].ph = "idle"
  BY DEF RevokeGrant, May, Rests, config, history
<1> HIDE DEF r
<1>5. CallOK(h, r, grants, lock)
  BY <1>2, <1>3, <1>4, FreshOK, Idle DEF MemberSnaps
<1> QED
  BY <1>1, <1>2, <1>3, <1>4, <1>5, Idle, CallCalm

\* DecideApproval reads the request; AdvanceApproval writes it.
LEMMA DecideCalm ==
  ASSUME Base, NEW h \in Handlers, NEW a \in Approvals, NEW role, NEW yes,
         DecideApproval(h, a, role, yes)
  PROVE  Calm
<1> DEFINE r == [NoCall EXCEPT !.ph = "decide", !.key = a, !.seen = appr[a].state, !.ok = yes]
<1>3. /\ DOMAIN r = CallFields /\ r.ph = "decide" /\ r.then = "idle" /\ r.todo = {} /\ r.gs = {}
      /\ r.cur = NoSnap /\ r.key = a /\ r.seen = appr[a].state /\ NoSnap \in Snaps
  BY DEF NoCall, CallFields, NoSnap, Snaps
<1>4. call' = [call EXCEPT ![h] = r] /\ Rests /\ dflt' = dflt /\ call[h].ph = "idle"
      /\ appr[a].state \in {"pending", "l1_approved"}
  BY DEF DecideApproval, May, Rests, config, history
<1> HIDE DEF r
<1>5. CallOK(h, r, grants, lock)
  BY <1>3, <1>4, FreshOK, Idle
<1> QED
  BY <1>3, <1>4, <1>5, Idle, CallCalm

\* UpdateTier reads the tier; WriteTier writes it.
LEMMA UpdateTierCalm ==
  ASSUME Base, NEW h \in Handlers, NEW t, NEW p, NEW lim, UpdateTier(h, t, p, lim)
  PROVE  Calm
<1> DEFINE r == [NoCall EXCEPT !.ph = "tier", !.key = t, !.lim = [tier[t].limit EXCEPT ![p] = lim]]
<1>3. /\ DOMAIN r = CallFields /\ r.ph = "tier" /\ r.then = "idle" /\ r.todo = {} /\ r.gs = {}
      /\ r.cur = NoSnap /\ NoSnap \in Snaps
  BY DEF NoCall, CallFields, NoSnap, Snaps
<1>4. call' = [call EXCEPT ![h] = r] /\ Rests /\ dflt' = dflt /\ call[h].ph = "idle"
  BY DEF UpdateTier, Edit, May, Rests, config, history
<1> HIDE DEF r
<1>5. CallOK(h, r, grants, lock)
  BY <1>3, <1>4, FreshOK, Idle
<1> QED
  BY <1>3, <1>4, <1>5, Idle, CallCalm

\* DeleteTier checks; SoftDeleteTier deletes.
LEMMA DeleteTierCalm ==
  ASSUME Base, NEW h \in Handlers, NEW t, DeleteTier(h, t)
  PROVE  Calm
<1> DEFINE r == [NoCall EXCEPT !.ph = "deltier", !.key = t]
<1>3. /\ DOMAIN r = CallFields /\ r.ph = "deltier" /\ r.then = "idle" /\ r.todo = {} /\ r.gs = {}
      /\ r.cur = NoSnap /\ NoSnap \in Snaps
  BY DEF NoCall, CallFields, NoSnap, Snaps
<1>4. call' = [call EXCEPT ![h] = r] /\ Rests /\ dflt' = dflt /\ call[h].ph = "idle"
  BY DEF DeleteTier, May, Rests, config, history
<1> HIDE DEF r
<1>5. CallOK(h, r, grants, lock)
  BY <1>3, <1>4, FreshOK, Idle
<1> QED
  BY <1>3, <1>4, <1>5, Idle, CallCalm

\* recomputeOrgStatus reads the status; FlipStatus writes it.
LEMMA RecomputeCalm ==
  ASSUME Base, NEW h \in Handlers, NEW target, recomputeOrgStatus(h, target)
  PROVE  Calm
<1> DEFINE r == [NoCall EXCEPT !.ph = "flip", !.key = target, !.seen = status]
<1>3. /\ DOMAIN r = CallFields /\ r.ph = "flip" /\ r.then = "idle" /\ r.todo = {} /\ r.gs = {}
      /\ r.cur = NoSnap /\ NoSnap \in Snaps
  BY DEF NoCall, CallFields, NoSnap, Snaps
<1>4. call' = [call EXCEPT ![h] = r] /\ Rests /\ dflt' = dflt /\ call[h].ph = "idle"
  BY DEF recomputeOrgStatus, Edit, May, Rests, config, history
<1> HIDE DEF r
<1>5. CallOK(h, r, grants, lock)
  BY <1>3, <1>4, FreshOK, Idle
<1> QED
  BY <1>3, <1>4, <1>5, Idle, CallCalm

\* Requests that change configuration.
LEMMA ConfigCalm ==
  ASSUME Base, NEW h \in Handlers, NEW t \in Tiers, NEW p, NEW lim, NEW s, NEW r,
         \/ SetApprovalRules(h, r) \/ CreateTier(h, t, p, lim) \/ SetDefaultTier(h, t)
         \/ UpdateOrgSettings(h, t) \/ SetQuotaPolicy(h, s, p, lim)
  PROVE  Calm
<1>1. Rests /\ dflt' \in Tiers /\ UNCHANGED call
  BY DEF SetApprovalRules, CreateTier, SetDefaultTier, UpdateOrgSettings, SetQuotaPolicy, Rests,
         history, config, Base, RowsOK
<1> QED
  BY <1>1, RestsCalm

\* A call returns.
LEMMA ReturnCalm ==
  ASSUME Base, Rests, dflt' = dflt, NEW c \in Callers,
         call[c].ph \notin {"apply", "gate", "put", "dispatch"}, call' = [call EXCEPT ![c] = NoCall]
  PROVE  Calm
<1>0. lock # c
  BY DEF Base, CallsOK, CallOK
<1>1. CallOK(c, NoCall, grants, lock)
  BY <1>0, NoCallOK
<1>2. NoCall.ph # "dispatch" /\ NoCall.todo = {} /\ NoCall.cur = NoSnap
  BY DEF NoCall
<1> QED
  BY <1>1, <1>2, CallCalm

\* Which members' grants in force a creation or an ending affects.
LEMMA ActiveCreated ==
  ASSUME Base, NEW m \in Members, NEW kind \in Kinds, NEW d \in Int,
         NEW from \in Approvals \cup {None}, CreateGrant(m, kind, d, from), UNCHANGED enders,
         NEW n \in Members, n # m \/ kind # "quota"
  PROVE  ActiveIn(grants', n) = ActiveIn(grants, n)
  BY GrantCreated DEF ActiveIn

\* Closing a grant changes what is in force for its member only.
LEMMA ActiveMarked ==
  ASSUME Base, NEW g \in DOMAIN grants, NEW st, NEW who,
         (st = "revoked" /\ who = "revoke") \/ (st = "expired" /\ who = "expire"),
         MarkGrantReverted(g, st, who), NEW n \in Members,
         n # grants[g].m \/ grants[g].kind # "quota" \/ ~Marked(g)
  PROVE  ActiveIn(grants', n) = ActiveIn(grants, n)
<1>1. /\ GrantsMove /\ DOMAIN grants' = DOMAIN grants /\ (~Marked(g) => grants' = grants)
      /\ \A i \in DOMAIN grants : i # g => grants'[i] = grants[i]
  BY GrantMarked
<1>2. grants'[g].m = grants[g].m /\ grants'[g].kind = grants[g].kind
  BY <1>1 DEF GrantsMove
<1> QED
  BY <1>1, <1>2 DEF ActiveIn

\* A new adjustment queues its member.
LEMMA AdjustCalm ==
  ASSUME Base, NEW h \in Handlers, NEW m \in Members, NEW d \in Deltas, AdjustQuota(h, m, d)
  PROVE  Calm
<1>1. /\ CreateGrant(m, "quota", d, None) /\ Apply(h, {Snapshot(m)}, NoCall, "idle")
      /\ call[h].ph = "idle" /\ UNCHANGED <<row, up, counted, owed, status, hardstop, enders, appr,
                                             undelivered, lock, dflt>>
  BY DEF AdjustQuota, May, config, history
<1>2. d \in Int /\ "quota" \in Kinds /\ None \in Approvals \cup {None}
  BY QuotaAssumption DEF Kinds
<1>3. /\ GrantsMove /\ DOMAIN grants' = DOMAIN grants \cup {Len(grants) + 1}
      /\ grants'[Len(grants) + 1].from = None
      /\ \A n \in Members : n # m => ActiveIn(grants', n) = ActiveIn(grants, n)
  BY <1>1, <1>2, GrantCreated, ActiveCreated
<1>4. Snapshot(m) \in MemberSnaps /\ Snapshot(m).m = m /\ Snapshot(m).tok = row[m].tok
  BY SnapshotOK
<1>5. /\ CallsOK' /\ \A e \in Callers : Keeps(call[e], call'[e])
      /\ call'[h].todo = {Snapshot(m)} /\ call'[h].ph \in {"apply", "idle"}
      /\ \A e \in Callers : e # h => call'[e] = call[e]
  BY <1>1, <1>3, <1>4, HandlerApplies
<1>6. h \in Callers /\ Handlers \subseteq Callers
  BY DEF Callers
<1>7. row[m].tok # 0 => QueuedIn(call', m)
  BY <1>4, <1>5, <1>6 DEF QueuedIn
<1>8. ASSUME NEW n \in Members PROVE Benign(n)
  BY <1>1, <1>3, <1>7 DEF Benign, Base, RowsOK
<1>9. RowsOK' /\ GrantsOK' /\ ApprRowsOK' /\ lock' \in Callers \cup {Nobody}
  BY <1>1, <1>3 DEF Base, RowsOK, GrantsOK, ApprRowsOK, GrantsMove
<1> QED
  BY <1>1, <1>3, <1>5, <1>6, <1>8, <1>9 DEF Calm, Base, Outer, Quiet

\* SetTempPermission: a grant that does not count into the cap.
LEMMA TempCalm ==
  ASSUME Base, NEW h \in Handlers, NEW m \in Members, NEW kind \in Kinds, SetTempPermission(h, m, kind)
  PROVE  Calm
<1>1. /\ CreateGrant(m, kind, 0, None) /\ kind # "quota"
      /\ UNCHANGED <<row, up, counted, owed, status, hardstop, enders, appr, undelivered, lock, dflt,
                     call>>
  BY DEF SetTempPermission, config, history
<1>2. 0 \in Int /\ None \in Approvals \cup {None}
  OBVIOUS
<1>3. /\ GrantsMove /\ DOMAIN grants' = DOMAIN grants \cup {Len(grants) + 1}
      /\ grants'[Len(grants) + 1].from = None
      /\ \A n \in Members : ActiveIn(grants', n) = ActiveIn(grants, n)
  <2>1. /\ GrantsMove /\ DOMAIN grants' = DOMAIN grants \cup {Len(grants) + 1}
        /\ grants'[Len(grants) + 1].from = None
    BY <1>1, <1>2, GrantCreated
  <2>2. ASSUME NEW n \in Members PROVE ActiveIn(grants', n) = ActiveIn(grants, n)
    BY <1>1, <1>2, ActiveCreated
  <2> QED
    BY <2>1, <2>2
<1>5. CallsOK' /\ \A e \in Callers : Keeps(call[e], call'[e])
  BY <1>1, <1>3, CallsStay
<1>8. ASSUME NEW n \in Members PROVE Benign(n)
  BY <1>1, <1>3 DEF Benign, Base, RowsOK
<1>9. RowsOK' /\ GrantsOK' /\ ApprRowsOK' /\ lock' \in Callers \cup {Nobody}
  BY <1>1, <1>3 DEF Base, RowsOK, GrantsOK, ApprRowsOK, GrantsMove
<1> QED
  BY <1>1, <1>3, <1>5, <1>8, <1>9 DEF Calm, Base, Outer, Quiet

\* A revoked grant queues the member as the row was when it was read.
LEMMA RevokeMarkCalm ==
  ASSUME Base, NEW h \in Handlers, RevokeMark(h)
  PROVE  Calm
<1> DEFINE g == call[h].num
           S == IF Marked(g) /\ grants[g].kind = "quota" THEN {call[h].cur} ELSE {}
<1>1. /\ MarkGrantReverted(g, "revoked", "revoke") /\ Apply(h, S, NoCall, "idle")
      /\ call[h].ph = "revoke" /\ UNCHANGED <<row, up, counted, owed, status, hardstop, appr,
                                              undelivered, lock, dflt>>
  BY DEF RevokeMark, config
<1>2. /\ h \in Callers /\ CallOK(h, call[h], grants, lock)
  BY Idle
<1>3. g \in DOMAIN grants /\ call[h].cur.m = grants[g].m /\ call[h].cur \in Snaps
  BY <1>1, <1>2 DEF CallOK
<1>4. call[h].cur \in MemberSnaps /\ grants[g].m \in Members
  BY <1>3, GrantIs DEF MemberSnaps
<1>5. /\ GrantsMove /\ DOMAIN grants' = DOMAIN grants
      /\ \A n \in Members : n # grants[g].m \/ S = {} => ActiveIn(grants', n) = ActiveIn(grants, n)
  BY <1>1, <1>3, GrantMarked, ActiveMarked
<1>6. S \in SUBSET MemberSnaps /\ \A s \in S : s = call[h].cur
  BY <1>4
<1> HIDE DEF S
<1>7. /\ CallsOK' /\ \A e \in Callers : Keeps(call[e], call'[e])
      /\ call'[h].todo = S /\ call'[h].ph \in {"apply", "idle"}
      /\ \A e \in Callers : e # h => call'[e] = call[e]
  BY <1>1, <1>5, <1>6, HandlerApplies
<1>8. S # {} /\ call[h].cur.tok # 0 => QueuedIn(call', grants[g].m)
  BY <1>2, <1>3, <1>6, <1>7 DEF QueuedIn
<1>9. ASSUME NEW n \in Members PROVE Benign(n)
  BY <1>1, <1>3, <1>5, <1>8 DEF Benign, Base, RowsOK
<1>10. RowsOK' /\ GrantsOK' /\ ApprRowsOK' /\ lock' \in Callers \cup {Nobody}
  BY <1>1, <1>5 DEF Base, RowsOK, GrantsOK, ApprRowsOK, GrantsMove
<1>11. Handlers \subseteq Callers
  BY DEF Callers
<1> QED
  BY <1>1, <1>5, <1>7, <1>9, <1>10, <1>11 DEF Calm, Base, Outer, Quiet

\* A member's tier and team change, never its token.
LEMMA UpdateMemberCalm ==
  ASSUME Base, NEW h \in Handlers, NEW m \in Members, NEW x \in Teams \cup {None},
         NEW t \in Tiers \cup {None}, UpdateMember(h, m, x, t)
  PROVE  Calm
<1> DEFINE s == [Snapshot(m) EXCEPT !.team = row'[m].team, !.tier = row'[m].tier]
           S == IF x = None /\ t = None THEN {} ELSE {s}
<1>1. /\ Apply(h, S, NoCall, "idle") /\ call[h].ph = "idle"
      /\ UNCHANGED <<up, counted, owed, status, hardstop, grants, enders, appr, undelivered, lock, dflt>>
  BY DEF UpdateMember, Edit, May, config, history
<1>2. /\ row' = [row EXCEPT ![m].team = IF x # None THEN x ELSE @,
                            ![m].tier = IF t # None THEN t ELSE @]
      /\ row \in [Members -> Rows]
  BY DEF UpdateMember, Base, RowsOK
<1>3. /\ row' \in [Members -> Rows]
      /\ \A n \in Members : row'[n].tok = row[n].tok /\ row'[n].expired = row[n].expired
  <2>1. row[m] \in Rows
    BY <1>2
  <2>2. PICK tm \in Teams \cup {None} : tm = IF x # None THEN x ELSE row[m].team
    BY <2>1 DEF Rows
  <2>3. PICK ti \in Tiers \cup {None} : ti = IF t # None THEN t ELSE row[m].tier
    BY <2>1 DEF Rows
  <2>4. row' = [row EXCEPT ![m] = [row[m] EXCEPT !.team = tm, !.tier = ti]]
    BY <1>2, <2>1, <2>2, <2>3 DEF Rows
  <2>5. [row[m] EXCEPT !.team = tm, !.tier = ti] \in Rows
        /\ [row[m] EXCEPT !.team = tm, !.tier = ti].tok = row[m].tok
        /\ [row[m] EXCEPT !.team = tm, !.tier = ti].expired = row[m].expired
    BY <2>1 DEF Rows
  <2> QED
    BY ZenonT(60), <1>2, <2>4, <2>5
<1>4. s \in MemberSnaps /\ s.m = m /\ s.tok = row[m].tok
  <2>1. Snapshot(m) \in MemberSnaps /\ Snapshot(m).m = m /\ Snapshot(m).tok = row[m].tok
    BY SnapshotOK
  <2>2. row'[m].team \in Teams \cup {None} /\ row'[m].tier \in Tiers \cup {None}
    BY <1>3 DEF Rows
  <2> QED
    BY <2>1, <2>2 DEF MemberSnaps, Snaps
<1>5. S \in SUBSET MemberSnaps /\ \A y \in S : y.tok = row[y.m].tok
  BY <1>4
<1> HIDE DEF S
<1>6. GrantsMove
  BY <1>1, GrantsStay
<1>7. /\ CallsOK' /\ \A e \in Callers : Keeps(call[e], call'[e])
      /\ call'[h].todo = S /\ call'[h].ph \in {"apply", "idle"}
      /\ \A e \in Callers : e # h => call'[e] = call[e]
  BY <1>1, <1>5, <1>6, HandlerApplies
<1>8. ASSUME NEW n \in Members PROVE Benign(n)
  BY <1>1, <1>3 DEF Benign, Base, RowsOK
<1>9. RowsOK' /\ GrantsOK' /\ ApprRowsOK' /\ lock' \in Callers \cup {Nobody}
  BY <1>1, <1>3 DEF Base, RowsOK, GrantsOK, ApprRowsOK
<1>10. Handlers \subseteq Callers
  BY DEF Callers
<1> QED
  BY <1>1, <1>6, <1>7, <1>8, <1>9, <1>10 DEF Calm, Base, Outer, Quiet

\* A hard stop, and the switch that owes everybody a cap.
LEMMA SwitchCalm ==
  ASSUME Base, NEW h \in Handlers, NEW stop, HardStopOrg(h, stop) \/ SetBillingSettings(h)
  PROVE  Calm
<1>1. UNCHANGED <<row, up, counted, grants, enders, appr, undelivered, lock, dflt, call>>
  BY DEF HardStopOrg, SetBillingSettings, config, history
<1>2. (owed' = owed /\ status' # "stopped") \/ owed' = Members
  BY DEF HardStopOrg, SetBillingSettings, history
<1>3. GrantsMove
  BY <1>1, GrantsStay
<1>4. CallsOK' /\ \A e \in Callers : Keeps(call[e], call'[e])
  BY <1>1, <1>3, CallsStay
<1>5. ASSUME NEW n \in Members PROVE Benign(n)
  BY <1>1, <1>2 DEF Benign, Base, RowsOK
<1>6. RowsOK' /\ GrantsOK' /\ ApprRowsOK' /\ lock' \in Callers \cup {Nobody} /\ owed \subseteq owed'
  BY <1>1, <1>2 DEF Base, RowsOK, GrantsOK, ApprRowsOK
<1> QED
  BY <1>1, <1>3, <1>4, <1>5, <1>6 DEF Calm, Base, Outer, Quiet

\* A new token, or one written back without its limit, is owed a cap.
LEMMA TokenCalm ==
  ASSUME Base, NEW h \in Handlers, NEW m \in Members, RotateKey(h, m) \/ SetKeyIPWhitelist(h, m)
  PROVE  Calm
<1>1. UNCHANGED <<counted, status, hardstop, grants, enders, appr, undelivered, lock, dflt, call>>
      /\ owed' = owed \cup {m}
  BY DEF RotateKey, SetKeyIPWhitelist, config
<1>2. /\ row \in [Members -> Rows] /\ row[m] \in Rows /\ up[m].tok \in 0..MaxTokens
      /\ DOMAIN up = Members /\ DOMAIN up[m] = {"tok", "cap"} /\ MaxTokens \in Nat
  BY QuotaAssumption DEF Base, RowsOK
<1>3. /\ row' \in [Members -> Rows] /\ \A n \in Members : n # m => row'[n] = row[n]
      /\ row'[m].expired = row[m].expired /\ (row'[m].tok # 0 \/ row'[m] = row[m])
      /\ row[m].expired => row'[m] = row[m]
  <2>1. CASE RotateKey(h, m)
    <3>1. up[m].tok + 1 \in 0..MaxTokens /\ up[m].tok + 1 # 0 /\ ~row[m].expired
      BY <1>2, <2>1 DEF RotateKey
    <3>2. row' = [row EXCEPT ![m].tok = up[m].tok + 1]
      BY <2>1 DEF RotateKey
    <3>3. [row[m] EXCEPT !.tok = up[m].tok + 1] \in Rows
      BY <1>2, <3>1 DEF Rows
    <3> QED
      BY <1>2, <3>1, <3>2, <3>3 DEF Rows
  <2>2. CASE SetKeyIPWhitelist(h, m)
    BY <1>2, <2>2 DEF SetKeyIPWhitelist
  <2> QED
    BY <2>1, <2>2
<1>4. /\ DOMAIN up' = Members /\ \A n \in Members : n # m => up'[n] = up[n]
      /\ DOMAIN up'[m] = {"tok", "cap"} /\ up'[m].tok \in 0..MaxTokens
  BY <1>2 DEF RotateKey, SetKeyIPWhitelist
<1>5. GrantsMove
  BY <1>1, GrantsStay
<1>6. CallsOK' /\ \A e \in Callers : Keeps(call[e], call'[e])
  BY <1>1, <1>5, CallsStay
<1>7. ASSUME NEW n \in Members PROVE Benign(n)
  <2>1. CASE n = m
    BY <1>1, <1>2, <1>3, <2>1 DEF Benign
  <2>2. CASE n # m
    BY <1>1, <1>3, <1>4, <2>2 DEF Benign
  <2> QED
    BY <2>1, <2>2
<1>8. RowsOK' /\ GrantsOK' /\ ApprRowsOK' /\ lock' \in Callers \cup {Nobody} /\ owed \subseteq owed'
  BY <1>1, <1>3, <1>4 DEF Base, RowsOK, GrantsOK, ApprRowsOK
<1> QED
  BY <1>1, <1>5, <1>6, <1>7, <1>8 DEF Calm, Base, Outer, Quiet

\* A tier is written, and the members that have it are applied.
LEMMA WriteTierCalm ==
  ASSUME Base, NEW h \in Handlers, WriteTier(h) \/ SoftDeleteTier(h)
  PROVE  Calm
<1>1. Rests /\ dflt' = dflt /\ call[h].ph \in {"tier", "deltier"}
  BY DEF WriteTier, SoftDeleteTier, Rests, history
<1>2. h \in Callers /\ Handlers \subseteq Callers
  BY DEF Callers
<1>3. CASE call' = [call EXCEPT ![h] = NoCall]
  BY <1>1, <1>2, <1>3, ReturnCalm
<1>4. CASE WriteTier(h) /\ call' # [call EXCEPT ![h] = NoCall]
  <2> DEFINE S == {Snapshot(m) : m \in ListMembersByTier(call[h].key)}
  <2>1. Apply(h, S, NoCall, "idle")
    BY <1>4 DEF WriteTier
  <2>2. S \in SUBSET MemberSnaps /\ \A s \in S : s.tok = row[s.m].tok
    BY SnapshotOK DEF ListMembersByTier
  <2> HIDE DEF S
  <2>3. GrantsMove /\ lock' = lock
    BY <1>1, GrantsStay DEF Rests
  <2>4. /\ CallsOK' /\ \A e \in Callers : Keeps(call[e], call'[e])
        /\ call'[h].todo = S /\ call'[h].ph \in {"apply", "idle"}
        /\ \A e \in Callers : e # h => call'[e] = call[e]
    BY <1>1, <2>1, <2>2, <2>3, HandlerApplies
  <2>5. ASSUME NEW n \in Members PROVE Benign(n)
    BY <1>1 DEF Benign, Rests, Base, RowsOK
  <2>6. RowsOK' /\ GrantsOK' /\ ApprRowsOK' /\ lock' \in Callers \cup {Nobody}
    BY <1>1 DEF Base, Rests, RowsOK, GrantsOK, ApprRowsOK
  <2> QED
    BY <1>1, <1>2, <2>3, <2>4, <2>5, <2>6 DEF Calm, Base, Outer, Quiet, Rests
<1> QED
  BY <1>3, <1>4 DEF SoftDeleteTier

\* A stop queues every member that has a token, or owes it a cap.
LEMMA FlipCalm ==
  ASSUME Base, NEW h \in Handlers, FlipStatus(h)
  PROVE  Calm
<1> DEFINE ms == ListActiveOverridableMembers
           T == {Snapshot(m) : m \in ms}
           S == IF Converges(h) THEN T ELSE {}
<1>1. /\ call[h].ph = "flip" /\ status' = call[h].key
      /\ UNCHANGED <<row, up, counted, hardstop, grants, enders, appr, undelivered, lock, dflt>>
  BY DEF FlipStatus
<1>2. \/ Apply(h, S, NoCall, "idle") /\ owed' = owed
      \/ owed' = owed \cup ms /\ call' = [call EXCEPT ![h] = NoCall]
  BY DEF FlipStatus
<1>3. h \in Callers /\ Handlers \subseteq Callers /\ GrantsMove /\ lock # h
  BY <1>1, GrantsStay, Idle DEF Callers
<1>4. status' = "stopped" /\ hardstop => Converges(h)
  BY <1>1 DEF Converges, GetOrgBillingFlags
<1>5. RowsOK' /\ GrantsOK' /\ ApprRowsOK' /\ lock' \in Callers \cup {Nobody} /\ owed \subseteq owed'
  BY <1>1, <1>2 DEF Base, RowsOK, GrantsOK, ApprRowsOK, ListActiveOverridableMembers
<1>6. CASE Apply(h, S, NoCall, "idle") /\ owed' = owed
  <2>1. T \in SUBSET MemberSnaps /\ \A s \in T : s.tok = row[s.m].tok
    BY SnapshotOK DEF ListActiveOverridableMembers
  <2>2. \A m \in Members : row[m].tok # 0 => \E s \in T : s.m = m /\ s.tok # 0
    BY SnapshotOK DEF ListActiveOverridableMembers
  <2>3. S \in SUBSET MemberSnaps /\ (\A s \in S : s.tok = row[s.m].tok) /\ (Converges(h) => S = T)
    BY <2>1
  <2> HIDE DEF S, T
  <2>4. /\ CallsOK' /\ \A e \in Callers : Keeps(call[e], call'[e])
        /\ call'[h].todo = S /\ call'[h].ph \in {"apply", "idle"}
        /\ \A e \in Callers : e # h => call'[e] = call[e]
    BY <1>1, <1>3, <1>6, <2>3, HandlerApplies
  <2>5. ASSUME NEW n \in Members, row[n].tok # 0, Converges(h) PROVE QueuedIn(call', n)
    BY <1>3, <2>2, <2>3, <2>4, <2>5 DEF QueuedIn
  <2>6. ASSUME NEW n \in Members PROVE Benign(n)
    BY <1>1, <1>4, <1>6, <2>5 DEF Benign, Base, RowsOK
  <2> QED
    BY <1>1, <1>3, <1>5, <2>4, <2>6 DEF Calm, Base, Outer, Quiet
<1>7. CASE owed' = owed \cup ms /\ call' = [call EXCEPT ![h] = NoCall]
  <2>1. CallOK(h, NoCall, grants', lock) /\ NoCall.todo = {} /\ NoCall.cur = NoSnap
        /\ NoCall.ph = "idle"
    BY <1>3, NoCallOK DEF NoCall
  <2>2. /\ CallsOK' /\ \A e \in Callers : Keeps(call[e], call'[e])
        /\ call'[h] = NoCall /\ \A e \in Callers : e # h => call'[e] = call[e]
    BY <1>1, <1>3, <1>7, <2>1, CallSet
  <2>3. ASSUME NEW n \in Members PROVE Benign(n)
    BY <1>1, <1>7 DEF Benign, Base, RowsOK, ListActiveOverridableMembers
  <2> QED
    BY <1>1, <1>3, <1>5, <2>1, <2>2, <2>3 DEF Calm, Base, Outer, Quiet
<1> QED
  BY <1>2, <1>6, <1>7

-----------------------------------------------------------------------------
(* The worker, and time.                                                   *)

\* What the invariant says of the worker.
LEMMA WorkerIs ==
  ASSUME Base
  PROVE  /\ Worker \in Callers /\ Worker \notin Handlers /\ CallOK(Worker, call[Worker], grants, lock)
         /\ Handlers \subseteq Callers /\ DOMAIN call[Worker] = CallFields
         /\ call[Worker].ph \in WorkerPhases
         /\ call[Worker].ph \notin {"gate", "put"} => lock # Worker
         /\ call[Worker].gs \subseteq DOMAIN grants
  BY QuotaAssumption DEF Base, CallsOK, CallOK, Callers

\* The worker begins to apply the members S, to go on in phase ph.
LEMMA WorkerApplies ==
  ASSUME Base, GrantsMove, lock' = lock, call[Worker].ph \notin {"apply", "gate", "put"},
         NEW S \in SUBSET MemberSnaps, \A s \in S : s.tok = row[s.m].tok,
         NEW r, DOMAIN r = CallFields, r.gs \subseteq DOMAIN grants,
         NEW ph \in {"expire", "mark"}, Apply(Worker, S, r, ph)
  PROVE  /\ CallsOK' /\ \A d \in Callers : Keeps(call[d], call'[d])
         /\ call'[Worker].todo = S
         /\ \A d \in Callers : d # Worker => call'[d] = call[d]
<1> DEFINE q == [r EXCEPT !.todo = S, !.then = ph]
           n == After(q)
<1>1. DOMAIN q = CallFields /\ q.todo = S /\ q.then = ph /\ q.gs = r.gs
  BY DEF CallFields
<1>2. call' = [call EXCEPT ![Worker] = n]
  BY DEF Apply
<1> HIDE DEF q
<1>3. /\ DOMAIN n = CallFields /\ n.todo = S /\ n.cur = NoSnap
      /\ n.ph = (IF S # {} THEN "apply" ELSE ph) /\ n.then = ph
      /\ n.gs \subseteq DOMAIN grants
  BY <1>1, AfterIs
<1> HIDE DEF n
<1>4. Worker \in Callers /\ lock # Worker /\ DOMAIN grants \subseteq DOMAIN grants'
  BY WorkerIs DEF GrantsMove
<1>5. CallOK(Worker, n, grants', lock)
  BY <1>3, <1>4 DEF CallOK, WorkerPhases, NoSnap, Snaps
<1> QED
  BY <1>2, <1>3, <1>4, <1>5, CallSet

\* The worker goes on without applying anybody.
LEMMA WorkerCalm ==
  ASSUME Base, Rests, dflt' = dflt, call[Worker].ph \notin {"apply", "gate", "put"},
         NEW r, DOMAIN r = CallFields, r.ph \in {"expire", "reset", "idle"},
         r.then \in {"idle", "expire", "mark"},
         r.todo = {}, r.gs \subseteq DOMAIN grants, r.cur \in Snaps, r.cur \in {call[Worker].cur, NoSnap},
         call' = [call EXCEPT ![Worker] = r]
  PROVE  Calm
<1>1. /\ Worker \in Callers /\ lock # Worker /\ call[Worker].ph # "dispatch"
  BY WorkerIs DEF WorkerPhases
<1>2. CallOK(Worker, r, grants, lock)
  BY <1>1 DEF CallOK, WorkerPhases
<1> QED
  BY <1>1, <1>2, CallCalm

\* The worker goes from one part of its tick to the next.
LEMMA TickCalm ==
  ASSUME Base, Tick \/ ResetDuePolicies \/ EndTick
  PROVE  Calm
<1>1. Rests /\ dflt' = dflt /\ call[Worker].ph \in {"idle", "expire", "reset"}
  BY DEF Tick, ResetDuePolicies, EndTick, Rests, config, history
<1>2. NoSnap \in Snaps
  BY DEF NoSnap, Snaps
<1>3. CASE Tick
  <2> DEFINE r == [NoCall EXCEPT !.ph = "expire", !.gs = ListExpiredActiveGrants]
  <2>1. /\ DOMAIN r = CallFields /\ r.ph = "expire" /\ r.then = "idle" /\ r.todo = {}
        /\ r.gs = ListExpiredActiveGrants /\ r.cur = NoSnap
    BY DEF NoCall, CallFields
  <2>2. call' = [call EXCEPT ![Worker] = r] /\ ListExpiredActiveGrants \subseteq DOMAIN grants
    BY <1>3 DEF Tick, ListExpiredActiveGrants
  <2> HIDE DEF r
  <2> QED
    BY <1>1, <1>2, <2>1, <2>2, WorkerCalm
<1>4. CASE ResetDuePolicies
  <2> DEFINE r == [NoCall EXCEPT !.ph = "reset", !.ps = Due, !.per = Periods]
  <2>1. /\ DOMAIN r = CallFields /\ r.ph = "reset" /\ r.then = "idle" /\ r.todo = {}
        /\ r.gs = {} /\ r.cur = NoSnap
    BY DEF NoCall, CallFields
  <2>2. call' = [call EXCEPT ![Worker] = r]
    BY <1>4 DEF ResetDuePolicies
  <2> HIDE DEF r
  <2> QED
    BY <1>1, <1>2, <2>1, <2>2, WorkerCalm
<1>5. CASE EndTick
  <2>1. call' = [call EXCEPT ![Worker] = NoCall]
    BY <1>5 DEF EndTick
  <2> QED
    BY <1>1, <2>1, WorkerIs, ReturnCalm
<1> QED
  BY <1>3, <1>4, <1>5

\* MarkPolicyReset.
LEMMA MarkPolicyCalm ==
  ASSUME Base, MarkPolicyReset
  PROVE  Calm
<1> DEFINE r == [call[Worker] EXCEPT !.ph = "reset", !.num = 0]
<1>1. Rests /\ dflt' = dflt /\ call[Worker].ph = "mark"
      /\ call' = [call EXCEPT ![Worker].ph = "reset", ![Worker].num = 0]
  BY DEF MarkPolicyReset, Rests, history
<1>2. Worker \in Callers /\ CallOK(Worker, call[Worker], grants, lock) /\ DOMAIN call = Callers
  BY WorkerIs DEF Base, CallsOK
<1>3. call' = [call EXCEPT ![Worker] = r]
  BY <1>1, <1>2
<1>4. /\ DOMAIN r = CallFields /\ r.ph = "reset" /\ r.then = call[Worker].then
      /\ r.todo = call[Worker].todo /\ r.gs = call[Worker].gs /\ r.cur = call[Worker].cur
  BY <1>2 DEF CallOK, CallFields
<1> HIDE DEF r
<1>5. /\ r.then \in {"idle", "expire", "mark"} /\ r.todo = {} /\ r.gs \subseteq DOMAIN grants
      /\ r.cur \in Snaps
  BY <1>1, <1>2, <1>4 DEF CallOK
<1> QED
  BY <1>1, <1>3, <1>4, <1>5, WorkerCalm

\* ResetPolicy queues the members in the scope of a policy.
LEMMA ResetPolicyCalm ==
  ASSUME Base, NEW i, ResetPolicy(i)
  PROVE  Calm
<1> DEFINE S == {Snapshot(m) : m \in policyScopeMembers(i)}
           r == [call[Worker] EXCEPT !.num = i, !.ps = @ \ {i}]
<1>1. Rests /\ dflt' = dflt /\ call[Worker].ph = "reset" /\ Apply(Worker, S, r, "mark")
  BY DEF ResetPolicy, Rests, config, history
<1>2. S \in SUBSET MemberSnaps /\ \A s \in S : s.tok = row[s.m].tok
  BY SnapshotOK DEF policyScopeMembers, ListActiveOverridableMembers
<1>3. DOMAIN r = CallFields /\ r.gs = call[Worker].gs
  BY WorkerIs DEF CallFields
<1>4. GrantsMove /\ lock' = lock
  BY <1>1, GrantsStay DEF Rests
<1> HIDE DEF S, r
<1>5. /\ CallsOK' /\ \A d \in Callers : Keeps(call[d], call'[d])
      /\ \A d \in Callers : d # Worker => call'[d] = call[d]
  BY <1>1, <1>2, <1>3, <1>4, WorkerIs, WorkerApplies
<1>6. ASSUME NEW n \in Members PROVE Benign(n)
  BY <1>1 DEF Benign, Rests, Base, RowsOK
<1>7. RowsOK' /\ GrantsOK' /\ ApprRowsOK' /\ lock' \in Callers \cup {Nobody}
  BY <1>1 DEF Base, Rests, RowsOK, GrantsOK, ApprRowsOK
<1> QED
  BY <1>1, <1>4, <1>5, <1>6, <1>7, WorkerIs DEF Calm, Base, Outer, Quiet, Rests

\* An expired grant queues its member as it is now.
LEMMA ReverseCalm ==
  ASSUME Base, NEW g \in DOMAIN grants, ReverseExpiredGrant(g)
  PROVE  Calm
<1> DEFINE m == grants[g].m
           r == [call[Worker] EXCEPT !.gs = @ \ {g}]
           t == [r EXCEPT !.ph = "ttl", !.num = g, !.cur = Snapshot(m)]
<1>1. /\ call[Worker].ph = "expire" /\ MarkGrantReverted(g, "expired", "expire")
      /\ UNCHANGED <<row, up, counted, owed, status, hardstop, appr, undelivered, lock, dflt>>
  BY DEF ReverseExpiredGrant, config
<1>2. \/ /\ Marked(g) /\ grants[g].kind = "quota" /\ row[m].tok # 0
         /\ Apply(Worker, {Snapshot(m)}, r, "expire")
      \/ Marked(g) /\ grants[g].kind = "account_ttl" /\ call' = [call EXCEPT ![Worker] = t]
      \/ ~(Marked(g) /\ grants[g].kind = "quota" /\ row[m].tok # 0) /\ call' = [call EXCEPT ![Worker] = r]
  BY DEF ReverseExpiredGrant
<1>3. /\ Worker \in Callers /\ CallOK(Worker, call[Worker], grants, lock) /\ lock # Worker
      /\ Worker \notin Handlers
  BY <1>1, WorkerIs
<1>4. m \in Members /\ Snapshot(m) \in MemberSnaps /\ Snapshot(m).m = m
      /\ Snapshot(m).tok = row[m].tok
  BY GrantIs, SnapshotOK
<1>5. /\ GrantsMove /\ DOMAIN grants' = DOMAIN grants
      /\ \A n \in Members : (n # m \/ grants[g].kind # "quota" \/ ~Marked(g))
                              => ActiveIn(grants', n) = ActiveIn(grants, n)
  BY <1>1, GrantMarked, ActiveMarked
<1>6. /\ DOMAIN r = CallFields /\ r.gs \subseteq DOMAIN grants /\ r.ph = "expire"
      /\ r.then = call[Worker].then /\ r.todo = {} /\ r.cur = call[Worker].cur
  BY <1>1, <1>3 DEF CallOK, CallFields
<1>7. /\ DOMAIN t = CallFields /\ t.gs = r.gs /\ t.ph = "ttl" /\ t.then = r.then /\ t.todo = {}
      /\ t.cur = Snapshot(m)
  BY <1>6 DEF CallFields
<1> HIDE DEF r, t
<1>8. CallOK(Worker, r, grants', lock) /\ CallOK(Worker, t, grants', lock)
  BY <1>3, <1>4, <1>5, <1>6, <1>7 DEF CallOK, WorkerPhases, MemberSnaps
<1>9. /\ CallsOK' /\ \A d \in Callers : Keeps(call[d], call'[d])
      /\ \A d \in Callers : d # Worker => call'[d] = call[d]
      /\ (Marked(g) /\ grants[g].kind = "quota" /\ row[m].tok # 0) => call'[Worker].todo = {Snapshot(m)}
  <2>1. CASE Apply(Worker, {Snapshot(m)}, r, "expire")
    BY ZenonT(60), <1>1, <1>4, <1>5, <1>6, <2>1, WorkerApplies
  <2>2. CASE Marked(g) /\ grants[g].kind = "account_ttl" /\ call' = [call EXCEPT ![Worker] = t]
    BY <1>1, <1>3, <1>4, <1>5, <1>7, <1>8, <2>2, CallSet
  <2>3. CASE ~(Marked(g) /\ grants[g].kind = "quota" /\ row[m].tok # 0)
             /\ call' = [call EXCEPT ![Worker] = r]
    BY <1>1, <1>3, <1>5, <1>6, <1>8, <2>3, CallSet
  <2> QED
    BY <1>2, <2>1, <2>2, <2>3
<1>10. (Marked(g) /\ grants[g].kind = "quota" /\ row[m].tok # 0) => QueuedIn(call', m)
  BY <1>3, <1>4, <1>9 DEF QueuedIn
<1>11. ASSUME NEW n \in Members PROVE Benign(n)
  BY <1>1, <1>5, <1>10 DEF Benign, Base, RowsOK
<1>12. RowsOK' /\ GrantsOK' /\ ApprRowsOK' /\ lock' \in Callers \cup {Nobody}
  BY <1>1, <1>5 DEF Base, RowsOK, GrantsOK, ApprRowsOK, GrantsMove
<1> QED
  BY <1>1, <1>5, <1>9, <1>11, <1>12, WorkerIs DEF Calm, Base, Outer, Quiet

\* DeleteToken: the key of an expired member goes first,
LEMMA DeleteTokenCalm ==
  ASSUME Base, DeleteToken
  PROVE  Calm
<1> DEFINE s == call[Worker].cur
           r == [call[Worker] EXCEPT !.ph = "clear"]
           t == [call[Worker] EXCEPT !.ph = "expire", !.num = 0, !.cur = NoSnap]
<1>1. /\ call[Worker].ph = "ttl" /\ UNCHANGED <<row, counted, owed, status, hardstop, grants, enders,
                                                appr, undelivered, lock, dflt>>
  BY DEF DeleteToken, config, history
<1>2. /\ Worker \in Callers /\ CallOK(Worker, call[Worker], grants, lock) /\ lock # Worker
      /\ Worker \notin Handlers /\ DOMAIN call = Callers
  BY <1>1, WorkerIs DEF Base, CallsOK
<1>3. GrantsMove /\ s \in Snaps /\ s.m \in Members
  BY <1>1, <1>2, GrantsStay DEF CallOK, MemberSnaps
<1>4. call' \in {[call EXCEPT ![Worker] = r], [call EXCEPT ![Worker] = t]}
  BY <1>2 DEF DeleteToken
<1>5. /\ DOMAIN r = CallFields /\ r.gs = call[Worker].gs /\ r.ph = "clear"
      /\ r.then = call[Worker].then /\ r.todo = call[Worker].todo /\ r.cur = s
      /\ DOMAIN t = CallFields /\ t.gs = call[Worker].gs /\ t.ph = "expire"
      /\ t.then = call[Worker].then /\ t.todo = call[Worker].todo /\ t.cur = NoSnap
  BY <1>2 DEF CallOK, CallFields
<1> HIDE DEF r, t
<1>6. CallOK(Worker, r, grants', lock) /\ CallOK(Worker, t, grants', lock) /\ r.todo = {} /\ t.todo = {}
  BY <1>1, <1>2, <1>3, <1>5 DEF CallOK, WorkerPhases, MemberSnaps, NoSnap, Snaps
<1>7. /\ CallsOK' /\ \A d \in Callers : Keeps(call[d], call'[d])
      /\ \A d \in Callers : d # Worker => call'[d] = call[d]
  BY <1>1, <1>2, <1>3, <1>4, <1>5, <1>6, CallSet
<1>8. /\ DOMAIN up' = Members /\ \A n \in Members : n # s.m => up'[n] = up[n]
      /\ up'[s.m] = up[s.m] \/ up'[s.m] = [tok |-> 0, cap |-> 0]
  BY <1>3 DEF DeleteToken, Base, RowsOK
<1>9. ASSUME NEW n \in Members PROVE Benign(n)
  BY <1>1, <1>8 DEF Benign, Base, RowsOK
<1>10. RowsOK' /\ GrantsOK' /\ ApprRowsOK' /\ lock' \in Callers \cup {Nobody}
  <2>1. MaxTokens \in Nat
    BY QuotaAssumption
  <2> QED
    BY SMTT(30), <1>1, <1>3, <1>8, <2>1 DEF Base, RowsOK, GrantsOK, ApprRowsOK
<1> QED
  BY <1>1, <1>3, <1>7, <1>9, <1>10, WorkerIs DEF Calm, Base, Outer, Quiet

\* and then ExpireMember writes the row.
LEMMA ExpireMemberCalm ==
  ASSUME Base, ExpireMember
  PROVE  Calm
<1> DEFINE s == call[Worker].cur
           t == [call[Worker] EXCEPT !.ph = "expire", !.num = 0, !.cur = NoSnap]
<1>1. /\ call[Worker].ph = "clear" /\ call' = [call EXCEPT ![Worker] = t]
      /\ UNCHANGED <<up, counted, owed, status, hardstop, grants, enders, appr, undelivered, lock, dflt>>
  BY DEF ExpireMember, config, history
<1>2. /\ Worker \in Callers /\ CallOK(Worker, call[Worker], grants, lock) /\ lock # Worker
      /\ Worker \notin Handlers
  BY <1>1, WorkerIs
<1>3. GrantsMove /\ s.m \in Members
  BY <1>1, <1>2, GrantsStay DEF CallOK, MemberSnaps
<1>5. /\ DOMAIN t = CallFields /\ t.gs = call[Worker].gs /\ t.ph = "expire"
      /\ t.then = call[Worker].then /\ t.todo = call[Worker].todo /\ t.cur = NoSnap
  BY <1>2 DEF CallOK, CallFields
<1> HIDE DEF t
<1>6. CallOK(Worker, t, grants', lock) /\ t.todo = {}
  BY <1>1, <1>2, <1>5 DEF CallOK, WorkerPhases, NoSnap, Snaps
<1>7. /\ CallsOK' /\ \A d \in Callers : Keeps(call[d], call'[d])
      /\ \A d \in Callers : d # Worker => call'[d] = call[d]
  BY <1>1, <1>2, <1>3, <1>5, <1>6, CallSet
<1>8. /\ row' \in [Members -> Rows] /\ \A n \in Members : n # s.m => row'[n] = row[n]
      /\ row'[s.m].expired /\ row'[s.m].tok \in {0, row[s.m].tok}
  <2>1. row \in [Members -> Rows] /\ row[s.m] \in Rows /\ 0 \in 0..MaxTokens
    BY <1>3, QuotaAssumption DEF Base, RowsOK
  <2>2. PICK k \in 0..MaxTokens : k = IF s.tok = 0 THEN row[s.m].tok ELSE 0
    BY <2>1 DEF Rows
  <2>3. row' = [row EXCEPT ![s.m] = [row[s.m] EXCEPT !.tok = k, !.expired = TRUE]]
    BY <2>1, <2>2, <1>3 DEF ExpireMember
  <2>4. [row[s.m] EXCEPT !.tok = k, !.expired = TRUE] \in Rows
        /\ [row[s.m] EXCEPT !.tok = k, !.expired = TRUE].expired
        /\ [row[s.m] EXCEPT !.tok = k, !.expired = TRUE].tok = k
    BY <2>1 DEF Rows
  <2> QED
    BY <1>3, <2>1, <2>2, <2>3, <2>4
<1>9. ASSUME NEW n \in Members PROVE Benign(n)
  BY <1>1, <1>8 DEF Benign, Base, RowsOK
<1>10. RowsOK' /\ GrantsOK' /\ ApprRowsOK' /\ lock' \in Callers \cup {Nobody}
  BY <1>1, <1>8 DEF Base, RowsOK, GrantsOK, ApprRowsOK
<1> QED
  BY <1>1, <1>3, <1>7, <1>9, <1>10, WorkerIs DEF Calm, Base, Outer, Quiet

\* A grant runs out; nothing happens before the worker sees it.
LEMMA ExpireAtCalm ==
  ASSUME Base, NEW g \in DOMAIN grants, ExpireAt(g)
  PROVE  Calm
<1>1. /\ grants' = [grants EXCEPT ![g].over = TRUE]
      /\ UNCHANGED <<row, up, counted, owed, status, hardstop, enders, appr, undelivered, lock, dflt,
                     call>>
  BY DEF ExpireAt, config, history
<1>2. grants \in Seq(Grants) /\ grants[g] \in Grants /\ Len(grants) <= MaxGrants
      /\ Len(grants) \in Nat /\ MaxGrants \in Nat /\ DOMAIN enders = 1..MaxGrants
  BY GrantIs, QuotaAssumption DEF Base, GrantsOK
<1>3. [grants[g] EXCEPT !.over = TRUE] \in Grants
  BY <1>2 DEF Grants
<1>4. grants' \in Seq(Grants) /\ DOMAIN grants' = DOMAIN grants /\ Len(grants') = Len(grants)
  BY <1>1, <1>2, <1>3
<1>5. \A i \in DOMAIN grants : /\ grants'[i].m = grants[i].m /\ grants'[i].kind = grants[i].kind
                               /\ grants'[i].from = grants[i].from /\ grants'[i].st = grants[i].st
  BY <1>1, <1>2 DEF Grants
<1>6. GrantsMove
  BY <1>1, <1>2, <1>4, <1>5 DEF GrantsMove
<1>7. CallsOK' /\ \A e \in Callers : Keeps(call[e], call'[e])
  BY <1>1, <1>6, CallsStay
<1>8. \A n \in Members : ActiveIn(grants', n) = ActiveIn(grants, n)
  BY <1>4, <1>5 DEF ActiveIn
<1>9. ASSUME NEW n \in Members PROVE Benign(n)
  BY <1>1, <1>8 DEF Benign, Base, RowsOK
<1>10. RowsOK' /\ GrantsOK' /\ ApprRowsOK' /\ lock' \in Callers \cup {Nobody}
  BY <1>1, <1>6 DEF Base, RowsOK, GrantsOK, ApprRowsOK, GrantsMove
<1> QED
  BY <1>1, <1>4, <1>6, <1>7, <1>9, <1>10 DEF Calm, Base, Outer, Quiet

\* A period turns.
LEMMA PeriodCalm ==
  ASSUME Base, NEW p, PeriodTurns(p)
  PROVE  Calm
<1> DEFINE r == [call[Worker] EXCEPT !.per = @ \ {p}]
<1>1. Rests /\ dflt' = dflt /\ call' = [call EXCEPT ![Worker].per = @ \ {p}]
  BY DEF PeriodTurns, Rests, history
<1>2. /\ Worker \in Callers /\ CallOK(Worker, call[Worker], grants, lock) /\ Worker \notin Handlers
      /\ DOMAIN call = Callers /\ Handlers \subseteq Callers
  BY WorkerIs DEF Base, CallsOK
<1>3. /\ DOMAIN r = CallFields /\ \A f \in CallFields \ {"per"} : r[f] = call[Worker][f]
  BY <1>2 DEF CallOK
<1>4. /\ DOMAIN call' = Callers /\ call'[Worker] = r
      /\ \A d \in Callers : d # Worker => call'[d] = call[d]
  BY <1>1, <1>2
<1> HIDE DEF r
<1>5. /\ r.ph = call[Worker].ph /\ r.then = call[Worker].then /\ r.todo = call[Worker].todo
      /\ r.cur = call[Worker].cur /\ r.val = call[Worker].val /\ r.cnt = call[Worker].cnt
      /\ r.gs = call[Worker].gs /\ r.num = call[Worker].num /\ r.key = call[Worker].key
      /\ r.seen = call[Worker].seen
  BY <1>3 DEF CallFields
<1>6. GrantsMove /\ CallOK(Worker, r, grants', lock')
  BY <1>1, <1>2, <1>3, <1>5, GrantsStay DEF Rests, CallOK
<1>7. CallStep(Worker, r)
  BY <1>1, <1>4, <1>6 DEF CallStep, Rests
<1>8. CallsOK'
  BY <1>2, <1>6, <1>7, CallsMove
<1>9. \A d \in Callers : Keeps(call[d], call'[d])
  BY <1>4, <1>5 DEF Keeps
<1>10. ASSUME NEW m \in Members PROVE Benign(m)
  BY <1>1 DEF Benign, Rests, Base, RowsOK
<1>11. RowsOK' /\ GrantsOK' /\ ApprRowsOK' /\ lock' \in Callers \cup {Nobody}
  BY <1>1 DEF Base, Rests, RowsOK, GrantsOK, ApprRowsOK
<1> QED
  BY <1>1, <1>2, <1>4, <1>6, <1>8, <1>9, <1>10, <1>11 DEF Calm, Base, Outer, Quiet, Rests

-----------------------------------------------------------------------------
(* Requests for approval.                                                  *)

\* A request has one grant at most, and only if approved; the handler that
\* dispatches an approved one is alone and has not made the grant yet; an
\* approved one without grant is being dispatched or has failed.
ApprInv ==
  /\ \A f, g \in DOMAIN grants : (grants[f].from = grants[g].from /\ grants[f].from # None) => f = g
  /\ \A a \in Approvals : Sponsored(a) # {} => appr[a].state \in Final
  /\ \A h \in Handlers : call[h].ph = "dispatch" =>
       appr[call[h].key].state \in Final /\ Sponsored(call[h].key) = {}
  /\ \A h, k \in Handlers :
       (call[h].ph = "dispatch" /\ call[k].ph = "dispatch" /\ call[h].key = call[k].key) => h = k
  /\ \A a \in Approvals : (appr[a].state \in Final /\ Sponsored(a) = {}) =>
       a \in undelivered \/ \E h \in Handlers : call[h].ph = "dispatch" /\ call[h].key = a

\* Steps that leave the requests alone.
LEMMA ApprKept ==
  ASSUME Base, ApprInv, GrantsMove, Quiet
  PROVE  ApprInv'
<1>1. \A g \in DOMAIN grants' : \/ g \in DOMAIN grants /\ grants'[g].from = grants[g].from
                                \/ grants'[g].from = None
  BY DEF GrantsMove, Quiet
<1>2. DOMAIN grants \subseteq DOMAIN grants'
      /\ \A g \in DOMAIN grants : grants'[g].from = grants[g].from
  BY DEF GrantsMove
<1>3. \A a \in Approvals : Sponsored(a)' = Sponsored(a)
  BY <1>1, <1>2, QuotaAssumption DEF Sponsored
<1>4. \A h \in Handlers : call[h].ph = "dispatch" => call[h].key \in Approvals
  BY Idle DEF CallOK
<1>5. \A f, g \in DOMAIN grants' :
        (grants'[f].from = grants'[g].from /\ grants'[f].from # None) => f = g
  BY <1>1, <1>2 DEF ApprInv
<1>6. \A a \in Approvals : Sponsored(a)' # {} => appr'[a].state \in Final
  BY <1>3 DEF ApprInv, Quiet
<1>7. \A h \in Handlers : call'[h].ph = "dispatch" =>
        /\ appr'[call'[h].key].state \in Final
        /\ {g \in DOMAIN grants' : grants'[g].from = call'[h].key} = {}
  <2> SUFFICES ASSUME NEW h \in Handlers, call'[h].ph = "dispatch"
               PROVE  appr'[call'[h].key].state \in Final
                      /\ {g \in DOMAIN grants' : grants'[g].from = call'[h].key} = {}
    OBVIOUS
  <2>1. call[h].ph = "dispatch" /\ call'[h].key = call[h].key /\ call[h].key \in Approvals
    BY <1>4 DEF Quiet
  <2>2. Sponsored(call[h].key) = {} /\ appr[call[h].key].state \in Final
    BY <2>1 DEF ApprInv
  <2> QED
    BY <1>3, <2>1, <2>2 DEF Sponsored, Quiet
<1>8. \A h, k \in Handlers :
        (call'[h].ph = "dispatch" /\ call'[k].ph = "dispatch" /\ call'[h].key = call'[k].key) => h = k
  BY DEF Quiet, ApprInv
<1>9. \A a \in Approvals : (appr'[a].state \in Final /\ Sponsored(a)' = {}) =>
        a \in undelivered' \/ \E h \in Handlers : call'[h].ph = "dispatch" /\ call'[h].key = a
  BY <1>3 DEF Quiet, ApprInv
<1> QED
  BY <1>5, <1>6, <1>7, <1>8, <1>9 DEF ApprInv, Sponsored

\* Handler h is given request a to dispatch, which was not approved before and
\* is now; or it is rejected, referred on or found changed, and h returns.
LEMMA Approved ==
  ASSUME Base, ApprInv, UNCHANGED <<grants, undelivered>>, NEW h \in Handlers, NEW a \in Approvals,
         appr[a].state \notin Final, call[h].ph # "dispatch",
         \A b \in Approvals : b # a => appr'[b] = appr[b],
         \A k \in Handlers : k # h => call'[k] = call[k],
         call'[h].ph = "dispatch" <=> appr'[a].state \in Final,
         call'[h].ph = "dispatch" => call'[h].key = a
  PROVE  ApprInv'
<1>1. \A b \in Approvals : {g \in DOMAIN grants' : grants'[g].from = b} = Sponsored(b)
  BY DEF Sponsored
<1>2. Sponsored(a) = {} /\ \A k \in Handlers : call[k].ph = "dispatch" =>
                                call[k].key # a /\ call[k].key \in Approvals
  BY Idle DEF ApprInv, CallOK
<1>3. \A b \in Approvals : Sponsored(b) # {} => appr'[b].state \in Final
  BY <1>2 DEF ApprInv
<1>4. \A k \in Handlers : call'[k].ph = "dispatch" =>
        /\ appr'[call'[k].key].state \in Final
        /\ {g \in DOMAIN grants' : grants'[g].from = call'[k].key} = {}
  BY <1>1, <1>2 DEF ApprInv
<1>5. \A k, l \in Handlers :
       (call'[k].ph = "dispatch" /\ call'[l].ph = "dispatch" /\ call'[k].key = call'[l].key) => k = l
  BY <1>2 DEF ApprInv
<1>6. \A b \in Approvals : (appr'[b].state \in Final /\ Sponsored(b) = {}) =>
       b \in undelivered' \/ \E k \in Handlers : call'[k].ph = "dispatch" /\ call'[k].key = b
  <2> SUFFICES ASSUME NEW b \in Approvals, appr'[b].state \in Final, Sponsored(b) = {}
               PROVE  b \in undelivered' \/ \E k \in Handlers : call'[k].ph = "dispatch" /\ call'[k].key = b
    OBVIOUS
  <2>1. CASE b = a
    BY <2>1
  <2>2. CASE b # a
    <3>1. b \in undelivered \/ \E k \in Handlers : call[k].ph = "dispatch" /\ call[k].key = b
      BY <2>2 DEF ApprInv
    <3> QED
      BY <3>1
  <2> QED
    BY <2>1, <2>2
<1> QED
  BY <1>1, <1>3, <1>4, <1>5, <1>6 DEF ApprInv, Sponsored

\* SubmitApproval: a request that passes by itself goes on to its dispatch.
LEMMA SubmitStep ==
  ASSUME Base, ApprInv, NEW h \in Handlers, NEW a \in Approvals, NEW r, SubmitApproval(h, a, r)
  PROVE  Base' /\ GrantsMove /\ Outer /\ ApprInv'
<1> DEFINE e == Route(a, r)
           d == [NoCall EXCEPT !.ph = "dispatch", !.key = a]
<1>1. /\ call[h].ph = "idle" /\ appr[a].state = "none" /\ appr' = [appr EXCEPT ![a] = e]
      /\ IF e.state = "auto_approved" THEN call' = [call EXCEPT ![h] = d] ELSE UNCHANGED call
      /\ UNCHANGED <<row, up, counted, owed, status, hardstop, grants, enders, undelivered, lock, dflt>>
  BY DEF SubmitApproval, May, CreateApproval, Dispatching, config, history
<1>2. e.state \in {"auto_approved", "pending"} /\ DOMAIN e = {"state", "level2", "new"}
  BY DEF Route
<1>3. /\ DOMAIN d = CallFields /\ d.ph = "dispatch" /\ d.then = "idle" /\ d.todo = {} /\ d.gs = {}
      /\ d.cur = NoSnap /\ NoSnap \in Snaps /\ d.key = a
  BY DEF NoCall, CallFields, NoSnap, Snaps
<1> HIDE DEF e, d
<1>4. h \in Callers /\ lock # h /\ Handlers \subseteq Callers
  BY <1>1, Idle DEF Callers
<1>5. GrantsMove /\ CallOK(h, d, grants', lock)
  BY <1>1, <1>3, <1>4, GrantsStay, FreshOK
<1>6. /\ CallsOK' /\ \A c \in Callers : Keeps(call[c], call'[c])
      /\ \A c \in Callers : c # h => call'[c] = call[c]
      /\ IF e.state = "auto_approved" THEN call'[h] = d ELSE call'[h] = call[h]
  <2>1. CASE e.state = "auto_approved"
    BY <1>1, <1>3, <1>4, <1>5, <2>1, CallSet
  <2>2. CASE e.state # "auto_approved"
    BY <1>1, <1>5, <2>2, CallsStay
  <2> QED
    BY <2>1, <2>2
<1>7. /\ DOMAIN appr' = Approvals /\ appr'[a] = e /\ \A b \in Approvals : b # a => appr'[b] = appr[b]
  BY <1>1 DEF Base, ApprRowsOK
<1>8. ASSUME NEW m \in Members PROVE Benign(m)
  BY <1>1 DEF Benign, Base, RowsOK
<1>9. RowsOK' /\ GrantsOK' /\ ApprRowsOK' /\ lock' \in Callers \cup {Nobody}
  BY <1>1, <1>2, <1>7 DEF Base, RowsOK, GrantsOK, ApprRowsOK, ApprovalStates
<1>10. ApprInv'
  <2>1. /\ appr[a].state \notin Final /\ call[h].ph # "dispatch"
        /\ \A k \in Handlers : k # h => call'[k] = call[k]
        /\ call'[h].ph = "dispatch" <=> appr'[a].state \in Final
        /\ call'[h].ph = "dispatch" => call'[h].key = a
    BY <1>1, <1>2, <1>3, <1>4, <1>6, <1>7 DEF Final
  <2> QED
    BY <1>1, <1>7, <2>1, Approved
<1> QED
  BY <1>1, <1>5, <1>6, <1>8, <1>9, <1>10 DEF Base, Outer

\* AdvanceApproval: one of two deciders wins, and dispatches if it is the last.
LEMMA AdvanceStep ==
  ASSUME Base, ApprInv, NEW h \in Handlers, AdvanceApproval(h)
  PROVE  Base' /\ GrantsMove /\ Outer /\ ApprInv'
<1> DEFINE a == call[h].key
           st == Decision(h)
           d == [NoCall EXCEPT !.ph = "dispatch", !.key = a]
<1>1. /\ call[h].ph = "decide"
      /\ UNCHANGED <<row, up, counted, owed, status, hardstop, grants, enders, undelivered, lock, dflt>>
  BY DEF AdvanceApproval, config, history
<1>2. h \in Callers /\ lock # h /\ Handlers \subseteq Callers /\ a \in Approvals
      /\ call[h].seen \in {"pending", "l1_approved"} /\ GrantsMove
  BY <1>1, Idle, GrantsStay DEF Callers, CallOK
<1>3. \/ ~Advanced(h) /\ call' = [call EXCEPT ![h] = NoCall] /\ appr' = appr
      \/ /\ Advanced(h) /\ appr' = [appr EXCEPT ![a].state = st]
         /\ IF st = "approved" THEN call' = [call EXCEPT ![h] = d]
                               ELSE call' = [call EXCEPT ![h] = NoCall]
  BY DEF AdvanceApproval, Dispatching
<1>4. st \in {"rejected", "l1_approved", "approved"}
  BY DEF Decision
<1>5. /\ DOMAIN d = CallFields /\ d.ph = "dispatch" /\ d.then = "idle" /\ d.todo = {} /\ d.gs = {}
      /\ d.cur = NoSnap /\ NoSnap \in Snaps /\ d.key = a
      /\ NoCall.ph = "idle" /\ NoCall.todo = {} /\ NoCall.cur = NoSnap
  BY DEF NoCall, CallFields, NoSnap, Snaps
<1> HIDE DEF st, d
<1>6. CallOK(h, d, grants', lock) /\ CallOK(h, NoCall, grants', lock)
  BY <1>1, <1>2, <1>5, FreshOK, NoCallOK
<1>7. /\ CallsOK' /\ \A c \in Callers : Keeps(call[c], call'[c])
      /\ \A c \in Callers : c # h => call'[c] = call[c]
      /\ IF Advanced(h) /\ st = "approved" THEN call'[h] = d ELSE call'[h] = NoCall
  <2>1. CASE call' = [call EXCEPT ![h] = NoCall] /\ ~(Advanced(h) /\ st = "approved")
    BY <1>1, <1>2, <1>5, <1>6, <2>1, CallSet
  <2>2. CASE call' = [call EXCEPT ![h] = d] /\ Advanced(h) /\ st = "approved"
    BY <1>1, <1>2, <1>5, <1>6, <2>2, CallSet
  <2> QED
    BY <1>3, <2>1, <2>2
<1>8. /\ DOMAIN appr' = Approvals /\ \A b \in Approvals : b # a => appr'[b] = appr[b]
      /\ DOMAIN appr'[a] = {"state", "level2", "new"}
      /\ appr'[a].state = IF Advanced(h) THEN st ELSE appr[a].state
  BY <1>2, <1>3 DEF Base, ApprRowsOK
<1>9. ASSUME NEW m \in Members PROVE Benign(m)
  BY <1>1 DEF Benign, Base, RowsOK
<1>10. RowsOK' /\ GrantsOK' /\ ApprRowsOK' /\ lock' \in Callers \cup {Nobody}
  BY <1>1, <1>2, <1>4, <1>8 DEF Base, RowsOK, GrantsOK, ApprRowsOK, ApprovalStates
<1>11. ApprInv'
  <2>1. CASE Advanced(h)
    <3>1. /\ appr[a].state \notin Final /\ call[h].ph # "dispatch"
          /\ \A k \in Handlers : k # h => call'[k] = call[k]
          /\ call'[h].ph = "dispatch" <=> appr'[a].state \in Final
          /\ call'[h].ph = "dispatch" => call'[h].key = a
      BY <1>1, <1>2, <1>4, <1>5, <1>7, <1>8, <2>1 DEF Final, Advanced
    <3> QED
      BY <1>1, <1>2, <1>8, <3>1, Approved
  <2>2. CASE ~Advanced(h)
    <3>1. Quiet
      BY <1>1, <1>2, <1>3, <1>5, <1>7, <2>2 DEF Quiet
    <3> QED
      BY <1>2, <3>1, ApprKept
  <2> QED
    BY <2>1, <2>2
<1> QED
  BY <1>1, <1>2, <1>7, <1>9, <1>10, <1>11 DEF Base, Outer

\* dispatchApproval: the grant of a request is created.
LEMMA DispatchStep ==
  ASSUME Base, ApprInv, NEW h \in Handlers, dispatchApproval(h)
  PROVE  Base' /\ GrantsMove /\ Outer /\ ApprInv'
<1> DEFINE a == call[h].key
           m == Requests[a].m
           kind == IF appr[a].new THEN "model_add" ELSE "quota"
           delta == IF appr[a].new THEN 0 ELSE Requests[a].amount
           S == IF ~appr[a].new /\ row[m].tok # 0 THEN {Snapshot(m)} ELSE {}
<1>1. /\ call[h].ph = "dispatch"
      /\ UNCHANGED <<row, up, counted, owed, status, hardstop, enders, appr, lock, dflt>>
  BY DEF dispatchApproval, config
<1>2. /\ h \in Callers /\ lock # h /\ Handlers \subseteq Callers /\ a \in Approvals /\ m \in Members
      /\ kind \in Kinds /\ delta \in Int /\ a \in Approvals \cup {None} /\ a # None
  BY <1>1, Idle, QuotaAssumption DEF Callers, CallOK, Kinds
<1>3. /\ Sponsored(a) = {} /\ appr[a].state \in Final
      /\ \A k \in Handlers : k # h /\ call[k].ph = "dispatch" =>
           call[k].key # a /\ call[k].key \in Approvals
  BY <1>1, Idle DEF ApprInv, CallOK
<1>4. \/ /\ CreateGrant(m, kind, delta, a) /\ Apply(h, S, NoCall, "idle") /\ undelivered' = undelivered
      \/ undelivered' = undelivered \cup {a} /\ call' = [call EXCEPT ![h] = NoCall] /\ grants' = grants
  BY DEF dispatchApproval
<1>5. CASE CreateGrant(m, kind, delta, a) /\ Apply(h, S, NoCall, "idle") /\ undelivered' = undelivered
  <2>1. Snapshot(m) \in MemberSnaps /\ Snapshot(m).m = m /\ Snapshot(m).tok = row[m].tok
    BY <1>2, SnapshotOK
  <2>2. S \in SUBSET MemberSnaps /\ (\A s \in S : s.tok = row[s.m].tok)
        /\ (S = {} => kind # "quota" \/ row[m].tok = 0)
        /\ (S # {} => S = {Snapshot(m)} /\ row[m].tok # 0)
    BY <2>1
  <2> HIDE DEF S, kind, delta
  <2> DEFINE i == Len(grants) + 1
  <2>3. /\ GrantsMove /\ DOMAIN grants' = DOMAIN grants \cup {i} /\ i \notin DOMAIN grants
        /\ (\A g \in DOMAIN grants : grants'[g] = grants[g]) /\ grants'[i].from = a
        /\ \A n \in Members : n # m \/ kind # "quota" => ActiveIn(grants', n) = ActiveIn(grants, n)
    <3>1. /\ GrantsMove /\ DOMAIN grants' = DOMAIN grants \cup {i} /\ i \notin DOMAIN grants
          /\ (\A g \in DOMAIN grants : grants'[g] = grants[g]) /\ grants'[i].from = a
      BY <1>1, <1>2, <1>5, GrantCreated
    <3>2. ASSUME NEW n \in Members, n # m \/ kind # "quota"
          PROVE  ActiveIn(grants', n) = ActiveIn(grants, n)
      BY <1>1, <1>2, <1>5, <3>2, ActiveCreated
    <3> QED
      BY <3>1, <3>2
  <2> HIDE DEF i
  <2>4. /\ CallsOK' /\ \A e \in Callers : Keeps(call[e], call'[e])
        /\ call'[h].todo = S /\ call'[h].ph \in {"apply", "idle"}
        /\ \A e \in Callers : e # h => call'[e] = call[e]
    BY <1>1, <1>5, <2>2, <2>3, HandlerApplies
  <2>5. S # {} => QueuedIn(call', m)
    BY <1>2, <2>1, <2>2, <2>4 DEF QueuedIn
  <2>6. ASSUME NEW n \in Members PROVE Benign(n)
    BY <1>1, <2>2, <2>3, <2>5 DEF Benign, Base, RowsOK
  <2>7. RowsOK' /\ GrantsOK' /\ ApprRowsOK' /\ lock' \in Callers \cup {Nobody}
    BY <1>1, <2>3 DEF Base, RowsOK, GrantsOK, ApprRowsOK, GrantsMove
  <2>8. \A b \in Approvals : b # a => {g \in DOMAIN grants' : grants'[g].from = b} = Sponsored(b)
    BY <2>3 DEF Sponsored
  <2>9. ApprInv'
    <3>1. \A f, g \in DOMAIN grants' :
            (grants'[f].from = grants'[g].from /\ grants'[f].from # None) => f = g
      BY <1>3, <2>3 DEF ApprInv, Sponsored
    <3>2. \A b \in Approvals :
            {g \in DOMAIN grants' : grants'[g].from = b} # {} => appr'[b].state \in Final
      BY <1>1, <1>3, <2>8 DEF ApprInv
    <3>3. \A k \in Handlers : call'[k].ph = "dispatch" =>
            k # h /\ call'[k] = call[k] /\ call[k].key # a /\ call[k].key \in Approvals
      BY <1>2, <1>3, <2>4
    <3>4. \A k \in Handlers : call'[k].ph = "dispatch" =>
            /\ appr'[call'[k].key].state \in Final
            /\ {g \in DOMAIN grants' : grants'[g].from = call'[k].key} = {}
      BY <1>1, <2>8, <3>3 DEF ApprInv
    <3>5. \A k, l \in Handlers : (/\ call'[k].ph = "dispatch" /\ call'[l].ph = "dispatch"
                                  /\ call'[k].key = call'[l].key) => k = l
      BY <3>3 DEF ApprInv
    <3>6. ASSUME NEW b \in Approvals, appr'[b].state \in Final,
                 {g \in DOMAIN grants' : grants'[g].from = b} = {}
          PROVE  b \in undelivered' \/ \E k \in Handlers : call'[k].ph = "dispatch" /\ call'[k].key = b
      <4>1. b # a
        BY <2>3, <3>6
      <4>2. b \in undelivered \/ \E k \in Handlers : call[k].ph = "dispatch" /\ call[k].key = b
        BY <1>1, <2>8, <3>6, <4>1 DEF ApprInv
      <4> QED
        BY <1>2, <1>5, <2>4, <4>1, <4>2
    <3> QED
      BY <3>1, <3>2, <3>4, <3>5, <3>6 DEF ApprInv, Sponsored
  <2> QED
    BY <1>1, <2>3, <2>4, <2>6, <2>7, <2>9 DEF Base, Outer
<1>6. CASE undelivered' = undelivered \cup {a} /\ call' = [call EXCEPT ![h] = NoCall] /\ grants' = grants
  <2>1. GrantsMove
    BY <1>1, <1>6, GrantsStay
  <2>2. CallOK(h, NoCall, grants', lock) /\ NoCall.ph = "idle" /\ NoCall.todo = {} /\ NoCall.cur = NoSnap
    BY <1>2, NoCallOK DEF NoCall
  <2>3. /\ CallsOK' /\ \A e \in Callers : Keeps(call[e], call'[e])
        /\ call'[h] = NoCall /\ \A e \in Callers : e # h => call'[e] = call[e]
    BY <1>1, <1>2, <1>6, <2>1, <2>2, CallSet
  <2>4. ASSUME NEW n \in Members PROVE Benign(n)
    BY <1>1, <1>6 DEF Benign, Base, RowsOK
  <2>5. RowsOK' /\ GrantsOK' /\ ApprRowsOK' /\ lock' \in Callers \cup {Nobody}
    BY <1>1, <1>6 DEF Base, RowsOK, GrantsOK, ApprRowsOK
  <2>6. ApprInv'
    <3>1. \A b \in Approvals : {g \in DOMAIN grants' : grants'[g].from = b} = Sponsored(b)
      BY <1>6 DEF Sponsored
    <3>2. \A k \in Handlers : call'[k].ph = "dispatch" =>
            k # h /\ call'[k] = call[k] /\ call[k].key # a /\ call[k].key \in Approvals
      BY <1>2, <1>3, <2>2, <2>3
    <3>3. \A k \in Handlers : call'[k].ph = "dispatch" =>
            /\ appr'[call'[k].key].state \in Final
            /\ {g \in DOMAIN grants' : grants'[g].from = call'[k].key} = {}
      BY <1>1, <3>1, <3>2 DEF ApprInv
    <3>4. \A k, l \in Handlers : (/\ call'[k].ph = "dispatch" /\ call'[l].ph = "dispatch"
                                  /\ call'[k].key = call'[l].key) => k = l
      BY <3>2 DEF ApprInv
    <3>5. ASSUME NEW b \in Approvals, appr'[b].state \in Final, Sponsored(b) = {}
          PROVE  b \in undelivered' \/ \E k \in Handlers : call'[k].ph = "dispatch" /\ call'[k].key = b
      <4>1. b \in undelivered \/ \E k \in Handlers : call[k].ph = "dispatch" /\ call[k].key = b
        BY <1>1, <3>5 DEF ApprInv
      <4> QED
        BY <1>2, <1>6, <2>3, <4>1
    <3> QED
      BY <1>1, <1>6, <3>1, <3>3, <3>4, <3>5 DEF ApprInv, Sponsored
  <2> QED
    BY <1>1, <2>1, <2>3, <2>4, <2>5, <2>6 DEF Base, Outer
<1> QED
  BY <1>4, <1>5, <1>6

-----------------------------------------------------------------------------
(* applyMemberOverride.                                                    *)

\* What the invariant says of any caller.
LEMMA CallerIs ==
  ASSUME Base, NEW c \in Callers
  PROVE  /\ CallOK(c, call[c], grants, lock) /\ DOMAIN call = Callers /\ DOMAIN call[c] = CallFields
         /\ call[c].todo \subseteq MemberSnaps /\ c # Nobody
         /\ call[c].ph \in {"gate", "put"} <=> lock = c
         /\ call[c].then \in IF c = Worker THEN {"idle", "expire", "mark"} ELSE {"idle"}
         /\ call[c].gs \subseteq DOMAIN grants
  BY QuotaAssumption DEF Base, CallsOK, CallOK

\* The loop goes on after one member: the lock is free again.
LEMMA AfterOK ==
  ASSUME Base, NEW c \in Callers, NEW l, l # c, NEW r, DOMAIN r = CallFields,
         r.todo \subseteq MemberSnaps, r.gs \subseteq DOMAIN grants,
         r.then \in IF c = Worker THEN {"idle", "expire", "mark"} ELSE {"idle"}
  PROVE  /\ CallOK(c, After(r), grants, l) /\ After(r).todo = r.todo /\ After(r).cur = NoSnap
         /\ After(r).ph \in {"apply", "idle", "expire", "mark"}
<1> DEFINE a == After(r)
<1>1. /\ DOMAIN a = CallFields /\ a.todo = r.todo /\ a.cur = NoSnap /\ a.then = r.then
      /\ a.ph = (IF r.todo # {} THEN "apply" ELSE r.then) /\ (a.gs = r.gs \/ a.gs = {})
  BY AfterIs
<1> HIDE DEF a
<1>2. a.ph \in {"apply", "idle", "expire", "mark"} /\ a.gs \subseteq DOMAIN grants
  BY <1>1
<1>3. CallOK(c, a, grants, l)
  BY <1>1, <1>2 DEF CallOK, WorkerPhases, HandlerPhases, NoSnap, Snaps
<1> QED
  BY <1>1, <1>2, <1>3 DEF a

\* What the three steps leave alone.
Still == UNCHANGED <<row, grants, enders, appr, undelivered, status, hardstop, dflt>>

\* Compute, Gate and Put change one call and neither grants nor requests.
LEMMA StillStep ==
  ASSUME Base, Still, NEW c \in Callers, call[c].ph \in {"apply", "gate", "put"},
         NEW r, CallStep(c, r), r.ph # "dispatch", RowsOK', lock' \in Callers \cup {Nobody}
  PROVE  Base' /\ GrantsMove /\ Quiet
<1>1. GrantsMove
  BY GrantsStay DEF Still
<1>2. CallsOK'
  BY <1>1, CallsMove
<1>3. GrantsOK' /\ ApprRowsOK'
  BY DEF Base, Still, GrantsOK, ApprRowsOK
<1>4. Quiet
  BY DEF Quiet, Still, CallStep, Callers
<1> QED
  BY <1>1, <1>2, <1>3, <1>4 DEF Base

\* Compute takes the lock and reads, or fails and leaves the member owed.
LEMMA ComputeStep ==
  ASSUME Base, NEW c \in Callers, Compute(c)
  PROVE  /\ Base' /\ GrantsMove /\ Quiet /\ Still /\ UNCHANGED <<up, counted>>
         /\ lock = Nobody /\ \A d \in Callers : d # c => call'[d] = call[d]
         /\ \E s \in call[c].todo :
              /\ s \in MemberSnaps /\ call'[c].todo = call[c].todo \ {s}
              /\ \/ /\ owed' = owed \cup {s.m} /\ lock' = lock /\ call'[c].cur = NoSnap
                    /\ call'[c].ph \notin {"gate", "put"}
                 \/ /\ owed' = owed /\ lock' = c /\ call'[c].ph = "gate" /\ call'[c].cur = s
                    /\ call'[c].cnt = ActiveIn(grants, s.m)
<1>1. /\ call[c].ph = "apply" /\ lock = Nobody /\ Still /\ UNCHANGED <<up, counted>>
  BY DEF Compute, Free, Still, config, history
<1>2. PICK s \in call[c].todo :
        LET rest == [call[c] EXCEPT !.todo = @ \ {s}] IN
        \/ /\ owed' = owed \cup {s.m} /\ call' = [call EXCEPT ![c] = After(rest)] /\ lock' = lock
        \/ /\ lock' = c /\ owed' = owed
           /\ call' = [call EXCEPT ![c] = [rest EXCEPT !.ph = "gate", !.cur = s,
                                             !.val = computeOverride(s),
                                             !.cnt = ListActiveQuotaGrants(s.m)]]
  BY DEF Compute
<1> DEFINE rest == [call[c] EXCEPT !.todo = @ \ {s}]
           aft == After(rest)
           g == [rest EXCEPT !.ph = "gate", !.cur = s, !.val = computeOverride(s),
                             !.cnt = ListActiveQuotaGrants(s.m)]
<1>3. /\ CallOK(c, call[c], grants, lock) /\ DOMAIN call = Callers /\ DOMAIN call[c] = CallFields
      /\ call[c].todo \subseteq MemberSnaps /\ c # Nobody
      /\ call[c].then \in (IF c = Worker THEN {"idle", "expire", "mark"} ELSE {"idle"})
      /\ call[c].gs \subseteq DOMAIN grants
  BY CallerIs
<1>4. /\ DOMAIN rest = CallFields /\ rest.todo = call[c].todo \ {s} /\ rest.then = call[c].then
      /\ rest.gs = call[c].gs
  BY <1>3 DEF CallFields
<1>5. s \in MemberSnaps /\ s \in Snaps /\ s.m \in Members /\ owed' \subseteq Members
  BY <1>2, <1>3 DEF MemberSnaps, Base, RowsOK
<1>6. RowsOK'
  BY <1>1, <1>5 DEF RowsOK, Base, Still
<1>7. CASE owed' = owed \cup {s.m} /\ call' = [call EXCEPT ![c] = aft] /\ lock' = lock
  <2> HIDE DEF rest
  <2>1. /\ CallOK(c, aft, grants, Nobody) /\ aft.todo = rest.todo /\ aft.cur = NoSnap
        /\ aft.ph \in {"apply", "idle", "expire", "mark"}
    BY <1>3, <1>4, AfterOK
  <2> HIDE DEF aft
  <2>2. CallStep(c, aft)
    BY <1>1, <1>3, <1>7, <2>1 DEF CallStep, Still
  <2>3. Base' /\ GrantsMove /\ Quiet
    BY <1>1, <1>6, <1>7, <2>1, <2>2, StillStep
  <2>4. call'[c] = aft /\ \A d \in Callers : d # c => call'[d] = call[d]
    BY <2>2 DEF CallStep
  <2> QED
    BY <1>1, <1>4, <1>5, <1>7, <2>1, <2>3, <2>4
<1>8. CASE lock' = c /\ owed' = owed /\ call' = [call EXCEPT ![c] = g]
  <2>1. /\ DOMAIN g = CallFields /\ g.todo = rest.todo /\ g.then = rest.then /\ g.gs = rest.gs
        /\ g.ph = "gate" /\ g.cur = s /\ g.cnt = ListActiveQuotaGrants(s.m)
    BY <1>4 DEF CallFields
  <2> HIDE DEF g, rest
  <2>2. ListActiveQuotaGrants(s.m) = ActiveIn(grants, s.m)
    BY DEF ListActiveQuotaGrants, ActiveIn
  <2>3. CallOK(c, g, grants, c)
    BY <1>3, <1>4, <1>5, <2>1 DEF CallOK, WorkerPhases, HandlerPhases
  <2>4. CallStep(c, g)
    <3>1. \A d \in Callers : d # Nobody
      BY QuotaAssumption
    <3> QED
      BY <1>1, <1>3, <1>8, <2>3, <3>1 DEF CallStep, Still
  <2>5. Base' /\ GrantsMove /\ Quiet
    BY <1>1, <1>6, <1>8, <2>1, <2>4, StillStep
  <2>6. call'[c] = g /\ \A d \in Callers : d # c => call'[d] = call[d]
    BY <2>4 DEF CallStep
  <2> QED
    BY <1>1, <1>4, <1>5, <1>8, <2>1, <2>2, <2>5, <2>6
<1> QED
  BY <1>2, <1>7, <1>8

\* Gate reads the status, or gives up.
LEMMA GateStep ==
  ASSUME Base, NEW c \in Callers, Gate(c)
  PROVE  /\ Base' /\ GrantsMove /\ Quiet /\ Still /\ UNCHANGED <<up, counted>>
         /\ call[c].ph = "gate" /\ lock = c /\ \A d \in Callers : d # c => call'[d] = call[d]
         /\ call'[c].todo = call[c].todo
         /\ \/ /\ ObserveMode \/ call[c].cur.tok = 0
               /\ owed' = owed /\ lock' = Nobody /\ call'[c].cur = NoSnap
               /\ call'[c].ph \notin {"gate", "put"}
            \/ /\ ~ObserveMode /\ owed' = owed \ {call[c].cur.m} /\ lock' = lock
               /\ call[c].cur.tok # 0 /\ call'[c].ph = "put" /\ call'[c].cur = call[c].cur
               /\ call'[c].cnt = call[c].cnt
               /\ status = "stopped" /\ hardstop => call'[c].val = 0
<1> DEFINE aft == After(call[c])
           p == [call[c] EXCEPT !.ph = "put", !.val = gateByOrgStatus(@)]
<1>1. /\ call[c].ph = "gate" /\ Still /\ UNCHANGED <<up, counted>>
  BY DEF Gate, Still, config, history
<1>2. /\ CallOK(c, call[c], grants, lock) /\ DOMAIN call = Callers /\ DOMAIN call[c] = CallFields
      /\ call[c].todo \subseteq MemberSnaps /\ c # Nobody /\ lock = c
      /\ call[c].then \in (IF c = Worker THEN {"idle", "expire", "mark"} ELSE {"idle"})
      /\ call[c].gs \subseteq DOMAIN grants
  BY <1>1, CallerIs
<1>3. \/ /\ ObserveMode \/ call[c].cur.tok = 0
         /\ call' = [call EXCEPT ![c] = aft] /\ lock' = Nobody /\ owed' = owed
      \/ /\ ~ObserveMode /\ call[c].cur.tok # 0 /\ call' = [call EXCEPT ![c] = p]
         /\ owed' = owed \ {call[c].cur.m} /\ lock' = lock
  BY <1>2 DEF Gate
<1>4. RowsOK'
  BY <1>1, <1>3 DEF RowsOK, Base, Still
<1>5. \A d \in Callers : d # Nobody
  BY QuotaAssumption
<1>6. CASE /\ ObserveMode \/ call[c].cur.tok = 0
           /\ call' = [call EXCEPT ![c] = aft] /\ lock' = Nobody /\ owed' = owed
  <2>1. /\ CallOK(c, aft, grants, Nobody) /\ aft.todo = call[c].todo /\ aft.cur = NoSnap
        /\ aft.ph \in {"apply", "idle", "expire", "mark"}
    BY <1>2, AfterOK
  <2> HIDE DEF aft
  <2>2. CallStep(c, aft)
    BY <1>1, <1>2, <1>5, <1>6, <2>1 DEF CallStep, Still
  <2>3. Base' /\ GrantsMove /\ Quiet
    BY <1>1, <1>4, <1>6, <2>1, <2>2, StillStep
  <2>4. call'[c] = aft /\ \A d \in Callers : d # c => call'[d] = call[d]
    BY <2>2 DEF CallStep
  <2> QED
    BY <1>1, <1>2, <1>6, <2>1, <2>3, <2>4
<1>7. CASE /\ ~ObserveMode /\ call[c].cur.tok # 0 /\ call' = [call EXCEPT ![c] = p]
           /\ owed' = owed \ {call[c].cur.m} /\ lock' = lock
  <2>1. /\ DOMAIN p = CallFields /\ p.todo = call[c].todo /\ p.then = call[c].then
        /\ p.gs = call[c].gs /\ p.ph = "put" /\ p.cur = call[c].cur /\ p.cnt = call[c].cnt
        /\ p.val = gateByOrgStatus(call[c].val)
    BY <1>2 DEF CallFields
  <2>2. status = "stopped" /\ hardstop => p.val = 0
    BY <1>7, <2>1 DEF gateByOrgStatus
  <2> HIDE DEF p
  <2>3. CallOK(c, p, grants, lock)
    BY <1>1, <1>2, <1>7, <2>1 DEF CallOK, WorkerPhases, HandlerPhases
  <2>4. CallStep(c, p)
    BY <1>1, <1>2, <1>7, <2>3 DEF CallStep, Still
  <2>5. Base' /\ GrantsMove /\ Quiet
    BY <1>1, <1>2, <1>4, <1>7, <2>1, <2>4, StillStep
  <2>6. call'[c] = p /\ \A d \in Callers : d # c => call'[d] = call[d]
    BY <2>4 DEF CallStep
  <2> QED
    BY <1>1, <1>2, <1>7, <2>1, <2>2, <2>5, <2>6
<1> QED
  BY <1>3, <1>6, <1>7

\* Put writes the cap, or fails, and gives the lock back.
LEMMA PutStep ==
  ASSUME Base, NEW c \in Callers, Put(c)
  PROVE  /\ Base' /\ GrantsMove /\ Quiet /\ Still
         /\ call[c].ph = "put" /\ lock = c /\ \A d \in Callers : d # c => call'[d] = call[d]
         /\ call'[c].todo = call[c].todo /\ call'[c].cur = NoSnap /\ lock' = Nobody
         /\ call'[c].ph \notin {"gate", "put"} /\ call[c].cur.m \in Members
         /\ \A m \in Members : m # call[c].cur.m => up'[m] = up[m] /\ counted'[m] = counted[m]
         /\ \/ /\ owed' = owed /\ up'[call[c].cur.m].cap = call[c].val
               /\ counted'[call[c].cur.m] = call[c].cnt
            \/ owed' = owed \cup {call[c].cur.m} /\ UNCHANGED <<up, counted>>
<1> DEFINE aft == After(call[c])
           s == call[c].cur
<1>1. /\ call[c].ph = "put" /\ Still /\ call' = [call EXCEPT ![c] = aft] /\ lock' = Nobody
  BY DEF Put, Still, config
<1>2. /\ CallOK(c, call[c], grants, lock) /\ DOMAIN call = Callers /\ DOMAIN call[c] = CallFields
      /\ call[c].todo \subseteq MemberSnaps /\ c # Nobody /\ lock = c
      /\ call[c].then \in (IF c = Worker THEN {"idle", "expire", "mark"} ELSE {"idle"})
      /\ call[c].gs \subseteq DOMAIN grants
  BY <1>1, CallerIs
<1>3. s.m \in Members
  BY <1>1, <1>2 DEF CallOK, MemberSnaps
<1>4. \/ /\ up' = [up EXCEPT ![s.m].cap = call[c].val] /\ owed' = owed
         /\ counted' = [counted EXCEPT ![s.m] = call[c].cnt]
      \/ owed' = owed \cup {s.m} /\ UNCHANGED <<up, counted>>
  BY DEF Put
<1>5. /\ \A m \in Members : m # s.m => up'[m] = up[m] /\ counted'[m] = counted[m]
      /\ \/ /\ owed' = owed /\ up'[s.m].cap = call[c].val /\ counted'[s.m] = call[c].cnt
         \/ owed' = owed \cup {s.m} /\ UNCHANGED <<up, counted>>
  BY <1>3, <1>4 DEF Base, RowsOK
<1>6. RowsOK'
  BY <1>1, <1>3, <1>4 DEF RowsOK, Base, Still
<1>7. \A d \in Callers : d # Nobody
  BY QuotaAssumption
<1>8. /\ CallOK(c, aft, grants, Nobody) /\ aft.todo = call[c].todo /\ aft.cur = NoSnap
      /\ aft.ph \in {"apply", "idle", "expire", "mark"}
  BY <1>2, AfterOK
<1> HIDE DEF aft
<1>9. CallStep(c, aft)
  BY <1>1, <1>2, <1>7, <1>8 DEF CallStep, Still
<1>10. Base' /\ GrantsMove /\ Quiet
  BY <1>1, <1>6, <1>8, <1>9, StillStep
<1>11. call'[c] = aft /\ \A d \in Callers : d # c => call'[d] = call[d]
  BY <1>9 DEF CallStep
<1> QED
  BY <1>1, <1>2, <1>3, <1>5, <1>8, <1>10, <1>11

-----------------------------------------------------------------------------
(* Crashes, and every step.                                                *)

\* A crash: what calls had to do is owed or undelivered.
LEMMA CrashStep ==
  ASSUME Base, ApprInv, Crash
  PROVE  Base' /\ GrantsMove /\ ApprInv'
<1>1. /\ UNCHANGED <<row, up, counted, status, hardstop, grants, enders, appr, dflt>>
      /\ call' = [c \in Callers |-> NoCall] /\ lock' = Nobody
      /\ owed' = owed \cup UNION {Touched(c) : c \in Callers}
      /\ undelivered' = undelivered \cup {call[h].key : h \in {h \in Handlers : call[h].ph = "dispatch"}}
  BY DEF Crash, config
<1>2. \A c \in Callers : Touched(c) \subseteq Members
  <2> TAKE c \in Callers
  <2>1. call[c].todo \cup {call[c].cur} \subseteq Snaps
    BY CallerIs DEF CallOK, MemberSnaps
  <2>2. \A s \in Snaps : s.m \in Members \cup {None}
    BY DEF Snaps
  <2> QED
    BY <2>1, <2>2 DEF Touched
<1>3. owed' \subseteq Members
  BY <1>1, <1>2 DEF Base, RowsOK
<1>4. RowsOK' /\ GrantsOK' /\ ApprRowsOK' /\ lock' \in Callers \cup {Nobody}
  BY <1>1, <1>3 DEF Base, RowsOK, GrantsOK, ApprRowsOK
<1>5. GrantsMove
  BY <1>1, GrantsStay
<1>6. \A c \in Callers : c # Nobody /\ CallOK(c, NoCall, grants', Nobody)
  BY QuotaAssumption, NoCallOK
<1>7. CallsOK'
  BY <1>1, <1>6 DEF CallsOK
<1>8. \A h \in Handlers : call'[h] = NoCall /\ call'[h].ph # "dispatch"
  BY <1>1 DEF Callers, NoCall
<1>9. \A a \in Approvals : {g \in DOMAIN grants' : grants'[g].from = a} = Sponsored(a)
  BY <1>1 DEF Sponsored
<1>10. \A a \in Approvals : (appr'[a].state \in Final /\ Sponsored(a) = {}) => a \in undelivered'
  BY <1>1 DEF ApprInv
<1>11. ApprInv'
  <2>1. \A f, g \in DOMAIN grants' :
          (grants'[f].from = grants'[g].from /\ grants'[f].from # None) => f = g
    BY <1>1 DEF ApprInv
  <2>2. \A a \in Approvals : Sponsored(a) # {} => appr'[a].state \in Final
    BY <1>1 DEF ApprInv
  <2> QED
    BY <1>8, <1>9, <1>10, <2>1, <2>2 DEF ApprInv, Sponsored
<1> QED
  BY <1>4, <1>5, <1>7, <1>11 DEF Base

\* Every step keeps the invariants of rows, calls and requests, and is one of
\* three kinds.
LEMMA EveryStep ==
  ASSUME Base, ApprInv, Next
  PROVE  Base' /\ GrantsMove /\ ApprInv' /\ (Outer \/ (\E c \in Callers : Applying(c)) \/ Crash)
<1>0. ASSUME Calm PROVE Base' /\ GrantsMove /\ ApprInv' /\ Outer
  BY <1>0, ApprKept DEF Calm
<1>1. ASSUME NEW h \in Handlers, Requested(h) PROVE Base' /\ GrantsMove /\ ApprInv' /\ Outer
  <2>1. CASE \E m \in Members, d \in Deltas : AdjustQuota(h, m, d)
    BY <1>0, <2>1, AdjustCalm
  <2>2. CASE \E m \in Members, k \in Kinds : SetTempPermission(h, m, k)
    BY <1>0, <2>2, TempCalm
  <2>3. CASE \E g \in DOMAIN grants : RevokeGrant(h, g)
    BY <1>0, <2>3, RevokeGrantCalm
  <2>4. CASE \E a \in Approvals, r \in Rules \cup {DefaultRules} : SubmitApproval(h, a, r)
    BY <2>4, SubmitStep
  <2>5. CASE \E a \in Approvals, r \in {"org_admin", "team_leader"}, yes \in BOOLEAN :
               DecideApproval(h, a, r, yes)
    BY <1>0, <2>5, DecideCalm
  <2>6. CASE \E r \in Rules : SetApprovalRules(h, r)
    BY <1>0, <2>6, ConfigCalm, QuotaAssumption
  <2>7. CASE \E m \in Members, x \in Teams \cup {None}, t \in Tiers \cup {None} : UpdateMember(h, m, x, t)
    BY <1>0, <2>7, UpdateMemberCalm
  <2>8. CASE \E t \in Tiers, p \in Periods, lim \in Limits :
               CreateTier(h, t, p, lim) \/ UpdateTier(h, t, p, lim)
    BY <1>0, <2>8, ConfigCalm, UpdateTierCalm
  <2>9. CASE \E t \in Tiers : DeleteTier(h, t) \/ SetDefaultTier(h, t) \/ UpdateOrgSettings(h, t)
    BY <1>0, <2>9, ConfigCalm, DeleteTierCalm
  <2>10. CASE \E s \in Scopes, p \in Periods, lim \in Limits : SetQuotaPolicy(h, s, p, lim)
    BY <1>0, <2>10, ConfigCalm, QuotaAssumption
  <2>11. CASE \E s \in {"active", "low", "stopped"} : recomputeOrgStatus(h, s)
    BY <1>0, <2>11, RecomputeCalm
  <2>12. CASE (\E stop \in BOOLEAN : HardStopOrg(h, stop)) \/ SetBillingSettings(h)
    BY <1>0, <2>12, SwitchCalm
  <2>13. CASE \E m \in Members : RotateKey(h, m) \/ SetKeyIPWhitelist(h, m)
    BY <1>0, <2>13, TokenCalm
  <2> QED
    BY <1>1, <2>1, <2>2, <2>3, <2>4, <2>5, <2>6, <2>7, <2>8, <2>9, <2>10, <2>11, <2>12, <2>13
       DEF Requested
<1>2. ASSUME NEW h \in Handlers, Continued(h) PROVE Base' /\ GrantsMove /\ ApprInv' /\ Outer
  BY <1>0, <1>2, RevokeMarkCalm, AdvanceStep, DispatchStep, WriteTierCalm, FlipCalm DEF Continued
<1>3. ASSUME NEW c \in Callers, Applying(c) PROVE Base' /\ GrantsMove /\ ApprInv'
  <2>1. Base' /\ GrantsMove /\ Quiet
    BY <1>3, ComputeStep, GateStep, PutStep DEF Applying
  <2> QED
    BY <2>1, ApprKept
<1>4. CASE WorkerStep
  BY <1>0, <1>4, TickCalm, DeleteTokenCalm, ExpireMemberCalm, MarkPolicyCalm, ReverseCalm,
     ResetPolicyCalm DEF WorkerStep
<1>5. CASE \E g \in DOMAIN grants : ExpireAt(g)
  BY <1>0, <1>5, ExpireAtCalm
<1>6. CASE \E p \in Periods : PeriodTurns(p)
  BY <1>0, <1>6, PeriodCalm
<1>7. CASE Crash
  BY <1>7, CrashStep
<1> QED
  BY <1>1, <1>2, <1>3, <1>4, <1>5, <1>6, <1>7 DEF Next

\* The history says who ended each grant, and nothing of one not created yet.
EndsInv ==
  \A g \in 1..MaxGrants :
    enders[g] = IF g \in DOMAIN grants
                THEN CASE grants[g].st = "active" -> {}
                       [] grants[g].st = "revoked" -> {"revoke"}
                       [] grants[g].st = "expired" -> {"expire"}
                ELSE {}

\* The recorded enders of a grant follow its state.
LEMMA EndsKept ==
  ASSUME Base, EndsInv, GrantsMove
  PROVE  EndsInv'
<1> SUFFICES ASSUME NEW g \in 1..MaxGrants
             PROVE  enders'[g] = IF g \in DOMAIN grants'
                                 THEN CASE grants'[g].st = "active" -> {}
                                        [] grants'[g].st = "revoked" -> {"revoke"}
                                        [] grants'[g].st = "expired" -> {"expire"}
                                 ELSE {}
  BY DEF EndsInv
<1>1. CASE g \in DOMAIN grants
  <2>1. g \in DOMAIN grants' /\ grants[g].st \in {"active", "expired", "revoked"}
    BY <1>1, GrantIs DEF GrantsMove
  <2>2. enders[g] = CASE grants[g].st = "active" -> {}
                      [] grants[g].st = "revoked" -> {"revoke"}
                      [] grants[g].st = "expired" -> {"expire"}
    BY <1>1 DEF EndsInv
  <2> QED
    BY <1>1, <2>1, <2>2 DEF GrantsMove
<1>2. CASE g \notin DOMAIN grants
  <2>1. enders[g] = {} /\ enders'[g] = enders[g] /\ (g \in DOMAIN grants' => grants'[g].st = "active")
    BY <1>2 DEF EndsInv, GrantsMove
  <2> QED
    BY <2>1
<1> QED
  BY <1>1, <1>2

CoreInv == Base /\ ApprInv /\ EndsInv

\* The initial state.
LEMMA InitCore == Init => CoreInv
<1> SUFFICES ASSUME Init PROVE CoreInv
  OBVIOUS
<1>1. RowsOK
  <2>1. row \in [Members -> Rows] /\ up = [m \in Members |-> [tok |-> row[m].tok, cap |-> Unlimited]]
        /\ dflt \in Tiers /\ counted = [m \in Members |-> {}] /\ owed = Members
    BY QuotaAssumption DEF Init
  <2>2. \A m \in Members : row[m].tok \in 0..MaxTokens
    BY <2>1 DEF Rows
  <2> QED
    BY <2>1, <2>2 DEF RowsOK
<1>2. GrantsOK /\ DOMAIN grants = {}
  BY QuotaAssumption DEF Init, GrantsOK
<1>3. ApprRowsOK /\ \A a \in Approvals : appr[a].state = "none"
  BY DEF Init, ApprRowsOK, ApprovalStates
<1>4. lock = Nobody /\ call = [c \in Callers |-> NoCall]
  BY DEF Init
<1>5. \A c \in Callers : c # Nobody /\ CallOK(c, NoCall, grants, Nobody)
  BY QuotaAssumption, NoCallOK
<1>6. CallsOK /\ \A h \in Handlers : call[h].ph # "dispatch"
  BY <1>4, <1>5 DEF CallsOK, Callers, NoCall
<1>7. ApprInv
  BY <1>2, <1>3, <1>6 DEF ApprInv, Sponsored, Final
<1>8. EndsInv
  BY <1>2 DEF EndsInv, Init
<1> QED
  BY <1>1, <1>2, <1>3, <1>4, <1>6, <1>7, <1>8 DEF CoreInv, Base

\* Every step of the specification.
LEMMA CoreStep == CoreInv /\ [Next]_vars => CoreInv'
<1> SUFFICES ASSUME CoreInv, [Next]_vars PROVE CoreInv'
  OBVIOUS
<1>1. CASE Next
  BY <1>1, EveryStep, EndsKept DEF CoreInv
<1>2. CASE UNCHANGED vars
  <2>1. UNCHANGED <<row, up, counted, owed, dflt, grants, enders, appr, undelivered, call, lock>>
    BY <1>2 DEF vars, config, history
  <2>2. RowsOK' /\ GrantsOK' /\ ApprRowsOK' /\ CallsOK' /\ lock' \in Callers \cup {Nobody}
    BY <2>1 DEF CoreInv, Base, RowsOK, GrantsOK, ApprRowsOK, CallsOK, CallOK
  <2>3. GrantsMove /\ Quiet
    BY <2>1, GrantsStay DEF CoreInv, Quiet
  <2> QED
    BY <2>2, <2>3, ApprKept, EndsKept DEF CoreInv, Base
<1> QED
  BY <1>1, <1>2

\* The core is an invariant.
LEMMA CoreAlways == Spec => []CoreInv
  BY InitCore, CoreStep, PTL DEF Spec

\* An administrator revokes a grant while the worker expires it: exactly one of
\* MarkGrantReverted's callers is told that it ended the grant.
THEOREM GrantsEndOnce == Spec => []GrantEndsOnce
<1>1. CoreInv => GrantEndsOnce
  <2> SUFFICES ASSUME CoreInv, NEW g \in DOMAIN grants
               PROVE  enders[g] = CASE grants[g].st = "active" -> {}
                                    [] grants[g].st = "revoked" -> {"revoke"}
                                    [] grants[g].st = "expired" -> {"expire"}
    BY DEF GrantEndsOnce
  <2>1. g \in 1..MaxGrants
    BY GrantIs DEF CoreInv
  <2> QED
    BY <2>1 DEF CoreInv, EndsInv
<1> QED
  BY <1>1, CoreAlways, PTL

\* Whatever reviewers, stages, failures and crashes interleave: an approved
\* request has one grant once its dispatch is over, unless the dispatch
\* failed, and a request that is not approved has none.
THEOREM ApprovalsExactlyOnce == Spec => []ApprovalExactlyOnce
<1>1. CoreInv => ApprovalExactlyOnce
  <2> SUFFICES ASSUME CoreInv, NEW a \in Approvals
               PROVE  /\ Cardinality(Sponsored(a)) <= 1
                      /\ Sponsored(a) # {} => appr[a].state \in Final
                      /\ (appr[a].state \in Final /\ Sponsored(a) = {}) =>
                           a \in undelivered
                           \/ \E h \in Handlers : call[h].ph = "dispatch" /\ call[h].key = a
    BY DEF ApprovalExactlyOnce
  <2>1. \A f, g \in Sponsored(a) : f = g
    BY QuotaAssumption DEF CoreInv, ApprInv, Sponsored
  <2>2. Sponsored(a) = {} \/ \E g : Sponsored(a) = {g}
    BY <2>1
  <2>3. Cardinality(Sponsored(a)) <= 1
    <3>1. CASE Sponsored(a) = {}
      BY <3>1, FS_EmptySet
    <3>2. CASE \E g : Sponsored(a) = {g}
      <4>1. PICK g : Sponsored(a) = {g}
        BY <3>2
      <4>2. Cardinality({g}) = 1
        BY FS_Singleton, Zenon
      <4> QED
        BY <4>1, <4>2
    <3> QED
      BY <2>2, <3>1, <3>2
  <2> QED
    BY <2>3 DEF CoreInv, ApprInv
<1> QED
  BY <1>1, CoreAlways, PTL

-----------------------------------------------------------------------------
(* A stop reaches the caps.                                                *)

\* Call r is between reading and writing for member m.
Holds(r, m) == r.ph \in {"gate", "put"} /\ r.cur.m = m /\ r.cur.tok # 0

\* In a stopped organisation: what is about to be written is 0, or will be
\* written again; and a member that has quota is queued, in work or owed a cap.
\* In observe mode nothing is ever written.
StopInv ==
  /\ \A c \in Callers :
       (call[c].ph = "put" /\ status = "stopped" /\ hardstop /\ row[call[c].cur.m].tok # 0)
         => call[c].val = 0 \/ QueuedIn(call, call[c].cur.m) \/ call[c].cur.m \in owed
  /\ \A m \in Members : (status = "stopped" /\ hardstop /\ row[m].tok # 0 /\ m \notin owed) =>
       QueuedIn(call, m) \/ (\E c \in Callers : Holds(call[c], m)) \/ up[m].cap = 0
  /\ ObserveMode => owed = Members

\* Steps outside applyMemberOverride leave calls queued and in work.
LEMMA OuterKeeps ==
  ASSUME Base, Outer, NEW m
  PROVE  /\ QueuedIn(call, m) => QueuedIn(call', m)
         /\ (\E c \in Callers : Holds(call[c], m)) => \E c \in Callers : Holds(call'[c], m)
<1>1. \A c \in Callers : Keeps(call[c], call'[c])
  BY DEF Outer
<1> QED
  BY <1>1 DEF QueuedIn, Holds, Keeps

\* Handlers outside the lock: a stop queues every member.
LEMMA StopOuter ==
  ASSUME Base, Base', StopInv, Outer
  PROVE  StopInv'
<1>1. \A m \in Members : Benign(m)
  BY DEF Outer
<1>2. ASSUME NEW c \in Callers, call'[c].ph = "put", status' = "stopped", hardstop',
             row'[call'[c].cur.m].tok # 0
      PROVE  call'[c].val = 0 \/ QueuedIn(call', call'[c].cur.m) \/ call'[c].cur.m \in owed'
  <2>1. Keeps(call[c], call'[c])
    BY DEF Outer
  <2>2. call[c].ph = "put" /\ call'[c].cur = call[c].cur /\ call'[c].val = call[c].val
    BY <1>2, <2>1 DEF Keeps
  <2>3. call[c].cur.m \in Members
    BY <2>2, CallerIs DEF CallOK, MemberSnaps
  <2>4. Benign(call[c].cur.m)
    BY <1>1, <2>3
  <2>5. CASE call[c].cur.m \notin owed' /\ ~QueuedIn(call', call[c].cur.m)
    <3>1. status = "stopped" /\ hardstop /\ row[call[c].cur.m].tok # 0 /\ call[c].cur.m \notin owed
      BY <1>2, <2>2, <2>4, <2>5 DEF Benign, Outer
    <3>2. ~QueuedIn(call, call[c].cur.m)
      BY <2>5, OuterKeeps
    <3> QED
      BY <2>2, <3>1, <3>2 DEF StopInv
  <2> QED
    BY <2>2, <2>5
<1>3. ASSUME NEW m \in Members, status' = "stopped", hardstop', row'[m].tok # 0, m \notin owed',
             ~QueuedIn(call', m), ~ \E c \in Callers : Holds(call'[c], m)
      PROVE  up'[m].cap = 0
  <2>1. status = "stopped" /\ hardstop /\ row[m].tok # 0 /\ m \notin owed
        /\ up'[m].cap \in {up[m].cap, 0}
    BY <1>1, <1>3 DEF Benign, Outer
  <2>2. ~QueuedIn(call, m) /\ ~ \E c \in Callers : Holds(call[c], m)
    BY <1>3, OuterKeeps
  <2> QED
    BY <2>1, <2>2 DEF StopInv
<1>4. ObserveMode => owed' = Members
  BY DEF StopInv, Outer, Base, RowsOK
<1> QED
  BY <1>2, <1>3, <1>4 DEF StopInv, QueuedIn, Holds

\* Who does not hold the lock is not between reading and writing.
LEMMA OneHolder ==
  ASSUME Base
  PROVE  \A d \in Callers : lock # d => call[d].ph \notin {"gate", "put"}
  BY CallerIs

\* Compute: the member is at hand instead of queued.
LEMMA StopCompute ==
  ASSUME Base, StopInv, NEW c \in Callers, Compute(c)
  PROVE  StopInv'
<1>1. /\ Base' /\ Still /\ UNCHANGED <<up, counted>>
      /\ lock = Nobody /\ \A d \in Callers : d # c => call'[d] = call[d]
  BY ComputeStep
<1>2. PICK s \in call[c].todo :
        /\ s \in MemberSnaps /\ call'[c].todo = call[c].todo \ {s}
        /\ \/ /\ owed' = owed \cup {s.m} /\ lock' = lock /\ call'[c].cur = NoSnap
              /\ call'[c].ph \notin {"gate", "put"}
           \/ /\ owed' = owed /\ lock' = c /\ call'[c].ph = "gate" /\ call'[c].cur = s
              /\ call'[c].cnt = ActiveIn(grants, s.m)
  BY ComputeStep
<1>3. \A d \in Callers : call[d].ph \notin {"gate", "put"}
  BY <1>1, OneHolder, CallerIs
<1>4. \A d \in Callers : call'[d].ph # "put"
  BY <1>1, <1>2, <1>3
<1>5. \A m \in Members : QueuedIn(call, m) =>
        QueuedIn(call', m) \/ (m = s.m /\ s.tok # 0)
  BY <1>1, <1>2 DEF QueuedIn
<1>6. \A m \in Members : ~ \E d \in Callers : Holds(call[d], m)
  BY <1>3 DEF Holds
<1>7. ASSUME NEW m \in Members, status' = "stopped", hardstop', row'[m].tok # 0, m \notin owed',
             ~QueuedIn(call', m), ~ \E d \in Callers : Holds(call'[d], m)
      PROVE  up'[m].cap = 0
  <2>1. status = "stopped" /\ hardstop /\ row[m].tok # 0 /\ m \notin owed /\ up' = up
    BY <1>1, <1>2, <1>7 DEF Still
  <2>2. ~QueuedIn(call, m)
    BY <1>2, <1>5, <1>7 DEF Holds
  <2> QED
    BY <1>6, <2>1, <2>2 DEF StopInv
<1>8. ObserveMode => owed' = Members
  BY <1>2 DEF StopInv, MemberSnaps
<1> QED
  BY <1>4, <1>7, <1>8 DEF StopInv, QueuedIn, Holds

\* The queue is the same when only other parts of the calls change.
LEMMA SameQueue ==
  ASSUME NEW c \in Callers, call'[c].todo = call[c].todo,
         \A d \in Callers : d # c => call'[d] = call[d], NEW m
  PROVE  QueuedIn(call', m) <=> QueuedIn(call, m)
  BY DEF QueuedIn

\* Gate: a stop that is in force is seen.
LEMMA StopGate ==
  ASSUME Base, StopInv, NEW c \in Callers, Gate(c)
  PROVE  StopInv'
<1>1. /\ Base' /\ Still /\ UNCHANGED <<up, counted>> /\ call[c].ph = "gate" /\ lock = c
      /\ \A d \in Callers : d # c => call'[d] = call[d]
      /\ call'[c].todo = call[c].todo
  BY GateStep
<1>2. \A d \in Callers : d # c => call[d].ph \notin {"gate", "put"}
  BY <1>1, OneHolder
<1>3. \A m \in Members : QueuedIn(call', m) <=> QueuedIn(call, m)
  BY <1>1, SameQueue
<1>4. CASE /\ ObserveMode \/ call[c].cur.tok = 0
           /\ owed' = owed /\ lock' = Nobody /\ call'[c].cur = NoSnap
           /\ call'[c].ph \notin {"gate", "put"}
  <2>1. \A d \in Callers : call'[d].ph # "put"
    BY <1>1, <1>2, <1>4
  <2>2. ASSUME NEW m \in Members, status' = "stopped", hardstop', row'[m].tok # 0, m \notin owed',
               ~QueuedIn(call', m)
        PROVE  up'[m].cap = 0
    <3>1. status = "stopped" /\ hardstop /\ row[m].tok # 0 /\ m \notin owed /\ up' = up
          /\ ~QueuedIn(call, m)
      BY <1>1, <1>3, <1>4, <2>2 DEF Still
    <3>2. ~ObserveMode
      BY <3>1 DEF StopInv
    <3>3. ~ \E d \in Callers : Holds(call[d], m)
      BY <1>2, <1>4, <3>2 DEF Holds
    <3> QED
      BY <3>1, <3>3 DEF StopInv
  <2> QED
    BY <1>4, <2>1, <2>2 DEF StopInv, QueuedIn, Holds
<1>5. CASE /\ ~ObserveMode /\ owed' = owed \ {call[c].cur.m} /\ lock' = lock
           /\ call[c].cur.tok # 0 /\ call'[c].ph = "put" /\ call'[c].cur = call[c].cur
           /\ call'[c].cnt = call[c].cnt
           /\ status = "stopped" /\ hardstop => call'[c].val = 0
  <2>1. \A d \in Callers : (call'[d].ph = "put" /\ status' = "stopped" /\ hardstop') => call'[d].val = 0
    BY <1>1, <1>2, <1>5 DEF Still
  <2>2. ASSUME NEW m \in Members, status' = "stopped", hardstop', row'[m].tok # 0, m \notin owed',
               ~QueuedIn(call', m), ~ \E d \in Callers : Holds(call'[d], m)
        PROVE  up'[m].cap = 0
    <3>1. m # call[c].cur.m
      BY <1>5, <2>2 DEF Holds
    <3>2. status = "stopped" /\ hardstop /\ row[m].tok # 0 /\ m \notin owed /\ up' = up
          /\ ~QueuedIn(call, m)
      BY <1>1, <1>3, <1>5, <2>2, <3>1 DEF Still
    <3>3. ~ \E d \in Callers : Holds(call[d], m)
      BY <1>2, <3>1 DEF Holds
    <3> QED
      BY <3>2, <3>3 DEF StopInv
  <2> QED
    BY <1>5, <2>1, <2>2 DEF StopInv, QueuedIn, Holds
<1> QED
  BY <1>4, <1>5, GateStep

\* Put: the cap of a stopped member is 0.
LEMMA StopPut ==
  ASSUME Base, StopInv, NEW c \in Callers, Put(c)
  PROVE  StopInv'
<1> DEFINE n == call[c].cur.m
<1>1. /\ Base' /\ Still /\ call[c].ph = "put" /\ lock = c
      /\ \A d \in Callers : d # c => call'[d] = call[d]
      /\ call'[c].todo = call[c].todo /\ call'[c].ph \notin {"gate", "put"} /\ n \in Members
      /\ \A m \in Members : m # n => up'[m] = up[m]
      /\ \/ owed' = owed /\ up'[n].cap = call[c].val
         \/ owed' = owed \cup {n} /\ UNCHANGED <<up, counted>>
  BY PutStep
<1>2. \A d \in Callers : d # c => call[d].ph \notin {"gate", "put"}
  BY <1>1, OneHolder
<1>3. \A m \in Members : QueuedIn(call', m) <=> QueuedIn(call, m)
  BY <1>1, SameQueue
<1>4. \A d \in Callers : call'[d].ph # "put"
  BY <1>1, <1>2
<1>5. ASSUME NEW m \in Members, status' = "stopped", hardstop', row'[m].tok # 0, m \notin owed',
             ~QueuedIn(call', m)
      PROVE  up'[m].cap = 0
  <2>1. status = "stopped" /\ hardstop /\ row[m].tok # 0 /\ m \notin owed /\ ~QueuedIn(call, m)
    BY <1>1, <1>3, <1>5 DEF Still
  <2>2. CASE m = n
    BY <1>1, <1>5, <2>1, <2>2 DEF StopInv
  <2>3. CASE m # n
    <3>1. ~ \E d \in Callers : Holds(call[d], m)
      BY <1>2, <2>3 DEF Holds
    <3> QED
      BY <1>1, <2>1, <2>3, <3>1 DEF StopInv
  <2> QED
    BY <2>2, <2>3
<1>6. ObserveMode => owed' = Members
  BY <1>1 DEF StopInv
<1> QED
  BY <1>4, <1>5, <1>6 DEF StopInv, QueuedIn, Holds

\* A crash owes a cap to everybody who was queued or in work.
LEMMA CrashOwes ==
  ASSUME Base, Crash, NEW m \in Members, m \notin owed'
  PROVE  ~QueuedIn(call, m) /\ ~ \E c \in Callers : Holds(call[c], m)
<1>1. m # None /\ \A c \in Callers : m \notin Touched(c)
  BY QuotaAssumption DEF Crash
<1> QED
  BY <1>1 DEF Touched, QueuedIn, Holds

\* A crash leaves what was queued owed.
LEMMA StopCrash ==
  ASSUME Base, Base', StopInv, Crash
  PROVE  StopInv'
<1>1. /\ UNCHANGED <<row, up, status, hardstop>> /\ owed \subseteq owed'
      /\ call' = [c \in Callers |-> NoCall]
  BY DEF Crash, config
<1>2. \A c \in Callers : call'[c].ph # "put"
  BY <1>1 DEF NoCall
<1>3. ASSUME NEW m \in Members, status' = "stopped", hardstop', row'[m].tok # 0, m \notin owed'
      PROVE  up'[m].cap = 0
  <2>1. ~QueuedIn(call, m) /\ ~ \E c \in Callers : Holds(call[c], m)
    BY <1>3, CrashOwes
  <2> QED
    BY <1>1, <1>3, <2>1 DEF StopInv
<1>4. ObserveMode => owed' = Members
  BY <1>1 DEF StopInv, Base, RowsOK
<1> QED
  BY <1>2, <1>3, <1>4 DEF StopInv, QueuedIn, Holds

\* Every step of the specification.
LEMMA StopStep == CoreInv /\ StopInv /\ [Next]_vars => StopInv'
<1> SUFFICES ASSUME CoreInv, StopInv, [Next]_vars PROVE StopInv'
  OBVIOUS
<1>1. CASE Next
  <2>1. Base /\ Base' /\ (Outer \/ (\E c \in Callers : Applying(c)) \/ Crash)
    BY <1>1, EveryStep DEF CoreInv
  <2> QED
    BY <2>1, StopOuter, StopCompute, StopGate, StopPut, StopCrash DEF Applying
<1>2. CASE UNCHANGED vars
  <2>1. UNCHANGED <<row, up, owed, status, hardstop, call>>
    BY <1>2 DEF vars, config, history
  <2> QED
    BY <2>1 DEF StopInv, QueuedIn, Holds
<1> QED
  BY <1>1, <1>2

\* The initial state.
LEMMA InitStop == Init => StopInv
  BY DEF Init, StopInv, NoCall

\* The status is written outside the lock, and caps are computed from rows and
\* a status read earlier: still no member of a stopped organisation keeps
\* quota, unless a dispatch for it is under way, failed or was undone.
THEOREM StopsReachCaps == Spec => []StopReachesCaps
<1>1. CoreInv /\ StopInv => StopReachesCaps
  <2> SUFFICES ASSUME CoreInv, StopInv, NEW m \in Members, status = "stopped", hardstop,
                      row[m].tok # 0, m \notin owed, ~Pending(m)
               PROVE  up[m].cap = 0
    BY DEF StopReachesCaps
  <2>1. m # None /\ \A c \in Callers : m \notin Touched(c)
    BY QuotaAssumption DEF Pending
  <2>2. ~QueuedIn(call, m) /\ ~ \E c \in Callers : Holds(call[c], m)
    BY <2>1 DEF Touched, QueuedIn, Holds
  <2> QED
    BY <2>2 DEF StopInv
<1>2. Init => CoreInv /\ StopInv
  BY InitCore, InitStop
<1>3. CoreInv /\ StopInv /\ [Next]_vars => (CoreInv /\ StopInv)'
  BY CoreStep, StopStep
<1> QED
  BY <1>1, <1>2, <1>3, PTL DEF Spec

-----------------------------------------------------------------------------
(* The caps count the grants in force.                                     *)

\* Every member starts with a token: it was opened completely.
Opened == \A r \in StartRows : \A m \in Members : r[m].tok # 0

\* A member without token has expired, and a snapshot without token is of one.
KeysInv ==
  /\ \A m \in Members : row[m].tok = 0 => row[m].expired
  /\ \A c \in Callers : \A s \in call[c].todo \cup {call[c].cur} :
       (s.m \in Members /\ s.tok = 0) => row[s.m].tok = 0

\* What is about to be written counts the grants in force, or will be written
\* again; and so does what was written last, unless the member is owed a cap.
CountInv ==
  /\ \A c \in Callers :
       (call[c].ph \in {"gate", "put"} /\ call[c].cur.tok # 0 /\ row[call[c].cur.m].tok # 0)
         => call[c].cnt = ActiveIn(grants, call[c].cur.m) \/ QueuedIn(call, call[c].cur.m)
  /\ \A m \in Members : (row[m].tok # 0 /\ m \notin owed) =>
       \/ QueuedIn(call, m) \/ (\E c \in Callers : Holds(call[c], m))
       \/ counted[m] = ActiveIn(grants, m)
  /\ ObserveMode => owed = Members

\* A member has a token until it expires.
LEMMA KeysOuter ==
  ASSUME Base, KeysInv, Outer
  PROVE  KeysInv'
<1>1. \A m \in Members : Benign(m)
  BY DEF Outer
<1>2. \A m \in Members : /\ row'[m].tok = 0 => row'[m].expired
                         /\ row[m].tok = 0 => row'[m].tok = 0
  BY <1>1 DEF Benign, KeysInv
<1>3. ASSUME NEW c \in Callers, NEW s \in call'[c].todo \cup {call'[c].cur}, s.m \in Members, s.tok = 0
      PROVE  row'[s.m].tok = 0
  <2>1. s \in call[c].todo \cup {call[c].cur, NoSnap} \/ s.tok = row[s.m].tok
    BY <1>3 DEF Outer, Keeps
  <2>2. NoSnap.m \notin Members
    BY QuotaAssumption DEF NoSnap
  <2>3. row[s.m].tok = 0
    BY <1>3, <2>1, <2>2 DEF KeysInv
  <2> QED
    BY <1>2, <1>3, <2>3
<1> QED
  BY <1>2, <1>3 DEF KeysInv

\* Handlers outside the lock: a change of the grants queues the member.
LEMMA CountOuter ==
  ASSUME Base, Base', KeysInv, CountInv, Outer
  PROVE  CountInv'
<1>1. \A m \in Members : Benign(m)
  BY DEF Outer
<1>2. ASSUME NEW m \in Members, row'[m].tok # 0
      PROVE  row[m].tok # 0 /\ (ActiveIn(grants', m) = ActiveIn(grants, m) \/ QueuedIn(call', m))
  <2>1. row[m].tok # 0
    BY <1>1, <1>2 DEF Benign, KeysInv
  <2>2. ~ \E h \in Handlers : call[h].ph = "revoke" /\ call[h].cur.m = m /\ call[h].cur.tok = 0
    BY <2>1 DEF KeysInv, Callers
  <2> QED
    BY <1>1, <1>2, <2>1, <2>2 DEF Benign
<1>3. ASSUME NEW c \in Callers, call'[c].ph \in {"gate", "put"}, call'[c].cur.tok # 0,
             row'[call'[c].cur.m].tok # 0
      PROVE  call'[c].cnt = ActiveIn(grants', call'[c].cur.m) \/ QueuedIn(call', call'[c].cur.m)
  <2>1. Keeps(call[c], call'[c])
    BY DEF Outer
  <2>2. call[c].ph \in {"gate", "put"} /\ call'[c].cur = call[c].cur /\ call'[c].cnt = call[c].cnt
    BY <1>3, <2>1 DEF Keeps
  <2>3. call[c].cur.m \in Members
    BY <2>2, CallerIs DEF CallOK, MemberSnaps
  <2>4. call[c].cnt = ActiveIn(grants, call[c].cur.m) \/ QueuedIn(call, call[c].cur.m)
    BY <1>2, <1>3, <2>2, <2>3 DEF CountInv
  <2> QED
    BY <1>2, <1>3, <2>2, <2>3, <2>4, OuterKeeps
<1>4. ASSUME NEW m \in Members, row'[m].tok # 0, m \notin owed', ~QueuedIn(call', m),
             ~ \E c \in Callers : Holds(call'[c], m)
      PROVE  counted'[m] = ActiveIn(grants', m)
  <2>1. ~QueuedIn(call, m) /\ ~ \E c \in Callers : Holds(call[c], m)
    BY <1>4, OuterKeeps
  <2>2. row[m].tok # 0 /\ m \notin owed /\ counted'[m] = counted[m]
        /\ ActiveIn(grants', m) = ActiveIn(grants, m)
    BY <1>2, <1>4 DEF Outer
  <2> QED
    BY <2>1, <2>2 DEF CountInv
<1>5. ObserveMode => owed' = Members
  BY DEF CountInv, Outer, Base, RowsOK
<1> QED
  BY <1>3, <1>4, <1>5 DEF CountInv, QueuedIn, Holds, ActiveIn

\* Compute: the grants read are the grants in force, or the member is queued.
LEMMA CountCompute ==
  ASSUME Base, KeysInv, CountInv, NEW c \in Callers, Compute(c)
  PROVE  KeysInv' /\ CountInv'
<1>1. /\ Still /\ UNCHANGED <<up, counted>>
      /\ lock = Nobody /\ \A d \in Callers : d # c => call'[d] = call[d]
  BY ComputeStep
<1>2. PICK s \in call[c].todo :
        /\ s \in MemberSnaps /\ call'[c].todo = call[c].todo \ {s}
        /\ \/ /\ owed' = owed \cup {s.m} /\ lock' = lock /\ call'[c].cur = NoSnap
              /\ call'[c].ph \notin {"gate", "put"}
           \/ /\ owed' = owed /\ lock' = c /\ call'[c].ph = "gate" /\ call'[c].cur = s
              /\ call'[c].cnt = ActiveIn(grants, s.m)
  BY ComputeStep
<1>3. \A d \in Callers : call[d].ph \notin {"gate", "put"}
  BY <1>1, OneHolder, CallerIs
<1>4. \A d \in Callers : call'[d].ph \in {"gate", "put"} =>
        d = c /\ call'[c].cnt = ActiveIn(grants, call'[c].cur.m)
  BY <1>1, <1>2, <1>3
<1>5. \A m \in Members : QueuedIn(call, m) =>
        QueuedIn(call', m) \/ (m = s.m /\ s.tok # 0)
  BY <1>1, <1>2 DEF QueuedIn
<1>6. \A m \in Members : ~ \E d \in Callers : Holds(call[d], m)
  BY <1>3 DEF Holds
<1>7. ASSUME NEW m \in Members, row'[m].tok # 0, m \notin owed',
             ~QueuedIn(call', m), ~ \E d \in Callers : Holds(call'[d], m)
      PROVE  counted'[m] = ActiveIn(grants', m)
  <2>1. row[m].tok # 0 /\ m \notin owed /\ counted' = counted /\ grants' = grants
    BY <1>1, <1>2, <1>7 DEF Still
  <2>2. ~QueuedIn(call, m)
    BY <1>2, <1>5, <1>7 DEF Holds
  <2> QED
    BY <1>6, <2>1, <2>2 DEF CountInv
<1>8. ObserveMode => owed' = Members
  BY ZenonT(60), <1>2 DEF CountInv, MemberSnaps
<1>9. grants' = grants /\ row' = row
  BY <1>1 DEF Still
<1>10. CountInv'
  BY <1>4, <1>7, <1>8, <1>9 DEF CountInv, QueuedIn, Holds, ActiveIn
<1>11. NoSnap.m \notin Members
  BY QuotaAssumption DEF NoSnap
<1>12. KeysInv'
  BY <1>1, <1>2, <1>9, <1>11 DEF KeysInv
<1> QED
  BY <1>10, <1>12

\* Gate: nothing the cap depends on is written.
LEMMA CountGate ==
  ASSUME Base, KeysInv, CountInv, NEW c \in Callers, Gate(c)
  PROVE  KeysInv' /\ CountInv'
<1>1. /\ Still /\ UNCHANGED <<up, counted>> /\ call[c].ph = "gate" /\ lock = c
      /\ \A d \in Callers : d # c => call'[d] = call[d]
      /\ call'[c].todo = call[c].todo
  BY GateStep
<1>2. \A d \in Callers : d # c => call[d].ph \notin {"gate", "put"}
  BY <1>1, OneHolder
<1>3. \A m : QueuedIn(call', m) <=> QueuedIn(call, m)
  BY <1>1, SameQueue
<1>4. grants' = grants /\ row' = row
  BY <1>1 DEF Still
<1>5. NoSnap.m \notin Members
  BY QuotaAssumption DEF NoSnap
<1>6. CASE /\ ObserveMode \/ call[c].cur.tok = 0
           /\ owed' = owed /\ lock' = Nobody /\ call'[c].cur = NoSnap
           /\ call'[c].ph \notin {"gate", "put"}
  <2>1. \A d \in Callers : call'[d].ph \notin {"gate", "put"}
    BY <1>1, <1>2, <1>6
  <2>2. ASSUME NEW m \in Members, row'[m].tok # 0, m \notin owed', ~QueuedIn(call', m)
        PROVE  counted'[m] = ActiveIn(grants, m)
    <3>1. row[m].tok # 0 /\ m \notin owed /\ counted' = counted /\ ~QueuedIn(call, m)
      BY <1>1, <1>3, <1>4, <1>6, <2>2
    <3>2. ~ObserveMode
      BY <3>1 DEF CountInv
    <3>3. ~ \E d \in Callers : Holds(call[d], m)
      BY <1>2, <1>6, <3>2 DEF Holds
    <3> QED
      BY <3>1, <3>3 DEF CountInv
  <2>3. CountInv'
    BY <1>4, <1>6, <2>1, <2>2 DEF CountInv, QueuedIn, Holds, ActiveIn
  <2>4. KeysInv'
    BY <1>1, <1>4, <1>5, <1>6 DEF KeysInv
  <2> QED
    BY <2>3, <2>4
<1>7. CASE /\ ~ObserveMode /\ owed' = owed \ {call[c].cur.m} /\ lock' = lock
           /\ call[c].cur.tok # 0 /\ call'[c].ph = "put" /\ call'[c].cur = call[c].cur
           /\ call'[c].cnt = call[c].cnt
  <2>1. \A d \in Callers :
          (call'[d].ph \in {"gate", "put"} /\ call'[d].cur.tok # 0 /\ row[call'[d].cur.m].tok # 0)
            => call'[d].cnt = ActiveIn(grants, call'[d].cur.m) \/ QueuedIn(call', call'[d].cur.m)
    BY <1>1, <1>2, <1>3, <1>7 DEF CountInv
  <2>2. ASSUME NEW m \in Members, row'[m].tok # 0, m \notin owed',
               ~QueuedIn(call', m), ~ \E d \in Callers : Holds(call'[d], m)
        PROVE  counted'[m] = ActiveIn(grants, m)
    <3>1. m # call[c].cur.m
      BY <1>7, <2>2 DEF Holds
    <3>2. row[m].tok # 0 /\ m \notin owed /\ counted' = counted /\ ~QueuedIn(call, m)
      BY <1>1, <1>3, <1>4, <1>7, <2>2, <3>1
    <3>3. ~ \E d \in Callers : Holds(call[d], m)
      BY <1>2, <3>1 DEF Holds
    <3> QED
      BY <3>2, <3>3 DEF CountInv
  <2>3. CountInv'
    BY <1>4, <1>7, <2>1, <2>2 DEF CountInv, QueuedIn, Holds, ActiveIn
  <2>4. KeysInv'
    BY <1>1, <1>4, <1>7 DEF KeysInv
  <2> QED
    BY <2>3, <2>4
<1> QED
  BY <1>6, <1>7, GateStep

\* Put: the cap counts the grants that were read.
LEMMA CountPut ==
  ASSUME Base, KeysInv, CountInv, NEW c \in Callers, Put(c)
  PROVE  KeysInv' /\ CountInv'
<1> DEFINE n == call[c].cur.m
<1>1. /\ Still /\ call[c].ph = "put" /\ lock = c /\ call'[c].cur = NoSnap
      /\ \A d \in Callers : d # c => call'[d] = call[d]
      /\ call'[c].todo = call[c].todo /\ call'[c].ph \notin {"gate", "put"} /\ n \in Members
      /\ \A m \in Members : m # n => counted'[m] = counted[m]
      /\ \/ owed' = owed /\ counted'[n] = call[c].cnt
         \/ owed' = owed \cup {n} /\ UNCHANGED <<up, counted>>
  BY PutStep
<1>2. \A d \in Callers : d # c => call[d].ph \notin {"gate", "put"}
  BY <1>1, OneHolder
<1>3. \A m : QueuedIn(call', m) <=> QueuedIn(call, m)
  BY <1>1, SameQueue
<1>4. grants' = grants /\ row' = row /\ call[c].cur.tok # 0 /\ NoSnap.m \notin Members
  BY <1>1, CallerIs, QuotaAssumption DEF Still, CallOK, NoSnap
<1>5. \A d \in Callers : call'[d].ph \notin {"gate", "put"}
  BY <1>1, <1>2
<1>6. ASSUME NEW m \in Members, row'[m].tok # 0, m \notin owed', ~QueuedIn(call', m)
      PROVE  counted'[m] = ActiveIn(grants, m)
  <2>1. row[m].tok # 0 /\ m \notin owed /\ ~QueuedIn(call, m)
    BY <1>1, <1>3, <1>4, <1>6
  <2>2. CASE m = n
    BY <1>1, <1>4, <1>6, <2>1, <2>2 DEF CountInv
  <2>3. CASE m # n
    <3>1. ~ \E d \in Callers : Holds(call[d], m)
      BY <1>2, <2>3 DEF Holds
    <3> QED
      BY <1>1, <2>1, <2>3, <3>1 DEF CountInv
  <2> QED
    BY <2>2, <2>3
<1>7. ObserveMode => owed' = Members
  BY <1>1 DEF CountInv
<1>8. CountInv'
  BY <1>4, <1>5, <1>6, <1>7 DEF CountInv, QueuedIn, Holds, ActiveIn
<1>9. KeysInv'
  BY <1>1, <1>4 DEF KeysInv
<1> QED
  BY <1>8, <1>9

\* A crash leaves what was queued owed.
LEMMA CountCrash ==
  ASSUME Base, Base', KeysInv, CountInv, Crash
  PROVE  KeysInv' /\ CountInv'
<1>1. /\ UNCHANGED <<row, grants, counted>> /\ owed \subseteq owed'
      /\ call' = [c \in Callers |-> NoCall]
  BY DEF Crash
<1>2. /\ \A c \in Callers : call'[c].ph = "idle" /\ call'[c].todo = {} /\ call'[c].cur = NoSnap
      /\ NoSnap.m \notin Members
  BY <1>1, QuotaAssumption DEF NoCall, NoSnap
<1>3. ASSUME NEW m \in Members, row'[m].tok # 0, m \notin owed'
      PROVE  counted'[m] = ActiveIn(grants, m)
  <2>1. ~QueuedIn(call, m) /\ ~ \E c \in Callers : Holds(call[c], m)
    BY <1>3, CrashOwes
  <2> QED
    BY <1>1, <1>3, <2>1 DEF CountInv
<1>4. ObserveMode => owed' = Members
  BY <1>1 DEF CountInv, Base, RowsOK
<1>5. CountInv'
  BY <1>1, <1>2, <1>3, <1>4 DEF CountInv, QueuedIn, Holds, ActiveIn
<1>6. KeysInv'
  BY <1>1, <1>2 DEF KeysInv
<1> QED
  BY <1>5, <1>6

\* Every step of the specification.
LEMMA CountStep == CoreInv /\ KeysInv /\ CountInv /\ [Next]_vars => KeysInv' /\ CountInv'
<1> SUFFICES ASSUME CoreInv, KeysInv, CountInv, [Next]_vars PROVE KeysInv' /\ CountInv'
  OBVIOUS
<1>1. CASE Next
  <2>1. Base /\ Base' /\ (Outer \/ (\E c \in Callers : Applying(c)) \/ Crash)
    BY <1>1, EveryStep DEF CoreInv
  <2> QED
    BY <2>1, KeysOuter, CountOuter, CountCompute, CountGate, CountPut, CountCrash DEF Applying
<1>2. CASE UNCHANGED vars
  <2>1. UNCHANGED <<row, counted, owed, grants, call>>
    BY <1>2 DEF vars, config, history
  <2> QED
    BY <2>1 DEF CountInv, KeysInv, QueuedIn, Holds, ActiveIn
<1> QED
  BY <1>1, <1>2

\* The initial state.
LEMMA InitCount ==
  ASSUME Opened
  PROVE  Init => KeysInv /\ CountInv
<1> SUFFICES ASSUME Init PROVE KeysInv /\ CountInv
  OBVIOUS
<1>1. /\ row \in StartRows /\ owed = Members /\ call = [c \in Callers |-> NoCall]
  BY DEF Init
<1>2. \A c \in Callers : call[c].ph = "idle" /\ call[c].todo = {} /\ call[c].cur.tok = 0
                         /\ call[c].cur.m \notin Members
  BY <1>1, QuotaAssumption DEF NoCall, NoSnap
<1> QED
  BY <1>1, <1>2 DEF KeysInv, CountInv, Opened

\* Whatever handlers, the worker and crashes interleave, and although rows are
\* read before the lock: the cap at the gateway counts exactly the grants in
\* force, unless a dispatch is under way, failed or was undone.  Members start
\* with a token: a revocation that read the row before the member's first
\* token existed is not applied to that token.
THEOREM GrantsStayCounted ==
  ASSUME Opened
  PROVE  Spec => []GrantsCounted
<1>1. CoreInv /\ CountInv => GrantsCounted
  <2> SUFFICES ASSUME CoreInv, CountInv, NEW m \in Members, row[m].tok # 0, m \notin owed, ~Pending(m)
               PROVE  counted[m] = ListActiveQuotaGrants(m)
    BY DEF GrantsCounted
  <2>1. m # None /\ \A c \in Callers : m \notin Touched(c)
    BY QuotaAssumption DEF Pending
  <2>2. ~QueuedIn(call, m) /\ ~ \E c \in Callers : Holds(call[c], m)
    BY <2>1 DEF Touched, QueuedIn, Holds
  <2> QED
    BY <2>2 DEF CountInv, ActiveIn, ListActiveQuotaGrants
<1>2. Init => CoreInv /\ KeysInv /\ CountInv
  BY InitCore, InitCount
<1>3. CoreInv /\ KeysInv /\ CountInv /\ [Next]_vars => (CoreInv /\ KeysInv /\ CountInv)'
  BY CoreStep, CountStep
<1> QED
  BY <1>1, <1>2, <1>3, PTL DEF Spec

-----------------------------------------------------------------------------
(* The cap is a number.                                                    *)

\* A set of numbers has a least one.
LEMMA LeastNat ==
  ASSUME NEW T, T \subseteq Nat, T # {} PROVE \E n \in T : \A m \in T : n <= m
<1>1. IsWellFoundedOn(OpToRel(<, Nat), Nat)
  BY NatLessThanWellFounded
<1>2. \E x \in T : \A y \in T : ~ (<<y, x>> \in OpToRel(<, Nat))
  BY <1>1, WFMin
<1>3. OpToRel(<, Nat) = {ss \in Nat \X Nat : ss[1] < ss[2]}
  BY Zenon DEF OpToRel
<1> DEFINE R == {ss \in Nat \X Nat : ss[1] < ss[2]}
<1>4. PICK x \in T : \A y \in T : ~ (<<y, x>> \in R)
  BY <1>2, <1>3, Zenon
<1>5. \A y \in T : ~(y < x)
  BY <1>4
<1> QED
  BY <1>5

\* First returns a member of the set.
LEMMA FirstIn ==
  ASSUME NEW S, S \subseteq Nat, S # {}
  PROVE  First(S) \in S
  BY LeastNat DEF First

\* f holds the partial sums of fun over the subsets of S.
Sums(fun, S, f) ==
  f = [s \in SUBSET S |-> IF s = {} THEN 0
                          ELSE fun[CHOOSE x \in s : TRUE] + f[s \ {CHOOSE x \in s : TRUE}]]

\* What the library's fold computes.
LEMMA SumIs ==
  ASSUME NEW fun, NEW S
  PROVE  SumFunctionOnSet(fun, S) = (CHOOSE f : Sums(fun, S, f))[S]
  BY Zenon DEF SumFunctionOnSet, FoldFunctionOnSet, MapThenFoldSet, Sums

\* Subsets with fewer than n elements.
Smaller(S, n) == {s \in SUBSET S : Cardinality(s) < n}

\* Partial sums exist: there is no least size at which they stop.
LEMMA SumsExist ==
  ASSUME NEW fun, NEW S, IsFiniteSet(S)
  PROVE  \E f : Sums(fun, S, f)
<1> DEFINE pick == [s \in SUBSET S |-> CHOOSE x \in s : TRUE]
           rest == [s \in SUBSET S |-> s \ {pick[s]}]
           Of(D, f) == f = [s \in D |-> IF s = {} THEN 0 ELSE fun[pick[s]] + f[rest[s]]]
           Bad == {n \in Nat : ~ \E f : Of(Smaller(S, n), f)}
<1>0. \A s \in SUBSET S : /\ IsFiniteSet(s) /\ Cardinality(s) \in Nat
                          /\ Cardinality(s) <= Cardinality(S)
  BY FS_Subset, FS_CardinalityType
<1>1. \A s \in SUBSET S : s # {} => rest[s] \in SUBSET S /\ Cardinality(rest[s]) < Cardinality(s)
  <2> SUFFICES ASSUME NEW s \in SUBSET S, s # {}
               PROVE  rest[s] \in SUBSET S /\ Cardinality(rest[s]) < Cardinality(s)
    OBVIOUS
  <2>1. pick[s] \in s /\ rest[s] = s \ {pick[s]}
    OBVIOUS
  <2> HIDE DEF pick, rest
  <2>2. Cardinality(rest[s]) = Cardinality(s) - 1
    BY <1>0, <2>1, FS_RemoveElement
  <2> QED
    BY <1>0, <2>1, <2>2
<1> HIDE DEF pick, rest
<1>2. ASSUME Bad # {} PROVE FALSE
  <2>1. PICK m \in Bad : \A n \in Bad : m <= n
    <3>1. Bad \subseteq Nat
      OBVIOUS
    <3> HIDE DEF Bad
    <3> QED
      BY <1>2, <3>1, LeastNat
  <2>2. m # 0
    <3>1. Smaller(S, 0) = {}
      BY <1>0 DEF Smaller
    <3>2. Of({}, [s \in {} |-> 0])
      OBVIOUS
    <3> QED
      BY <3>1, <3>2
  <2>3. m - 1 \in Nat /\ m - 1 \notin Bad
    BY <2>1, <2>2
  <2>4. PICK f : Of(Smaller(S, m - 1), f)
    BY <2>3
  <2> DEFINE g == [s \in Smaller(S, m) |-> IF s = {} THEN 0 ELSE fun[pick[s]] + f[rest[s]]]
  <2>5. ASSUME NEW s \in Smaller(S, m), s # {} PROVE g[rest[s]] = f[rest[s]]
    <3>1. rest[s] \in Smaller(S, m - 1) /\ rest[s] \in Smaller(S, m)
      BY <1>0, <1>1, <2>3, <2>5 DEF Smaller
    <3>2. f[rest[s]] = IF rest[s] = {} THEN 0 ELSE fun[pick[rest[s]]] + f[rest[rest[s]]]
      BY <2>4, <3>1
    <3> QED
      BY <3>1, <3>2
  <2>6. \A s \in Smaller(S, m) : g[s] = IF s = {} THEN 0 ELSE fun[pick[s]] + g[rest[s]]
    BY <2>5
  <2>7. Of(Smaller(S, m), g)
    BY <2>6
  <2> QED
    BY <2>7
<1>3. Cardinality(S) + 1 \in Nat /\ Cardinality(S) + 1 \notin Bad
  BY <1>0, <1>2
<1>4. Smaller(S, Cardinality(S) + 1) = SUBSET S
  BY <1>0 DEF Smaller
<1>5. PICK f : Of(SUBSET S, f)
  BY <1>3, <1>4
<1>6. \A s \in SUBSET S : pick[s] = (CHOOSE x \in s : TRUE) /\ rest[s] = s \ {CHOOSE x \in s : TRUE}
  BY DEF pick, rest
<1>7. Sums(fun, S, f)
  BY <1>5, <1>6 DEF Sums
<1> QED
  BY <1>7

\* A sum of integers over a finite set is an integer.
LEMMA SumInt ==
  ASSUME NEW fun, NEW S, IsFiniteSet(S), \A i \in S : fun[i] \in Int
  PROVE  SumFunctionOnSet(fun, S) \in Int
<1> DEFINE f == CHOOSE g : Sums(fun, S, g)
           Bad == {n \in Nat : \E s \in SUBSET S : Cardinality(s) = n /\ f[s] \notin Int}
<1>1. Sums(fun, S, f)
  BY SumsExist
<1> HIDE DEF f
<1>2. ASSUME Bad # {} PROVE FALSE
  <2>1. PICK m \in Bad : \A n \in Bad : m <= n
    <3>1. Bad \subseteq Nat
      OBVIOUS
    <3> HIDE DEF Bad
    <3> QED
      BY <1>2, <3>1, LeastNat
  <2>2. PICK s \in SUBSET S : Cardinality(s) = m /\ f[s] \notin Int
    BY <2>1
  <2> DEFINE x == CHOOSE y \in s : TRUE
  <2>3. f[s] = IF s = {} THEN 0 ELSE fun[x] + f[s \ {x}]
    BY <1>1 DEF Sums
  <2>4. s # {} /\ x \in s /\ fun[x] \in Int
    BY <2>2, <2>3
  <2> HIDE DEF x
  <2>5. IsFiniteSet(s) /\ Cardinality(s \ {x}) = m - 1
    BY <2>2, <2>4, FS_Subset, FS_RemoveElement
  <2>6. m - 1 \in Nat
    <3>1. IsFiniteSet(s \ {x})
      BY <2>5, FS_Subset
    <3> QED
      BY <2>5, <3>1, FS_CardinalityType
  <2>7. m - 1 \notin Bad
    BY <2>1, <2>6
  <2>8. f[s \ {x}] \in Int
    BY <2>2, <2>5, <2>6, <2>7
  <2> QED
    BY <2>2, <2>3, <2>4, <2>8
<1>3. f[S] \in Int
  BY <1>2, FS_CardinalityType
<1> QED
  BY <1>3, SumIs DEF f

TierFields == {"made", "alive", "dflt", "models", "limit"}
PolicyRows == [scope : Scopes, period : Periods, limit : Int, due : BOOLEAN]

\* Policies and tiers, and the tier row a handler is about to write, hold limits.
LimitsOK ==
  /\ policies \in Seq(PolicyRows) /\ DOMAIN tier = Tiers
  /\ \A t \in Tiers : DOMAIN tier[t] = TierFields /\ tier[t].limit \in TierLimits
  /\ \A h \in Handlers : call[h].ph = "tier" => call[h].lim \in TierLimits

\* What is about to be written, and what was, are caps.
CapsOK ==
  /\ \A c \in Callers : call[c].ph \in {"gate", "put"} => call[c].val \in Nat
  /\ \A m \in Members : up[m].cap \in Nat \cup {Unlimited}

\* A limit that is found is a number.
LEMMA BaseTyped ==
  ASSUME Base, LimitsOK, NEW s \in MemberSnaps
  PROVE  resolveBaseQuota(s) \in Int \cup {Unset}
<1>0. policies \in Seq(PolicyRows) /\ DOMAIN policies \subseteq Nat
      /\ \A i \in DOMAIN policies : policies[i].limit \in Int /\ policies[i].period \in Periods
  <2>1. policies \in Seq(PolicyRows) /\ DOMAIN policies = 1..Len(policies) /\ Len(policies) \in Nat
    BY DEF LimitsOK
  <2>2. \A i \in DOMAIN policies : policies[i] \in PolicyRows
    BY <2>1
  <2> QED
    BY <2>1, <2>2 DEF PolicyRows
<1>1. \A x : PoliciesOf(x) # {} => First(PoliciesOf(x)) \in DOMAIN policies
  <2>1. \A x : PoliciesOf(x) \subseteq DOMAIN policies
    BY DEF PoliciesOf
  <2> QED
    BY <1>0, <2>1, FirstIn
<1>2. explicitOverride(s.m, s.team) \in Int \cup {Unset}
  BY <1>0, <1>1 DEF explicitOverride
<1>3. orgPeriod \in Periods
  BY <1>0, <1>1 DEF orgPeriod, Periods
<1>4. tierOf(s) \in Tiers \cup {None}
  <2>1. s.tier \in Tiers \cup {None} /\ s.team \in Teams \cup {None} /\ dflt \in Tiers
    BY DEF MemberSnaps, Snaps, Base, RowsOK
  <2>2. \A x \in Teams : TeamTier[x] \in Tiers \cup {None}
    BY QuotaAssumption
  <2> QED
    BY <2>1, <2>2 DEF tierOf
<1>5. ASSUME NEW t \in Tiers, NEW p \in Periods PROVE tierPeriodLimit(t, p) \in Int \cup {Unset}
  <2> DEFINE order == <<p, "monthly", "weekly", "daily">>
             given == {i \in DOMAIN order : tier[t].limit[order[i]] # Unset}
  <2>1. DOMAIN order = 1..4 /\ \A i \in DOMAIN order : order[i] \in Periods
    BY DEF Periods
  <2>2. given \subseteq DOMAIN order
    OBVIOUS
  <2>3. tierPeriodLimit(t, p) = IF given = {} THEN Unset ELSE tier[t].limit[order[First(given)]]
    BY DEF tierPeriodLimit
  <2>4. \A q \in Periods : tier[t].limit[q] \in Int \cup {Unset}
    BY DEF LimitsOK, TierLimits
  <2> HIDE DEF order, given
  <2>5. given # {} => First(given) \in DOMAIN order
    <3>1. DOMAIN order \subseteq Nat
      BY <2>1
    <3> QED
      BY <2>2, <3>1, FirstIn
  <2> QED
    BY <2>1, <2>3, <2>4, <2>5
<1> QED
  BY <1>2, <1>3, <1>4, <1>5 DEF resolveBaseQuota

\* The cap computed is a number: limits may be missing and deltas negative.
LEMMA OverrideTyped ==
  ASSUME Base, LimitsOK, NEW s \in MemberSnaps, resolveBaseQuota(s) # Unset
  PROVE  computeOverride(s) \in Nat
<1> DEFINE fun == [g \in DOMAIN grants |-> grants[g].delta]
           A == ListActiveQuotaGrants(s.m)
<1>1. grants \in Seq(Grants) /\ DOMAIN grants = 1..Len(grants) /\ Len(grants) \in Nat
  BY DEF Base, GrantsOK
<1>2. A \subseteq DOMAIN grants /\ IsFiniteSet(A)
  <2>1. A \subseteq 1..Len(grants) /\ IsFiniteSet(1..Len(grants))
    BY <1>1, FS_Interval DEF ListActiveQuotaGrants
  <2> QED
    BY <1>1, <2>1, FS_Subset
<1>3. \A g \in A : fun[g] \in Int
  <2>1. \A g \in DOMAIN grants : grants[g] \in Grants
    BY <1>1
  <2> QED
    BY <1>2, <2>1 DEF Grants
<1> HIDE DEF fun, A
<1>4. SumFunctionOnSet(fun, A) \in Int
  BY <1>2, <1>3, SumInt
<1>5. resolveBaseQuota(s) \in Int
  BY BaseTyped
<1>6. computeOverride(s) = Clamp(resolveBaseQuota(s) + SumFunctionOnSet(fun, A))
  BY DEF computeOverride, fun, A
<1> QED
  BY <1>4, <1>5, <1>6 DEF Clamp

\* The tier rows that handlers are about to write hold limits.
TierCalls(K) == \A h \in Handlers : K[h].ph = "tier" => K[h].lim \in TierLimits

TierRows(T) ==
  /\ DOMAIN T = Tiers
  /\ \A t \in Tiers : DOMAIN T[t] = TierFields /\ T[t].limit \in TierLimits

\* A caller gets a call that is not about to write a tier, or one with limits.
LEMMA TierCallSet ==
  ASSUME Base, TierCalls(call), NEW c \in Callers, NEW r, call' = [call EXCEPT ![c] = r],
         c = Worker \/ r.ph # "tier" \/ r.lim \in TierLimits
  PROVE  TierCalls(call')
<1>1. DOMAIN call = Callers /\ \A h \in Handlers : h \in Callers /\ h # Worker
  BY QuotaAssumption DEF Base, CallsOK, Callers
<1> QED
  BY <1>1 DEF TierCalls

\* A handler that applies members resumes as idle.
LEMMA AppliesNoTier ==
  ASSUME NEW S
  PROVE  After([NoCall EXCEPT !.todo = S, !.then = "idle"]).ph # "tier"
  BY DEF After, NoCall

\* Requests leave limits in place or put one in.
LEMMA LimitsRequested ==
  ASSUME Base, LimitsOK, NEW h \in Handlers, Requested(h)
  PROVE  LimitsOK'
<1>0. /\ policies \in Seq(PolicyRows) /\ TierRows(tier) /\ TierCalls(call)
      /\ (policies' \in Seq(PolicyRows) /\ TierRows(tier') /\ TierCalls(call') => LimitsOK')
      /\ h \in Callers
  BY DEF LimitsOK, TierRows, TierCalls, Callers
<1>1. ASSUME UNCHANGED <<policies, tier>>, UNCHANGED call PROVE LimitsOK'
  BY <1>0, <1>1
<1>2. ASSUME UNCHANGED <<policies, tier>>, NEW r, call' = [call EXCEPT ![h] = r],
             r.ph # "tier" \/ r.lim \in TierLimits PROVE LimitsOK'
  <2>1. TierCalls(call')
    BY <1>0, <1>2, TierCallSet
  <2> QED
    BY <1>0, <1>2, <2>1
<1>3. ASSUME UNCHANGED <<policies, tier>>, NEW S, Apply(h, S, NoCall, "idle") PROVE LimitsOK'
  BY <1>2, <1>3, AppliesNoTier DEF Apply
<1>4. CASE \E m \in Members, d \in Deltas : AdjustQuota(h, m, d)
  BY <1>3, <1>4 DEF AdjustQuota, config
<1>5. CASE \E m \in Members, k \in Kinds : SetTempPermission(h, m, k)
  BY <1>1, <1>5 DEF SetTempPermission, config
<1>6. CASE \E g \in DOMAIN grants : RevokeGrant(h, g)
  <2>1. PICK g \in DOMAIN grants : RevokeGrant(h, g)
    BY <1>6
  <2> DEFINE r == [NoCall EXCEPT !.ph = "revoke", !.num = g, !.cur = Snapshot(grants[g].m)]
  <2>2. r.ph # "tier"
    BY DEF NoCall
  <2>3. UNCHANGED <<policies, tier>> /\ call' = [call EXCEPT ![h] = r]
    BY <2>1 DEF RevokeGrant, config
  <2> HIDE DEF r
  <2> QED
    BY <1>2, <2>2, <2>3
<1>7. CASE \E a \in Approvals, r \in Rules \cup {DefaultRules} : SubmitApproval(h, a, r)
  <2>1. PICK a \in Approvals, r \in Rules \cup {DefaultRules} : SubmitApproval(h, a, r)
    BY <1>7
  <2> DEFINE q == [NoCall EXCEPT !.ph = "dispatch", !.key = a]
  <2>2. q.ph # "tier"
    BY DEF NoCall
  <2>3. UNCHANGED <<policies, tier>> /\ (call' = [call EXCEPT ![h] = q] \/ call' = call)
    BY <2>1 DEF SubmitApproval, Dispatching, config
  <2> HIDE DEF q
  <2> QED
    BY <1>1, <1>2, <2>2, <2>3
<1>8. CASE \E a \in Approvals, r \in {"org_admin", "team_leader"}, yes \in BOOLEAN :
             DecideApproval(h, a, r, yes)
  <2>1. PICK a \in Approvals, r \in {"org_admin", "team_leader"}, yes \in BOOLEAN :
               DecideApproval(h, a, r, yes)
    BY <1>8
  <2> DEFINE q == [NoCall EXCEPT !.ph = "decide", !.key = a, !.seen = appr[a].state, !.ok = yes]
  <2>2. q.ph # "tier"
    BY DEF NoCall
  <2>3. UNCHANGED <<policies, tier>> /\ call' = [call EXCEPT ![h] = q]
    BY <2>1 DEF DecideApproval, config
  <2> HIDE DEF q
  <2> QED
    BY <1>2, <2>2, <2>3
<1>9. CASE \E r \in Rules : SetApprovalRules(h, r)
  BY <1>1, <1>9 DEF SetApprovalRules
<1>10. CASE \E m \in Members, x \in Teams \cup {None}, t \in Tiers \cup {None} :
              UpdateMember(h, m, x, t)
  BY <1>3, <1>10 DEF UpdateMember, config
<1>11. ASSUME NEW t \in Tiers, NEW p \in Periods, NEW lim \in Limits, CreateTier(h, t, p, lim)
       PROVE  LimitsOK'
  <2>1. tier' = [tier EXCEPT ![t].made = TRUE, ![t].alive = TRUE, ![t].limit[p] = lim]
        /\ UNCHANGED <<policies, call>> /\ lim \in Int
    BY <1>11, QuotaAssumption DEF CreateTier
  <2>2. TierRows(tier')
    BY <1>0, <2>1 DEF TierRows, TierFields, TierLimits
  <2> QED
    BY <1>0, <2>1, <2>2
<1>12. ASSUME NEW t \in Tiers, NEW p \in Periods, NEW lim \in Limits, UpdateTier(h, t, p, lim)
       PROVE  LimitsOK'
  <2> DEFINE l == [tier[t].limit EXCEPT ![p] = lim]
             q == [NoCall EXCEPT !.ph = "tier", !.key = t, !.lim = l]
  <2>1. UNCHANGED <<policies, tier>> /\ call' = [call EXCEPT ![h] = q] /\ lim \in Int
    BY <1>12, QuotaAssumption DEF UpdateTier, config
  <2>2. q.lim = l /\ l \in TierLimits
    BY <1>0, <2>1 DEF NoCall, TierRows, TierLimits
  <2> HIDE DEF l, q
  <2> QED
    BY <1>2, <2>1, <2>2
<1>13. ASSUME NEW t \in Tiers, DeleteTier(h, t) PROVE LimitsOK'
  <2> DEFINE q == [NoCall EXCEPT !.ph = "deltier", !.key = t]
  <2>1. UNCHANGED <<policies, tier>> /\ call' = [call EXCEPT ![h] = q]
    BY <1>13 DEF DeleteTier, config
  <2>2. q.ph # "tier"
    BY DEF NoCall
  <2> HIDE DEF q
  <2> QED
    BY <1>2, <2>1, <2>2
<1>14. ASSUME NEW t \in Tiers, SetDefaultTier(h, t) PROVE LimitsOK'
  <2>1. tier' = [u \in Tiers |-> [tier[u] EXCEPT !.dflt = (u = t)]] /\ UNCHANGED <<policies, call>>
    BY <1>14 DEF SetDefaultTier
  <2>2. TierRows(tier')
    BY <1>0, <2>1 DEF TierRows, TierFields
  <2> QED
    BY <1>0, <2>1, <2>2
<1>15. ASSUME NEW t \in Tiers, UpdateOrgSettings(h, t) PROVE LimitsOK'
  BY <1>1, <1>15 DEF UpdateOrgSettings
<1>16. ASSUME NEW s \in Scopes, NEW p \in Periods, NEW lim \in Limits, SetQuotaPolicy(h, s, p, lim)
       PROVE  LimitsOK'
  <2> DEFINE at == {i \in DOMAIN policies : policies[i].scope = s /\ policies[i].period = p}
             e == [scope |-> s, period |-> p, limit |-> lim, due |-> TRUE]
  <2>1. UNCHANGED <<tier, call>> /\ lim \in Int
    BY <1>16, QuotaAssumption DEF SetQuotaPolicy
  <2>2. \/ at # {} /\ policies' = [policies EXCEPT ![First(at)].limit = lim]
        \/ policies' = Append(policies, e)
    BY <1>16 DEF SetQuotaPolicy, UpsertQuotaPolicy
  <2>3. e \in PolicyRows
    BY <2>1 DEF PolicyRows
  <2>4. at # {} => First(at) \in DOMAIN policies
    <3>1. DOMAIN policies \subseteq Nat /\ at \subseteq DOMAIN policies
      BY <1>0
    <3> HIDE DEF at
    <3> QED
      BY <3>1, FirstIn
  <2> HIDE DEF at, e
  <2>5. policies' \in Seq(PolicyRows)
    <3>1. CASE policies' = Append(policies, e)
      BY <1>0, <2>3, <3>1
    <3>2. CASE at # {} /\ policies' = [policies EXCEPT ![First(at)].limit = lim]
      <4>1. policies[First(at)] \in PolicyRows
        BY <1>0, <2>4, <3>2
      <4>2. [policies[First(at)] EXCEPT !.limit = lim] \in PolicyRows
        BY <2>1, <4>1 DEF PolicyRows
      <4>3. policies' = [policies EXCEPT ![First(at)] = [policies[First(at)] EXCEPT !.limit = lim]]
        BY <3>2
      <4> QED
        BY <1>0, <2>4, <3>2, <4>2, <4>3
    <3> QED
      BY <2>2, <3>1, <3>2
  <2> QED
    BY <1>0, <2>1, <2>5
<1>17. ASSUME NEW s, recomputeOrgStatus(h, s) PROVE LimitsOK'
  <2> DEFINE q == [NoCall EXCEPT !.ph = "flip", !.key = s, !.seen = status]
  <2>1. UNCHANGED <<policies, tier>> /\ call' = [call EXCEPT ![h] = q]
    BY <1>17 DEF recomputeOrgStatus, config
  <2>2. q.ph # "tier"
    BY DEF NoCall
  <2> HIDE DEF q
  <2> QED
    BY <1>2, <2>1, <2>2
<1>18. CASE (\E stop \in BOOLEAN : HardStopOrg(h, stop)) \/ SetBillingSettings(h)
  BY <1>1, <1>18 DEF HardStopOrg, SetBillingSettings
<1>19. CASE \E m \in Members : RotateKey(h, m) \/ SetKeyIPWhitelist(h, m)
  BY <1>1, <1>19 DEF RotateKey, SetKeyIPWhitelist, config
<1> QED
  BY <1>4, <1>5, <1>6, <1>7, <1>8, <1>9, <1>10, <1>11, <1>12, <1>13, <1>14, <1>15, <1>16, <1>17,
     <1>18, <1>19 DEF Requested

\* Handlers that go on: a tier row is written with the limits read, or one
\* changed.
LEMMA LimitsContinued ==
  ASSUME Base, LimitsOK, NEW h \in Handlers, Continued(h)
  PROVE  LimitsOK'
<1>0. /\ policies \in Seq(PolicyRows) /\ TierRows(tier) /\ TierCalls(call)
      /\ (policies' \in Seq(PolicyRows) /\ TierRows(tier') /\ TierCalls(call') => LimitsOK')
      /\ h \in Callers
  BY DEF LimitsOK, TierRows, TierCalls, Callers
<1>1. ASSUME NEW r, call' = [call EXCEPT ![h] = r], r.ph # "tier" PROVE TierCalls(call')
  BY <1>0, <1>1, TierCallSet
<1>2. ASSUME NEW S, Apply(h, S, NoCall, "idle") PROVE TierCalls(call')
  <2> DEFINE q == After([NoCall EXCEPT !.todo = S, !.then = "idle"])
  <2>1. q.ph # "tier" /\ call' = [call EXCEPT ![h] = q]
    BY <1>2, AppliesNoTier DEF Apply
  <2> HIDE DEF q
  <2> QED
    BY <1>1, <2>1
<1>3. ASSUME call' = [call EXCEPT ![h] = NoCall] PROVE TierCalls(call')
  <2>1. NoCall.ph # "tier"
    BY DEF NoCall
  <2> QED
    BY <1>1, <1>3, <2>1
<1>4. ASSUME NEW a, Dispatching(h, a) PROVE TierCalls(call')
  <2> DEFINE q == [NoCall EXCEPT !.ph = "dispatch", !.key = a]
  <2>1. q.ph # "tier" /\ call' = [call EXCEPT ![h] = q]
    BY <1>4 DEF NoCall, Dispatching
  <2> HIDE DEF q
  <2> QED
    BY <1>1, <2>1
<1>5. CASE RevokeMark(h)
  BY <1>0, <1>2, <1>5 DEF RevokeMark, config
<1>6. CASE AdvanceApproval(h)
  <2>1. UNCHANGED <<policies, tier>>
    BY <1>6 DEF AdvanceApproval, config
  <2>2. Dispatching(h, call[h].key) \/ call' = [call EXCEPT ![h] = NoCall]
    BY <1>6 DEF AdvanceApproval
  <2> QED
    BY <1>0, <1>3, <1>4, <2>1, <2>2
<1>7. CASE dispatchApproval(h)
  <2>1. UNCHANGED <<policies, tier>>
    BY <1>7 DEF dispatchApproval, config
  <2>2. TierCalls(call')
    BY <1>2, <1>3, <1>7 DEF dispatchApproval
  <2> QED
    BY <1>0, <2>1, <2>2
<1>8. CASE WriteTier(h)
  <2>1. TierCalls(call') /\ policies' = policies
    BY <1>2, <1>3, <1>8 DEF WriteTier
  <2>2. tier' = tier \/ tier' = [tier EXCEPT ![call[h].key].limit = call[h].lim]
    BY <1>8 DEF WriteTier
  <2>3. call[h].lim \in TierLimits
    BY <1>0, <1>8 DEF WriteTier, TierCalls
  <2>4. TierRows(tier')
    BY <1>0, <2>2, <2>3 DEF TierRows, TierFields
  <2> QED
    BY <1>0, <2>1, <2>4
<1>9. CASE SoftDeleteTier(h)
  <2>1. TierCalls(call') /\ policies' = policies /\ tier' = [tier EXCEPT ![call[h].key].alive = FALSE]
    BY <1>3, <1>9 DEF SoftDeleteTier
  <2>2. TierRows(tier')
    BY <1>0, <2>1 DEF TierRows, TierFields
  <2> QED
    BY <1>0, <2>1, <2>2
<1>10. CASE FlipStatus(h)
  <2>1. UNCHANGED <<policies, tier>>
    BY <1>10 DEF FlipStatus
  <2>2. TierCalls(call')
    BY <1>2, <1>3, <1>10 DEF FlipStatus
  <2> QED
    BY <1>0, <2>1, <2>2
<1> QED
  BY <1>5, <1>6, <1>7, <1>8, <1>9, <1>10 DEF Continued

\* Flags of policies change, their limits do not.
LEMMA FlagsTyped ==
  ASSUME policies \in Seq(PolicyRows), NEW i, NEW b \in BOOLEAN
  PROVE  [policies EXCEPT ![i].due = b] \in Seq(PolicyRows)
<1>1. \A j \in DOMAIN policies : policies[j] \in PolicyRows /\ [policies[j] EXCEPT !.due = b] \in PolicyRows
  <2>1. \A e \in PolicyRows : [e EXCEPT !.due = b] \in PolicyRows
    BY DEF PolicyRows
  <2> QED
    BY <2>1
<1>2. CASE i \notin DOMAIN policies
  <2>1. [policies EXCEPT ![i].due = b] = policies
    BY <1>2
  <2> QED
    BY <2>1
<1>3. CASE i \in DOMAIN policies
  <2> DEFINE e == [policies[i] EXCEPT !.due = b]
  <2>1. [policies EXCEPT ![i].due = b] = [policies EXCEPT ![i] = e] /\ e \in PolicyRows
    BY <1>1, <1>3
  <2> HIDE DEF e
  <2> QED
    BY <1>3, <2>1
<1> QED
  BY <1>2, <1>3

\* The worker, the steps under the lock, time and crashes leave limits alone.
LEMMA LimitsRest ==
  ASSUME Base, LimitsOK,
         \/ \E c \in Callers : Applying(c)
         \/ WorkerStep
         \/ \E g \in DOMAIN grants : ExpireAt(g)
         \/ \E p \in Periods : PeriodTurns(p)
         \/ Crash
  PROVE  LimitsOK'
<1>0. /\ policies \in Seq(PolicyRows) /\ TierRows(tier) /\ TierCalls(call)
      /\ (policies' \in Seq(PolicyRows) /\ TierRows(tier') /\ TierCalls(call') => LimitsOK')
      /\ Worker \in Callers
  BY DEF LimitsOK, TierRows, TierCalls, Callers
<1>1. ASSUME NEW r, call' = [call EXCEPT ![Worker] = r] PROVE TierCalls(call')
  BY <1>0, <1>1, TierCallSet
<1>2. ASSUME NEW c \in Callers, Applying(c) PROVE LimitsOK'
  <2>1. UNCHANGED <<policies, tier>>
    BY <1>2 DEF Applying, Compute, Gate, Put, config
  <2>2. /\ \A d \in Callers : d # c => call'[d] = call[d]
        /\ call'[c].ph # "tier" \/ c = Worker
    <3>1. call[c].ph \in {"apply", "gate", "put"} /\ CallOK(c, call[c], grants, lock) /\ Base'
          /\ \A d \in Callers : d # c => call'[d] = call[d]
      BY <1>2, CallerIs, ComputeStep, GateStep, PutStep DEF Applying, Compute
    <3>2. call'[c].todo # {} \/ call'[c].ph # "tier" \/ c = Worker
      <4>1. DOMAIN call = Callers /\ DOMAIN call[c] = CallFields
            /\ (c # Worker => call[c].then = "idle")
        BY CallerIs
      <4>2. ASSUME NEW r, DOMAIN r = CallFields, r.then = call[c].then,
                   call' = [call EXCEPT ![c] = After(r)]
            PROVE  call'[c].ph # "tier" \/ c = Worker
        BY <4>1, <4>2, AfterIs
      <4>3. CASE Compute(c)
        <5>1. PICK s \in call[c].todo :
                LET rest == [call[c] EXCEPT !.todo = @ \ {s}] IN
                \/ call' = [call EXCEPT ![c] = After(rest)]
                \/ call' = [call EXCEPT ![c] = [rest EXCEPT !.ph = "gate", !.cur = s,
                                                  !.val = computeOverride(s),
                                                  !.cnt = ListActiveQuotaGrants(s.m)]]
          BY <4>3 DEF Compute
        <5> DEFINE rest == [call[c] EXCEPT !.todo = @ \ {s}]
        <5>2. DOMAIN rest = CallFields /\ rest.then = call[c].then
          BY <4>1 DEF CallFields
        <5>3. CASE call' = [call EXCEPT ![c] = After(rest)]
          <6> HIDE DEF rest
          <6> QED
            BY <4>2, <5>2, <5>3
        <5>4. CASE call' = [call EXCEPT ![c] = [rest EXCEPT !.ph = "gate", !.cur = s,
                                                  !.val = computeOverride(s),
                                                  !.cnt = ListActiveQuotaGrants(s.m)]]
          <6> HIDE DEF rest
          <6> QED
            BY <4>1, <5>2, <5>4 DEF CallFields
        <5> QED
          BY <5>1, <5>3, <5>4
      <4>4. CASE Gate(c) \/ Put(c)
        BY <4>1, <4>2, <4>4 DEF Gate, Put, CallFields
      <4> QED
        BY <1>2, <4>3, <4>4 DEF Applying
    <3>3. call'[c].ph = "tier" => call'[c].todo = {}
      BY <3>1 DEF Base, CallsOK, CallOK
    <3> QED
      BY <3>1, <3>2, <3>3
  <2>3. TierCalls(call')
    BY <1>0, <2>2, QuotaAssumption DEF TierCalls, Callers
  <2> QED
    BY <1>0, <2>1, <2>3
<1>3. CASE WorkerStep
  <2>1. CASE MarkPolicyReset
    <3>1. tier' = tier /\ TierCalls(call')
      <4>1. call' = [call EXCEPT ![Worker] = [@ EXCEPT !.ph = "reset", !.num = 0]]
        BY <2>1 DEF MarkPolicyReset
      <4> QED
        BY <1>1, <2>1, <4>1 DEF MarkPolicyReset
    <3>2. policies' \in Seq(PolicyRows)
      BY <1>0, <2>1, FlagsTyped DEF MarkPolicyReset
    <3> QED
      BY <1>0, <3>1, <3>2
  <2>2. CASE \E g \in DOMAIN grants : ReverseExpiredGrant(g)
    BY <1>0, <1>1, <2>2 DEF ReverseExpiredGrant, Apply, config
  <2>3. CASE \E i \in DOMAIN policies : ResetPolicy(i)
    BY <1>0, <1>1, <2>3 DEF ResetPolicy, Apply, config
  <2>4. CASE DeleteToken
    <3>1. \E r : call' = [call EXCEPT ![Worker] = r]
      BY <2>4 DEF DeleteToken
    <3> QED
      BY <1>0, <1>1, <2>4, <3>1 DEF DeleteToken, config
  <2>5. CASE Tick \/ ExpireMember \/ ResetDuePolicies \/ EndTick
    BY <1>0, <1>1, <2>5 DEF Tick, ExpireMember, ResetDuePolicies, EndTick, config
  <2> QED
    BY <1>3, <2>1, <2>2, <2>3, <2>4, <2>5 DEF WorkerStep
<1>4. CASE \E g \in DOMAIN grants : ExpireAt(g)
  BY <1>0, <1>4 DEF ExpireAt, config
<1>5. ASSUME NEW p \in Periods, PeriodTurns(p) PROVE LimitsOK'
  <2>1. /\ tier' = tier /\ call' = [call EXCEPT ![Worker] = [@ EXCEPT !.per = call[Worker].per \ {p}]]
        /\ policies' = [i \in DOMAIN policies |->
                          [policies[i] EXCEPT !.due = @ \/ policies[i].period = p]]
    BY <1>5 DEF PeriodTurns
  <2>2. policies' \in Seq(PolicyRows)
    <3>1. \A i \in DOMAIN policies : policies[i] \in PolicyRows
      BY <1>0
    <3>2. \A e \in PolicyRows : [e EXCEPT !.due = @ \/ e.period = p] \in PolicyRows
      BY DEF PolicyRows
    <3>3. \A i \in DOMAIN policies : policies'[i] \in PolicyRows
      BY <2>1, <3>1, <3>2
    <3> QED
      BY <1>0, <2>1, <3>3
  <2>3. TierCalls(call')
    BY <1>1, <2>1
  <2> QED
    BY <1>0, <2>1, <2>2, <2>3
<1>6. CASE Crash
  BY <1>0, <1>6 DEF Crash, config, TierCalls, NoCall, Callers
<1> QED
  BY <1>2, <1>3, <1>4, <1>5, <1>6

\* Outside applyMemberOverride caps stay, or tokens are unlimited or deleted.
LEMMA CapsElsewhere ==
  ASSUME Base, Next, ~ \E c \in Callers : Applying(c), NEW m \in Members
  PROVE  up'[m].cap \in {up[m].cap, 0, Unlimited}
<1>0. DOMAIN up = Members /\ DOMAIN up[m] = {"tok", "cap"}
  BY DEF Base, RowsOK
<1>1. ASSUME NEW h \in Handlers, Requested(h) PROVE up'[m].cap \in {up[m].cap, 0, Unlimited}
  <2>1. ASSUME NEW x \in Members, RotateKey(h, x) PROVE up'[m].cap \in {up[m].cap, 0, Unlimited}
    BY <1>0, <2>1 DEF RotateKey
  <2>2. ASSUME NEW x \in Members, SetKeyIPWhitelist(h, x)
        PROVE  up'[m].cap \in {up[m].cap, 0, Unlimited}
    BY <1>0, <2>2 DEF SetKeyIPWhitelist
  <2>3. CASE ~ \E x \in Members : RotateKey(h, x) \/ SetKeyIPWhitelist(h, x)
    <3>1. up' = up
      BY <1>1, <2>3 DEF Requested, AdjustQuota, SetTempPermission, RevokeGrant, SubmitApproval,
         DecideApproval, SetApprovalRules, UpdateMember, CreateTier, UpdateTier, DeleteTier,
         SetDefaultTier, UpdateOrgSettings, SetQuotaPolicy, recomputeOrgStatus, HardStopOrg,
         SetBillingSettings
    <3> QED
      BY <3>1
  <2> QED
    BY <2>1, <2>2, <2>3
<1>2. ASSUME NEW h \in Handlers, Continued(h) PROVE up' = up
  BY <1>2 DEF Continued, RevokeMark, AdvanceApproval, dispatchApproval, WriteTier, SoftDeleteTier,
     FlipStatus
<1>3. CASE DeleteToken
  BY <1>0, <1>3 DEF DeleteToken
<1>4. ASSUME WorkerStep, ~DeleteToken PROVE up' = up
  BY <1>4 DEF WorkerStep, Tick, ExpireMember, ResetDuePolicies, MarkPolicyReset, EndTick,
     ReverseExpiredGrant, ResetPolicy
<1>5. ASSUME \/ \E g \in DOMAIN grants : ExpireAt(g)
             \/ \E p \in Periods : PeriodTurns(p)
             \/ Crash
      PROVE  up' = up
  BY <1>5 DEF ExpireAt, PeriodTurns, Crash
<1> QED
  BY <1>1, <1>2, <1>3, <1>4, <1>5 DEF Next

\* The steps under the lock write what they computed.
LEMMA CapsApplied ==
  ASSUME Base, LimitsOK, CapsOK, NEW c \in Callers, Applying(c)
  PROVE  CapsOK'
<1>0. DOMAIN call = Callers /\ DOMAIN call[c] = CallFields
  BY CallerIs
<1>1. CASE Compute(c)
  <2>1. /\ up' = up /\ \A d \in Callers : d # c => call'[d] = call[d]
    BY <1>1, ComputeStep
  <2>2. PICK s \in call[c].todo :
          LET rest == [call[c] EXCEPT !.todo = @ \ {s}] IN
          \/ call' = [call EXCEPT ![c] = After(rest)]
          \/ /\ resolveBaseQuota(s) # Unset
             /\ call' = [call EXCEPT ![c] = [rest EXCEPT !.ph = "gate", !.cur = s,
                                               !.val = computeOverride(s),
                                               !.cnt = ListActiveQuotaGrants(s.m)]]
    BY <1>1 DEF Compute
  <2> DEFINE rest == [call[c] EXCEPT !.todo = @ \ {s}]
             g == [rest EXCEPT !.ph = "gate", !.cur = s, !.val = computeOverride(s),
                               !.cnt = ListActiveQuotaGrants(s.m)]
  <2>3. s \in MemberSnaps /\ DOMAIN rest = CallFields /\ rest.then = call[c].then
    BY <1>0, CallerIs DEF CallOK, CallFields
  <2>4. CASE call' = [call EXCEPT ![c] = After(rest)]
    <3>1. call[c].then \in {"idle", "expire", "mark"}
      BY CallerIs
    <3> HIDE DEF rest
    <3>2. After(rest).ph \notin {"gate", "put"}
      BY <2>3, <3>1, AfterIs
    <3> QED
      BY <1>0, <2>1, <2>4, <3>2 DEF CapsOK
  <2>5. CASE resolveBaseQuota(s) # Unset /\ call' = [call EXCEPT ![c] = g]
    <3>1. computeOverride(s) \in Nat
      BY <2>3, <2>5, OverrideTyped
    <3>2. g.val = computeOverride(s)
      BY <2>3 DEF CallFields
    <3> HIDE DEF g
    <3> QED
      BY <1>0, <2>1, <2>5, <3>1, <3>2 DEF CapsOK
  <2> QED
    BY <2>2, <2>4, <2>5
<1>2. CASE Gate(c)
  <2>1. /\ up' = up /\ call[c].ph = "gate" /\ \A d \in Callers : d # c => call'[d] = call[d]
    BY <1>2, GateStep
  <2>2. call'[c].ph \in {"gate", "put"} => call'[c].val = gateByOrgStatus(call[c].val)
    <3>1. CASE call' = [call EXCEPT ![c] = After(@)]
      <4>1. call[c].then \in {"idle", "expire", "mark"}
        BY CallerIs
      <4> QED
        BY <1>0, <3>1, <4>1, AfterIs
    <3>2. CASE call' = [call EXCEPT ![c].ph = "put", ![c].val = gateByOrgStatus(@)]
      BY <1>0, <3>2 DEF CallFields
    <3> QED
      BY <1>2, <3>1, <3>2 DEF Gate
  <2>3. gateByOrgStatus(call[c].val) \in Nat
    BY <2>1 DEF gateByOrgStatus, CapsOK
  <2> QED
    BY <2>1, <2>2, <2>3 DEF CapsOK
<1>3. CASE Put(c)
  <2>1. /\ call[c].ph = "put" /\ call'[c].ph \notin {"gate", "put"}
        /\ \A d \in Callers : d # c => call'[d] = call[d]
        /\ \A m \in Members : m # call[c].cur.m => up'[m] = up[m]
        /\ up'[call[c].cur.m].cap = call[c].val \/ up' = up
    BY <1>3, PutStep
  <2> QED
    BY <2>1 DEF CapsOK
<1> QED
  BY <1>1, <1>2, <1>3 DEF Applying

\* Limits and caps stay numbers.
LEMMA FiguresStep == CoreInv /\ LimitsOK /\ CapsOK /\ [Next]_vars => LimitsOK' /\ CapsOK'
<1> SUFFICES ASSUME CoreInv, LimitsOK, CapsOK, [Next]_vars PROVE LimitsOK' /\ CapsOK'
  OBVIOUS
<1>1. CASE Next
  <2>1. Base /\ (Outer \/ (\E c \in Callers : Applying(c)) \/ Crash)
    BY <1>1, EveryStep DEF CoreInv
  <2>2. LimitsOK'
    BY <1>1, <2>1, LimitsRequested, LimitsContinued, LimitsRest DEF Next
  <2>3. CASE \E c \in Callers : Applying(c)
    BY <2>1, <2>2, <2>3, CapsApplied
  <2>4. CASE ~ \E c \in Callers : Applying(c)
    <3>1. \A m \in Members : up'[m].cap \in {up[m].cap, 0, Unlimited}
      BY <1>1, <2>1, <2>4, CapsElsewhere
    <3>2. \A c \in Callers : call'[c].ph \in {"gate", "put"} => call'[c].val \in Nat
      <4>1. CASE Outer
        BY <4>1 DEF Outer, Keeps, CapsOK
      <4>2. CASE Crash
        BY <4>2 DEF Crash, NoCall
      <4> QED
        BY <2>1, <2>4, <4>1, <4>2
    <3> QED
      BY <2>2, <3>1, <3>2 DEF CapsOK
  <2> QED
    BY <2>3, <2>4
<1>2. CASE UNCHANGED vars
  <2>1. UNCHANGED <<policies, tier, call, up>>
    BY <1>2 DEF vars, config
  <2> QED
    BY <2>1 DEF LimitsOK, CapsOK
<1> QED
  BY <1>1, <1>2

\* The initial state.
LEMMA InitFigures == Init => LimitsOK /\ CapsOK
<1> SUFFICES ASSUME Init PROVE LimitsOK /\ CapsOK
  OBVIOUS
<1> DEFINE e == [scope |-> Org, period |-> "monthly", limit |-> 0, due |-> TRUE]
<1>1. e \in PolicyRows
  BY DEF PolicyRows, Scopes, Periods
<1>2. policies = <<e>>
  BY DEF Init
<1> HIDE DEF e
<1>3. policies \in Seq(PolicyRows)
  BY <1>1, <1>2
<1>4. DOMAIN tier = Tiers
      /\ \A t \in Tiers : DOMAIN tier[t] = TierFields /\ tier[t].limit \in TierLimits
  BY QuotaAssumption DEF Init, TierFields
<1>5. \A c \in Callers : call[c].ph = "idle"
  BY DEF Init, NoCall
<1>6. \A m \in Members : up[m].cap = Unlimited
  BY DEF Init
<1> QED
  BY <1>3, <1>4, <1>5, <1>6 DEF LimitsOK, CapsOK, Callers

\* Rows, calls and the lock keep their types: a cap is a number whatever
\* limits are missing and however negative the deltas of the grants sum up,
\* and whoever is between reading and writing holds the organisation's lock.
THEOREM QuotaTyped == Spec => []TypeOK
<1>1. Init => CoreInv /\ LimitsOK /\ CapsOK
  BY InitCore, InitFigures
<1>2. CoreInv /\ LimitsOK /\ CapsOK /\ [Next]_vars => (CoreInv /\ LimitsOK /\ CapsOK)'
  BY CoreStep, FiguresStep
<1>3. CoreInv /\ CapsOK => TypeOK
  <2> SUFFICES ASSUME CoreInv, CapsOK PROVE TypeOK
    OBVIOUS
  <2>1. Base
    BY DEF CoreInv
  <2>2. \A m \in Members : row[m].tok \in 0..MaxTokens /\ up[m].tok \in 0..MaxTokens
                           /\ up[m].cap \in Nat \cup {Unlimited}
    BY <2>1 DEF Base, RowsOK, Rows, CapsOK
  <2>3. \A g \in DOMAIN grants :
          grants[g].m \in Members /\ grants[g].st \in {"active", "expired", "revoked"}
    BY <2>1, GrantIs
  <2>4. \A a \in Approvals : appr[a].state \in ApprovalStates
    BY <2>1 DEF Base, ApprRowsOK
  <2>5. \A c \in Callers : /\ call[c].ph \in {"gate", "put"} <=> lock = c
                           /\ call[c].todo \cup {call[c].cur} \subseteq Snaps
    BY <2>1 DEF Base, CallsOK, CallOK, MemberSnaps
  <2> QED
    BY <2>1, <2>2, <2>3, <2>4, <2>5 DEF TypeOK, Base, RowsOK
<1> QED
  BY <1>1, <1>2, <1>3, PTL DEF Spec
=============================================================================
