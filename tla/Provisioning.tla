----------------------------- MODULE Provisioning -----------------------------
(***************************************************************************)
(* The organisation's user at the gateway: how it is made or associated,   *)
(* and how the stored access token is kept valid (service/member.go,       *)
(* org.go, repo/org.go, adapter/newapi/bootstrap.go, associate.go,         *)
(* subscription.go, user_group.go).                                        *)
(*                                                                         *)
(* Door A: the platform makes the user when the organisation first needs   *)
(* it (EnsureOrgProvisioned).  Door B: CreateOrg binds a user the customer *)
(* already has.  Fetching an access token invalidates the previous one, so *)
(* a token is the number of the fetch that returned it.  First provisioning*)
(* and refresh hold a lock of the process; other replicas have their own.  *)
(*                                                                         *)
(* Users and organisations are numbered in the order of creation, 0 = none.*)
(* Users 1..Foreign exist from the start and are not the platform's.       *)
(***************************************************************************)
EXTENDS Integers, FiniteSets

CONSTANTS
  MaxOrgs, MaxUsers,    \* bounds: organisation rows, users at the gateway
  Foreign,              \* users that the platform did not make
  Handlers, NodeOf,     \* request handlers, and the process each runs in
  Does,                 \* Does[h]: the operations that h performs
  maxUsernameAttempts,  \* 5 in the code
  MaxTurns,             \* bound: calls other than management calls and ticks,
                        \* and events outside the platform
  MaxFaults             \* bound: failed requests and statements

Orgs == 1..MaxOrgs
Users == 1..MaxUsers
AllOps == {"create", "associate", "ensure", "use", "reassert", "stop"}
CallOps == {"none"} \cup AllOps
\* Steps at which the call holds provision:org:<id>.
Held == {"name", "make", "locate", "login", "store", "group", "zero", "first", "probe",
         "relogin", "update"}
Steps == {"idle", "insert", "admin", "bind", "archive", "lock", "wallet", "try", "fresh",
          "switch", "status"} \cup Held

ASSUME ProvisioningAssumption ==
  /\ MaxOrgs \in Nat /\ MaxUsers \in Nat /\ Foreign \in 0..MaxUsers
  /\ IsFiniteSet(Handlers) /\ maxUsernameAttempts \in Nat \ {0}
  /\ \A h \in Handlers : Does[h] \subseteq AllOps
  /\ MaxTurns \in Nat /\ MaxFaults \in Nat

VARIABLES
  org,    \* organization rows: the door, newapi_user_id, access token,
          \* whether a password is stored, billing_kind, hard_stopped, archived
  user,   \* users at the gateway: made (exists), token fetches, enabled,
          \* wallet_only, group, quota; the organisation and the process it
          \* was made for and by (history)
  call,   \* call in progress of every handler
  turns, faults

vars == <<org, user, call, turns, faults>>

NoOrg == [made |-> FALSE, platform |-> FALSE, uid |-> 0, tok |-> 0, pw |-> FALSE,
          wallet |-> FALSE, stopped |-> FALSE, archived |-> FALSE]
NoUser == [made |-> FALSE, tok |-> 0, on |-> TRUE, walletOnly |-> FALSE,
           grouped |-> FALSE, quota |-> "gift", for |-> 0, by |-> {}]

\* A call: operation and next step; organisation; user and token obtained;
\* the foreign user whose name was generated (0 = a name nobody has);
\* attempts at a name; the status a hard stop sets; billing kind found.
NoCall == [op |-> "none", at |-> "idle", o |-> 0, u |-> 0, tok |-> 0, name |-> 0,
           tries |-> 0, stop |-> FALSE, wallet |-> FALSE]

Init ==
  /\ org = [o \in Orgs |-> NoOrg]
  /\ user = [u \in Users |-> [NoUser EXCEPT !.made = u <= Foreign]]
  /\ call = [h \in Handlers |-> NoCall]
  /\ turns = 0 /\ faults = 0

-----------------------------------------------------------------------------
Idle(h, op) == call[h] = NoCall /\ op \in Does[h]
At(h, at) == call[h].at = at
Goto(h, at) == call' = [call EXCEPT ![h].at = at]
End(h) == call' = [call EXCEPT ![h] = NoCall]
Turn == turns < MaxTurns /\ turns' = turns + 1
Fault == faults < MaxFaults /\ faults' = faults + 1
NoFault == faults' = faults

\* The ids that the next INSERT and the next registration assign.
NextOrg == {o \in Orgs : ~org[o].made /\ \A p \in 1..(o - 1) : org[p].made}
NextUser == {u \in Users : ~user[u].made /\ \A v \in 1..(u - 1) : user[v].made}

\* quotaLocker, key provision:org:<id>: free in the process of h.
Free(h, o) == \A g \in Handlers :
  NodeOf[g] = NodeOf[h] => ~(call[g].o = o /\ call[g].at \in Held)

\* The gateway accepts the credential u, tok.
Accepts(u, tok) == user[u].on /\ user[u].tok = tok

\* Mutant: a 401 is taken for any other refusal.
AuthExpired_Ignored(u, tok) == FALSE

\* 401: the token is an old one (403 when the user is disabled).
AuthExpired(u, tok) == user[u].on /\ user[u].tok # tok

\* The pool user of an organisation is there.
GetOrgNewapiCred(o) == org[o].uid # 0

\* The stored credential, as a call of an operation reads it.
orgCred(o) == [NoCall EXCEPT !.o = o, !.u = org[o].uid, !.tok = org[o].tok]

\* Only door A has a password to log in with.
GetOrgNewapiPassword(o) == org[o].pw

\* Calls at the gateway.  Whose token it is; that the preference can be read and
\* is another one than wallet_only; the users with that name; and the writes.
GetSelfInfo(u, tok) == Accepts(u, tok)
GetSelfSubscription(u, tok) == Accepts(u, tok) /\ ~user[u].walletOnly
getUserByUsername(n) == {u \in 1..Foreign : u = n}

SetBillingPreference(u) == [user EXCEPT ![u].walletOnly = TRUE]
ManageUserQuota(u, quota) == [user EXCEPT ![u].quota = quota]
compensateDisable(u) == [user EXCEPT ![u].on = FALSE]

\* GetOrgIDByNewapiUserID, and the key uk_org_newapi_user.
Taken(u) == \E o \in Orgs : org[o].uid = u

-----------------------------------------------------------------------------
(* CreateOrg.                                                              *)

\* Door A: nothing is made at the gateway yet.
CreateOrg(h) ==
  /\ Idle(h, "create") /\ Turn
  /\ call' = [call EXCEPT ![h] = [NoCall EXCEPT !.op = "create", !.at = "insert",
                                                !.wallet = TRUE]]
  /\ UNCHANGED <<org, user, faults>>

\* Door B: the token belongs to the user, the user to no organisation.  A user
\* without a subscription (sub) is switched to wallet_only, at best.
Associate(h, u, sub) ==
  /\ Idle(h, "associate") /\ Turn /\ u <= Foreign
  /\ GetSelfInfo(u, user[u].tok) /\ ~Taken(u)
  /\ call' = [call EXCEPT ![h] = [NoCall EXCEPT !.op = "associate", !.at = "insert",
                                    !.u = u, !.tok = user[u].tok, !.wallet = ~sub]]
  /\ \/ user' = (IF sub THEN user ELSE SetBillingPreference(u)) /\ NoFault
     \/ user' = user /\ Fault
  /\ UNCHANGED org

\* CreateOrganization.
Insert(h) ==
  /\ At(h, "insert")
  /\ \/ \E o \in NextOrg :
          /\ org' = [org EXCEPT ![o] = [NoOrg EXCEPT !.made = TRUE,
                       !.platform = call[h].op = "create", !.wallet = call[h].wallet]]
          /\ call' = [call EXCEPT ![h].at = "admin", ![h].o = o]
          /\ NoFault
     \/ End(h) /\ Fault /\ org' = org
  /\ UNCHANGED <<user, turns>>

\* The administrator's account; a weak password or an address in use ends the
\* call, and the row stays.
Admin(h) ==
  /\ At(h, "admin")
  /\ \/ IF call[h].op = "associate" THEN Goto(h, "bind") ELSE End(h)
     \/ End(h)
  /\ UNCHANGED <<org, user, turns, faults>>

\* The row gets its user if it has none and no other row has that user.
Binds(o, u) == org[o].uid = 0 /\ ~Taken(u)

SetOrgNewapiUser(o, u, tok, pw) ==
  org' = [org EXCEPT ![o].uid = u, ![o].tok = tok, ![o].pw = pw]

\* Door B stores no password.  The import of tokens is modelled in Members,
\* the backfill job in Settlement.
Bind(h) ==
  /\ At(h, "bind")
  /\ LET c == call[h] IN
     \/ Binds(c.o, c.u) /\ SetOrgNewapiUser(c.o, c.u, c.tok, FALSE) /\ End(h) /\ NoFault
     \/ ~Binds(c.o, c.u) /\ org' = org /\ Goto(h, "archive") /\ NoFault
     \/ org' = org /\ Goto(h, "archive") /\ Fault
  /\ UNCHANGED <<user, turns>>

\* SetOrgArchived: the half-made organisation is put away.
Archive(h) ==
  /\ At(h, "archive")
  /\ \/ org' = [org EXCEPT ![call[h].o].archived = TRUE] /\ NoFault
     \/ org' = org /\ Fault
  /\ End(h)
  /\ UNCHANGED <<user, turns>>

-----------------------------------------------------------------------------
(* EnsureOrgProvisioned.                                                   *)

\* Refused when hard-stopped, and for door B without a credential.
EnsureOrgProvisioned(h, o) ==
  /\ Idle(h, "ensure") /\ Turn
  /\ org[o].made /\ ~org[o].stopped
  /\ GetOrgNewapiCred(o) \/ org[o].platform
  /\ call' = [call EXCEPT ![h] = [orgCred(o) EXCEPT !.op = "ensure",
                !.at = IF GetOrgNewapiCred(o) THEN "wallet" ELSE "lock"]]
  /\ UNCHANGED <<org, user, faults>>

\* Mutant: no second look.
AlreadyDone_Never(o) == FALSE

\* The credential is looked for again under the lock.
AlreadyDone(o) == GetOrgNewapiCred(o)

Lock(h) ==
  /\ At(h, "lock") /\ Free(h, call[h].o)
  /\ IF AlreadyDone(call[h].o) THEN End(h) ELSE Goto(h, "name")
  /\ UNCHANGED <<org, user, turns, faults>>

\* Mutant: one attempt too many.
Conflict_OneMore(h) ==
  IF call[h].tries < maxUsernameAttempts
  THEN call' = [call EXCEPT ![h].at = "name", ![h].tries = @ + 1, ![h].name = 0, ![h].u = 0]
  ELSE End(h)

\* A name that is in use: another is generated, up to the bound.
Conflict(h) ==
  IF call[h].tries + 1 < maxUsernameAttempts
  THEN call' = [call EXCEPT ![h].at = "name", ![h].tries = @ + 1, ![h].name = 0, ![h].u = 0]
  ELSE End(h)

\* A random name: one that nobody has, or that of a user not the platform's.
genOrgUsername == 0..Foreign

\* The check that nobody has the name; a check that fails is passed over.
Name(h) ==
  /\ At(h, "name")
  /\ \E n \in genOrgUsername :
       \/ (IF getUserByUsername(n) = {} THEN Goto(h, "make") ELSE Conflict(h)) /\ NoFault
       \/ call' = [call EXCEPT ![h].at = "make", ![h].name = n] /\ Fault
  /\ UNCHANGED <<org, user, turns>>

Made(h, u) == [user EXCEPT ![u] = [NoUser EXCEPT !.made = TRUE, !.for = call[h].o,
                                                 !.by = {NodeOf[h]}]]

\* Mutant: an existing user is adopted.
Occupied_Adopted(h) == call' = [call EXCEPT ![h].at = "locate", ![h].u = call[h].name]

\* "Already exists" is never taken over at a first provisioning.
Occupied(h) == Conflict(h)

\* CreateUser.  A lost answer is retried by the client: the retry finds the
\* name in use, or fails too, and then the user is looked up and taken over.
CreateUser(h) ==
  /\ At(h, "make")
  /\ IF call[h].name = 0
     THEN \/ \E u \in NextUser :
               /\ user' = Made(h, u)
               /\ \/ call' = [call EXCEPT ![h].at = "locate", ![h].u = u]
                     /\ faults' \in {faults, faults + 1} \cap 0..MaxFaults
                  \/ Conflict(h) /\ Fault
                  \/ End(h) /\ Fault
          \/ user' = user /\ End(h) /\ Fault
     ELSE /\ user' = user
          /\ \/ Occupied(h) /\ NoFault
             \/ Fault /\ call' = [call EXCEPT ![h].at = "locate", ![h].u = call[h].name]
             \/ Fault /\ End(h)
  /\ UNCHANGED <<org, turns>>

Locate(h) ==
  /\ At(h, "locate")
  /\ \/ Goto(h, "login") /\ NoFault
     \/ End(h) /\ Fault
  /\ UNCHANGED <<org, user, turns>>

\* loginAndGetToken.  The password only fits the user made with it; a failure
\* disables the user (compensateDisable), at best.
Login(h) ==
  /\ At(h, "login")
  /\ LET u == call[h].u IN
     \/ /\ call[h].name = 0 /\ user[u].on
        /\ user' = [user EXCEPT ![u].tok = @ + 1]
        /\ call' = [call EXCEPT ![h].at = "store", ![h].tok = user[u].tok + 1]
        /\ NoFault
     \/ call[h].name # 0 /\ user' = compensateDisable(u) /\ End(h) /\ NoFault
     \/ user' \in {user, compensateDisable(u)} /\ End(h) /\ Fault
  /\ UNCHANGED <<org, turns>>

\* SetOrgNewapiUser.  When another process was first, its credential is used
\* and the user made here stays behind.
Store(h) ==
  /\ At(h, "store")
  /\ LET c == call[h] IN
     \/ Binds(c.o, c.u) /\ SetOrgNewapiUser(c.o, c.u, c.tok, TRUE) /\ Goto(h, "group") /\ NoFault
     \/ ~Binds(c.o, c.u) /\ org' = org /\ End(h) /\ NoFault
     \/ org' = org /\ End(h) /\ Fault
  /\ UNCHANGED <<user, turns>>

\* SetUserGroup and the quota override to 0, each best effort.
SetUserGroup(h) ==
  /\ At(h, "group")
  /\ \/ user' = [user EXCEPT ![call[h].u].grouped = TRUE] /\ NoFault
     \/ user' = user /\ Fault
  /\ Goto(h, "zero")
  /\ UNCHANGED <<org, turns>>

OverrideZero(h) ==
  /\ At(h, "zero")
  /\ \/ user' = ManageUserQuota(call[h].u, "zero") /\ NoFault
     \/ user' = user /\ Fault
  /\ Goto(h, "first")
  /\ UNCHANGED <<org, turns>>

\* ensureWalletOnly, and the body of the worker's loop: read the preference,
\* set it unless it is wallet_only.  The first time, the lock is still held.
ensureWalletOnly(h) ==
  /\ call[h].at \in {"first", "wallet"}
  /\ LET c == call[h] IN
     \/ /\ user' = IF org[c.o].wallet /\ GetSelfSubscription(c.u, c.tok)
                   THEN SetBillingPreference(c.u) ELSE user
        /\ NoFault
     \/ user' = user /\ Fault
  /\ End(h)
  /\ UNCHANGED <<org, turns>>

\* ReassertWalletOnly: the organisations billed from the wallet, with the
\* stored credential; a token that has expired is not refreshed here.
ReassertWalletOnly(h, o) ==
  /\ Idle(h, "reassert")
  /\ GetOrgNewapiCred(o) /\ org[o].wallet
  /\ call' = [call EXCEPT ![h] = [orgCred(o) EXCEPT !.op = "reassert", !.at = "wallet"]]
  /\ UNCHANGED <<org, user, turns, faults>>

-----------------------------------------------------------------------------
(* withOrgCred and EnsureFreshCred.                                        *)

withOrgCred(h, o) ==
  /\ Idle(h, "use")
  /\ org[o].made /\ ~org[o].stopped /\ GetOrgNewapiCred(o)
  /\ call' = [call EXCEPT ![h] = [orgCred(o) EXCEPT !.op = "use", !.at = "try"]]
  /\ UNCHANGED <<org, user, turns, faults>>

\* The operation itself; only a 401 leads to a refresh.
Try(h) ==
  /\ At(h, "try")
  /\ \/ /\ IF AuthExpired(call[h].u, call[h].tok) THEN Goto(h, "fresh") ELSE End(h)
        /\ NoFault
     \/ End(h) /\ Fault
  /\ UNCHANGED <<org, user, turns>>

\* Mutant: the credential read before the lock is used.
EnsureFreshCred_NotReread(h) ==
  /\ At(h, "fresh") /\ Free(h, call[h].o)
  /\ Goto(h, "probe")
  /\ UNCHANGED <<org, user, turns, faults>>

\* Under the lock the credential is read again,
EnsureFreshCred(h) ==
  /\ At(h, "fresh") /\ Free(h, call[h].o)
  /\ call' = [call EXCEPT ![h].at = "probe", ![h].tok = org[call[h].o].tok]
  /\ UNCHANGED <<org, user, turns, faults>>

\* probed, and kept if it is valid.  Without a stored password that is all.
\* The single retry of the operation is not a step: it is another use of the
\* token that is returned, and refreshes nothing.
Probe(h) ==
  /\ At(h, "probe")
  /\ \/ /\ Accepts(call[h].u, call[h].tok)
        /\ End(h) /\ NoFault
     \/ /\ ~Accepts(call[h].u, call[h].tok)
        /\ IF GetOrgNewapiPassword(call[h].o) THEN Goto(h, "relogin") ELSE End(h)
        /\ NoFault
     \/ /\ IF GetOrgNewapiPassword(call[h].o) THEN Goto(h, "relogin") ELSE End(h)
        /\ Fault
  /\ UNCHANGED <<org, user, turns>>

\* RefreshAccessToken: a new token is fetched, which ends the old one.
RefreshAccessToken(h) ==
  /\ At(h, "relogin")
  /\ LET u == call[h].u IN
     \/ /\ user[u].on
        /\ user' = [user EXCEPT ![u].tok = @ + 1]
        /\ \/ call' = [call EXCEPT ![h].at = "update", ![h].tok = user[u].tok + 1] /\ NoFault
           \/ End(h) /\ Fault
     \/ ~user[u].on /\ user' = user /\ End(h) /\ NoFault
     \/ user' = user /\ End(h) /\ Fault
  /\ UNCHANGED <<org, turns>>

UpdateOrgAccessToken(h) == org' = [org EXCEPT ![call[h].o].tok = call[h].tok]

Update(h) ==
  /\ At(h, "update")
  /\ \/ UpdateOrgAccessToken(h) /\ NoFault
     \/ org' = org /\ Fault
  /\ End(h)
  /\ UNCHANGED <<user, turns>>

-----------------------------------------------------------------------------
(* HardStopOrg, and what happens outside the platform.                     *)

HardStopOrg(h, o, stop) ==
  /\ Idle(h, "stop") /\ Turn
  /\ org[o].made /\ org[o].stopped # stop /\ org[o].uid # 0
  /\ call' = [call EXCEPT ![h] = [NoCall EXCEPT !.op = "stop", !.at = "switch", !.o = o,
                                    !.u = org[o].uid, !.stop = stop]]
  /\ UNCHANGED <<org, user, faults>>

\* SetUserStatus at the gateway, then the status of the row.
SetUserStatus(h) ==
  /\ At(h, "switch")
  /\ \/ /\ user' = [user EXCEPT ![call[h].u].on = ~call[h].stop]
        /\ Goto(h, "status") /\ NoFault
     \/ user' = user /\ End(h) /\ Fault
  /\ UNCHANGED <<org, turns>>

UpdateOrgStatus(o, stop) == org' = [org EXCEPT ![o].stopped = stop]

SetStatus(h) ==
  /\ At(h, "status")
  /\ \/ UpdateOrgStatus(call[h].o, call[h].stop) /\ NoFault
     \/ org' = org /\ Fault
  /\ End(h)
  /\ UNCHANGED <<user, turns>>

\* The customer fetches a token of its user at the gateway, or sets its billing
\* preference back.
Outside(u) ==
  /\ u \in {v \in Users : Taken(v) \/ v <= Foreign}
  /\ user[u].on /\ Turn
  /\ \/ user' = [user EXCEPT ![u].tok = @ + 1]
     \/ user[u].walletOnly /\ user' = [user EXCEPT ![u].walletOnly = FALSE]
  /\ UNCHANGED <<org, call, faults>>

\* The add request of a recharge (applyRecharge, modelled in Escrow).
Recharge(o) ==
  /\ org[o].uid # 0 /\ user[org[o].uid].quota # "paid" /\ Turn
  /\ user' = [user EXCEPT ![org[o].uid].quota = "paid"]
  /\ UNCHANGED <<org, call, faults>>

-----------------------------------------------------------------------------
Begin(h) ==
  \/ CreateOrg(h)
  \/ \E u \in Users, sub \in BOOLEAN : Associate(h, u, sub)
  \/ \E o \in Orgs :
       \/ EnsureOrgProvisioned(h, o)
       \/ withOrgCred(h, o) \/ ReassertWalletOnly(h, o)
       \/ \E stop \in BOOLEAN : HardStopOrg(h, o, stop)

Step(h) ==
  \/ Insert(h) \/ Admin(h) \/ Bind(h) \/ Archive(h)
  \/ Lock(h) \/ Name(h) \/ CreateUser(h) \/ Locate(h) \/ Login(h) \/ Store(h)
  \/ SetUserGroup(h) \/ OverrideZero(h) \/ ensureWalletOnly(h)
  \/ Try(h) \/ EnsureFreshCred(h) \/ Probe(h) \/ RefreshAccessToken(h) \/ Update(h)
  \/ SetUserStatus(h) \/ SetStatus(h)

Next ==
  \/ \E h \in Handlers : Begin(h) \/ Step(h)
  \/ \E u \in Users : Outside(u)
  \/ \E o \in Orgs : Recharge(o)

Spec == Init /\ [][Next]_vars

\* A call that has begun goes on (every request has a timeout, and the lock is
\* given back on return); administrators keep calling withOrgCred for every
\* organisation, and the reconciliation tick comes round.
FairSpec ==
  /\ Spec
  /\ \A h \in Handlers : SF_vars(Step(h))
  /\ \A o \in Orgs :
       /\ SF_vars(\E h \in Handlers : withOrgCred(h, o))
       /\ SF_vars(\E h \in Handlers : ReassertWalletOnly(h, o))

-----------------------------------------------------------------------------
\* Type invariant.
TypeOK ==
  /\ org \in [Orgs -> [made : BOOLEAN, platform : BOOLEAN, uid : 0..MaxUsers, tok : Nat,
                       pw : BOOLEAN, wallet : BOOLEAN, stopped : BOOLEAN,
                       archived : BOOLEAN]]
  /\ user \in [Users -> [made : BOOLEAN, tok : Nat, on : BOOLEAN, walletOnly : BOOLEAN,
                         grouped : BOOLEAN, quota : {"gift", "zero", "paid"},
                         for : 0..MaxOrgs, by : SUBSET {NodeOf[h] : h \in Handlers}]]
  /\ call \in [Handlers -> [op : CallOps, at : Steps, o : 0..MaxOrgs, u : 0..MaxUsers,
                            tok : Nat, name : 0..Foreign, tries : 0..(maxUsernameAttempts - 1),
                            stop : BOOLEAN, wallet : BOOLEAN]]
  /\ turns \in 0..MaxTurns /\ faults \in 0..MaxFaults

\* Whoever's user an organisation is bound to has the right to be: door A has a
\* user that was made for this organisation and a password, door B one of the
\* customer's and none; no user serves two organisations; and it takes two
\* failed requests, and a generated name that is somebody's, for the platform to
\* disable a user that is not its own (member.go:443-530, bootstrap.go:42-99,
\* org.go:181-189).
BindingSafe ==
  /\ \A o \in Orgs : org[o].uid # 0 =>
       IF org[o].platform THEN user[org[o].uid].for = o /\ org[o].pw
                          ELSE org[o].uid <= Foreign /\ ~org[o].pw
  /\ \A o, p \in Orgs : (org[o].uid = org[p].uid /\ org[o].uid # 0) => o = p
  /\ \A u \in 1..Foreign : user[u].on \/ Taken(u) \/ faults >= 2

\* One process makes one user for an organisation, and at most one more for
\* every request or statement that fails (member.go:472-481).
OnePoolUser ==
  \A o \in Orgs, h \in Handlers :
    Cardinality({u \in Users : user[u].for = o /\ NodeOf[h] \in user[u].by}) <= 1 + faults

\* A refresh is paid for: where one process refreshes, the token of a user that
\* the platform made is fetched once at the login, and after that once for every
\* fetch by the outside and once for every request or statement that fails.
\* Calls that meet the same expired token do not end each other's new one: who
\* waited for the lock reads and probes again (member.go:639-654).  Creating the
\* organisation and providing its user take two turns.
RefreshesPaid ==
  \A u \in Users : user[u].for # 0 => user[u].tok <= 1 + 2 * (turns - 2) + faults

\* Credentials heal: once the outside leaves them alone, the stored token of a
\* door A organisation that is not stopped is one that the gateway accepts, for
\* good, and the user pays from the wallet (member.go:571-711).
CredentialsHeal ==
  \A o \in Orgs :
    <>[](org[o].platform /\ org[o].uid # 0 /\ ~org[o].stopped /\ user[org[o].uid].on
           => Accepts(org[o].uid, org[o].tok) /\ user[org[o].uid].walletOnly)
=============================================================================
