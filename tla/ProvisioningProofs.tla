-------------------------- MODULE ProvisioningProofs --------------------------
(***************************************************************************)
(* Proofs about Provisioning, for any number of organisations, users,      *)
(* handlers and processes, and any number of faults.                       *)
(***************************************************************************)
EXTENDS Provisioning, FiniteSetTheorems, TLAPS

OrgType == [made : BOOLEAN, platform : BOOLEAN, uid : 0..MaxUsers, tok : Nat, pw : BOOLEAN,
            wallet : BOOLEAN, stopped : BOOLEAN, archived : BOOLEAN]
UserType == [made : BOOLEAN, tok : Nat, on : BOOLEAN, walletOnly : BOOLEAN, grouped : BOOLEAN,
             quota : {"gift", "zero", "paid"}, for : 0..MaxOrgs,
             by : SUBSET {NodeOf[h] : h \in Handlers}]
CallType == [op : CallOps, at : Steps, o : 0..MaxOrgs, u : 0..MaxUsers, tok : Nat,
             name : 0..Foreign, tries : 0..(maxUsernameAttempts - 1), stop : BOOLEAN,
             wallet : BOOLEAN]

Making == {"lock", "name", "make", "locate", "login", "store"}

\* The steps of a call have an organisation and a user where they need one.
StepsFit(c) ==
  /\ c.at \notin {"idle", "insert"} => c.o \in Orgs
  /\ c.at \notin {"idle", "insert", "admin", "bind", "archive", "lock", "name", "make"} =>
       c.u \in Users
  /\ c.at \in {"insert", "admin", "bind", "archive"} =>
       c.op = "create" \/ (c.op = "associate" /\ c.u \in 1..Foreign)
  /\ c.at \in {"bind", "archive"} => c.op = "associate"
  /\ c.at \in {"lock", "name", "store"} => c.name = 0

\* What a call relies on in the rows, the users and the faults so far: the
\* door of its organisation; a user made for the organisation, or a foreign
\* one whose name was generated, not found and not refused; a bound user.
Relies(c, og, us, f) ==
  /\ c.at \in {"admin", "bind"} /\ c.op = "associate" =>
       og[c.o].made /\ ~og[c.o].platform
  /\ c.at \in Making => og[c.o].made /\ og[c.o].platform
  /\ c.at = "make" /\ c.name # 0 => f >= 1
  /\ c.at \in {"locate", "login", "store"} =>
       IF c.name = 0 THEN us[c.u].made /\ us[c.u].for = c.o ELSE f >= 2
  /\ c.at = "switch" => \E o \in Orgs : og[o].uid = c.u

CallsOK == \A h \in Handlers : StepsFit(call[h]) /\ Relies(call[h], org, user, faults)

\* Rows: none but inserted ones have a user, and the user exists; the two
\* doors; one organisation per user.
OrgsOK ==
  /\ \A o \in Orgs : org[o].uid # 0 =>
       /\ org[o].made /\ user[org[o].uid].made
       /\ IF org[o].platform THEN user[org[o].uid].for = o /\ org[o].pw
                             ELSE org[o].uid <= Foreign /\ ~org[o].pw
  /\ \A o, p \in Orgs : (org[o].uid = org[p].uid /\ org[o].uid # 0) => o = p

\* Users that are not the platform's were made for no organisation.
UsersOK ==
  \A u \in Users : u <= Foreign =>
    user[u].made /\ user[u].for = 0 /\ (user[u].on \/ Taken(u) \/ faults >= 2)

ProvInv == TypeOK /\ CallsOK /\ OrgsOK /\ UsersOK

-----------------------------------------------------------------------------
\* What no step undoes: rows and users stay, with their door and purpose; a
\* bound row stays bound.
Grows ==
  /\ faults' >= faults
  /\ \A o \in Orgs : /\ org[o].made => org'[o].made /\ org'[o].platform = org[o].platform
                     /\ org[o].uid # 0 => org'[o].uid = org[o].uid /\ org'[o].pw = org[o].pw
  /\ \A u \in Users : user[u].made => user'[u].made /\ user'[u].for = user[u].for

\* What the users' part of it is, with the reason for disabling one that is not
\* the platform's: it is bound, or two requests have failed.
UsersGrow ==
  /\ user' \in [Users -> UserType]
  /\ \A u \in Users : /\ user[u].made => user'[u].made /\ user'[u].for = user[u].for
                      /\ u <= Foreign /\ user[u].on =>
                           user'[u].on \/ Taken(u) \/ faults' >= 2

\* The typed parts, under their names.
LEMMA Parts ==
  ASSUME ProvInv
  PROVE  /\ TypeOK /\ CallsOK /\ OrgsOK /\ UsersOK
         /\ org \in [Orgs -> OrgType] /\ user \in [Users -> UserType]
         /\ call \in [Handlers -> CallType] /\ faults \in 0..MaxFaults /\ turns \in 0..MaxTurns
         /\ faults \in Nat
         /\ \A h \in Handlers : /\ call[h] \in CallType /\ StepsFit(call[h])
                                /\ Relies(call[h], org, user, faults)
  BY ProvisioningAssumption DEF ProvInv, TypeOK, OrgType, UserType, CallType, CallsOK

\* A call may go on relying on what it relied on.
LEMMA RelyKept ==
  ASSUME ProvInv, Grows, faults' \in Nat, NEW c \in CallType, StepsFit(c),
         Relies(c, org, user, faults)
  PROVE  Relies(c, org', user', faults')
<1>0. faults \in Nat
  BY Parts
<1>1. c.at \in {"admin", "bind"} /\ c.op = "associate" => org'[c.o].made /\ ~org'[c.o].platform
  BY DEF Relies, Grows, StepsFit
<1>2. c.at \in Making => org'[c.o].made /\ org'[c.o].platform
  BY DEF Relies, Grows, StepsFit, Making
<1>3. c.at = "make" /\ c.name # 0 => faults' >= 1
  BY <1>0 DEF Relies, Grows
<1>4. c.at \in {"locate", "login", "store"} =>
        IF c.name = 0 THEN user'[c.u].made /\ user'[c.u].for = c.o ELSE faults' >= 2
  BY <1>0 DEF Relies, Grows, StepsFit
<1>5. c.at = "switch" => \E o \in Orgs : org'[o].uid = c.u
  <2>1. c.at = "switch" => c.u \in Users /\ 0 \notin Users
    BY DEF StepsFit, Users
  <2> QED
    BY <2>1 DEF Relies, Grows
<1> QED
  BY <1>1, <1>2, <1>3, <1>4, <1>5 DEF Relies

\* A handler sets its call, or no handler does.
CallStep(h, d) ==
  /\ call' = [call EXCEPT ![h] = d] /\ StepsFit(d) /\ Relies(d, org', user', faults')

\* A step that grows the state keeps what is said of the calls.
LEMMA CallsKept ==
  ASSUME ProvInv, Grows, faults' \in Nat,
         UNCHANGED call \/ \E h \in Handlers, d \in CallType : CallStep(h, d)
  PROVE  CallsOK' /\ call' \in [Handlers -> CallType]
<1>1. ASSUME NEW g \in Handlers PROVE StepsFit(call[g]) /\ Relies(call[g], org', user', faults')
  BY Parts, RelyKept
<1>2. CASE UNCHANGED call
  <2>1. \A g \in Handlers : StepsFit(call'[g]) /\ Relies(call'[g], org', user', faults')
    BY <1>1, <1>2
  <2>2. call' \in [Handlers -> CallType]
    BY <1>2, Parts
  <2> QED
    BY <2>1, <2>2 DEF CallsOK, StepsFit, Relies
<1>3. ASSUME NEW h \in Handlers, NEW d \in CallType, CallStep(h, d)
      PROVE  CallsOK' /\ call' \in [Handlers -> CallType]
  <2>1. call'[h] = d /\ call' \in [Handlers -> CallType]
        /\ \A g \in Handlers : g # h => call'[g] = call[g]
    BY <1>3, Parts DEF CallStep
  <2>2. \A g \in Handlers : StepsFit(call'[g]) /\ Relies(call'[g], org', user', faults')
    BY <1>1, <1>3, <2>1 DEF CallStep
  <2> QED
    BY <2>1, <2>2 DEF CallsOK, StepsFit, Relies
<1> QED
  BY <1>2, <1>3

\* Bound users stay bound.
LEMMA TakenKept == ASSUME ProvInv, Grows, NEW u \in Users, Taken(u) PROVE Taken(u)'
<1>1. u # 0
  BY DEF Users
<1> QED
  BY <1>1 DEF Taken, Grows

\* Users written, rows not: a user that is not the platform's is disabled only
\* if bound or after two faults.
LEMMA UserKeeps ==
  ASSUME ProvInv, UNCHANGED org, UsersGrow,
         faults' \in 0..MaxFaults, turns' \in 0..MaxTurns, faults' >= faults,
         UNCHANGED call \/ \E h \in Handlers, d \in CallType : CallStep(h, d)
  PROVE  ProvInv'
<1> USE DEF UsersGrow
<1>0. faults \in Nat /\ faults' \in Nat
  BY Parts
<1>1. Grows
  BY DEF Grows
<1>2. CallsOK' /\ call' \in [Handlers -> CallType]
  BY <1>0, <1>1, CallsKept
<1>3. TypeOK'
  BY <1>2, Parts DEF TypeOK, OrgType, UserType, CallType
<1>4. OrgsOK'
  <2>1. \A o \in Orgs : org[o].uid # 0 => org[o].uid \in Users
    BY Parts, ProvisioningAssumption DEF OrgType, Users
  <2> QED
    BY <2>1, Parts DEF OrgsOK
<1>5. UsersOK'
  <2>1. ASSUME NEW u \in Users, u <= Foreign
        PROVE  user'[u].made /\ user'[u].for = 0 /\ (user'[u].on \/ Taken(u)' \/ faults' >= 2)
    <3>1. user[u].made /\ user[u].for = 0 /\ (user[u].on \/ Taken(u) \/ faults >= 2)
      BY <2>1, Parts DEF UsersOK
    <3>2. Taken(u) => Taken(u)'
      BY <1>1, TakenKept
    <3> QED
      BY <1>0, <2>1, <3>1, <3>2
  <2> QED
    BY <2>1 DEF UsersOK
<1> QED
  BY <1>2, <1>3, <1>4, <1>5 DEF ProvInv

\* Only calls, turns and faults change.
LEMMA CallKeeps ==
  ASSUME ProvInv, UNCHANGED <<org, user>>, faults' \in 0..MaxFaults, turns' \in 0..MaxTurns,
         faults' >= faults, NEW h \in Handlers, NEW d \in CallType, CallStep(h, d)
  PROVE  ProvInv'
<1>1. UsersGrow
  BY Parts DEF UsersGrow
<1> QED
  BY <1>1, UserKeeps

-----------------------------------------------------------------------------
(* How calls move.                                                         *)

\* Faults and turns are bounded and only grow.
LEMMA Bounded ==
  ASSUME ProvInv
  PROVE  /\ Fault => faults' \in 0..MaxFaults /\ faults' = faults + 1
         /\ Fault \/ NoFault => faults' \in 0..MaxFaults /\ faults' >= faults
         /\ Turn \/ UNCHANGED turns => turns' \in 0..MaxTurns
         /\ UNCHANGED faults => faults' \in 0..MaxFaults /\ faults' >= faults
  BY Parts, ProvisioningAssumption DEF Fault, NoFault, Turn

\* An idle call relies on nothing.
LEMMA NoCallFits ==
  /\ NoCall \in CallType /\ StepsFit(NoCall) /\ \A og, us, f : Relies(NoCall, og, us, f)
<1>1. /\ 0 \in 0..MaxOrgs /\ 0 \in 0..MaxUsers /\ 0 \in 0..Foreign
      /\ 0 \in 0..(maxUsernameAttempts - 1)
  BY ProvisioningAssumption
<1>2. NoCall \in CallType
  BY <1>1 DEF NoCall, CallType, CallOps, AllOps, Steps
<1> QED
  BY <1>2 DEF NoCall, StepsFit, Relies, Making

\* A call that ends.
LEMMA EndStep ==
  ASSUME NEW h \in Handlers, End(h)
  PROVE  \E g \in Handlers, d \in CallType : CallStep(g, d)
<1>1. CallStep(h, NoCall)
  BY NoCallFits DEF CallStep, End
<1> QED
  BY <1>1, NoCallFits

\* A call that goes to another step with what it has.
LEMMA GotoStep ==
  ASSUME ProvInv, NEW h \in Handlers, NEW at \in Steps, Goto(h, at),
         \A d \in CallType :
           (/\ d.at = at /\ d.op = call[h].op /\ d.o = call[h].o /\ d.u = call[h].u
            /\ d.name = call[h].name)
             => StepsFit(d) /\ Relies(d, org', user', faults')
  PROVE  \E g \in Handlers, d \in CallType : CallStep(g, d)
<1> DEFINE d == [call[h] EXCEPT !.at = at]
<1>1. d \in CallType /\ d.at = at /\ d.op = call[h].op /\ d.o = call[h].o /\ d.u = call[h].u
      /\ d.name = call[h].name
  BY Parts DEF CallType
<1>2. call' = [call EXCEPT ![h] = d]
  BY DEF Goto
<1> HIDE DEF d
<1> QED
  BY <1>1, <1>2 DEF CallStep

\* The second half: rows, users and faults only grow.
LEMMA StillRelies ==
  ASSUME ProvInv, UNCHANGED <<org, user>>, faults' >= faults, faults' \in 0..MaxFaults,
         NEW h \in Handlers
  PROVE  StepsFit(call[h]) /\ Relies(call[h], org', user', faults')
<1>1. Grows /\ faults' \in Nat
  BY DEF Grows
<1> QED
  BY <1>1, Parts, RelyKept

-----------------------------------------------------------------------------
(* Steps that only begin or continue calls.                                *)

\* The credential that a call starts from.
LEMMA CredTyped ==
  ASSUME ProvInv, NEW o \in Orgs
  PROVE  \E c \in CallType : c = orgCred(o) /\ c.o = o /\ c.u = org[o].uid /\ c.name = 0
<1>1. NoCall \in CallType /\ org[o] \in OrgType
  BY NoCallFits, Parts
<1>2. o \in 0..MaxOrgs /\ org[o].uid \in 0..MaxUsers /\ org[o].tok \in Nat
  BY <1>1, ProvisioningAssumption DEF Orgs, OrgType
<1>3. PICK x \in 0..MaxOrgs, y \in 0..MaxUsers, z \in Nat :
             x = o /\ y = org[o].uid /\ z = org[o].tok
  BY <1>2
<1> DEFINE c == [NoCall EXCEPT !.o = x, !.u = y, !.tok = z]
<1>4. c \in CallType
  BY <1>1 DEF CallType
<1>5. c.o = x /\ c.u = y /\ c.name = 0
  BY DEF NoCall
<1>6. c = orgCred(o)
  BY <1>3 DEF orgCred
<1> HIDE DEF c
<1> QED
  BY <1>3, <1>4, <1>5, <1>6

\* A bound organisation has a user.
LEMMA BoundUser == ASSUME ProvInv, NEW o \in Orgs, org[o].uid # 0 PROVE org[o].uid \in Users
  BY Parts, ProvisioningAssumption DEF OrgType, Users

\* CreateOrg.
LEMMA CreateKeeps ==
  ASSUME ProvInv, NEW h \in Handlers, CreateOrg(h)
  PROVE  ProvInv'
<1>0. UNCHANGED <<org, user, faults>> /\ faults' \in 0..MaxFaults /\ turns' \in 0..MaxTurns
      /\ faults' >= faults
  BY Bounded DEF CreateOrg
<1> DEFINE d == [NoCall EXCEPT !.op = "create", !.at = "insert", !.wallet = TRUE]
<1>1. d \in CallType
  BY NoCallFits DEF CallType, CallOps, AllOps, Steps, NoCall
<1>2. d.op = "create" /\ d.at = "insert"
  BY DEF NoCall
<1>3. call' = [call EXCEPT ![h] = d]
  BY DEF CreateOrg
<1> HIDE DEF d
<1>4. StepsFit(d) /\ Relies(d, org, user, faults)
  BY <1>2 DEF StepsFit, Relies, Making
<1> QED
  BY <1>0, <1>1, <1>3, <1>4, CallKeeps DEF CallStep

\* EnsureOrgProvisioned, withOrgCred, ReassertWalletOnly, HardStopOrg.
LEMMA BeginKeeps ==
  ASSUME ProvInv, NEW h \in Handlers, NEW o \in Orgs, NEW stop \in BOOLEAN,
         \/ EnsureOrgProvisioned(h, o) \/ withOrgCred(h, o)
         \/ ReassertWalletOnly(h, o) \/ HardStopOrg(h, o, stop)
  PROVE  ProvInv'
<1>0. UNCHANGED <<org, user, faults>> /\ faults' \in 0..MaxFaults /\ turns' \in 0..MaxTurns
      /\ faults' >= faults
  BY Bounded DEF EnsureOrgProvisioned, withOrgCred, ReassertWalletOnly, HardStopOrg
<1>1. ASSUME NEW d \in CallType, call' = [call EXCEPT ![h] = d], StepsFit(d),
             Relies(d, org, user, faults)
      PROVE  ProvInv'
  BY <1>0, <1>1, CallKeeps DEF CallStep
<1>3. CASE EnsureOrgProvisioned(h, o)
  <2>0. PICK c \in CallType : c = orgCred(o) /\ c.o = o /\ c.u = org[o].uid /\ c.name = 0
    BY CredTyped
  <2>1. PICK at \in {"wallet", "lock"} : at = IF GetOrgNewapiCred(o) THEN "wallet" ELSE "lock"
    OBVIOUS
  <2> DEFINE d == [c EXCEPT !.op = "ensure", !.at = at]
  <2>2. d \in CallType /\ d.at = at /\ d.o = o /\ d.u = org[o].uid /\ d.name = 0
    BY ZenonT(60), <2>0 DEF CallType, CallOps, AllOps, Steps
  <2>3. call' = [call EXCEPT ![h] = d]
    BY <1>3, <2>0, <2>1 DEF EnsureOrgProvisioned
  <2> HIDE DEF d
  <2>4. StepsFit(d) /\ Relies(d, org, user, faults)
    BY <1>3, <2>1, <2>2, BoundUser
       DEF EnsureOrgProvisioned, GetOrgNewapiCred, StepsFit, Relies, Making
  <2> QED
    BY <1>1, <2>2, <2>3, <2>4
<1>4. CASE withOrgCred(h, o)
  <2>0. PICK c \in CallType : c = orgCred(o) /\ c.o = o /\ c.u = org[o].uid /\ c.name = 0
    BY CredTyped
  <2> DEFINE d == [c EXCEPT !.op = "use", !.at = "try"]
  <2>2. d \in CallType /\ d.at = "try" /\ d.o = o /\ d.u = org[o].uid /\ d.name = 0
    BY ZenonT(60), <2>0 DEF CallType, CallOps, AllOps, Steps
  <2>3. call' = [call EXCEPT ![h] = d]
    BY <1>4, <2>0 DEF withOrgCred
  <2> HIDE DEF d
  <2>4. StepsFit(d) /\ Relies(d, org, user, faults)
    BY <1>4, <2>2, BoundUser
       DEF withOrgCred, GetOrgNewapiCred, StepsFit, Relies, Making
  <2> QED
    BY <1>1, <2>2, <2>3, <2>4
<1>5. CASE ReassertWalletOnly(h, o)
  <2>0. PICK c \in CallType : c = orgCred(o) /\ c.o = o /\ c.u = org[o].uid /\ c.name = 0
    BY CredTyped
  <2> DEFINE d == [c EXCEPT !.op = "reassert", !.at = "wallet"]
  <2>2. d \in CallType /\ d.at = "wallet" /\ d.o = o /\ d.u = org[o].uid /\ d.name = 0
    BY ZenonT(60), <2>0 DEF CallType, CallOps, AllOps, Steps
  <2>3. call' = [call EXCEPT ![h] = d]
    BY <1>5, <2>0 DEF ReassertWalletOnly
  <2> HIDE DEF d
  <2>4. StepsFit(d) /\ Relies(d, org, user, faults)
    BY <1>5, <2>2, BoundUser
       DEF ReassertWalletOnly, GetOrgNewapiCred, StepsFit, Relies, Making
  <2> QED
    BY <1>1, <2>2, <2>3, <2>4
<1>6. CASE HardStopOrg(h, o, stop)
  <2> DEFINE d == [NoCall EXCEPT !.op = "stop", !.at = "switch", !.o = o, !.u = org[o].uid,
                                 !.stop = stop]
  <2>1. org[o].uid \in Users /\ org[o].uid \in 0..MaxUsers /\ o \in 0..MaxOrgs
    BY <1>6, BoundUser, ProvisioningAssumption DEF HardStopOrg, Users, Orgs
  <2>2. d \in CallType
    BY <2>1, NoCallFits DEF CallType, CallOps, AllOps, Steps, NoCall
  <2>3. d.at = "switch" /\ d.o = o /\ d.u = org[o].uid
    BY DEF NoCall
  <2>4. call' = [call EXCEPT ![h] = d]
    BY <1>6 DEF HardStopOrg
  <2> HIDE DEF d
  <2>5. StepsFit(d) /\ Relies(d, org, user, faults)
    BY <2>1, <2>3 DEF StepsFit, Relies, Making
  <2> QED
    BY <1>1, <2>2, <2>4, <2>5
<1> QED
  BY <1>3, <1>4, <1>5, <1>6

-----------------------------------------------------------------------------
(* Steps that go on with a call and write nothing else.                    *)

\* A name in use: another attempt, or the end of the call.
LEMMA ConflictStep ==
  ASSUME ProvInv, Grows, faults' \in Nat, NEW h \in Handlers, call[h].at \in {"name", "make"},
         Conflict(h)
  PROVE  \E g \in Handlers, d \in CallType : CallStep(g, d)
<1>1. CASE call[h].tries + 1 < maxUsernameAttempts
  <2>1. call[h] \in CallType /\ StepsFit(call[h]) /\ Relies(call[h], org', user', faults')
    BY Parts, RelyKept
  <2>2. PICK n \in 0..(maxUsernameAttempts - 1) : n = call[h].tries + 1
    <3>1. call[h].tries \in 0..(maxUsernameAttempts - 1)
      BY <2>1 DEF CallType
    <3> QED
      BY <1>1, <3>1, ProvisioningAssumption
  <2> DEFINE d == [call[h] EXCEPT !.at = "name", !.tries = n, !.name = 0, !.u = 0]
  <2>3. d \in CallType
    <3>1. 0 \in 0..Foreign /\ 0 \in 0..MaxUsers
      BY ProvisioningAssumption
    <3> QED
      BY <2>1, <3>1 DEF CallType, Steps, Held
  <2>4. d.at = "name" /\ d.name = 0 /\ d.o = call[h].o /\ d.op = call[h].op
    BY <2>1 DEF CallType
  <2>5. call' = [call EXCEPT ![h] = d]
    BY <1>1, <2>2 DEF Conflict
  <2> HIDE DEF d
  <2>6. StepsFit(d) /\ Relies(d, org', user', faults')
    BY <2>1, <2>4 DEF StepsFit, Relies, Making
  <2> QED
    BY <2>3, <2>5, <2>6 DEF CallStep
<1>2. CASE ~(call[h].tries + 1 < maxUsernameAttempts)
  BY <1>2, EndStep DEF Conflict
<1> QED
  BY <1>1, <1>2

\* Admin, Lock, Locate, Try, Probe: to another step, or to the end.
LEMMA GoesOn ==
  ASSUME ProvInv, NEW h \in Handlers,
         Admin(h) \/ Lock(h) \/ Locate(h) \/ Try(h) \/ Probe(h)
  PROVE  ProvInv'
<1>0. /\ UNCHANGED <<org, user>> /\ faults' \in 0..MaxFaults /\ turns' \in 0..MaxTurns
      /\ faults' >= faults
  BY Bounded DEF Admin, Lock, Locate, Try, Probe
<1>1. SUFFICES \E g \in Handlers, d \in CallType : CallStep(g, d)
  BY <1>0, CallKeeps
<1>2. StepsFit(call[h]) /\ Relies(call[h], org', user', faults') /\ call[h] \in CallType
  BY <1>0, StillRelies, Parts
<1>3. CASE End(h)
  BY <1>3, EndStep
<1>4. CASE Admin(h) /\ ~End(h)
  <2>1. Goto(h, "bind") /\ call[h].at = "admin" /\ call[h].op = "associate"
    BY <1>4 DEF Admin, At
  <2> QED
    <3>1. ASSUME NEW d \in CallType, d.at = "bind", d.op = call[h].op, d.o = call[h].o, d.u = call[h].u,
                d.name = call[h].name
         PROVE  StepsFit(d) /\ Relies(d, org', user', faults')
      BY <1>2, <2>1, <3>1 DEF StepsFit, Relies, Making
    <3>2. "bind" \in Steps
      BY DEF Steps, Held
    <3> QED
      BY <1>2, <2>1, <3>1, <3>2, GotoStep
<1>5. CASE Lock(h) /\ ~End(h)
  <2>1. Goto(h, "name") /\ call[h].at = "lock"
    BY <1>5 DEF Lock, At
  <2>2. call[h].name = 0
    BY <1>2, <2>1 DEF StepsFit
  <2> QED
    <3>1. ASSUME NEW d \in CallType, d.at = "name", d.op = call[h].op, d.o = call[h].o, d.u = call[h].u,
                d.name = call[h].name
         PROVE  StepsFit(d) /\ Relies(d, org', user', faults')
      BY <1>2, <2>1, <2>2, <3>1 DEF StepsFit, Relies, Making
    <3>2. "name" \in Steps
      BY DEF Steps, Held
    <3> QED
      BY <1>2, <2>1, <2>2, <3>1, <3>2, GotoStep
<1>6. CASE Locate(h) /\ ~End(h)
  <2>1. Goto(h, "login") /\ call[h].at = "locate"
    BY <1>6 DEF Locate, At
  <2> QED
    <3>1. ASSUME NEW d \in CallType, d.at = "login", d.op = call[h].op, d.o = call[h].o, d.u = call[h].u,
                d.name = call[h].name
         PROVE  StepsFit(d) /\ Relies(d, org', user', faults')
      BY <1>2, <2>1, <3>1 DEF StepsFit, Relies, Making
    <3>2. "login" \in Steps
      BY DEF Steps, Held
    <3> QED
      BY <1>2, <2>1, <3>1, <3>2, GotoStep
<1>7. CASE Try(h) /\ ~End(h)
  <2>1. Goto(h, "fresh") /\ call[h].at = "try"
    BY <1>7 DEF Try, At
  <2> QED
    <3>1. ASSUME NEW d \in CallType, d.at = "fresh", d.op = call[h].op, d.o = call[h].o, d.u = call[h].u,
                d.name = call[h].name
         PROVE  StepsFit(d) /\ Relies(d, org', user', faults')
      BY <1>2, <2>1, <3>1 DEF StepsFit, Relies, Making
    <3>2. "fresh" \in Steps
      BY DEF Steps, Held
    <3> QED
      BY <1>2, <2>1, <3>1, <3>2, GotoStep
<1>8. CASE Probe(h) /\ ~End(h)
  <2>1. Goto(h, "relogin") /\ call[h].at = "probe"
    BY <1>8 DEF Probe, At
  <2> QED
    <3>1. ASSUME NEW d \in CallType, d.at = "relogin", d.op = call[h].op, d.o = call[h].o, d.u = call[h].u,
                d.name = call[h].name
         PROVE  StepsFit(d) /\ Relies(d, org', user', faults')
      BY <1>2, <2>1, <3>1 DEF StepsFit, Relies, Making
    <3>2. "relogin" \in Steps
      BY DEF Steps, Held
    <3> QED
      BY <1>2, <2>1, <3>1, <3>2, GotoStep
<1> QED
  BY <1>3, <1>4, <1>5, <1>6, <1>7, <1>8

\* Name: the name is free, in use, or was not looked up.
LEMMA NameKeeps ==
  ASSUME ProvInv, NEW h \in Handlers, Name(h)
  PROVE  ProvInv'
<1>0. /\ UNCHANGED <<org, user>> /\ faults' \in 0..MaxFaults /\ turns' \in 0..MaxTurns
      /\ faults' >= faults /\ call[h].at = "name" /\ faults \in Nat
  BY Bounded, Parts DEF Name, At
<1>1. SUFFICES \E g \in Handlers, d \in CallType : CallStep(g, d)
  BY <1>0, CallKeeps
<1>2. StepsFit(call[h]) /\ Relies(call[h], org', user', faults') /\ call[h] \in CallType
  BY <1>0, StillRelies, Parts
<1>3. Grows /\ faults' \in Nat
  BY <1>0 DEF Grows
<1>4. CASE Goto(h, "make")
  <2>1. call[h].name = 0
    BY <1>0, <1>2 DEF StepsFit
  <2> QED
    <3>1. ASSUME NEW d \in CallType, d.at = "make", d.op = call[h].op, d.o = call[h].o, d.u = call[h].u,
                d.name = call[h].name
         PROVE  StepsFit(d) /\ Relies(d, org', user', faults')
      BY <1>0, <1>2, <1>4, <2>1, <3>1 DEF StepsFit, Relies, Making
    <3>2. "make" \in Steps
      BY DEF Steps, Held
    <3> QED
      BY <1>0, <1>2, <1>4, <2>1, <3>1, <3>2, GotoStep
<1>5. CASE Conflict(h)
  BY <1>0, <1>3, <1>5, ConflictStep
<1>6. ASSUME NEW n \in 0..Foreign, Fault,
             call' = [call EXCEPT ![h].at = "make", ![h].name = n]
      PROVE  \E g \in Handlers, d \in CallType : CallStep(g, d)
  <2> DEFINE d == [call[h] EXCEPT !.at = "make", !.name = n]
  <2>1. d \in CallType
    BY <1>2 DEF CallType, Steps, Held
  <2>2. d.at = "make" /\ d.o = call[h].o /\ d.op = call[h].op
    BY <1>2 DEF CallType
  <2>3. call' = [call EXCEPT ![h] = d]
    BY <1>6
  <2>4. faults' >= 1
    BY <1>0, <1>6 DEF Fault
  <2> HIDE DEF d
  <2>5. StepsFit(d) /\ Relies(d, org', user', faults')
    BY <1>0, <1>2, <2>2, <2>4 DEF StepsFit, Relies, Making
  <2> QED
    BY <2>1, <2>3, <2>5 DEF CallStep
<1> QED
  BY <1>4, <1>5, <1>6, Zenon DEF Name, genOrgUsername

\* EnsureFreshCred: the call takes the token of the row.
LEMMA FreshKeeps ==
  ASSUME ProvInv, NEW h \in Handlers, EnsureFreshCred(h)
  PROVE  ProvInv'
<1>0. /\ UNCHANGED <<org, user>> /\ faults' \in 0..MaxFaults /\ turns' \in 0..MaxTurns
      /\ faults' >= faults /\ call[h].at = "fresh"
  BY Bounded DEF EnsureFreshCred, At
<1>1. StepsFit(call[h]) /\ Relies(call[h], org', user', faults') /\ call[h] \in CallType
  BY <1>0, StillRelies, Parts
<1>2. PICK t \in Nat : t = org[call[h].o].tok
  BY <1>0, <1>1, Parts DEF StepsFit, OrgType
<1> DEFINE d == [call[h] EXCEPT !.at = "probe", !.tok = t]
<1>3. d \in CallType
  BY <1>1 DEF CallType, Steps, Held
<1>4. d.at = "probe" /\ d.o = call[h].o /\ d.op = call[h].op /\ d.u = call[h].u
  BY <1>1 DEF CallType
<1>5. call' = [call EXCEPT ![h] = d]
  BY <1>2 DEF EnsureFreshCred
<1> HIDE DEF d
<1>6. StepsFit(d) /\ Relies(d, org', user', faults')
  BY <1>0, <1>1, <1>4 DEF StepsFit, Relies, Making
<1> QED
  BY <1>0, <1>3, <1>5, <1>6, CallKeeps DEF CallStep

-----------------------------------------------------------------------------
(* Steps that write users.                                                 *)

\* One field of one user is written.
LEMMA UserField ==
  ASSUME ProvInv, NEW u \in Users, NEW v \in UserType,
         user' = [user EXCEPT ![u] = v], user[u].made => v.made /\ v.for = user[u].for,
         user[u].on => v.on \/ u > Foreign \/ Taken(u) \/ faults' >= 2
  PROVE  UsersGrow
<1>1. user \in [Users -> UserType] /\ Foreign \in Nat /\ u \in Nat
  BY Parts, ProvisioningAssumption DEF Users
<1>2. user' \in [Users -> UserType] /\ user'[u] = v
      /\ \A w \in Users : w # u => user'[w] = user[w]
  BY <1>1
<1> QED
  BY <1>1, <1>2 DEF UsersGrow

\* Associate: the preference of the customer's user, at best.
LEMMA AssociateKeeps ==
  ASSUME ProvInv, NEW h \in Handlers, NEW u \in Users, NEW sub \in BOOLEAN,
         Associate(h, u, sub)
  PROVE  ProvInv'
<1>0. /\ UNCHANGED org /\ faults' \in 0..MaxFaults /\ turns' \in 0..MaxTurns
      /\ faults' >= faults /\ u \in 1..Foreign
  BY Bounded, ProvisioningAssumption DEF Associate, Users
<1>1. user[u] \in UserType
  BY Parts
<1>2. user' = user \/ user' = [user EXCEPT ![u] = [user[u] EXCEPT !.walletOnly = TRUE]]
  BY DEF Associate, SetBillingPreference
<1>3. UsersGrow
  <2>1. CASE user' = user
    BY <2>1, Parts DEF UsersGrow
  <2>2. CASE user' = [user EXCEPT ![u] = [user[u] EXCEPT !.walletOnly = TRUE]]
    <3> DEFINE v == [user[u] EXCEPT !.walletOnly = TRUE]
    <3>1. v \in UserType /\ v.made = user[u].made /\ v.for = user[u].for /\ v.on = user[u].on
      BY <1>1 DEF UserType
    <3>2. user' = [user EXCEPT ![u] = v]
      BY <2>2
    <3> HIDE DEF v
    <3> QED
      BY <3>1, <3>2, UserField
  <2> QED
    BY <1>2, <2>1, <2>2
<1>4. PICK t \in Nat, w \in BOOLEAN : t = user[u].tok /\ w = ~sub
  BY <1>1 DEF UserType
<1> DEFINE d == [NoCall EXCEPT !.op = "associate", !.at = "insert", !.u = u, !.tok = t,
                               !.wallet = w]
<1>5. d \in CallType
  <2>1. u \in 0..MaxUsers
    BY DEF Users
  <2> QED
    BY <2>1, NoCallFits DEF CallType, CallOps, AllOps, Steps, Held
<1>6. d.op = "associate" /\ d.at = "insert" /\ d.u = u
  BY DEF NoCall
<1>7. call' = [call EXCEPT ![h] = d]
  BY <1>4 DEF Associate
<1> HIDE DEF d
<1>8. StepsFit(d) /\ Relies(d, org', user', faults')
  BY <1>0, <1>6 DEF StepsFit, Relies, Making
<1>9. \E g \in Handlers, e \in CallType : CallStep(g, e)
  BY <1>5, <1>7, <1>8 DEF CallStep
<1> QED
  BY <1>0, <1>3, <1>9, UserKeeps

\* What the requests to the gateway do to an existing user; only a disabled
\* user needs a reason.
LEMMA UserWritten ==
  ASSUME ProvInv, NEW u \in Users, faults' >= faults, faults' \in Nat,
         \/ user' = user
         \/ user' = [user EXCEPT ![u].tok = @ + 1]
         \/ user' = [user EXCEPT ![u].grouped = TRUE]
         \/ \E q \in {"zero", "paid"} : user' = ManageUserQuota(u, q)
         \/ \E w \in BOOLEAN : user' = [user EXCEPT ![u].walletOnly = w]
         \/ /\ \E b \in BOOLEAN : user' = [user EXCEPT ![u].on = b]
            /\ u > Foreign \/ Taken(u) \/ faults' >= 2
  PROVE  UsersGrow
<1>0. user[u] \in UserType /\ user \in [Users -> UserType]
  BY Parts
<1>1. ASSUME NEW v \in UserType, user' = [user EXCEPT ![u] = v],
             v.made = user[u].made /\ v.for = user[u].for,
             v.on = user[u].on \/ u > Foreign \/ Taken(u) \/ faults' >= 2
      PROVE  UsersGrow
  BY <1>1, UserField
<1>2. CASE user' = user
  BY <1>0, <1>2 DEF UsersGrow
<1>3. CASE user' = [user EXCEPT ![u].tok = @ + 1]
  <2>1. PICK t \in Nat : t = user[u].tok + 1
    BY <1>0 DEF UserType
  <2> DEFINE v == [user[u] EXCEPT !.tok = t]
  <2>2. v \in UserType /\ v.made = user[u].made /\ v.for = user[u].for /\ v.on = user[u].on
    BY <1>0 DEF UserType
  <2>3. user' = [user EXCEPT ![u] = v]
    BY <1>3, <2>1
  <2> HIDE DEF v
  <2> QED
    BY <1>1, <2>2, <2>3
<1>4. CASE user' = [user EXCEPT ![u].grouped = TRUE]
  <2> DEFINE v == [user[u] EXCEPT !.grouped = TRUE]
  <2>2. v \in UserType /\ v.made = user[u].made /\ v.for = user[u].for /\ v.on = user[u].on
    BY <1>0 DEF UserType
  <2>3. user' = [user EXCEPT ![u] = v]
    BY <1>4
  <2> HIDE DEF v
  <2> QED
    BY <1>1, <2>2, <2>3
<1>5. ASSUME NEW q \in {"zero", "paid"}, user' = ManageUserQuota(u, q)
      PROVE  UsersGrow
  <2> DEFINE v == [user[u] EXCEPT !.quota = q]
  <2>2. v \in UserType /\ v.made = user[u].made /\ v.for = user[u].for /\ v.on = user[u].on
    BY <1>0 DEF UserType
  <2>3. user' = [user EXCEPT ![u] = v]
    BY <1>5 DEF ManageUserQuota
  <2> HIDE DEF v
  <2> QED
    BY <1>1, <2>2, <2>3
<1>6. ASSUME NEW w \in BOOLEAN, user' = [user EXCEPT ![u].walletOnly = w]
      PROVE  UsersGrow
  <2> DEFINE v == [user[u] EXCEPT !.walletOnly = w]
  <2>2. v \in UserType /\ v.made = user[u].made /\ v.for = user[u].for /\ v.on = user[u].on
    BY <1>0 DEF UserType
  <2>3. user' = [user EXCEPT ![u] = v]
    BY <1>6
  <2> HIDE DEF v
  <2> QED
    BY <1>1, <2>2, <2>3
<1>7. ASSUME NEW b \in BOOLEAN, user' = [user EXCEPT ![u].on = b],
             u > Foreign \/ Taken(u) \/ faults' >= 2
      PROVE  UsersGrow
  <2> DEFINE v == [user[u] EXCEPT !.on = b]
  <2>2. v \in UserType /\ v.made = user[u].made /\ v.for = user[u].for
    BY <1>0 DEF UserType
  <2>3. user' = [user EXCEPT ![u] = v]
    BY <1>7
  <2> HIDE DEF v
  <2> QED
    BY <1>1, <1>7, <2>2, <2>3
<1> QED
  BY <1>2, <1>3, <1>4, <1>5, <1>6, <1>7

\* SetUserGroup, OverrideZero, ensureWalletOnly.
LEMMA SettingsKeep ==
  ASSUME ProvInv, NEW h \in Handlers,
         SetUserGroup(h) \/ OverrideZero(h) \/ ensureWalletOnly(h)
  PROVE  ProvInv'
<1>0. /\ UNCHANGED org /\ faults' \in 0..MaxFaults /\ turns' \in 0..MaxTurns
      /\ faults' >= faults /\ faults' \in Nat
      /\ call[h].at \in {"group", "zero", "first", "wallet"}
  BY Bounded DEF SetUserGroup, OverrideZero, ensureWalletOnly, At
<1>1. /\ StepsFit(call[h]) /\ call[h] \in CallType /\ call[h].u \in Users
  BY <1>0, Parts DEF StepsFit
<1>2. PICK u \in Users : u = call[h].u
  BY <1>1
<1>3. \/ user' = user
      \/ user' = [user EXCEPT ![u].grouped = TRUE]
      \/ \E q \in {"zero", "paid"} : user' = ManageUserQuota(u, q)
      \/ \E w \in BOOLEAN : user' = [user EXCEPT ![u].walletOnly = w]
  BY <1>2 DEF SetUserGroup, OverrideZero, ensureWalletOnly, SetBillingPreference
<1>4. \E g \in Handlers, d \in CallType : CallStep(g, d)
  <2>1. CASE ensureWalletOnly(h)
    BY <2>1, EndStep DEF ensureWalletOnly
  <2>2. CASE SetUserGroup(h)
    <3>1. Goto(h, "zero") /\ call[h].at = "group"
      BY <2>2 DEF SetUserGroup, At
    <3> QED
      <4>1. ASSUME NEW d \in CallType, d.at = "zero", d.op = call[h].op, d.o = call[h].o, d.u = call[h].u,
                  d.name = call[h].name
           PROVE  StepsFit(d) /\ Relies(d, org', user', faults')
        BY <1>1, <3>1, <4>1 DEF StepsFit, Relies, Making
      <4>2. "zero" \in Steps
        BY DEF Steps, Held
      <4> QED
        BY <1>1, <3>1, <4>1, <4>2, GotoStep
  <2>3. CASE OverrideZero(h)
    <3>1. Goto(h, "first") /\ call[h].at = "zero"
      BY <2>3 DEF OverrideZero, At
    <3> QED
      <4>1. ASSUME NEW d \in CallType, d.at = "first", d.op = call[h].op, d.o = call[h].o, d.u = call[h].u,
                  d.name = call[h].name
           PROVE  StepsFit(d) /\ Relies(d, org', user', faults')
        BY <1>1, <3>1, <4>1 DEF StepsFit, Relies, Making
      <4>2. "first" \in Steps
        BY DEF Steps, Held
      <4> QED
        BY <1>1, <3>1, <4>1, <4>2, GotoStep
  <2> QED
    BY <2>1, <2>2, <2>3
<1>5. UsersGrow
  BY <1>0, <1>3, UserWritten
<1> QED
  BY <1>0, <1>4, <1>5, UserKeeps

\* SetUserStatus: the user of a hard stop is bound.
LEMMA SwitchKeeps ==
  ASSUME ProvInv, NEW h \in Handlers, SetUserStatus(h)
  PROVE  ProvInv'
<1>0. /\ UNCHANGED org /\ faults' \in 0..MaxFaults /\ turns' \in 0..MaxTurns
      /\ faults' >= faults /\ faults' \in Nat /\ call[h].at = "switch"
  BY Bounded DEF SetUserStatus, At
<1>1. /\ StepsFit(call[h]) /\ call[h] \in CallType /\ Relies(call[h], org, user, faults)
  BY Parts
<1>2. PICK u \in Users, b \in BOOLEAN : u = call[h].u /\ b = ~call[h].stop
  BY <1>0, <1>1 DEF StepsFit, CallType
<1>3. Taken(u)
  BY <1>0, <1>1, <1>2 DEF Relies, Taken
<1>4. user' = user \/ user' = [user EXCEPT ![u].on = b]
  BY <1>2 DEF SetUserStatus
<1>5. \E g \in Handlers, d \in CallType : CallStep(g, d)
  <2>1. CASE End(h)
    BY <2>1, EndStep
  <2>2. CASE Goto(h, "status")
    <3>1. ASSUME NEW d \in CallType, d.at = "status", d.op = call[h].op, d.o = call[h].o, d.u = call[h].u,
                d.name = call[h].name
         PROVE  StepsFit(d) /\ Relies(d, org', user', faults')
      BY <1>0, <1>1, <2>2, <3>1 DEF StepsFit, Relies, Making
    <3>2. "status" \in Steps
      BY DEF Steps, Held
    <3> QED
      BY <1>0, <1>1, <2>2, <3>1, <3>2, GotoStep
  <2> QED
    BY <2>1, <2>2 DEF SetUserStatus
<1>6. UsersGrow
  BY <1>0, <1>3, <1>4, UserWritten
<1> QED
  BY <1>0, <1>5, <1>6, UserKeeps

\* Outside and Recharge.
LEMMA OutsideKeeps ==
  ASSUME ProvInv,
         (\E u \in Users : Outside(u)) \/ (\E o \in Orgs : Recharge(o))
  PROVE  ProvInv'
<1>0. /\ UNCHANGED <<org, call>> /\ faults' \in 0..MaxFaults /\ turns' \in 0..MaxTurns
      /\ faults' >= faults /\ faults' \in Nat
  BY Bounded, Parts DEF Outside, Recharge
<1>1. PICK u \in Users :
        \/ user' = [user EXCEPT ![u].tok = @ + 1]
        \/ \E q \in {"zero", "paid"} : user' = ManageUserQuota(u, q)
        \/ \E w \in BOOLEAN : user' = [user EXCEPT ![u].walletOnly = w]
  <2>1. CASE \E u \in Users : Outside(u)
    BY <2>1 DEF Outside
  <2>2. ASSUME NEW o \in Orgs, Recharge(o)
        PROVE  \E u \in Users : user' = ManageUserQuota(u, "paid")
    BY <2>2, BoundUser DEF Recharge, ManageUserQuota
  <2> QED
    BY <2>1, <2>2
<1>2. UsersGrow
  BY <1>0, <1>1, UserWritten
<1> QED
  BY <1>0, <1>2, UserKeeps

\* A call that takes a new token goes to the step that stores it.
LEMMA TokenStep ==
  ASSUME ProvInv, NEW h \in Handlers, NEW at \in Steps, NEW t \in Nat,
         call' = [call EXCEPT ![h].at = at, ![h].tok = t],
         \A d \in CallType :
           (/\ d.at = at /\ d.op = call[h].op /\ d.o = call[h].o /\ d.u = call[h].u
            /\ d.name = call[h].name)
             => StepsFit(d) /\ Relies(d, org', user', faults')
  PROVE  \E g \in Handlers, d \in CallType : CallStep(g, d)
<1> DEFINE d == [call[h] EXCEPT !.at = at, !.tok = t]
<1>1. d \in CallType /\ d.at = at /\ d.op = call[h].op /\ d.o = call[h].o /\ d.u = call[h].u
      /\ d.name = call[h].name
  BY Parts DEF CallType
<1>2. call' = [call EXCEPT ![h] = d]
  OBVIOUS
<1> HIDE DEF d
<1> QED
  BY <1>1, <1>2 DEF CallStep

\* Rows unchanged and users grown: a call may go on relying on what it did.
LEMMA GrownRelies ==
  ASSUME ProvInv, UNCHANGED org, UsersGrow, faults' >= faults, faults' \in Nat,
         NEW h \in Handlers
  PROVE  Grows /\ StepsFit(call[h]) /\ Relies(call[h], org', user', faults')
<1>1. Grows
  BY DEF Grows, UsersGrow
<1> QED
  BY <1>1, Parts, RelyKept

\* Login: the user was made for this organisation, or two requests have failed.
LEMMA LoginKeeps ==
  ASSUME ProvInv, NEW h \in Handlers, Login(h)
  PROVE  ProvInv'
<1>0. /\ UNCHANGED org /\ faults' \in 0..MaxFaults /\ turns' \in 0..MaxTurns
      /\ faults' >= faults /\ faults' \in Nat /\ faults \in Nat /\ call[h].at = "login"
  BY Bounded, Parts DEF Login, At
<1>1. /\ StepsFit(call[h]) /\ call[h] \in CallType /\ Relies(call[h], org, user, faults)
  BY Parts
<1>2. PICK u \in Users : u = call[h].u
  BY <1>0, <1>1 DEF StepsFit
<1>3. u > Foreign \/ faults' >= 2
  <2>1. CASE call[h].name = 0
    <3>1. user[u].for = call[h].o /\ call[h].o \in Orgs
      BY <1>0, <1>1, <1>2, <2>1 DEF Relies, StepsFit
    <3>2. u <= Foreign => user[u].for = 0
      BY Parts DEF UsersOK
    <3>3. 0 \notin Orgs /\ u \in Nat /\ Foreign \in Nat
      BY ProvisioningAssumption DEF Orgs, Users
    <3> QED
      BY <3>1, <3>2, <3>3
  <2>2. CASE call[h].name # 0
    BY <1>0, <1>1, <2>2 DEF Relies
  <2> QED
    BY <2>1, <2>2
<1>4. \/ user' = user
      \/ user' = [user EXCEPT ![u].tok = @ + 1]
      \/ \E b \in BOOLEAN : user' = [user EXCEPT ![u].on = b]
  BY <1>2 DEF Login, compensateDisable
<1>5. UsersGrow
  BY <1>0, <1>3, <1>4, UserWritten
<1>6. StepsFit(call[h]) /\ Relies(call[h], org', user', faults')
  BY <1>0, <1>5, GrownRelies
<1>7. \E g \in Handlers, d \in CallType : CallStep(g, d)
  <2>1. CASE End(h)
    BY <2>1, EndStep
  <2>2. CASE /\ call[h].name = 0
             /\ call' = [call EXCEPT ![h].at = "store", ![h].tok = user[u].tok + 1]
    <3>1. PICK t \in Nat : t = user[u].tok + 1
      BY Parts DEF UserType
    <3>2. call' = [call EXCEPT ![h].at = "store", ![h].tok = t]
      BY <2>2, <3>1
    <3>3. "store" \in Steps
      BY DEF Steps, Held
    <3>4. \A d \in CallType :
            (/\ d.at = "store" /\ d.op = call[h].op /\ d.o = call[h].o /\ d.u = call[h].u
             /\ d.name = call[h].name)
              => StepsFit(d) /\ Relies(d, org', user', faults')
      BY <1>0, <1>6, <2>2 DEF StepsFit, Relies, Making
    <3> QED
      BY <3>2, <3>3, <3>4, TokenStep
  <2> QED
    BY <1>2, <2>1, <2>2 DEF Login
<1> QED
  BY <1>0, <1>5, <1>7, UserKeeps

\* RefreshAccessToken.
LEMMA RefreshKeeps ==
  ASSUME ProvInv, NEW h \in Handlers, RefreshAccessToken(h)
  PROVE  ProvInv'
<1>0. /\ UNCHANGED org /\ faults' \in 0..MaxFaults /\ turns' \in 0..MaxTurns
      /\ faults' >= faults /\ faults' \in Nat /\ call[h].at = "relogin"
  BY Bounded DEF RefreshAccessToken, At
<1>1. /\ StepsFit(call[h]) /\ call[h] \in CallType
  BY Parts
<1>2. PICK u \in Users : u = call[h].u
  BY <1>0, <1>1 DEF StepsFit
<1>3. user' = user \/ user' = [user EXCEPT ![u].tok = @ + 1]
  BY <1>2 DEF RefreshAccessToken
<1>4. UsersGrow
  BY <1>0, <1>3, UserWritten
<1>5. \E g \in Handlers, d \in CallType : CallStep(g, d)
  <2>1. CASE End(h)
    BY <2>1, EndStep
  <2>2. CASE call' = [call EXCEPT ![h].at = "update", ![h].tok = user[u].tok + 1]
    <3>1. PICK t \in Nat : t = user[u].tok + 1
      BY Parts DEF UserType
    <3>2. call' = [call EXCEPT ![h].at = "update", ![h].tok = t]
      BY <2>2, <3>1
    <3>3. "update" \in Steps
      BY DEF Steps, Held
    <3>4. \A d \in CallType :
            (/\ d.at = "update" /\ d.op = call[h].op /\ d.o = call[h].o /\ d.u = call[h].u
             /\ d.name = call[h].name)
              => StepsFit(d) /\ Relies(d, org', user', faults')
      BY <1>0, <1>1 DEF StepsFit, Relies, Making
    <3> QED
      BY <3>2, <3>3, <3>4, TokenStep
  <2> QED
    BY <1>2, <2>1, <2>2 DEF RefreshAccessToken
<1> QED
  BY <1>0, <1>4, <1>5, UserKeeps

\* The call goes to look up the user it made or took over.
LEMMA LocateStep ==
  ASSUME ProvInv, NEW h \in Handlers, call[h].at = "make", NEW u \in Users,
         call' = [call EXCEPT ![h].at = "locate", ![h].u = u],
         StepsFit(call[h]), Relies(call[h], org', user', faults'),
         IF call[h].name = 0 THEN user'[u].made /\ user'[u].for = call[h].o ELSE faults' >= 2
  PROVE  \E g \in Handlers, d \in CallType : CallStep(g, d)
<1> DEFINE d == [call[h] EXCEPT !.at = "locate", !.u = u]
<1>1. d \in CallType
  <2>1. u \in 0..MaxUsers
    BY DEF Users
  <2> QED
    BY ZenonT(60), <2>1, Parts DEF CallType, Steps, Held
<1>2. d.at = "locate" /\ d.op = call[h].op /\ d.o = call[h].o /\ d.u = u /\ d.name = call[h].name
  BY Parts DEF CallType
<1>3. call' = [call EXCEPT ![h] = d]
  OBVIOUS
<1> HIDE DEF d
<1>4. StepsFit(d) /\ Relies(d, org', user', faults')
  BY <1>2 DEF StepsFit, Relies, Making
<1> QED
  BY <1>1, <1>3, <1>4 DEF CallStep

\* CreateUser.
LEMMA CreateUserKeeps ==
  ASSUME ProvInv, NEW h \in Handlers, CreateUser(h)
  PROVE  ProvInv'
<1>0. /\ UNCHANGED org /\ faults' \in 0..MaxFaults /\ turns' \in 0..MaxTurns
      /\ faults' >= faults /\ faults' \in Nat /\ faults \in Nat /\ call[h].at = "make"
  <2>1. faults' \in {faults, faults + 1} \cap 0..MaxFaults => faults' >= faults
    BY Parts
  <2> QED
    BY <2>1, Bounded, Parts DEF CreateUser, At
<1>1. /\ StepsFit(call[h]) /\ call[h] \in CallType /\ Relies(call[h], org, user, faults)
  BY Parts
<1>2. ASSUME call[h].name = 0, NEW u \in NextUser, user' = Made(h, u),
             \/ call' = [call EXCEPT ![h].at = "locate", ![h].u = u]
             \/ Conflict(h) \/ End(h)
      PROVE  ProvInv'
  <2>1. u \in Users /\ ~user[u].made
    BY DEF NextUser
  <2>2. PICK o \in 0..MaxOrgs, b \in SUBSET {NodeOf[g] : g \in Handlers} :
          o = call[h].o /\ b = {NodeOf[h]}
    BY <1>1 DEF CallType
  <2> DEFINE v == [NoUser EXCEPT !.made = TRUE, !.for = o, !.by = b]
  <2>3. v \in UserType /\ v.made /\ v.for = o /\ v.on
    BY DEF UserType, NoUser
  <2>4. user' = [user EXCEPT ![u] = v]
    BY <1>2, <2>2 DEF Made
  <2> HIDE DEF v
  <2>5. UsersGrow
    BY <2>1, <2>3, <2>4, UserField
  <2>6. user'[u] = v
    BY <2>1, <2>4, Parts
  <2>7. StepsFit(call[h]) /\ Relies(call[h], org', user', faults') /\ Grows
    BY <1>0, <2>5, GrownRelies
  <2>8. \E g \in Handlers, d \in CallType : CallStep(g, d)
    <3>1. CASE call' = [call EXCEPT ![h].at = "locate", ![h].u = u]
      BY <1>0, <1>2, <2>1, <2>2, <2>3, <2>6, <2>7, <3>1, LocateStep
    <3>2. CASE Conflict(h)
      BY <1>0, <2>7, <3>2, ConflictStep
    <3>3. CASE End(h)
      BY <3>3, EndStep
    <3> QED
      BY <1>2, <3>1, <3>2, <3>3
  <2> QED
    BY <1>0, <2>5, <2>8, UserKeeps
<1>3. ASSUME user' = user,
             \/ /\ Fault /\ call[h].name # 0
                /\ call' = [call EXCEPT ![h].at = "locate", ![h].u = call[h].name]
             \/ Conflict(h) \/ End(h)
      PROVE  ProvInv'
  <2>1. UsersGrow
    BY <1>3, Parts DEF UsersGrow
  <2>2. StepsFit(call[h]) /\ Relies(call[h], org', user', faults') /\ Grows
    BY <1>0, <2>1, GrownRelies
  <2>3. \E g \in Handlers, d \in CallType : CallStep(g, d)
    <3>1. CASE /\ Fault /\ call[h].name # 0
               /\ call' = [call EXCEPT ![h].at = "locate", ![h].u = call[h].name]
      <4>1. PICK u \in Users : u = call[h].name
        BY <1>1, <3>1, ProvisioningAssumption DEF CallType, Users
      <4>2. faults' >= 2
        BY <1>0, <1>1, <3>1 DEF Relies, Fault
      <4>3. call' = [call EXCEPT ![h].at = "locate", ![h].u = u]
        BY <3>1, <4>1
      <4> QED
        BY <1>0, <2>2, <3>1, <4>2, <4>3, LocateStep
    <3>2. CASE Conflict(h)
      BY <1>0, <2>2, <3>2, ConflictStep
    <3>3. CASE End(h)
      BY <3>3, EndStep
    <3> QED
      BY <1>3, <3>1, <3>2, <3>3
  <2> QED
    BY <1>0, <2>1, <2>3, UserKeeps
<1> QED
  BY <1>2, <1>3, Zenon DEF CreateUser, Occupied

-----------------------------------------------------------------------------
(* Steps that write rows.                                                  *)

\* Rows written, users not.
LEMMA OrgKeeps ==
  ASSUME ProvInv, UNCHANGED user, Grows, org' \in [Orgs -> OrgType], OrgsOK',
         faults' \in 0..MaxFaults, turns' \in 0..MaxTurns, faults' >= faults,
         UNCHANGED call \/ \E h \in Handlers, d \in CallType : CallStep(h, d)
  PROVE  ProvInv'
<1>0. faults \in Nat /\ faults' \in Nat
  BY Parts
<1>1. CallsOK' /\ call' \in [Handlers -> CallType]
  BY <1>0, CallsKept
<1>2. TypeOK'
  BY <1>1, Parts DEF TypeOK, OrgType, UserType, CallType
<1>3. UsersOK'
  <2>1. ASSUME NEW u \in Users, u <= Foreign
        PROVE  user'[u].made /\ user'[u].for = 0 /\ (user'[u].on \/ Taken(u)' \/ faults' >= 2)
    <3>1. user[u].made /\ user[u].for = 0 /\ (user[u].on \/ Taken(u) \/ faults >= 2)
      BY <2>1, Parts DEF UsersOK
    <3>2. Taken(u) => Taken(u)'
      BY TakenKept
    <3> QED
      BY <1>0, <2>1, <3>1, <3>2
  <2> QED
    BY <2>1 DEF UsersOK
<1> QED
  BY <1>1, <1>2, <1>3 DEF ProvInv

\* One row is written, and neither its door nor its user.
LEMMA RowKeeps ==
  ASSUME ProvInv, UNCHANGED user, NEW o \in Orgs, NEW r \in OrgType,
         org' = [org EXCEPT ![o] = r], r.uid = org[o].uid,
         org[o].made => r.made /\ r.platform = org[o].platform /\ r.pw = org[o].pw,
         faults' \in 0..MaxFaults, turns' \in 0..MaxTurns, faults' >= faults,
         UNCHANGED call \/ \E h \in Handlers, d \in CallType : CallStep(h, d)
  PROVE  ProvInv'
<1>1. /\ org' \in [Orgs -> OrgType] /\ org'[o] = r /\ org \in [Orgs -> OrgType]
      /\ \A p \in Orgs : p # o => org'[p] = org[p]
  BY Parts
<1>2. org[o].uid # 0 => org[o].made
  BY Parts DEF OrgsOK
<1>3. \A p \in Orgs : /\ org'[p].uid = org[p].uid
                      /\ org[p].made => /\ org'[p].made /\ org'[p].platform = org[p].platform
                                        /\ org'[p].pw = org[p].pw
  BY <1>1
<1>4. Grows
  BY <1>1, <1>2, <1>3 DEF Grows
<1>5. OrgsOK'
  <2>1. OrgsOK
    BY Parts
  <2>2. \A p \in Orgs : org'[p].uid # 0 =>
          /\ org'[p].made /\ user[org'[p].uid].made
          /\ IF org'[p].platform THEN user[org'[p].uid].for = p /\ org'[p].pw
                                 ELSE org'[p].uid <= Foreign /\ ~org'[p].pw
    BY <1>3, <2>1 DEF OrgsOK
  <2>3. \A p, q \in Orgs : (org'[p].uid = org'[q].uid /\ org'[p].uid # 0) => p = q
    BY <1>3, <2>1 DEF OrgsOK
  <2> QED
    BY <2>2, <2>3 DEF OrgsOK
<1> QED
  BY <1>1, <1>4, <1>5, OrgKeeps

\* Insert: the new row has no user, and a door that the call knows.
LEMMA InsertKeeps ==
  ASSUME ProvInv, NEW h \in Handlers, Insert(h)
  PROVE  ProvInv'
<1>0. /\ UNCHANGED user /\ faults' \in 0..MaxFaults /\ turns' \in 0..MaxTurns
      /\ faults' >= faults /\ call[h].at = "insert"
  BY Bounded DEF Insert, At
<1>1. /\ StepsFit(call[h]) /\ call[h] \in CallType
  BY Parts
<1>2. ASSUME NEW o \in NextOrg,
             org' = [org EXCEPT ![o] = [NoOrg EXCEPT !.made = TRUE,
                       !.platform = call[h].op = "create", !.wallet = call[h].wallet]],
             call' = [call EXCEPT ![h].at = "admin", ![h].o = o]
      PROVE  ProvInv'
  <2>1. o \in Orgs /\ ~org[o].made /\ o \in 0..MaxOrgs
    BY DEF NextOrg, Orgs
  <2>2. org[o].uid = 0
    BY <2>1, Parts DEF OrgsOK
  <2>3. PICK p \in BOOLEAN, w \in BOOLEAN : p = (call[h].op = "create") /\ w = call[h].wallet
    BY <1>1 DEF CallType
  <2> DEFINE r == [NoOrg EXCEPT !.made = TRUE, !.platform = p, !.wallet = w]
  <2>4. r \in OrgType /\ r.uid = 0 /\ r.made /\ r.platform = p
    <3>1. 0 \in 0..MaxUsers
      BY ProvisioningAssumption
    <3> QED
      BY <3>1 DEF NoOrg, OrgType
  <2>5. org' = [org EXCEPT ![o] = r]
    BY <1>2, <2>3
  <2> DEFINE d == [call[h] EXCEPT !.at = "admin", !.o = o]
  <2>6. d \in CallType
    BY <1>1, <2>1 DEF CallType, Steps, Held
  <2>7. d.at = "admin" /\ d.o = o /\ d.op = call[h].op /\ d.u = call[h].u
    BY <1>1 DEF CallType
  <2>8. call' = [call EXCEPT ![h] = d]
    BY <1>2
  <2> HIDE DEF d, r
  <2>9. org'[o] = r
    BY <2>1, <2>5, Parts
  <2>10. StepsFit(d) /\ Relies(d, org', user', faults')
    BY <1>0, <1>1, <2>1, <2>3, <2>4, <2>7, <2>9 DEF StepsFit, Relies, Making
  <2>11. \E g \in Handlers, e \in CallType : CallStep(g, e)
    BY <2>6, <2>8, <2>10 DEF CallStep
  <2> QED
    BY <1>0, <2>1, <2>2, <2>4, <2>5, <2>11, RowKeeps
<1>3. ASSUME End(h), org' = org
      PROVE  ProvInv'
  <2>1. UsersGrow
    BY <1>0, Parts DEF UsersGrow
  <2> QED
    BY <1>0, <1>3, <2>1, EndStep, UserKeeps
<1> QED
  BY <1>2, <1>3, Zenon DEF Insert

\* Archive, Update, SetStatus: one field of the row, and the call ends.
LEMMA FieldsKeep ==
  ASSUME ProvInv, NEW h \in Handlers, Archive(h) \/ Update(h) \/ SetStatus(h)
  PROVE  ProvInv'
<1>0. /\ UNCHANGED user /\ faults' \in 0..MaxFaults /\ turns' \in 0..MaxTurns
      /\ faults' >= faults /\ call[h].at \in {"archive", "update", "status"} /\ End(h)
  BY Bounded DEF Archive, Update, SetStatus, At
<1>1. /\ StepsFit(call[h]) /\ call[h] \in CallType
  BY Parts
<1>2. PICK o \in Orgs, t \in Nat, b \in BOOLEAN :
             o = call[h].o /\ t = call[h].tok /\ b = call[h].stop
  BY <1>0, <1>1 DEF StepsFit, CallType
<1>3. org[o] \in OrgType
  BY Parts
<1>4. \E g \in Handlers, d \in CallType : CallStep(g, d)
  BY <1>0, EndStep
<1>5. ASSUME NEW r \in OrgType, org' = [org EXCEPT ![o] = r], r.uid = org[o].uid,
             r.made = org[o].made, r.platform = org[o].platform, r.pw = org[o].pw
      PROVE  ProvInv'
  BY <1>0, <1>4, <1>5, RowKeeps
<1>6. CASE org' = org
  <2>1. UsersGrow
    BY <1>0, Parts DEF UsersGrow
  <2> QED
    BY <1>0, <1>4, <1>6, <2>1, UserKeeps
<1>7. CASE org' = [org EXCEPT ![o].archived = TRUE]
  <2> DEFINE r == [org[o] EXCEPT !.archived = TRUE]
  <2>1. /\ r \in OrgType /\ r.uid = org[o].uid /\ r.made = org[o].made
        /\ r.platform = org[o].platform /\ r.pw = org[o].pw
    BY <1>3 DEF OrgType
  <2>2. org' = [org EXCEPT ![o] = r]
    BY <1>7
  <2> HIDE DEF r
  <2> QED
    BY <1>5, <2>1, <2>2
<1>8. CASE org' = [org EXCEPT ![o].tok = t]
  <2> DEFINE r == [org[o] EXCEPT !.tok = t]
  <2>1. /\ r \in OrgType /\ r.uid = org[o].uid /\ r.made = org[o].made
        /\ r.platform = org[o].platform /\ r.pw = org[o].pw
    BY <1>3 DEF OrgType
  <2>2. org' = [org EXCEPT ![o] = r]
    BY <1>8
  <2> HIDE DEF r
  <2> QED
    BY <1>5, <2>1, <2>2
<1>9. CASE org' = [org EXCEPT ![o].stopped = b]
  <2> DEFINE r == [org[o] EXCEPT !.stopped = b]
  <2>1. /\ r \in OrgType /\ r.uid = org[o].uid /\ r.made = org[o].made
        /\ r.platform = org[o].platform /\ r.pw = org[o].pw
    BY <1>3 DEF OrgType
  <2>2. org' = [org EXCEPT ![o] = r]
    BY <1>9
  <2> HIDE DEF r
  <2> QED
    BY <1>5, <2>1, <2>2
<1> QED
  BY <1>2, <1>6, <1>7, <1>8, <1>9
     DEF Archive, Update, SetStatus, UpdateOrgAccessToken, UpdateOrgStatus

\* A row without a user is bound to a user that no row has, through its door.
LEMMA BindKeeps ==
  ASSUME ProvInv, UNCHANGED user, NEW o \in Orgs, NEW u \in Users, NEW t \in Nat,
         NEW b \in BOOLEAN,
         Binds(o, u), SetOrgNewapiUser(o, u, t, b), org[o].made, user[u].made,
         IF org[o].platform THEN user[u].for = o /\ b ELSE u <= Foreign /\ ~b,
         faults' \in 0..MaxFaults, turns' \in 0..MaxTurns, faults' >= faults,
         \E h \in Handlers, d \in CallType : CallStep(h, d)
  PROVE  ProvInv'
<1> DEFINE r == [org[o] EXCEPT !.uid = u, !.tok = t, !.pw = b]
<1>1. org[o] \in OrgType /\ org \in [Orgs -> OrgType] /\ u \in 0..MaxUsers /\ u # 0
  BY Parts DEF Users
<1>2. /\ r \in OrgType /\ r.uid = u /\ r.made = org[o].made /\ r.platform = org[o].platform
      /\ r.pw = b
  BY <1>1 DEF OrgType
<1>3. org' = [org EXCEPT ![o] = r]
  BY DEF SetOrgNewapiUser
<1> HIDE DEF r
<1>4. /\ org' \in [Orgs -> OrgType] /\ org'[o] = r
      /\ \A p \in Orgs : p # o => org'[p] = org[p]
  BY <1>1, <1>2, <1>3
<1>5. org[o].uid = 0 /\ \A p \in Orgs : org[p].uid # u
  BY DEF Binds, Taken
<1>6. Grows
  BY <1>2, <1>4, <1>5 DEF Grows
<1>7. OrgsOK'
  <2>1. OrgsOK
    BY Parts
  <2>2. \A p \in Orgs : org'[p].uid # 0 =>
          /\ org'[p].made /\ user[org'[p].uid].made
          /\ IF org'[p].platform THEN user[org'[p].uid].for = p /\ org'[p].pw
                                 ELSE org'[p].uid <= Foreign /\ ~org'[p].pw
    BY <1>2, <1>4, <2>1 DEF OrgsOK
  <2>3. \A p, q \in Orgs : (org'[p].uid = org'[q].uid /\ org'[p].uid # 0) => p = q
    BY <1>2, <1>4, <1>5, <2>1 DEF OrgsOK
  <2> QED
    BY <2>2, <2>3 DEF OrgsOK
<1> QED
  BY <1>4, <1>6, <1>7, OrgKeeps

\* Bind: door B, a user of the customer's and no password.
LEMMA DoorB ==
  ASSUME ProvInv, NEW h \in Handlers, Bind(h)
  PROVE  ProvInv'
<1>0. /\ UNCHANGED user /\ faults' \in 0..MaxFaults /\ turns' \in 0..MaxTurns
      /\ faults' >= faults /\ call[h].at = "bind"
  BY Bounded DEF Bind, At
<1>1. /\ StepsFit(call[h]) /\ call[h] \in CallType /\ Relies(call[h], org, user, faults)
  BY Parts
<1>2. PICK o \in Orgs, u \in Users, t \in Nat :
             o = call[h].o /\ u = call[h].u /\ t = call[h].tok /\ u <= Foreign
  <2>1. call[h].u \in 1..Foreign /\ call[h].o \in Orgs /\ call[h].tok \in Nat
    BY <1>0, <1>1 DEF StepsFit, CallType
  <2>2. 1..Foreign \subseteq Users
    BY ProvisioningAssumption DEF Users
  <2> QED
    BY <2>1, <2>2
<1>3. CASE Binds(o, u) /\ SetOrgNewapiUser(o, u, t, FALSE) /\ End(h)
  <2>1. org[o].made /\ ~org[o].platform
    BY <1>0, <1>1, <1>2 DEF Relies, StepsFit
  <2>2. user[u].made
    BY <1>2, Parts DEF UsersOK
  <2>3. \E g \in Handlers, d \in CallType : CallStep(g, d)
    BY <1>3, EndStep
  <2> QED
    BY <1>0, <1>2, <1>3, <2>1, <2>2, <2>3, BindKeeps
<1>4. CASE org' = org /\ Goto(h, "archive")
  <2>1. UsersGrow
    BY <1>0, Parts DEF UsersGrow
  <2>2. \E g \in Handlers, d \in CallType : CallStep(g, d)
    <3>1. ASSUME NEW d \in CallType, d.at = "archive", d.op = call[h].op, d.o = call[h].o, d.u = call[h].u,
                d.name = call[h].name
         PROVE  StepsFit(d) /\ Relies(d, org', user', faults')
      BY <1>0, <1>1, <1>4, <3>1 DEF StepsFit, Relies, Making
    <3>2. "archive" \in Steps
      BY DEF Steps, Held
    <3> QED
      BY <1>0, <1>1, <1>4, <3>1, <3>2, GotoStep
  <2> QED
    BY <1>0, <1>4, <2>1, <2>2, UserKeeps
<1> QED
  BY <1>2, <1>3, <1>4 DEF Bind

\* Store: door A, the user made for this organisation and its password.
LEMMA DoorA ==
  ASSUME ProvInv, NEW h \in Handlers, Store(h)
  PROVE  ProvInv'
<1>0. /\ UNCHANGED user /\ faults' \in 0..MaxFaults /\ turns' \in 0..MaxTurns
      /\ faults' >= faults /\ call[h].at = "store"
  BY Bounded DEF Store, At
<1>1. /\ StepsFit(call[h]) /\ call[h] \in CallType /\ Relies(call[h], org, user, faults)
  BY Parts
<1>2. PICK o \in Orgs, u \in Users, t \in Nat :
             o = call[h].o /\ u = call[h].u /\ t = call[h].tok
  BY <1>0, <1>1 DEF StepsFit, CallType
<1>3. CASE Binds(o, u) /\ SetOrgNewapiUser(o, u, t, TRUE) /\ Goto(h, "group")
  <2>1. org[o].made /\ org[o].platform /\ user[u].made /\ user[u].for = o
    BY <1>0, <1>1, <1>2 DEF Relies, StepsFit, Making
  <2>2. \E g \in Handlers, d \in CallType : CallStep(g, d)
    <3>1. ASSUME NEW d \in CallType, d.at = "group", d.op = call[h].op, d.o = call[h].o, d.u = call[h].u,
                d.name = call[h].name
         PROVE  StepsFit(d) /\ Relies(d, org', user', faults')
      BY <1>0, <1>1, <1>3, <3>1 DEF StepsFit, Relies, Making
    <3>2. "group" \in Steps
      BY DEF Steps, Held
    <3> QED
      BY <1>0, <1>1, <1>3, <3>1, <3>2, GotoStep
  <2> QED
    BY <1>0, <1>3, <2>1, <2>2, BindKeeps
<1>4. CASE org' = org /\ End(h)
  <2>1. UsersGrow
    BY <1>0, Parts DEF UsersGrow
  <2> QED
    BY <1>0, <1>4, <2>1, EndStep, UserKeeps
<1> QED
  BY <1>2, <1>3, <1>4 DEF Store

-----------------------------------------------------------------------------
(* The theorems.                                                           *)

\* The initial state: rows and calls are empty, the customers' users exist.
LEMMA InitHolds == ASSUME Init PROVE ProvInv
<1>0. Foreign \in Nat /\ MaxUsers \in Nat /\ MaxOrgs \in Nat /\ MaxFaults \in Nat
      /\ MaxTurns \in Nat
  BY ProvisioningAssumption
<1>1. NoOrg \in OrgType /\ NoOrg.uid = 0
  BY <1>0 DEF NoOrg, OrgType
<1>2. ASSUME NEW u \in Users
      PROVE  /\ user[u] \in UserType /\ user[u].made = (u <= Foreign)
             /\ user[u].for = 0 /\ user[u].on
  <2>1. PICK m \in BOOLEAN : m = (u <= Foreign)
    <3>1. (u <= Foreign) \in BOOLEAN
      BY <1>0 DEF Users
    <3> QED
      BY <3>1, Zenon
  <2>2. NoUser \in UserType
    <3>1. 0 \in 0..MaxOrgs
      BY <1>0
    <3> QED
      BY <3>1 DEF NoUser, UserType
  <2> DEFINE v == [NoUser EXCEPT !.made = m]
  <2>3. v \in UserType
    BY <2>2 DEF UserType
  <2>4. v.made = m /\ v.for = 0 /\ v.on
    BY DEF NoUser
  <2>5. user[u] = v
    BY <2>1 DEF Init
  <2> HIDE DEF v
  <2> QED
    BY <2>1, <2>3, <2>4, <2>5
<1>3. \A u \in Users : /\ user[u] \in UserType /\ user[u].made = (u <= Foreign)
                       /\ user[u].for = 0 /\ user[u].on
  BY <1>2
<1>4. user \in [Users -> UserType]
  BY <1>3 DEF Init
<1>5. org \in [Orgs -> OrgType] /\ \A o \in Orgs : org[o].uid = 0
  BY <1>1 DEF Init
<1>6. call \in [Handlers -> CallType] /\ CallsOK
  BY NoCallFits DEF Init, CallsOK
<1>7. TypeOK
  BY <1>0, <1>4, <1>5, <1>6 DEF TypeOK, Init, OrgType, UserType, CallType
<1>8. OrgsOK
  BY <1>5 DEF OrgsOK
<1>9. UsersOK
  BY <1>3 DEF UsersOK
<1> QED
  BY <1>6, <1>7, <1>8, <1>9 DEF ProvInv

\* Every step of the specification preserves the inductive invariant.
LEMMA StepHolds == ASSUME ProvInv, [Next]_vars PROVE ProvInv'
<1>1. ASSUME NEW h \in Handlers, Begin(h) PROVE ProvInv'
  <2>1. ASSUME NEW u \in Users, NEW sub \in BOOLEAN, Associate(h, u, sub) PROVE ProvInv'
    BY <2>1, AssociateKeeps
  <2>2. ASSUME NEW o \in Orgs, NEW stop \in BOOLEAN, HardStopOrg(h, o, stop) PROVE ProvInv'
    BY <2>2, BeginKeeps
  <2>3. ASSUME NEW o \in Orgs,
               EnsureOrgProvisioned(h, o) \/ withOrgCred(h, o) \/ ReassertWalletOnly(h, o)
        PROVE  ProvInv'
    BY <2>3, BeginKeeps
  <2>4. CASE CreateOrg(h)
    BY <2>4, CreateKeeps
  <2> QED
    BY <1>1, <2>1, <2>2, <2>3, <2>4, Zenon DEF Begin
<1>2. ASSUME NEW h \in Handlers, Step(h) PROVE ProvInv'
  BY <1>2, InsertKeeps, GoesOn, DoorB, FieldsKeep, NameKeeps, CreateUserKeeps, LoginKeeps, DoorA,
     SettingsKeep, FreshKeeps, RefreshKeeps, SwitchKeeps DEF Step
<1>3. CASE (\E u \in Users : Outside(u)) \/ (\E o \in Orgs : Recharge(o))
  BY <1>3, OutsideKeeps
<1>4. CASE UNCHANGED vars
  <2>1. UNCHANGED <<org, user, call, turns, faults>>
    BY <1>4 DEF vars
  <2>2. UsersGrow
    BY <2>1, Parts DEF UsersGrow
  <2>3. faults' \in 0..MaxFaults /\ turns' \in 0..MaxTurns /\ faults' >= faults
    BY <2>1, Parts
  <2> QED
    BY <2>1, <2>2, <2>3, UserKeeps
<1> QED
  BY <1>1, <1>2, <1>3, <1>4 DEF Next

\* Rows, users and calls keep their shape whatever interleaves and whatever
\* fails (service/member.go, service/org.go).
THEOREM ProvisioningTyped == Spec => []TypeOK
<1>1. Init => ProvInv
  BY InitHolds
<1>2. ProvInv /\ [Next]_vars => ProvInv'
  BY StepHolds
<1>3. ProvInv => TypeOK
  BY DEF ProvInv
<1> QED
  BY <1>1, <1>2, <1>3, PTL DEF Spec

\* Through whatever races of replicas, retries and lost answers, an organisation
\* is only ever bound to a user made for it or brought by the customer, none is
\* shared, and one failed request is never enough for the platform to disable a
\* user that is not its own (member.go:443-530, org.go:181-189).
THEOREM BindingsSafe == Spec => []BindingSafe
<1>1. Init => ProvInv
  BY InitHolds
<1>2. ProvInv /\ [Next]_vars => ProvInv'
  BY StepHolds
<1>3. ProvInv => BindingSafe
  <2> SUFFICES ASSUME ProvInv PROVE BindingSafe
    OBVIOUS
  <2>1. OrgsOK /\ UsersOK
    BY Parts
  <2>2. 1..Foreign \subseteq Users
    BY ProvisioningAssumption DEF Users
  <2>3. \A u \in 1..Foreign : user[u].on \/ Taken(u) \/ faults >= 2
    BY <2>1, <2>2, ProvisioningAssumption DEF UsersOK
  <2> QED
    BY <2>1, <2>3 DEF BindingSafe, OrgsOK
<1> QED
  BY <1>1, <1>2, <1>3, PTL DEF Spec

-----------------------------------------------------------------------------
(***************************************************************************)
(* How many users a process makes for an organisation.  A call that still  *)
(* looks for a name found no credential under the lock, so that everything *)
(* made so far is paid for by a fault; one that has made its user holds    *)
(* the lock until the user is bound, another process was first, or a       *)
(* request has failed.                                                     *)
(***************************************************************************)
Pool(us, n, o) == {u \in Users : us[u].for = o /\ n \in us[u].by}
Size(us, n, o) == Cardinality(Pool(us, n, o))

\* The call has made nothing yet, or has taken over a user of somebody else.
Prep(c) == c.at \in {"name", "make"} \/ (c.at \in {"locate", "login"} /\ c.name # 0)

\* The call has made a user that is not bound yet.
Pend(c) == c.at \in {"locate", "login", "store"} /\ c.name = 0

Excluded ==
  \A g, h \in Handlers :
    (/\ NodeOf[g] = NodeOf[h] /\ call[g].o = call[h].o
     /\ call[g].at \in Held /\ call[h].at \in Held) => g = h

NonePends(h, o) == \A g \in Handlers : NodeOf[g] = NodeOf[h] /\ call[g].o = o => ~Pend(call[g])

PoolInv ==
  /\ Excluded
  /\ \A h \in Handlers, o \in Orgs : Size(user, NodeOf[h], o) <= 1 + faults
  /\ \A h \in Handlers, o \in Orgs :
       org[o].uid = 0 /\ NonePends(h, o) => Size(user, NodeOf[h], o) <= faults
  /\ \A h \in Handlers : Prep(call[h]) => Size(user, NodeOf[h], call[h].o) <= faults

\* The number of users made is a number, and fewer users are no more.
LEMMA SizeNat == \A us, n, o : IsFiniteSet(Pool(us, n, o)) /\ Size(us, n, o) \in Nat
<1> SUFFICES ASSUME NEW us, NEW n, NEW o PROVE IsFiniteSet(Pool(us, n, o)) /\ Size(us, n, o) \in Nat
  OBVIOUS
<1>1. IsFiniteSet(Users)
  BY ProvisioningAssumption, FS_Interval DEF Users
<1>2. Pool(us, n, o) \subseteq Users
  BY DEF Pool
<1>3. IsFiniteSet(Pool(us, n, o))
  BY <1>1, <1>2, FS_Subset
<1> QED
  BY <1>3, FS_CardinalityType DEF Size

\* The users keep what they were made for and by whom.
SamePool == \A u \in Users : user'[u].for = user[u].for /\ user'[u].by = user[u].by

\* Then no pool changes its size.
LEMMA SameSize == ASSUME SamePool PROVE \A n, o : Size(user', n, o) = Size(user, n, o)
<1> SUFFICES ASSUME NEW n, NEW o PROVE Pool(user', n, o) = Pool(user, n, o)
  BY DEF Size
<1> QED
  BY DEF SamePool, Pool

\* How the call of h may go on, and what the step must then have done: a step
\* into the locked part takes the free lock; a name is only looked for when
\* there is no credential; a call gives up the user that it made when a request
\* failed or the organisation has one.
Onward(h, c, d) ==
  /\ d.at \in Held => (c.at \in Held /\ d.o = c.o) \/ Free(h, d.o)
  /\ Prep(d) => (Prep(c) /\ d.o = c.o) \/ (d.o \in Orgs /\ org[d.o].uid = 0 /\ Free(h, d.o))
  /\ Pend(c) => \/ Pend(d) /\ d.o = c.o
                \/ faults' = faults + 1
                \/ c.o \in Orgs /\ org'[c.o].uid # 0

\* The lock of the process is held by at most one call after the step.
LEMMA ExcludedKept ==
  ASSUME Excluded, NEW h \in Handlers, \A g \in Handlers : g # h => call'[g] = call[g],
         call'[h].at \in Held => (call[h].at \in Held /\ call'[h].o = call[h].o) \/ Free(h, call'[h].o)
  PROVE  Excluded'
<1>1. ASSUME NEW g \in Handlers, g # h, NodeOf[g] = NodeOf[h], call'[g].o = call'[h].o,
             call'[g].at \in Held, call'[h].at \in Held
      PROVE  FALSE
  BY <1>1 DEF Excluded, Free
<1> QED
  BY <1>1 DEF Excluded

\* A step of a call that makes no user.
LEMMA PoolKept ==
  ASSUME ProvInv, PoolInv, NEW h \in Handlers, \A g \in Handlers : g # h => call'[g] = call[g],
         SamePool, faults' \in {faults, faults + 1},
         \A o \in Orgs : org[o].uid # 0 => org'[o].uid # 0,
         Onward(h, call[h], call'[h])
  PROVE  PoolInv'
<1>0. faults \in Nat
  BY Parts
<1>1. Excluded'
  BY ExcludedKept DEF PoolInv, Onward
<1>2. \A n, o : Size(user', n, o) = Size(user, n, o) /\ Size(user, n, o) \in Nat
  BY SizeNat, SameSize
<1>3. ASSUME NEW g \in Handlers, NEW o \in Orgs, org'[o].uid = 0, NonePends(g, o)'
      PROVE  Size(user, NodeOf[g], o) <= faults'
  <2>1. CASE NonePends(g, o)
    BY <1>0, <1>2, <1>3, <2>1 DEF PoolInv
  <2>2. CASE ~NonePends(g, o)
    <3>1. PICK k \in Handlers : NodeOf[k] = NodeOf[g] /\ call[k].o = o /\ Pend(call[k])
      BY <2>2 DEF NonePends
    <3>2. k = h
      BY <1>3, <3>1 DEF NonePends, Pend
    <3>3. faults' = faults + 1
      BY <1>3, <3>1, <3>2 DEF Onward, NonePends, Pend
    <3> QED
      BY <1>0, <1>2, <3>3 DEF PoolInv
  <2> QED
    BY <2>1, <2>2
<1>4. ASSUME NEW g \in Handlers, Prep(call'[g]) PROVE Size(user, NodeOf[g], call'[g].o) <= faults'
  <2>1. CASE Prep(call[g]) /\ call'[g].o = call[g].o
    BY <1>0, <1>2, <2>1 DEF PoolInv
  <2>2. CASE ~(Prep(call[g]) /\ call'[g].o = call[g].o)
    <3>1. g = h
      BY <1>4, <2>2
    <3>2. call'[h].o \in Orgs /\ org[call'[h].o].uid = 0 /\ Free(h, call'[h].o)
      BY <1>4, <2>2, <3>1 DEF Onward
    <3>3. NonePends(h, call'[h].o)
      BY <3>2 DEF Free, NonePends, Pend, Held
    <3> QED
      BY <1>0, <1>2, <3>1, <3>2, <3>3 DEF PoolInv
  <2> QED
    BY <2>1, <2>2
<1>5. \A g \in Handlers, o \in Orgs : Size(user, NodeOf[g], o) <= 1 + faults'
  BY <1>0, <1>2 DEF PoolInv
<1> QED
  BY <1>1, <1>2, <1>3, <1>4, <1>5 DEF PoolInv, NonePends, Prep, Pend

\* A user u is made for h: the users of this process and organisation are one
\* more, and one call in the locked part knows of it, or a request has failed.
LEMMA PoolGrows ==
  ASSUME ProvInv, PoolInv, NEW h \in Handlers, \A g \in Handlers : g # h => call'[g] = call[g],
         call[h].at = "make", NEW u \in Users, UNCHANGED org,
         \A v \in Users : v # u => user'[v] = user[v],
         user'[u].for = call[h].o, user'[u].by = {NodeOf[h]},
         faults' \in {faults, faults + 1},
         call'[h].at \in Held => call'[h].o = call[h].o,
         \/ Pend(call'[h]) /\ ~Prep(call'[h]) /\ call'[h].o = call[h].o
         \/ faults' = faults + 1
  PROVE  PoolInv'
<1>0. faults \in Nat /\ call[h].o \in Orgs /\ call[h].at \in Held
  BY Parts DEF StepsFit, Held
<1>1. Excluded'
  BY <1>0, ExcludedKept DEF PoolInv
<1> DEFINE Ours(n, o) == n = NodeOf[h] /\ o = call[h].o
<1>2. ASSUME NEW n, NEW o
      PROVE  /\ Size(user, n, o) \in Nat /\ Size(user', n, o) \in Nat
             /\ Size(user', n, o) <= Size(user, n, o) + 1
             /\ ~Ours(n, o) => Size(user', n, o) <= Size(user, n, o)
  <2> DEFINE P == Pool(user, n, o)
             Q == Pool(user', n, o)
  <2>1. IsFiniteSet(P) /\ IsFiniteSet(Q) /\ Cardinality(P) \in Nat /\ Cardinality(Q) \in Nat
    BY SizeNat DEF Size
  <2>2. Q \subseteq P \cup {u}
    BY DEF Pool
  <2>3. ~Ours(n, o) => Q \subseteq P
    BY DEF Pool
  <2> HIDE DEF P, Q
  <2>4. /\ IsFiniteSet(P \cup {u})
        /\ Cardinality(P \cup {u}) = Cardinality(P) \/ Cardinality(P \cup {u}) = Cardinality(P) + 1
    BY <2>1, FS_AddElement
  <2>5. Cardinality(Q) <= Cardinality(P) + 1
    BY <2>1, <2>2, <2>4, FS_Subset
  <2>6. ~Ours(n, o) => Cardinality(Q) <= Cardinality(P)
    BY <2>1, <2>3, FS_Subset
  <2> QED
    BY <2>1, <2>5, <2>6 DEF Size, P, Q
<1>3. Size(user', NodeOf[h], call[h].o) <= faults + 1
  BY <1>0, <1>2 DEF PoolInv, Prep
<1>4. ASSUME NEW g \in Handlers, NEW o \in Orgs PROVE Size(user', NodeOf[g], o) <= 1 + faults'
  BY <1>0, <1>2, <1>3 DEF PoolInv
<1>5. ASSUME NEW g \in Handlers, NEW o \in Orgs, org[o].uid = 0, NonePends(g, o)'
      PROVE  Size(user', NodeOf[g], o) <= faults'
  <2>1. CASE Ours(NodeOf[g], o)
    <3>1. ~Pend(call'[h]) \/ call'[h].o # o
      BY <1>5, <2>1 DEF NonePends, Pend
    <3>2. faults' = faults + 1
      BY <2>1, <3>1
    <3> QED
      BY <1>3, <2>1, <3>2
  <2>2. CASE ~Ours(NodeOf[g], o)
    <3>1. NonePends(g, o)
      BY <1>5 DEF NonePends, Pend
    <3>2. Size(user, NodeOf[g], o) <= faults
      BY <1>5, <3>1 DEF PoolInv
    <3> QED
      BY <1>0, <1>2, <2>2, <3>2
  <2> QED
    BY <2>1, <2>2
<1>6. ASSUME NEW g \in Handlers, Prep(call'[g]) PROVE Size(user', NodeOf[g], call'[g].o) <= faults'
  <2>1. call'[g].at \in Held
    BY <1>6 DEF Prep, Held
  <2>2. call'[g].o = call[g].o
    BY <2>1
  <2>3. CASE g = h
    <3>1. faults' = faults + 1
      BY <1>6, <2>3
    <3> QED
      BY <1>3, <2>2, <2>3, <3>1
  <2>4. CASE g # h
    <3>1. ~Ours(NodeOf[g], call[g].o)
      BY <1>0, <2>1, <2>4 DEF PoolInv, Excluded
    <3>2. Size(user, NodeOf[g], call[g].o) <= faults
      BY <1>6, <2>4 DEF PoolInv
    <3> QED
      BY <1>0, <1>2, <2>2, <3>1, <3>2
  <2> QED
    BY <2>3, <2>4
<1> QED
  BY <1>1, <1>4, <1>5, <1>6 DEF PoolInv, NonePends, Prep, Pend

\* What the shared ways to move a call do to it.
LEMMA Moves ==
  ASSUME ProvInv, NEW h \in Handlers
  PROVE  /\ End(h) => call'[h] = NoCall /\ \A g \in Handlers : g # h => call'[g] = call[g]
         /\ \A at : Goto(h, at) =>
              /\ call'[h].at = at /\ call'[h].o = call[h].o /\ call'[h].name = call[h].name
              /\ \A g \in Handlers : g # h => call'[g] = call[g]
<1>1. call \in [Handlers -> CallType]
  BY Parts
<1>2. End(h) => call'[h] = NoCall /\ \A g \in Handlers : g # h => call'[g] = call[g]
  BY <1>1 DEF End
<1>3. ASSUME NEW at, Goto(h, at)
      PROVE  /\ call'[h].at = at /\ call'[h].o = call[h].o /\ call'[h].name = call[h].name
             /\ \A g \in Handlers : g # h => call'[g] = call[g]
  <2>1. call' = [call EXCEPT ![h] = [call[h] EXCEPT !.at = at]]
    BY <1>3 DEF Goto
  <2>2. call'[h] = [call[h] EXCEPT !.at = at] /\ \A g \in Handlers : g # h => call'[g] = call[g]
    BY <1>1, <2>1
  <2> QED
    BY <1>1, <2>2 DEF CallType
<1> QED
  BY <1>2, <1>3

\* A name in use: the call looks for another one, or ends.
LEMMA ConflictMoves ==
  ASSUME ProvInv, NEW h \in Handlers, Conflict(h)
  PROVE  /\ \A g \in Handlers : g # h => call'[g] = call[g]
         /\ \/ call'[h] = NoCall
            \/ call'[h].at = "name" /\ call'[h].o = call[h].o /\ call'[h].name = 0
<1>1. call \in [Handlers -> CallType]
  BY Parts
<1>2. CASE call[h].tries + 1 < maxUsernameAttempts
  <2>1. PICK n : n = call[h].tries + 1
    OBVIOUS
  <2> DEFINE d == [call[h] EXCEPT !.at = "name", !.tries = n, !.name = 0, !.u = 0]
  <2>2. call' = [call EXCEPT ![h] = d]
    BY <1>2, <2>1 DEF Conflict
  <2>3. d.at = "name" /\ d.o = call[h].o /\ d.name = 0
    BY <1>1 DEF CallType
  <2> HIDE DEF d
  <2> QED
    BY <1>1, <2>2, <2>3
<1>3. CASE ~(call[h].tries + 1 < maxUsernameAttempts)
  BY <1>3, Moves DEF Conflict
<1> QED
  BY <1>2, <1>3

\* No call, no user in the making.
LEMMA NoCallWaits ==
  /\ NoCall.at = "idle" /\ NoCall.at \notin Held /\ ~Prep(NoCall) /\ ~Pend(NoCall)
  BY DEF NoCall, Held, Prep, Pend

\* CreateUser.
LEMMA CreateUserPools ==
  ASSUME ProvInv, PoolInv, NEW h \in Handlers, CreateUser(h)
  PROVE  PoolInv'
<1>0. call[h].at = "make" /\ UNCHANGED org /\ faults \in Nat /\ Prep(call[h]) /\ ~Pend(call[h])
  BY Parts DEF CreateUser, At, Prep, Pend
<1>1. call \in [Handlers -> CallType] /\ user \in [Users -> UserType]
  BY Parts
<1>a. ASSUME NEW u, call' = [call EXCEPT ![h].at = "locate", ![h].u = u]
      PROVE  /\ call'[h].at = "locate" /\ call'[h].o = call[h].o /\ call'[h].name = call[h].name
             /\ \A g \in Handlers : g # h => call'[g] = call[g]
  <2> DEFINE d == [call[h] EXCEPT !.at = "locate", !.u = u]
  <2>1. call' = [call EXCEPT ![h] = d]
    BY <1>a
  <2>2. d.at = "locate" /\ d.o = call[h].o /\ d.name = call[h].name
    BY <1>1 DEF CallType
  <2> HIDE DEF d
  <2> QED
    BY <1>1, <2>1, <2>2
<1>2. ASSUME call[h].name = 0, NEW u \in NextUser, user' = Made(h, u),
             \/ /\ call' = [call EXCEPT ![h].at = "locate", ![h].u = u]
                /\ faults' \in {faults, faults + 1} \cap 0..MaxFaults
             \/ Conflict(h) /\ Fault
             \/ End(h) /\ Fault
      PROVE  PoolInv'
  <2>1. u \in Users
    BY DEF NextUser
  <2>2. PICK o, b : o = call[h].o /\ b = {NodeOf[h]}
    OBVIOUS
  <2> DEFINE v == [NoUser EXCEPT !.made = TRUE, !.for = o, !.by = b]
  <2>3. v.for = o /\ v.by = b
    BY DEF NoUser
  <2>4. user' = [user EXCEPT ![u] = v]
    BY <1>2, <2>2 DEF Made
  <2> HIDE DEF v
  <2>5. user'[u] = v /\ \A w \in Users : w # u => user'[w] = user[w]
    BY <1>1, <2>1, <2>4
  <2>6. user'[u].for = call[h].o /\ user'[u].by = {NodeOf[h]}
    BY <2>2, <2>3, <2>5
  <2>7. CASE call' = [call EXCEPT ![h].at = "locate", ![h].u = u]
             /\ faults' \in {faults, faults + 1}
    <3>1. /\ call'[h].at = "locate" /\ call'[h].o = call[h].o /\ call'[h].name = 0
          /\ \A g \in Handlers : g # h => call'[g] = call[g]
      BY <1>a, <1>2, <2>7
    <3>2. Pend(call'[h]) /\ ~Prep(call'[h])
      BY <3>1 DEF Pend, Prep
    <3> QED
      BY <1>0, <2>1, <2>5, <2>6, <2>7, <3>1, <3>2, PoolGrows
  <2>8. CASE (Conflict(h) \/ End(h)) /\ Fault
    <3>1. faults' = faults + 1
      BY <2>8 DEF Fault
    <3>2. /\ \A g \in Handlers : g # h => call'[g] = call[g]
          /\ call'[h].at \in Held => call'[h].o = call[h].o
      BY <2>8, ConflictMoves, Moves, NoCallWaits
    <3> QED
      BY <1>0, <2>1, <2>5, <2>6, <3>1, <3>2, PoolGrows
  <2> QED
    BY <1>2, <2>7, <2>8
<1>3. ASSUME user' = user, faults' \in {faults, faults + 1},
             \/ /\ call[h].name # 0
                /\ call' = [call EXCEPT ![h].at = "locate", ![h].u = call[h].name]
             \/ Conflict(h) \/ End(h)
      PROVE  PoolInv'
  <2>1. SamePool
    BY <1>3 DEF SamePool
  <2>2. /\ \A g \in Handlers : g # h => call'[g] = call[g]
        /\ call'[h].at \in Held => call'[h].o = call[h].o
        /\ Prep(call'[h]) => call'[h].o = call[h].o
    <3>1. CASE /\ call[h].name # 0
               /\ call' = [call EXCEPT ![h].at = "locate", ![h].u = call[h].name]
      BY <1>a, <3>1
    <3>2. CASE Conflict(h) \/ End(h)
      BY <3>2, ConflictMoves, Moves, NoCallWaits DEF Prep
    <3> QED
      BY <1>3, <3>1, <3>2
  <2>3. Onward(h, call[h], call'[h])
    BY <1>0, <2>2 DEF Onward, Held
  <2> QED
    BY <1>0, <1>3, <2>1, <2>2, <2>3, PoolKept
<1> QED
  BY <1>2, <1>3, Zenon DEF CreateUser, Occupied, Fault, NoFault

\* Tokens, switches, preferences, groups and quotas are not what a user was made
\* for.
LEMMA FieldSamePool ==
  ASSUME ProvInv, NEW u, NEW x,
         \/ user' = user
         \/ user' = [user EXCEPT ![u].tok = x] \/ user' = [user EXCEPT ![u].on = x]
         \/ user' = [user EXCEPT ![u].walletOnly = x] \/ user' = [user EXCEPT ![u].grouped = x]
         \/ user' = [user EXCEPT ![u].quota = x]
  PROVE  SamePool
<1>1. user \in [Users -> UserType]
  BY Parts
<1>2. CASE user' = user
  BY <1>2 DEF SamePool
<1>3. CASE user' = [user EXCEPT ![u].tok = x]
  BY <1>1, <1>3 DEF SamePool, UserType
<1>4. CASE user' = [user EXCEPT ![u].on = x]
  BY <1>1, <1>4 DEF SamePool, UserType
<1>5. CASE user' = [user EXCEPT ![u].walletOnly = x]
  BY <1>1, <1>5 DEF SamePool, UserType
<1>6. CASE user' = [user EXCEPT ![u].grouped = x]
  BY <1>1, <1>6 DEF SamePool, UserType
<1>7. CASE user' = [user EXCEPT ![u].quota = x]
  BY <1>1, <1>7 DEF SamePool, UserType
<1> QED
  BY <1>2, <1>3, <1>4, <1>5, <1>6, <1>7

\* A call that begins holds no lock and has made nothing.
LEMMA BeginPools ==
  ASSUME ProvInv, PoolInv, NEW h \in Handlers, Begin(h)
  PROVE  PoolInv'
<1>1. call \in [Handlers -> CallType] /\ call[h] = NoCall
  BY Parts DEF Begin, CreateOrg, Associate, EnsureOrgProvisioned, withOrgCred, ReassertWalletOnly,
     HardStopOrg, Idle
<1>2. UNCHANGED org /\ faults' \in {faults, faults + 1}
  BY DEF Begin, CreateOrg, Associate, EnsureOrgProvisioned, withOrgCred, ReassertWalletOnly,
     HardStopOrg, Fault, NoFault
<1>3. SamePool
  <2>1. ASSUME NEW u \in Users, NEW sub \in BOOLEAN, Associate(h, u, sub) PROVE SamePool
    <3>1. user' = user \/ user' = [user EXCEPT ![u].walletOnly = TRUE]
      BY <2>1 DEF Associate, SetBillingPreference
    <3> QED
      BY <3>1, FieldSamePool
  <2>2. (\E u \in Users, sub \in BOOLEAN : Associate(h, u, sub)) \/ user' = user
    BY DEF Begin, CreateOrg, EnsureOrgProvisioned, withOrgCred, ReassertWalletOnly, HardStopOrg
  <2> QED
    BY <2>1, <2>2, FieldSamePool
<1> DEFINE Begun == /\ call'[h].at \in {"insert", "lock", "wallet", "try", "switch"}
                    /\ \A g \in Handlers : g # h => call'[g] = call[g]
<1>4. Begun
  <2>1. CASE CreateOrg(h)
    BY <1>1, <2>1 DEF CreateOrg, NoCall
  <2>2. ASSUME NEW u \in Users, NEW sub \in BOOLEAN, Associate(h, u, sub)
        PROVE  Begun
    BY <1>1, <2>2 DEF Associate, NoCall
  <2>3. ASSUME NEW o \in Orgs, EnsureOrgProvisioned(h, o) \/ withOrgCred(h, o) \/ ReassertWalletOnly(h, o)
        PROVE  Begun
    <3>1. PICK d : /\ call' = [call EXCEPT ![h] = d]
                   /\ \/ \E at \in {"wallet", "lock"} : d = [orgCred(o) EXCEPT !.op = "ensure", !.at = at]
                      \/ d = [orgCred(o) EXCEPT !.op = "use", !.at = "try"]
                      \/ d = [orgCred(o) EXCEPT !.op = "reassert", !.at = "wallet"]
      BY <2>3, Zenon DEF EnsureOrgProvisioned, withOrgCred, ReassertWalletOnly
    <3>2. d.at \in {"lock", "wallet", "try"}
      BY <3>1 DEF orgCred, NoCall
    <3> QED
      BY <1>1, <3>1, <3>2
  <2>4. ASSUME NEW o \in Orgs, NEW stop \in BOOLEAN, HardStopOrg(h, o, stop)
        PROVE  Begun
    BY <1>1, <2>4 DEF HardStopOrg, NoCall
  <2> QED
    BY <2>1, <2>2, <2>3, <2>4, Zenon DEF Begin
<1>5. Onward(h, call[h], call'[h])
  BY <1>1, <1>4, NoCallWaits DEF Onward, Held, Prep
<1> QED
  BY <1>2, <1>3, <1>4, <1>5, PoolKept

\* The steps that hold no lock, or give it back: neither takes it nor looks for
\* a name, and what was made is bound or paid for.
LEMMA OutPools ==
  ASSUME ProvInv, PoolInv, NEW h \in Handlers, SamePool, faults' \in {faults, faults + 1},
         \A o \in Orgs : org[o].uid # 0 => org'[o].uid # 0,
         \/ End(h) \/ \E at \in Steps \ Held : Goto(h, at)
         \/ /\ \A g \in Handlers : g # h => call'[g] = call[g]
            /\ call'[h].at \notin Held,
         Pend(call[h]) => faults' = faults + 1 \/ (call[h].o \in Orgs /\ org'[call[h].o].uid # 0)
  PROVE  PoolInv'
<1>1. /\ \A g \in Handlers : g # h => call'[g] = call[g]
      /\ call'[h].at \notin Held
  BY Moves, NoCallWaits
<1>2. Onward(h, call[h], call'[h])
  BY <1>1 DEF Onward, Prep, Held
<1> QED
  BY <1>1, <1>2, PoolKept

\* The steps of CreateOrg, and of the hard stop.
LEMMA DoorBPools ==
  ASSUME ProvInv, PoolInv, NEW h \in Handlers,
         Insert(h) \/ Admin(h) \/ Bind(h) \/ Archive(h) \/ SetUserStatus(h) \/ SetStatus(h) \/ Try(h)
  PROVE  PoolInv'
<1>0. call \in [Handlers -> CallType] /\ org \in [Orgs -> OrgType] /\ StepsFit(call[h]) /\ OrgsOK
  BY Parts
<1>1. faults' \in {faults, faults + 1}
  BY DEF Insert, Admin, Bind, Archive, SetUserStatus, SetStatus, Try, Fault, NoFault
<1>2. SamePool
  <2>1. user' = user \/ \E u, x : user' = [user EXCEPT ![u].on = x]
    BY DEF Insert, Admin, Bind, Archive, SetUserStatus, SetStatus, Try
  <2> QED
    BY <2>1, FieldSamePool
<1>3. ~Pend(call[h])
  BY DEF Insert, Admin, Bind, Archive, SetUserStatus, SetStatus, Try, At, Pend
<1>4. \A o \in Orgs : org[o].uid # 0 => org'[o].uid # 0
  <2>1. CASE Insert(h)
    <3>1. org' = org \/ \E o \in NextOrg : \E x : org' = [org EXCEPT ![o] = x]
      BY <2>1 DEF Insert
    <3>2. \A o \in NextOrg : org[o].uid = 0
      BY <1>0 DEF NextOrg, OrgsOK
    <3> QED
      BY <1>0, <3>1, <3>2
  <2>2. CASE Bind(h)
    <3>1. org' = org \/ (Binds(call[h].o, call[h].u)
                         /\ SetOrgNewapiUser(call[h].o, call[h].u, call[h].tok, FALSE))
      BY <2>2 DEF Bind
    <3> QED
      BY <1>0, <3>1 DEF Binds, SetOrgNewapiUser, OrgType
  <2>3. CASE ~Insert(h) /\ ~Bind(h)
    <3>1. \/ org' = org \/ \E o : org' = [org EXCEPT ![o].archived = TRUE]
          \/ \E o, x : org' = [org EXCEPT ![o].stopped = x]
      BY <2>3 DEF Admin, Archive, SetUserStatus, SetStatus, Try, UpdateOrgStatus
    <3> QED
      BY <1>0, <3>1 DEF OrgType
  <2> QED
    BY <2>1, <2>2, <2>3
<1>5. \/ End(h) \/ \E at \in Steps \ Held : Goto(h, at)
      \/ /\ \A g \in Handlers : g # h => call'[g] = call[g]
         /\ call'[h].at \notin Held
  <2>1. CASE Insert(h)
    <3>1. End(h) \/ \E o : call' = [call EXCEPT ![h].at = "admin", ![h].o = o]
      BY <2>1 DEF Insert
    <3> QED
      BY <1>0, <3>1 DEF CallType, Held
  <2>2. CASE ~Insert(h)
    BY <2>2 DEF Admin, Bind, Archive, SetUserStatus, SetStatus, Try, Steps, Held
  <2> QED
    BY <2>1, <2>2
<1> QED
  BY <1>1, <1>2, <1>3, <1>4, <1>5, OutPools

\* Lock, and the name: a name is looked for when the lock was free and there is
\* no credential.
LEMMA NamePools ==
  ASSUME ProvInv, PoolInv, NEW h \in Handlers, Lock(h) \/ Name(h)
  PROVE  PoolInv'
<1>0. call \in [Handlers -> CallType] /\ StepsFit(call[h])
  BY Parts
<1>1. faults' \in {faults, faults + 1} /\ UNCHANGED org /\ user' = user
  BY DEF Lock, Name, Fault, NoFault
<1>2. SamePool
  BY <1>1 DEF SamePool
<1>3. CASE Lock(h)
  <2>1. /\ call[h].at = "lock" /\ Free(h, call[h].o) /\ call[h].o \in Orgs
        /\ End(h) \/ (org[call[h].o].uid = 0 /\ Goto(h, "name"))
    BY <1>0, <1>3 DEF Lock, At, AlreadyDone, GetOrgNewapiCred, StepsFit
  <2>2. /\ \A g \in Handlers : g # h => call'[g] = call[g]
        /\ \/ call'[h] = NoCall
           \/ org[call[h].o].uid = 0 /\ call'[h].o = call[h].o
    BY <2>1, Moves
  <2>3. Onward(h, call[h], call'[h])
    BY <2>1, <2>2, NoCallWaits DEF Onward, Pend
  <2> QED
    BY <1>1, <1>2, <2>2, <2>3, PoolKept
<1>4. CASE Name(h)
  <2>1. /\ call[h].at = "name"
        /\ \/ Goto(h, "make") \/ Conflict(h)
           \/ \E n : call' = [call EXCEPT ![h].at = "make", ![h].name = n]
    BY <1>4 DEF Name, At
  <2>2. /\ \A g \in Handlers : g # h => call'[g] = call[g]
        /\ call'[h] = NoCall \/ call'[h].o = call[h].o
    <3>1. CASE Goto(h, "make") \/ Conflict(h)
      BY <3>1, Moves, ConflictMoves
    <3>2. ASSUME NEW n, call' = [call EXCEPT ![h].at = "make", ![h].name = n]
          PROVE  /\ \A g \in Handlers : g # h => call'[g] = call[g]
                 /\ call'[h].o = call[h].o
      BY <1>0, <3>2 DEF CallType
    <3> QED
      BY <2>1, <3>1, <3>2
  <2>3. Onward(h, call[h], call'[h])
    BY <2>1, <2>2, NoCallWaits DEF Onward, Pend, Prep, Held
  <2> QED
    BY <1>1, <1>2, <2>2, <2>3, PoolKept
<1> QED
  BY <1>3, <1>4

\* Locate and Login: the call keeps the user that it made, or a request failed.
LEMMA LoginPools ==
  ASSUME ProvInv, PoolInv, NEW h \in Handlers, Locate(h) \/ Login(h)
  PROVE  PoolInv'
<1>0. call \in [Handlers -> CallType]
  BY Parts
<1>1. faults' \in {faults, faults + 1} /\ UNCHANGED org
  BY DEF Locate, Login, Fault, NoFault
<1>2. SamePool
  <2>1. user' = user \/ (\E u, x : user' = [user EXCEPT ![u].tok = x])
        \/ (\E u, x : user' = [user EXCEPT ![u].on = x])
    <3>1. CASE Locate(h)
      BY <3>1 DEF Locate
    <3>2. CASE Login(h)
      BY <3>2 DEF Login, compensateDisable
    <3> QED
      BY <3>1, <3>2
  <2> QED
    BY <2>1, FieldSamePool
<1>3. \/ End(h) /\ (Pend(call[h]) => faults' = faults + 1)
      \/ /\ call[h].at \in {"locate", "login"}
         /\ \A g \in Handlers : g # h => call'[g] = call[g]
         /\ call'[h].o = call[h].o /\ call'[h].name = call[h].name
         /\ call'[h].at = "login" \/ (call'[h].at = "store" /\ call[h].name = 0)
  <2>1. CASE Locate(h)
    <3>1. At(h, "locate") /\ (Goto(h, "login") \/ (End(h) /\ Fault))
      BY <2>1 DEF Locate
    <3> QED
      BY <3>1, Moves DEF Fault, At
  <2>2. CASE Login(h)
    <3>1. /\ At(h, "login")
          /\ \/ End(h) /\ (Pend(call[h]) => faults' = faults + 1)
             \/ /\ call[h].name = 0
                /\ \E x : call' = [call EXCEPT ![h].at = "store", ![h].tok = x]
      BY <2>2 DEF Login, Fault, Pend
    <3>2. ASSUME NEW x, call' = [call EXCEPT ![h].at = "store", ![h].tok = x]
          PROVE  /\ \A g \in Handlers : g # h => call'[g] = call[g]
                 /\ call'[h].o = call[h].o /\ call'[h].name = call[h].name
                 /\ call'[h].at = "store"
      BY <1>0, <3>2 DEF CallType
    <3> QED
      BY <3>1, <3>2 DEF At
  <2> QED
    BY <2>1, <2>2
<1>4. CASE End(h) /\ (Pend(call[h]) => faults' = faults + 1)
  BY <1>1, <1>2, <1>4, OutPools
<1>5. CASE /\ call[h].at \in {"locate", "login"}
           /\ \A g \in Handlers : g # h => call'[g] = call[g]
           /\ call'[h].o = call[h].o /\ call'[h].name = call[h].name
           /\ call'[h].at = "login" \/ (call'[h].at = "store" /\ call[h].name = 0)
  <2>1. Onward(h, call[h], call'[h])
    BY <1>5 DEF Onward, Pend, Prep, Held
  <2> QED
    BY <1>1, <1>2, <1>5, <2>1, PoolKept
<1> QED
  BY <1>3, <1>4, <1>5

\* Store: the user is bound; or it is not, because the organisation has one
\* already (nobody else has this user), or the statement failed.
LEMMA StorePools ==
  ASSUME ProvInv, PoolInv, NEW h \in Handlers, Store(h)
  PROVE  PoolInv'
<1> DEFINE c == call[h]
<1>0. /\ org \in [Orgs -> OrgType] /\ c.o \in Orgs /\ c.u \in Users /\ c.at = "store" /\ c.name = 0
      /\ user[c.u].for = c.o /\ OrgsOK /\ UsersOK
  BY Parts DEF Store, At, StepsFit, Relies
<1>1. faults' \in {faults, faults + 1} /\ user' = user
  BY DEF Store, Fault, NoFault
<1>2. SamePool
  BY <1>1 DEF SamePool
<1>3. c.u # 0 /\ c.o # 0
  BY <1>0 DEF Users, Orgs
<1>4. CASE Binds(c.o, c.u) /\ SetOrgNewapiUser(c.o, c.u, c.tok, TRUE) /\ Goto(h, "group")
  <2>1. org'[c.o].uid # 0 /\ \A o \in Orgs : org[o].uid # 0 => org'[o].uid # 0
    BY ZenonT(60), <1>0, <1>3, <1>4 DEF SetOrgNewapiUser, OrgType
  <2>2. /\ \A g \in Handlers : g # h => call'[g] = call[g]
        /\ call'[h].at = "group" /\ call'[h].o = c.o
    BY <1>4, Moves
  <2>3. Onward(h, call[h], call'[h])
    BY <1>0, <2>1, <2>2 DEF Onward, Prep, Held
  <2> QED
    BY <1>1, <1>2, <2>1, <2>2, <2>3, PoolKept
<1>5. CASE ~Binds(c.o, c.u) /\ org' = org /\ End(h)
  <2>1. org[c.o].uid # 0
    <3> SUFFICES ASSUME Taken(c.u) PROVE org[c.o].uid # 0
      BY <1>5 DEF Binds
    <3>1. PICK p \in Orgs : org[p].uid = c.u
      BY DEF Taken
    <3>2. org[p].platform
      BY <1>0, <1>3, <3>1 DEF OrgsOK, UsersOK
    <3>3. p = c.o
      BY <1>0, <1>3, <3>1, <3>2 DEF OrgsOK
    <3> QED
      BY <1>3, <3>1, <3>3
  <2> QED
    BY <1>0, <1>1, <1>2, <1>5, <2>1, OutPools
<1>6. CASE org' = org /\ End(h) /\ Fault
  BY <1>1, <1>2, <1>6, OutPools DEF Fault
<1> QED
  BY <1>4, <1>5, <1>6 DEF Store

\* The settings after the binding, and the refresh of a token: the lock is
\* taken when it is free, kept or given back, and no user is in the making.
LEMMA SettingsPools ==
  ASSUME ProvInv, PoolInv, NEW h \in Handlers,
         \/ SetUserGroup(h) \/ OverrideZero(h) \/ ensureWalletOnly(h)
         \/ EnsureFreshCred(h) \/ Probe(h) \/ RefreshAccessToken(h) \/ Update(h)
  PROVE  PoolInv'
<1>0. call \in [Handlers -> CallType] /\ org \in [Orgs -> OrgType]
  BY Parts
<1>1. faults' \in {faults, faults + 1}
  BY DEF SetUserGroup, OverrideZero, ensureWalletOnly, EnsureFreshCred, Probe, RefreshAccessToken,
     Update, Fault, NoFault
<1>2. SamePool
  <2>1. CASE SetUserGroup(h)
    <3>1. user' = user \/ \E u, x : user' = [user EXCEPT ![u].grouped = x]
      BY <2>1 DEF SetUserGroup
    <3> QED
      BY <3>1, FieldSamePool
  <2>2. CASE OverrideZero(h)
    <3>1. user' = user \/ \E u, x : user' = [user EXCEPT ![u].quota = x]
      BY <2>2 DEF OverrideZero, ManageUserQuota
    <3> QED
      BY <3>1, FieldSamePool
  <2>3. CASE ensureWalletOnly(h)
    <3>1. user' = user \/ \E u, x : user' = [user EXCEPT ![u].walletOnly = x]
      BY <2>3 DEF ensureWalletOnly, SetBillingPreference
    <3> QED
      BY <3>1, FieldSamePool
  <2>4. CASE RefreshAccessToken(h)
    <3>1. user' = user \/ \E u, x : user' = [user EXCEPT ![u].tok = x]
      BY <2>4 DEF RefreshAccessToken
    <3> QED
      BY <3>1, FieldSamePool
  <2>5. CASE EnsureFreshCred(h) \/ Probe(h) \/ Update(h)
    <3>1. user' = user
      BY <2>5 DEF EnsureFreshCred, Probe, Update
    <3> QED
      BY <3>1 DEF SamePool
  <2> QED
    BY <2>1, <2>2, <2>3, <2>4, <2>5
<1>3. \A o \in Orgs : org[o].uid # 0 => org'[o].uid # 0
  <2>1. org' = org \/ \E o, x : org' = [org EXCEPT ![o].tok = x]
    BY DEF SetUserGroup, OverrideZero, ensureWalletOnly, EnsureFreshCred, Probe, RefreshAccessToken,
       Update, UpdateOrgAccessToken
  <2> QED
    BY <1>0, <2>1 DEF OrgType
<1>4. ~Pend(call[h])
  BY DEF SetUserGroup, OverrideZero, ensureWalletOnly, EnsureFreshCred, Probe, RefreshAccessToken,
     Update, At, Pend
<1>5. CASE End(h)
  BY <1>1, <1>2, <1>3, <1>4, <1>5, OutPools
<1>6. CASE ~End(h)
  <2>1. /\ \A g \in Handlers : g # h => call'[g] = call[g]
        /\ call'[h].o = call[h].o /\ call'[h].at \in {"zero", "first", "relogin", "probe", "update"}
        /\ call[h].at \in Held \/ Free(h, call[h].o)
    <3>1. CASE SetUserGroup(h) \/ OverrideZero(h)
      <4>1. call[h].at \in Held /\ (Goto(h, "zero") \/ Goto(h, "first"))
        BY <3>1 DEF SetUserGroup, OverrideZero, At, Held
      <4> QED
        BY <4>1, Moves
    <3>2. CASE EnsureFreshCred(h)
      <4>1. Free(h, call[h].o) /\ \E x : call' = [call EXCEPT ![h].at = "probe", ![h].tok = x]
        BY <3>2 DEF EnsureFreshCred
      <4> QED
        BY <1>0, <4>1 DEF CallType
    <3>3. CASE Probe(h)
      <4>1. call[h].at \in Held /\ Goto(h, "relogin")
        BY <1>6, <3>3 DEF Probe, At, Held
      <4> QED
        BY <4>1, Moves
    <3>4. CASE RefreshAccessToken(h)
      <4>1. call[h].at \in Held /\ \E x : call' = [call EXCEPT ![h].at = "update", ![h].tok = x]
        BY <1>6, <3>4 DEF RefreshAccessToken, At, Held
      <4> QED
        BY <1>0, <4>1 DEF CallType
    <3>5. CASE ensureWalletOnly(h) \/ Update(h)
      BY <1>6, <3>5 DEF ensureWalletOnly, Update
    <3> QED
      BY <3>1, <3>2, <3>3, <3>4, <3>5
  <2>2. Onward(h, call[h], call'[h])
    BY <1>4, <2>1 DEF Onward, Prep, Held
  <2> QED
    BY <1>1, <1>2, <1>3, <2>1, <2>2, PoolKept
<1> QED
  BY <1>5, <1>6

\* No calls, and no users made.
LEMMA InitPools == ASSUME Init PROVE PoolInv
<1>1. \A h \in Handlers : call[h] = NoCall
  BY DEF Init
<1>2. \A u \in Users : user[u].by = {}
  BY DEF Init, NoUser
<1>3. ASSUME NEW n, NEW o PROVE Size(user, n, o) = 0
  <2>1. Pool(user, n, o) = {}
    BY <1>2 DEF Pool
  <2> QED
    BY <2>1, FS_EmptySet DEF Size
<1>4. faults = 0
  BY DEF Init
<1>5. Excluded /\ \A h \in Handlers : ~Prep(call[h])
  BY <1>1, NoCallWaits DEF Excluded
<1> QED
  BY <1>3, <1>4, <1>5 DEF PoolInv

\* Every step keeps the account of the users made.
LEMMA NextPools == ASSUME ProvInv, PoolInv, [Next]_vars PROVE PoolInv'
<1>1. ASSUME NEW h \in Handlers, Step(h) PROVE PoolInv'
  BY <1>1, DoorBPools, NamePools, CreateUserPools, LoginPools, StorePools, SettingsPools DEF Step
<1>2. CASE (\E u \in Users : Outside(u)) \/ (\E o \in Orgs : Recharge(o)) \/ UNCHANGED vars
  <2>1. UNCHANGED <<org, call, faults>>
    BY <1>2 DEF Outside, Recharge, vars
  <2>2. SamePool
    <3>1. user' = user \/ (\E u, x : user' = [user EXCEPT ![u].tok = x])
          \/ (\E u, x : user' = [user EXCEPT ![u].walletOnly = x])
          \/ (\E u, x : user' = [user EXCEPT ![u].quota = x])
      BY <1>2 DEF Outside, Recharge, vars
    <3> QED
      BY <3>1, FieldSamePool
  <2>3. \A n, o : Size(user', n, o) = Size(user, n, o)
    BY <2>2, SameSize
  <2> QED
    BY <2>1, <2>3 DEF PoolInv, Excluded, NonePends
<1> QED
  BY <1>1, <1>2, BeginPools DEF Next

\* However many handlers of however many processes provision one organisation at
\* once, a process makes one user for it, and at most one more for every request
\* or statement that failed: the second look under the lock suffices
\* (member.go:443-530).
THEOREM OneUserPerProcess == Spec => []OnePoolUser
<1>1. Init => ProvInv /\ PoolInv
  BY InitHolds, InitPools
<1>2. ProvInv /\ PoolInv /\ [Next]_vars => ProvInv' /\ PoolInv'
  BY StepHolds, NextPools
<1>3. PoolInv => OnePoolUser
  BY DEF PoolInv, OnePoolUser, Size, Pool
<1> QED
  BY <1>1, <1>2, <1>3, PTL DEF Spec
=============================================================================
