------------------------------- MODULE Members -------------------------------
(***************************************************************************)
(* Members of one organisation, their keys and their sessions              *)
(* (service/member.go, quota.go, identity.go, org.go, repo/member.go,      *)
(* repo/member_key.go, adapter/newapi/adapter.go).                         *)
(*                                                                         *)
(* A member's key is a token of the organisation's user at the gateway,    *)
(* named after the member and a rotation number.  The member row points to *)
(* the current token; member_key_token keeps a row for every token there   *)
(* ever was, by which usage is attributed.  Handlers read the member row,  *)
(* make several requests to the gateway and write the row back, under no   *)
(* lock.  A session carries the session_epoch of the row it was issued     *)
(* from, and is refused once the row has another.                          *)
(*                                                                         *)
(* Members and tokens are numbered in the order of creation, 0 = none.     *)
(* Member 1 is the administrator that CreateOrg makes.                     *)
(***************************************************************************)
EXTENDS Integers, FiniteSets

CONSTANTS
  MaxMembers, MaxTokens,  \* bounds: member rows and tokens created
  Foreign,                \* tokens the customer had before, enabled or not
  Handlers,               \* concurrent request handlers
  Ops,                    \* the operations that are performed
  MaxCalls,               \* bound: calls
  MaxFaults               \* bound: failed requests, statements and crashes

Ids == 1..MaxMembers
Tokens == 1..MaxTokens
AllOps == {"open", "rotate", "create", "status", "offboard", "restore", "expire",
           "import", "login", "password", "reset", "role", "hardstop"}
Statuses == {"none", "provisioning", "active", "disabled", "expired", "offboarded"}

CallOps == {"none", "open", "key", "import", "status", "offboard", "expire", "login",
            "password", "reset", "role"}
Steps == {"idle", "provision", "find", "post", "locate", "reveal", "drop", "save", "undo",
          "release", "next", "mark", "token", "write", "delete", "leave", "clear",
          "expire", "issue", "bump"}

ASSUME MembersAssumption ==
  /\ MaxMembers \in Nat \ {0} /\ MaxTokens \in Nat /\ MaxCalls \in Nat /\ MaxFaults \in Nat
  /\ Foreign \in 0..MaxTokens /\ IsFiniteSet(Handlers) /\ Ops \subseteq AllOps

VARIABLES
  row,       \* member: status, deleted_at, bootstrap_state, token pointer,
             \* key_rotation, session_epoch; rev counts the changes that are
             \* to end sessions (history)
  key,       \* member_key_token: owner and slot of a token, is_current
  slots,     \* number of member_key_slot rows of a member
  token,     \* tokens at the gateway: name, exists, enabled
  call,      \* call in progress of every handler
  sessions,  \* session tokens issued
  handed,    \* history: <<m, t>>: the plaintext of t was returned to m
  cut,       \* history: members for whom a change was not followed by its bump
  calls, faults

vars == <<row, key, slots, token, call, sessions, handed, cut, calls, faults>>

NoRow == [status |-> "none", deleted |-> FALSE, boot |-> "pending", ptr |-> 0,
          rot |-> 0, epoch |-> 0, rev |-> 0]
NoKey == [m |-> 0, slot |-> 0, current |-> FALSE]

\* A call: operation and next step; member; requested status; token and
\* rotation read and the token obtained; tokens still to import; epoch and
\* rev read by a login; whether the credential has been refreshed.
NoCall == [op |-> "none", at |-> "idle", m |-> 0, on |-> FALSE, old |-> 0, rot |-> 0,
           tok |-> 0, todo |-> {}, epoch |-> 0, rev |-> 0, fresh |-> FALSE]

Init ==
  /\ row = [m \in Ids |-> IF m = 1 THEN [NoRow EXCEPT !.status = "active", !.boot = "done"]
                                  ELSE NoRow]
  /\ key = [t \in Tokens |-> NoKey] /\ slots = [m \in Ids |-> 0]
  /\ \E off \in SUBSET (1..Foreign) :
       token = [t \in Tokens |-> [m |-> 0, rot |-> 0, on |-> t \notin off,
                                  st |-> IF t <= Foreign THEN "live" ELSE "unborn"]]
  /\ call = [h \in Handlers |-> NoCall]
  /\ sessions = {} /\ handed = {} /\ cut = {} /\ calls = 0 /\ faults = 0

-----------------------------------------------------------------------------
Called == calls < MaxCalls /\ calls' = calls + 1
Idle(h, op) == call[h] = NoCall /\ op \in Ops
At(h, op, at) == call[h].op = op /\ call[h].at = at
Goto(h, at) == call' = [call EXCEPT ![h].at = at]
Start(h, c) == Called /\ call' = [call EXCEPT ![h] = c]
End(h) == call' = [call EXCEPT ![h] = NoCall]
Fault == faults < MaxFaults /\ faults' = faults + 1
NoFault == faults' = faults

\* GetMember: rows that are not soft-deleted.
GetMember(m) == row[m].status # "none" /\ ~row[m].deleted
loadManageableMember(m) == GetMember(m) /\ row[m].boot = "done"

\* The id that an INSERT into member assigns.
NextId == {m \in Ids : row[m].status = "none" /\ \A n \in 1..(m - 1) : row[n].status # "none"}

Live == {t \in Tokens : token[t].st = "live"}

\* findTokenByName: a token of that name, if there is one.
findTokenByName(m, r) == {t \in Live : token[t].m = m /\ token[t].rot = r}

CreateMemberProvisional(m) ==
  row' = [row EXCEPT ![m] = [NoRow EXCEPT !.status = "provisioning"]]

-----------------------------------------------------------------------------
(* Handing out keys.                                                       *)

\* OpenMember: the row is inserted first, its id makes the token's name.
OpenMember(h) ==
  /\ Idle(h, "open")
  /\ \E m \in NextId :
       /\ CreateMemberProvisional(m)
       /\ Start(h, [NoCall EXCEPT !.op = "open", !.at = "provision", !.m = m, !.rot = 1])
  /\ UNCHANGED <<key, slots, token, sessions, handed, cut, faults>>

\* EnsureOrgProvisioned; a failure marks the member failed.
Provision(h) ==
  /\ At(h, "open", "provision")
  /\ \/ Goto(h, "find") /\ NoFault
     \/ Goto(h, "release") /\ Fault
  /\ UNCHANGED <<row, key, slots, token, sessions, handed, cut, calls>>

\* Mutant: the counter runs backwards.
NewKey_Previous(h, m) ==
  Start(h, [NoCall EXCEPT !.op = "key", !.at = "find", !.m = m, !.old = row[m].ptr,
                          !.rot = row[m].rot - 1])

NewKey(h, m) ==
  Start(h, [NoCall EXCEPT !.op = "key", !.at = "find", !.m = m, !.old = row[m].ptr,
                          !.rot = row[m].rot + 1])

RotateKey(h, m) ==
  /\ Idle(h, "rotate")
  /\ GetMember(m) /\ row[m].status = "active"
  /\ row[m].boot = "done" /\ row[m].ptr # 0
  /\ NewKey(h, m)
  /\ UNCHANGED <<row, key, slots, token, sessions, handed, cut, faults>>

\* Also for a member without a key.
CreateMemberToken(h, m) ==
  /\ Idle(h, "create")
  /\ GetMember(m) /\ row[m].status = "active"
  /\ NewKey(h, m)
  /\ UNCHANGED <<row, key, slots, token, sessions, handed, cut, faults>>

\* CreateToken, RevealTokenKey or RotateToken failed.
Fails(h) == IF call[h].op = "open" THEN Goto(h, "release") ELSE End(h)

\* CreateToken adopts a token of the same name.
Find(h) ==
  /\ call[h].at = "find"
  /\ LET found == findTokenByName(call[h].m, call[h].rot) IN
     \/ /\ \E t \in found : call' = [call EXCEPT ![h].tok = t, ![h].at = "reveal"]
        /\ NoFault
     \/ found = {} /\ Goto(h, "post") /\ NoFault
     \/ Fails(h) /\ Fault
  /\ UNCHANGED <<row, key, slots, token, sessions, handed, cut, calls>>

\* POST /api/token/, performed or not; an answer that is lost is an error.
Post(h) ==
  /\ call[h].at = "post"
  /\ \/ /\ \E t \in Tokens :
             /\ token[t].st = "unborn" /\ \A u \in 1..(t - 1) : token[u].st # "unborn"
             /\ token' = [token EXCEPT ![t] = [m |-> call[h].m, rot |-> call[h].rot,
                                               on |-> TRUE, st |-> "live"]]
        /\ \/ Goto(h, "locate") /\ NoFault
           \/ Fails(h) /\ Fault
     \/ Fails(h) /\ Fault /\ UNCHANGED token
  /\ UNCHANGED <<row, key, slots, sessions, handed, cut, calls>>

\* The id is read back by name.
Locate(h) ==
  /\ call[h].at = "locate"
  /\ LET found == findTokenByName(call[h].m, call[h].rot) IN
     \/ /\ \E t \in found : call' = [call EXCEPT ![h].tok = t, ![h].at = "reveal"]
        /\ NoFault
     \/ found = {} /\ Fails(h) /\ NoFault
     \/ Fails(h) /\ Fault
  /\ UNCHANGED <<row, key, slots, token, sessions, handed, cut, calls>>

Reveal(h) ==
  /\ call[h].at = "reveal"
  /\ \/ /\ call[h].tok \in Live /\ NoFault
        /\ Goto(h, IF call[h].old \notin {0, call[h].tok} THEN "drop" ELSE "save")
     \/ call[h].tok \notin Live /\ Fails(h) /\ NoFault
     \/ Fails(h) /\ Fault
  /\ UNCHANGED <<row, key, slots, token, sessions, handed, cut, calls>>

\* withOrgCred: a 401 refreshes the credential and repeats the block, once.
withOrgCred(h) ==
  /\ call[h].op = "key" /\ call[h].at \in {"find", "post", "locate", "reveal"}
  /\ ~call[h].fresh /\ Fault
  /\ call' = [call EXCEPT ![h].at = "find", ![h].fresh = TRUE]
  /\ UNCHANGED <<row, key, slots, token, sessions, handed, cut, calls>>

DeleteToken(t) == token' = [token EXCEPT ![t].st = "gone"]

\* RotateToken deletes the replaced token; failing is tolerated.
Drop(h) ==
  /\ call[h].at = "drop" /\ Goto(h, "save")
  /\ \/ DeleteToken(call[h].old) /\ NoFault
     \/ UNCHANGED token /\ Fault
  /\ UNCHANGED <<row, key, slots, sessions, handed, cut, calls>>

-----------------------------------------------------------------------------
(* The transactions that record a key.                                     *)

\* insertKeyTokenTx; newapi_token_id is unique.
insertKeyTokenTx(k, m, s, t) == [k EXCEPT ![t] = [m |-> m, slot |-> s, current |-> TRUE]]
Recordable(t) == key[t].m = 0

\* ensurePrimaryKeyTx: a new slot.
ensurePrimaryKeyTx(m, t) ==
  /\ slots' = [slots EXCEPT ![m] = @ + 1]
  /\ key' = insertKeyTokenTx(key, m, slots[m] + 1, t)

\* Mutant: the replaced row stays current.
Superseded_Kept(m, s) == key

Superseded(m, s) ==
  [t \in Tokens |-> IF key[t].m = m /\ key[t].slot = s THEN [key[t] EXCEPT !.current = FALSE]
                    ELSE key[t]]

\* rotatePrimaryKeyTx: the first slot, if any, gets the new token.
rotatePrimaryKeyTx(m, t) ==
  IF slots[m] = 0 THEN ensurePrimaryKeyTx(m, t)
  ELSE key' = insertKeyTokenTx(Superseded(m, 1), m, 1, t) /\ UNCHANGED slots

FinalizeBootstrap(m, t) ==
  /\ row' = [row EXCEPT ![m].ptr = t, ![m].rot = 1, ![m].boot = "done", ![m].status = "active"]
  /\ ensurePrimaryKeyTx(m, t)

\* Mutant: the row of the replaced token is overwritten.
UpdateMemberKey_Reuse(m, t, r) ==
  /\ row' = [row EXCEPT ![m].ptr = t, ![m].rot = r]
  /\ key' = [u \in Tokens |-> IF key[u].m = m THEN NoKey
                              ELSE insertKeyTokenTx(key, m, 1, t)[u]]
  /\ slots' = [slots EXCEPT ![m] = 1]

\* No predicate on status, deleted_at or the rotation that was read.
UpdateMemberKey(m, t, r) ==
  /\ row' = [row EXCEPT ![m].ptr = t, ![m].rot = r]
  /\ rotatePrimaryKeyTx(m, t)

\* The answer with the plaintext follows the commit.
Save(h) ==
  LET c == call[h] IN
  /\ c.at = "save"
  /\ \/ /\ c.op = "open" /\ Recordable(c.tok) /\ FinalizeBootstrap(c.m, c.tok)
        /\ handed' = handed \cup {<<c.m, c.tok>>} /\ End(h) /\ NoFault
     \/ /\ c.op = "key" /\ Recordable(c.tok) /\ UpdateMemberKey(c.m, c.tok, c.rot)
        /\ handed' = handed \cup {<<c.m, c.tok>>} /\ End(h) /\ NoFault
     \/ /\ c.op = "import" /\ Recordable(c.tok) /\ FinalizeBootstrap(c.m, c.tok)
        /\ UNCHANGED handed /\ Goto(h, IF c.on THEN "next" ELSE "mark") /\ NoFault
     \/ /\ IF Recordable(c.tok) THEN Fault ELSE NoFault
        /\ CASE c.op = "open" -> Goto(h, "undo")
             [] c.op = "key" -> End(h)
             [] c.op = "import" -> Goto(h, "release")
        /\ UNCHANGED <<row, key, slots, handed>>
  /\ UNCHANGED <<token, sessions, cut, calls>>

\* OpenMember deletes the token it could not record, best effort.
Undo(h) ==
  /\ call[h].at = "undo" /\ Goto(h, "release")
  /\ \/ DeleteToken(call[h].tok) /\ NoFault
     \/ UNCHANGED token /\ Fault
  /\ UNCHANGED <<row, key, slots, sessions, handed, cut, calls>>

MarkBootstrapFailedAndRelease(m) ==
  row' = [row EXCEPT ![m].boot = "failed", ![m].status = "provisioning"]

\* A failure here is only logged.
Release(h) ==
  /\ call[h].at = "release"
  /\ IF call[h].op = "import" THEN Goto(h, "next") ELSE End(h)
  /\ \/ MarkBootstrapFailedAndRelease(call[h].m) /\ NoFault
     \/ UNCHANGED row /\ Fault
  /\ UNCHANGED <<key, slots, token, sessions, handed, cut, calls>>

-----------------------------------------------------------------------------
(* Import of the tokens of an associated user, at the association and      *)
(* whenever the operator asks for it again.                                *)

ListUserTokens == {<<t, token[t].on>> : t \in Live}

ReimportOrgTokens(h) ==
  /\ Idle(h, "import")
  /\ Start(h, [NoCall EXCEPT !.op = "import", !.at = "next",
                 !.todo = ListUserTokens])
  /\ UNCHANGED <<row, key, slots, token, sessions, handed, cut, faults>>

\* The loop of importOrgTokens: a token that has a row is skipped, any other
\* becomes a member, or is left for the next import when that fails.
importOrgTokens(h) ==
  /\ At(h, "import", "next")
  /\ IF call[h].todo = {} THEN End(h) /\ UNCHANGED <<row, faults>>
     ELSE \E x \in call[h].todo :
            LET rest == call[h].todo \ {x} IN
            \/ /\ Recordable(x[1])
               /\ \E m \in NextId :
                    /\ CreateMemberProvisional(m)
                    /\ call' = [call EXCEPT ![h].todo = rest, ![h].m = m, ![h].tok = x[1],
                                            ![h].on = x[2], ![h].at = "save"]
               /\ NoFault
            \/ /\ IF Recordable(x[1]) THEN Fault ELSE NoFault
               /\ call' = [call EXCEPT ![h].todo = rest] /\ UNCHANGED row
  /\ UNCHANGED <<key, slots, token, sessions, handed, cut, calls>>

\* The status the token was listed with; an error is ignored.
ImportStatus(h) ==
  /\ call[h].at = "mark" /\ Goto(h, "next")
  /\ \/ row' = [row EXCEPT ![call[h].m].status = "disabled"] /\ NoFault
     \/ UNCHANGED row /\ Fault
  /\ UNCHANGED <<key, slots, token, sessions, handed, cut, calls>>

-----------------------------------------------------------------------------
(* Disabling, leaving, expiry.                                             *)

SetMemberStatus(h, m, on) ==
  /\ Idle(h, "status") /\ loadManageableMember(m)
  /\ Start(h, [NoCall EXCEPT !.op = "status", !.m = m, !.on = on, !.old = row[m].ptr,
                 !.at = IF row[m].ptr = 0 THEN "write" ELSE "token"])
  /\ UNCHANGED <<row, key, slots, token, sessions, handed, cut, faults>>

\* PUT ?status_only=1: an error if the token is gone.
SetTokenStatus(h) ==
  /\ call[h].at = "token"
  /\ \/ /\ call[h].old \in Live /\ token' = [token EXCEPT ![call[h].old].on = call[h].on]
        /\ \/ Goto(h, "write") /\ NoFault
           \/ End(h) /\ Fault
     \/ /\ End(h) /\ UNCHANGED token
        /\ IF call[h].old \in Live THEN Fault ELSE NoFault
  /\ UNCHANGED <<row, key, slots, sessions, handed, cut, calls>>

UpdateMemberStatus(m, s) == row' = [row EXCEPT ![m].status = s, ![m].rev = @ + 1]

WriteStatus(h) ==
  /\ At(h, "status", "write")
  /\ \/ /\ UpdateMemberStatus(call[h].m, IF call[h].on THEN "active" ELSE "disabled")
        /\ Goto(h, "bump") /\ NoFault
     \/ End(h) /\ UNCHANGED row /\ Fault
  /\ UNCHANGED <<key, slots, token, sessions, handed, cut, calls>>

OffboardMember(h, m) ==
  /\ Idle(h, "offboard") /\ loadManageableMember(m)
  /\ Start(h, [NoCall EXCEPT !.op = "offboard", !.m = m, !.old = row[m].ptr,
                 !.at = IF row[m].ptr = 0 THEN "leave" ELSE "delete"])
  /\ UNCHANGED <<row, key, slots, token, sessions, handed, cut, faults>>

\* reverseGrant of an account_ttl grant that is over.
ExpireMember(h, m) ==
  /\ Idle(h, "expire") /\ GetMember(m)
  /\ Start(h, [NoCall EXCEPT !.op = "expire", !.m = m, !.old = row[m].ptr,
                 !.at = IF row[m].ptr = 0 THEN "expire" ELSE "delete"])
  /\ UNCHANGED <<row, key, slots, token, sessions, handed, cut, faults>>

\* DELETE: a token that is gone already counts as deleted.
Delete(h) ==
  /\ call[h].at = "delete"
  /\ \/ /\ DeleteToken(call[h].old)
        /\ \/ Goto(h, IF call[h].op = "offboard" THEN "leave" ELSE "clear") /\ NoFault
           \/ End(h) /\ Fault
     \/ End(h) /\ Fault /\ UNCHANGED token
  /\ UNCHANGED <<row, key, slots, sessions, handed, cut, calls>>

\* repo.OffboardMember, no effect on a row that is deleted already.
Leave(h) ==
  LET m == call[h].m IN
  /\ call[h].at = "leave" /\ End(h)
  /\ \/ /\ row' = IF row[m].deleted THEN row
                  ELSE [row EXCEPT ![m].deleted = TRUE, ![m].status = "offboarded", ![m].ptr = 0]
        /\ NoFault
     \/ UNCHANGED row /\ Fault
  /\ UNCHANGED <<key, slots, token, sessions, handed, cut, calls>>

RestoreOffboardedMember(m) ==
  /\ "restore" \in Ops /\ Called /\ row[m].deleted
  /\ row' = [row EXCEPT ![m].deleted = FALSE, ![m].status = "active"]
  /\ UNCHANGED <<key, slots, token, call, sessions, handed, cut, faults>>

ClearMemberToken(h) ==
  /\ call[h].at = "clear"
  /\ \/ row' = [row EXCEPT ![call[h].m].ptr = 0] /\ Goto(h, "expire") /\ NoFault
     \/ UNCHANGED row /\ End(h) /\ Fault
  /\ UNCHANGED <<key, slots, token, sessions, handed, cut, calls>>

ExpireStatus(h) ==
  /\ call[h].at = "expire" /\ End(h)
  /\ \/ row' = [row EXCEPT ![call[h].m].status = "expired"] /\ NoFault
     \/ UNCHANGED row /\ Fault
  /\ UNCHANGED <<key, slots, token, sessions, handed, cut, calls>>

-----------------------------------------------------------------------------
(* Sessions.                                                               *)

\* Login reads the row; the password comparison takes its time.
Login(h, m) ==
  /\ Idle(h, "login") /\ GetMember(m) /\ row[m].status \notin {"disabled", "expired"}
  /\ Start(h, [NoCall EXCEPT !.op = "login", !.at = "issue", !.m = m,
                 !.epoch = row[m].epoch, !.rev = row[m].rev])
  /\ UNCHANGED <<row, key, slots, token, sessions, handed, cut, faults>>

\* Mutant: the epoch is read when the session token is signed.
Claims_Late(h) == [m |-> call[h].m, epoch |-> row[call[h].m].epoch, rev |-> call[h].rev]

Claims(h) == [m |-> call[h].m, epoch |-> call[h].epoch, rev |-> call[h].rev]

Issue(h) ==
  /\ call[h].at = "issue" /\ sessions' = sessions \cup {Claims(h)} /\ End(h)
  /\ UNCHANGED <<row, key, slots, token, handed, cut, faults, calls>>

ValidateSession(s) ==
  GetMember(s.m) /\ row[s.m].status = "active" /\ row[s.m].epoch = s.epoch

ChangePassword(h, m) ==
  /\ Idle(h, "password") /\ GetMember(m)
  /\ \E s \in sessions : s.m = m /\ ValidateSession(s)
  /\ Start(h, [NoCall EXCEPT !.op = "password", !.at = "write", !.m = m])
  /\ UNCHANGED <<row, key, slots, token, sessions, handed, cut, faults>>

ResetMemberPassword(h, m) ==
  /\ Idle(h, "reset") /\ loadManageableMember(m)
  /\ Start(h, [NoCall EXCEPT !.op = "reset", !.at = "write", !.m = m])
  /\ UNCHANGED <<row, key, slots, token, sessions, handed, cut, faults>>

AssignRole(h, m) ==
  /\ Idle(h, "role") /\ GetMember(m)
  /\ Start(h, [NoCall EXCEPT !.op = "role", !.at = "write", !.m = m])
  /\ UNCHANGED <<row, key, slots, token, sessions, handed, cut, faults>>

\* UpdateMemberPassword or UpdateMemberRole.
WriteCredential(h) ==
  /\ call[h].op \in {"password", "reset", "role"} /\ call[h].at = "write"
  /\ \/ row' = [row EXCEPT ![call[h].m].rev = @ + 1] /\ Goto(h, "bump") /\ NoFault
     \/ UNCHANGED row /\ End(h) /\ Fault
  /\ UNCHANGED <<key, slots, token, sessions, handed, cut, calls>>

\* BumpMemberSessionEpoch, a statement of its own.
BumpMemberSessionEpoch(h) ==
  LET m == call[h].m IN
  /\ call[h].at = "bump" /\ End(h)
  /\ \/ row' = [row EXCEPT ![m].epoch = @ + 1] /\ cut' = cut \ {m} /\ NoFault
     \/ UNCHANGED row /\ cut' = cut \cup {m} /\ Fault
  /\ UNCHANGED <<key, slots, token, sessions, handed, calls>>

\* HardStopOrg ends the sessions of all members that are not deleted.
BumpOrgMembersSessionEpoch ==
  /\ "hardstop" \in Ops /\ Called
  /\ row' = [m \in Ids |-> IF GetMember(m) THEN [row[m] EXCEPT !.epoch = @ + 1] ELSE row[m]]
  /\ cut' = {m \in cut : ~GetMember(m)}
  /\ UNCHANGED <<key, slots, token, call, sessions, handed, faults>>

Crash ==
  /\ Fault /\ \E h \in Handlers : call[h] # NoCall
  /\ call' = [h \in Handlers |-> NoCall]
  /\ cut' = cut \cup {call[h].m : h \in {g \in Handlers : call[g].at = "bump"}}
  /\ UNCHANGED <<row, key, slots, token, sessions, handed, calls>>

-----------------------------------------------------------------------------
Keys(h) ==
  \/ OpenMember(h) \/ Provision(h) \/ (\E m \in Ids : RotateKey(h, m) \/ CreateMemberToken(h, m))
  \/ Find(h) \/ Post(h) \/ Locate(h) \/ Reveal(h) \/ withOrgCred(h) \/ Drop(h)
  \/ Save(h) \/ Undo(h) \/ Release(h)
  \/ ReimportOrgTokens(h) \/ importOrgTokens(h) \/ ImportStatus(h)

Lifecycle(h) ==
  \/ \E m \in Ids : \/ \E on \in BOOLEAN : SetMemberStatus(h, m, on)
                    \/ OffboardMember(h, m) \/ ExpireMember(h, m)
  \/ SetTokenStatus(h) \/ WriteStatus(h) \/ Delete(h) \/ Leave(h)
  \/ ClearMemberToken(h) \/ ExpireStatus(h)

Identity(h) ==
  \/ \E m \in Ids : \/ Login(h, m) \/ ChangePassword(h, m)
                    \/ ResetMemberPassword(h, m) \/ AssignRole(h, m)
  \/ Issue(h) \/ WriteCredential(h) \/ BumpMemberSessionEpoch(h)

Next ==
  \/ \E h \in Handlers : Keys(h) \/ Lifecycle(h) \/ Identity(h)
  \/ \E m \in Ids : RestoreOffboardedMember(m)
  \/ BumpOrgMembersSessionEpoch
  \/ Crash

Spec == Init /\ [][Next]_vars

-----------------------------------------------------------------------------
\* Rows, tokens and calls are typed: no step of a call leaves a pointer to a
\* token or member that was never made, and no rotation counter runs below 0.
TypeOK ==
  /\ row \in [Ids -> [status : Statuses, deleted : BOOLEAN,
                      boot : {"pending", "done", "failed"}, ptr : 0..MaxTokens,
                      rot : Nat, epoch : Nat, rev : Nat]]
  /\ key \in [Tokens -> [m : 0..MaxMembers, slot : Nat, current : BOOLEAN]]
  /\ slots \in [Ids -> Nat]
  /\ token \in [Tokens -> [m : 0..MaxMembers, rot : Nat, on : BOOLEAN,
                           st : {"unborn", "live", "gone"}]]
  /\ call \in [Handlers -> [op : CallOps, at : Steps, m : 0..MaxMembers, on : BOOLEAN,
                            old : 0..MaxTokens, rot : Nat, tok : 0..MaxTokens,
                            todo : SUBSET (Tokens \X BOOLEAN), epoch : Nat, rev : Nat,
                            fresh : BOOLEAN]]
  /\ sessions \subseteq [m : Ids, epoch : Nat, rev : Nat]
  /\ handed \subseteq Ids \X Tokens
  /\ cut \subseteq Ids /\ calls \in 0..MaxCalls /\ faults \in 0..MaxFaults

\* GetMemberByNewapiTokenID, what settlement attributes usage by: a key that
\* was handed to a member is attributed to that member for good, whatever
\* rotations, imports, departures and failures followed.
KeysAttributed == \A x \in handed : key[x[2]].m = x[1]

\* member.newapi_token_id and member_key agree: a member's keys share one
\* slot (the key_id of the reports), one of them at most is current, and the
\* pointer, unless cleared, is that one.
PointerIsCurrent ==
  /\ \A t \in Tokens : key[t].m # 0 => key[t].slot = 1 /\ slots[key[t].m] = 1
  /\ \A t, u \in Tokens : (/\ key[t].m # 0 /\ key[t].m = key[u].m
                           /\ key[t].current /\ key[u].current) => t = u
  /\ \A m \in Ids : row[m].ptr # 0 => key[row[m].ptr].m = m /\ key[row[m].ptr].current

Bumping(m) == \E h \in Handlers : call[h].at = "bump" /\ call[h].m = m

\* A session that is accepted was issued from the password, role and status
\* in force, unless the change is about to end it or failed to.
SessionsCurrent ==
  \A s \in sessions :
    ValidateSession(s) => s.rev = row[s.m].rev \/ Bumping(s.m) \/ s.m \in cut
=============================================================================
