---------------------------- MODULE MembersProofs ----------------------------
(***************************************************************************)
(* Proofs about Members, for any number of members, tokens and handlers.   *)
(***************************************************************************)
EXTENDS Members, TLAPS

\* What a call has by the step it is at: the steps of its operation, a member
\* whose row exists, a token.
StepsFit(c) ==
  /\ c.op = "none" => c.at = "idle"
  /\ c.op = "open" => c.at \in {"provision", "find", "post", "locate", "reveal", "save",
                                "undo", "release"} /\ c.old = 0
  /\ c.op = "key" => c.at \in {"find", "post", "locate", "reveal", "drop", "save"}
  /\ c.op = "import" => c.at \in {"next", "save", "release", "mark"}
  /\ c.op = "status" => c.at \in {"token", "write", "bump"}
  /\ c.op = "offboard" => c.at \in {"delete", "leave"}
  /\ c.op = "expire" => c.at \in {"delete", "clear", "expire"}
  /\ c.op = "login" => c.at = "issue"
  /\ c.op \in {"password", "reset", "role"} => c.at \in {"write", "bump"}
  /\ c.at \notin {"idle", "next"} => c.m \in Ids
  /\ c.at \in {"reveal", "drop", "save", "undo"} => c.tok \in Tokens

Typed == TypeOK /\ \A h \in Handlers : StepsFit(call[h])

\* The call that inserted a member row and has not finished or released it.
Owns(c) == c.op \in {"open", "import"} /\ c.at \notin {"next", "mark"}

\* A row that was never inserted is blank and has no slot; a member is made
\* active, or leaves, only when the opening is complete.
RowsOK ==
  \A m \in Ids :
    /\ row[m].status = "none" => row[m] = NoRow /\ slots[m] = 0
    /\ row[m].status = "active" \/ row[m].deleted => row[m].boot = "done"
    /\ slots[m] \in 0..1

CallsOK ==
  \A h \in Handlers :
    /\ call[h].at \notin {"idle", "next"} => row[call[h].m].status # "none"
    /\ call[h].op \in {"key", "status", "offboard"} => row[call[h].m].boot = "done"
    /\ Owns(call[h]) => row[call[h].m].boot = "pending" /\ slots[call[h].m] = 0

OwnersDiffer ==
  \A g, h \in Handlers : (Owns(call[g]) /\ Owns(call[h]) /\ call[g].m = call[h].m) => g = h

\* A session, or a login about to become one, has an epoch of its member that
\* is past, or the changes since are about to end it.
Since(s) ==
  /\ row[s.m].status # "none" /\ s.epoch <= row[s.m].epoch
  /\ s.epoch = row[s.m].epoch => s.rev = row[s.m].rev \/ Bumping(s.m) \/ s.m \in cut

SessionsOK ==
  /\ \A s \in sessions : Since(s)
  /\ \A h \in Handlers : call[h].at = "issue" => Since(call[h])

Books == RowsOK /\ CallsOK /\ OwnersDiffer /\ KeysAttributed /\ PointerIsCurrent

MembersInv == Typed /\ Books /\ SessionsOK

-----------------------------------------------------------------------------
(* Types.                                                                  *)

RowType == [status : Statuses, deleted : BOOLEAN, boot : {"pending", "done", "failed"},
            ptr : 0..MaxTokens, rot : Nat, epoch : Nat, rev : Nat]
TokenType == [m : 0..MaxMembers, rot : Nat, on : BOOLEAN, st : {"unborn", "live", "gone"}]
CallType == [op : CallOps, at : Steps, m : 0..MaxMembers, on : BOOLEAN, old : 0..MaxTokens,
             rot : Nat, tok : 0..MaxTokens, todo : SUBSET (Tokens \X BOOLEAN), epoch : Nat,
             rev : Nat, fresh : BOOLEAN]
TypedCalls == call \in [Handlers -> CallType] /\ \A h \in Handlers : StepsFit(call[h])

\* A call stays what it was but for its step.
SameBut(c, d) ==
  /\ d.op = c.op /\ d.m = c.m /\ d.on = c.on /\ d.old = c.old /\ d.rot = c.rot
  /\ d.tok = c.tok /\ d.todo = c.todo /\ d.epoch = c.epoch /\ d.rev = c.rev

\* Every other call is left alone.
Moves(h, d) == /\ call' = [call EXCEPT ![h] = d] /\ call' \in [Handlers -> CallType]
               /\ call'[h] = d /\ \A g \in Handlers : g # h => call'[g] = call[g]

\* An idle call is typed and carries nothing.
LEMMA NoCallTyped == NoCall \in CallType /\ StepsFit(NoCall)
<1>1. 0 \in 0..MaxMembers /\ 0 \in 0..MaxTokens
  BY MembersAssumption
<1>2. NoCall \in CallType
  BY <1>1 DEF NoCall, CallType, CallOps, Steps
<1> QED
  BY <1>2 DEF NoCall, StepsFit

\* Setting the record of one handler.
LEMMA SetCall ==
  ASSUME call \in [Handlers -> CallType], NEW h \in Handlers, NEW d \in CallType,
         call' = [call EXCEPT ![h] = d]
  PROVE  Moves(h, d)
  BY DEF Moves

\* Going to another step keeps the rest of the record.
LEMMA GotoCall ==
  ASSUME call \in [Handlers -> CallType], NEW h \in Handlers, NEW at \in Steps, Goto(h, at)
  PROVE  \E d \in CallType : Moves(h, d) /\ SameBut(call[h], d) /\ d.at = at
<1> DEFINE d == [call[h] EXCEPT !.at = at]
<1>1. d \in CallType /\ SameBut(call[h], d) /\ d.at = at
  BY DEF CallType, SameBut
<1>2. call' = [call EXCEPT ![h] = d]
  BY DEF Goto
<1> QED
  BY <1>1, <1>2, SetCall

\* Ending leaves an idle call.
LEMMA EndCall ==
  ASSUME call \in [Handlers -> CallType], NEW h \in Handlers, End(h)
  PROVE  Moves(h, NoCall)
  BY NoCallTyped, SetCall DEF End

\* What a continued call keeps of what it had: its member, its kind, and the
\* row it made; only a login is at the step that issues a session.
Kept(c, d) ==
  /\ d.at \notin {"idle", "next"} => d.m = c.m /\ c.at \notin {"idle", "next"}
  /\ d.op \in {"key", "status", "offboard"} => d.op = c.op /\ d.m = c.m
  /\ Owns(d) => Owns(c) /\ d.m = c.m
  /\ d.at = "issue" => d = c

\* A call that ends keeps nothing.
LEMMA KeptEnd == ASSUME NEW c PROVE Kept(c, NoCall)
  BY DEF Kept, NoCall, Owns

\* A call that does not go back to an owning step, or was at one, is kept.
LEMMA KeptGoto ==
  ASSUME NEW c \in CallType, NEW d \in CallType, SameBut(c, d),
         c.at \notin {"idle", "next"}, d.at # "issue",
         c.at = "mark" => d.at = "next"
  PROVE  Kept(c, d)
  BY DEF Kept, SameBut, Owns

Continues ==
  /\ call' \in [Handlers -> CallType]
  /\ \A g \in Handlers : StepsFit(call'[g]) /\ Kept(call[g], call'[g])

\* One call goes on, the others stay.
LEMMA MoveContinues ==
  ASSUME TypedCalls, NEW h \in Handlers, NEW d \in CallType, Moves(h, d), StepsFit(d),
         Kept(call[h], d)
  PROVE  Continues
<1>1. ASSUME NEW g \in Handlers, g # h PROVE StepsFit(call'[g]) /\ Kept(call[g], call'[g])
  <2>1. call'[g] = call[g] /\ call[g] \in CallType /\ StepsFit(call[g])
    BY <1>1 DEF Moves, TypedCalls
  <2>2. Kept(call[g], call[g])
    BY DEF Kept
  <2> QED
    BY <2>1, <2>2
<1> QED
  BY <1>1 DEF Continues, Moves

\* A call that ends.
LEMMA EndContinues ==
  ASSUME TypedCalls, NEW h \in Handlers, End(h)
  PROVE  Continues /\ Moves(h, NoCall)
<1>1. Moves(h, NoCall)
  BY EndCall DEF TypedCalls
<1> QED
  BY <1>1, NoCallTyped, KeptEnd, MoveContinues

\* A call that goes to a step of its operation.
LEMMA GotoContinues ==
  ASSUME TypedCalls, NEW h \in Handlers, NEW at \in Steps, Goto(h, at),
         call[h].at \notin {"idle", "next"}, at # "issue", call[h].at = "mark" => at = "next",
         \A d \in CallType : SameBut(call[h], d) /\ d.at = at => StepsFit(d)
  PROVE  Continues /\ \E d \in CallType : Moves(h, d) /\ SameBut(call[h], d) /\ d.at = at
<1>1. PICK d \in CallType : Moves(h, d) /\ SameBut(call[h], d) /\ d.at = at
  BY GotoCall DEF TypedCalls
<1>2. call[h] \in CallType
  BY DEF TypedCalls
<1>3. Kept(call[h], d)
  BY <1>1, <1>2, KeptGoto
<1> QED
  BY <1>1, <1>3, MoveContinues

-----------------------------------------------------------------------------
(* Steps that neither insert a member nor record a key.                    *)

\* What such a step may do to a row: no row appears, only complete members
\* are active or leave, and the pointer is kept or cleared.
RowStep(r, s) ==
  /\ s.status = "none" <=> r.status = "none"
  /\ r.status = "none" => s = r
  /\ s.status = "active" \/ s.deleted => s.boot = "done"
  /\ r.boot = "done" => s.boot = "done"
  /\ s.ptr \in {0, r.ptr}

\* Such steps keep the key tables consistent.
LEMMA BooksContinue ==
  ASSUME Typed, Books, Continues, UNCHANGED <<key, slots, handed>>,
         \A m \in Ids : RowStep(row[m], row'[m]),
         \A g \in Handlers : Owns(call'[g]) =>
           row'[call[g].m].boot = row[call[g].m].boot
  PROVE  Books'
<1>1. RowsOK'
  BY DEF Books, RowsOK, RowStep
<1>2. CallsOK'
  <2> SUFFICES ASSUME NEW h \in Handlers
               PROVE  /\ call'[h].at \notin {"idle", "next"} => row'[call'[h].m].status # "none"
                      /\ call'[h].op \in {"key", "status", "offboard"} =>
                           row'[call'[h].m].boot = "done"
                      /\ Owns(call'[h]) => /\ row'[call'[h].m].boot = "pending"
                                           /\ slots'[call'[h].m] = 0
    BY DEF CallsOK, Owns
  <2>1. StepsFit(call[h]) /\ StepsFit(call'[h]) /\ Kept(call[h], call'[h])
    BY DEF Typed, Continues
  <2>2. /\ call[h].at \notin {"idle", "next"} => row[call[h].m].status # "none"
        /\ call[h].op \in {"key", "status", "offboard"} => row[call[h].m].boot = "done"
        /\ Owns(call[h]) => row[call[h].m].boot = "pending" /\ slots[call[h].m] = 0
    BY DEF Books, CallsOK
  <2>3. call'[h].at \notin {"idle", "next"} => row'[call'[h].m].status # "none"
    BY <2>1, <2>2 DEF Kept, StepsFit, RowStep
  <2>4. ASSUME call'[h].op \in {"key", "status", "offboard"}
        PROVE  row'[call'[h].m].boot = "done"
    <3>1. call[h].op \in {"key", "status", "offboard"} /\ call'[h].m = call[h].m
      BY <2>1, <2>4 DEF Kept
    <3>2. call[h].m \in Ids
      BY <2>1, <3>1 DEF StepsFit
    <3> QED
      BY <2>2, <3>1, <3>2 DEF RowStep
  <2>5. Owns(call'[h]) => row'[call'[h].m].boot = "pending" /\ slots'[call'[h].m] = 0
    BY <2>1, <2>2 DEF Kept
  <2> QED
    BY <2>3, <2>4, <2>5
<1>3. OwnersDiffer'
  BY DEF Books, OwnersDiffer, Continues, Kept, Owns
<1>4. KeysAttributed'
  BY DEF Books, KeysAttributed
<1>5. PointerIsCurrent'
  BY DEF Books, PointerIsCurrent, RowStep
<1> QED
  BY <1>1, <1>2, <1>3, <1>4, <1>5 DEF Books

\* What a step may do to the sessions of a member: nothing; a change that is
\* about to end them; the end of them.
Effect(m) ==
  \/ /\ row'[m].epoch = row[m].epoch /\ row'[m].rev = row[m].rev
     /\ Bumping(m) => Bumping(m)' \/ m \in cut'
     /\ m \in cut => m \in cut'
  \/ row'[m].epoch = row[m].epoch /\ Bumping(m)'
  \/ row'[m].epoch = row[m].epoch + 1

\* Such an effect keeps the claim about one session.
LEMMA EffectKeeps ==
  ASSUME TypeOK, NEW m \in Ids, NEW e \in Nat, NEW v \in Nat,
         Effect(m), row'[m].status # "none",
         e <= row[m].epoch,
         e = row[m].epoch => v = row[m].rev \/ Bumping(m) \/ m \in cut
  PROVE  /\ row'[m].status # "none" /\ e <= row'[m].epoch
         /\ e = row'[m].epoch => v = row'[m].rev \/ Bumping(m)' \/ m \in cut'
<1>1. row[m].epoch \in Nat
  BY DEF TypeOK
<1> QED
  BY <1>1 DEF Effect

\* A step of such effects, that starts no login, keeps sessions and logins in
\* order.
LEMMA SessionsContinue ==
  ASSUME Typed, SessionsOK, sessions' = sessions,
         \A g \in Handlers : call'[g].at = "issue" => call'[g] = call[g],
         \A m \in Ids : (row[m].status # "none" => row'[m].status # "none") /\ Effect(m)
  PROVE  SessionsOK'
<1>1. ASSUME NEW s \in sessions
      PROVE  /\ row'[s.m].status # "none" /\ s.epoch <= row'[s.m].epoch
             /\ s.epoch = row'[s.m].epoch => s.rev = row'[s.m].rev \/ Bumping(s.m)' \/ s.m \in cut'
  <2>1. s.m \in Ids /\ s.epoch \in Nat /\ s.rev \in Nat /\ TypeOK /\ Since(s)
    BY DEF Typed, TypeOK, SessionsOK
  <2> QED
    BY <2>1, EffectKeeps DEF Since
<1>2. ASSUME NEW h \in Handlers, call'[h].at = "issue" PROVE Since(call[h])'
  <2>1. call'[h] = call[h] /\ TypeOK
    BY <1>2 DEF Typed
  <2>2. Since(call[h])
    BY <1>2, <2>1 DEF SessionsOK
  <2>3. call[h].m \in Ids /\ call[h].epoch \in Nat /\ call[h].rev \in Nat
    BY <1>2, <2>1 DEF Typed, TypeOK, StepsFit
  <2>4. PICK m \in Ids, e \in Nat, v \in Nat :
          m = call[h].m /\ e = call[h].epoch /\ v = call[h].rev
    BY <2>3
  <2>5. /\ row'[m].status # "none" /\ e <= row'[m].epoch
        /\ e = row'[m].epoch => v = row'[m].rev \/ Bumping(m)' \/ m \in cut'
    BY <2>1, <2>2, <2>4, EffectKeeps DEF Since, Bumping
  <2> QED
    BY <2>1, <2>4, <2>5 DEF Since, Bumping
<1>3. \A s \in sessions' : Since(s)'
  BY <1>1 DEF Since
<1> QED
  BY <1>2, <1>3 DEF SessionsOK

\* The state stays typed when rows, tokens and calls do.
LEMMA TypedContinue ==
  ASSUME Typed, Continues, UNCHANGED <<key, slots, handed, sessions>>,
         row' \in [Ids -> RowType], token' \in [Tokens -> TokenType], cut' \subseteq Ids,
         calls' \in 0..MaxCalls, faults' \in 0..MaxFaults
  PROVE  Typed'
<1>1. \A h \in Handlers : StepsFit(call'[h])
  BY DEF Continues
<1>2. TypeOK'
  BY DEF Typed, TypeOK, Continues, RowType, TokenType, CallType
<1> QED
  BY <1>1, <1>2 DEF Typed, StepsFit

\* Faults and calls are bounded.
LEMMA Bounded ==
  ASSUME TypeOK
  PROVE  /\ Fault \/ NoFault => faults' \in 0..MaxFaults
         /\ Called => calls' \in 0..MaxCalls
  BY MembersAssumption DEF TypeOK, Fault, NoFault, Called

\* The typed parts, under their names.
LEMMA Parts ==
  ASSUME MembersInv
  PROVE  /\ Typed /\ TypeOK /\ TypedCalls /\ Books /\ SessionsOK
         /\ row \in [Ids -> RowType] /\ token \in [Tokens -> TokenType] /\ cut \subseteq Ids
         /\ calls \in 0..MaxCalls /\ faults \in 0..MaxFaults
  BY DEF MembersInv, Typed, TypeOK, TypedCalls, RowType, TokenType, CallType

\* A step that neither inserts a member nor records a key keeps the invariant.
LEMMA ContinueKeeps ==
  ASSUME MembersInv, Continues, UNCHANGED <<key, slots, handed, sessions>>,
         row' \in [Ids -> RowType], token' \in [Tokens -> TokenType], cut' \subseteq Ids,
         calls' \in 0..MaxCalls, faults' \in 0..MaxFaults,
         \A m \in Ids : RowStep(row[m], row'[m]) /\ Effect(m),
         \A g \in Handlers : Owns(call'[g]) => row'[call[g].m].boot = row[call[g].m].boot
  PROVE  MembersInv'
<1>1. Typed'
  BY Parts, TypedContinue
<1>2. Books'
  BY Parts, BooksContinue
<1>3. SessionsOK'
  BY Parts, SessionsContinue DEF Continues, Kept, RowStep
<1> QED
  BY <1>1, <1>2, <1>3 DEF MembersInv

\* A row that stays as it is.
LEMMA RowSame == ASSUME MembersInv, NEW m \in Ids PROVE RowStep(row[m], row[m])
  BY DEF MembersInv, Books, RowsOK, RowStep

\* A step that touches the gateway only keeps the invariant.
LEMMA CallOnlyKeeps ==
  ASSUME MembersInv, Continues, UNCHANGED <<row, key, slots, handed, sessions, cut>>,
         token' \in [Tokens -> TokenType], calls' \in 0..MaxCalls, faults' \in 0..MaxFaults,
         \A g \in Handlers : call[g].at = "bump" => call'[g] = call[g]
  PROVE  MembersInv'
<1>1. ASSUME NEW m \in Ids PROVE RowStep(row[m], row'[m]) /\ Effect(m)
  BY <1>1, RowSame DEF Effect, Bumping
<1> QED
  BY <1>1, Parts, ContinueKeeps

\* A call that starts from rows it has just read keeps the invariant.
LEMMA StartKeeps ==
  ASSUME MembersInv, NEW h \in Handlers, call[h] = NoCall, NEW d \in CallType, Start(h, d),
         StepsFit(d), UNCHANGED <<row, key, slots, token, sessions, handed, cut, faults>>,
         ~Owns(d), d.at # "idle",
         d.at # "next" => row[d.m].status # "none",
         d.op \in {"key", "status", "offboard"} => row[d.m].boot = "done",
         d.at = "issue" => d.epoch = row[d.m].epoch /\ d.rev = row[d.m].rev
  PROVE  MembersInv'
<1>1. Moves(h, d)
  BY Parts, SetCall DEF Start, TypedCalls
<1>2. Typed'
  <2>1. \A g \in Handlers : StepsFit(call'[g])
    BY <1>1, Parts DEF Moves, TypedCalls
  <2>2. calls' \in 0..MaxCalls
    BY Parts, Bounded DEF Start
  <2>3. TypeOK'
    BY <1>1, <2>2, Parts DEF Moves, TypeOK, CallType
  <2> QED
    BY <2>1, <2>3 DEF Typed, StepsFit
<1>3. Books'
  <2>1. RowsOK' /\ KeysAttributed' /\ PointerIsCurrent'
    BY Parts DEF Books, RowsOK, KeysAttributed, PointerIsCurrent
  <2>2. CallsOK'
    BY <1>1, Parts DEF Books, CallsOK, Moves, Owns
  <2>3. OwnersDiffer'
    BY <1>1, Parts DEF Books, OwnersDiffer, Moves, Owns
  <2> QED
    BY <2>1, <2>2, <2>3 DEF Books
<1>4. SessionsOK'
  <2>1. call[h].at # "bump"
    BY DEF NoCall
  <2>2. \A m \in Ids : Bumping(m) => Bumping(m)'
    BY <1>1, <2>1 DEF Bumping, Moves
  <2>3. \A s \in sessions' : Since(s)'
    BY <2>2, Parts DEF SessionsOK, Since, TypeOK
  <2>4. ASSUME NEW g \in Handlers, call'[g].at = "issue" PROVE Since(call[g])'
    <3>1. CASE g = h
      <4>1. call'[g] = d /\ d.m \in Ids /\ d.epoch \in Nat
        BY <1>1, <2>4, <3>1 DEF Moves, StepsFit, CallType
      <4>2. row[d.m].status # "none" /\ d.epoch = row[d.m].epoch /\ d.rev = row[d.m].rev
        BY <2>4, <4>1
      <4> QED
        BY <4>1, <4>2 DEF Since
    <3>2. CASE g # h
      <4>1. call'[g] = call[g] /\ StepsFit(call[g]) /\ Since(call[g])
        BY <1>1, <2>4, <3>2, Parts DEF Moves, TypedCalls, SessionsOK
      <4>2. PICK m \in Ids : m = call[g].m
        BY <2>4, <4>1 DEF StepsFit
      <4> QED
        BY <2>2, <4>1, <4>2 DEF Since, Bumping
    <3> QED
      BY <3>1, <3>2
  <2> QED
    BY <2>3, <2>4 DEF SessionsOK
<1> QED
  BY <1>2, <1>3, <1>4 DEF MembersInv

-----------------------------------------------------------------------------
(* The actions.                                                            *)

\* Calls that start by reading a row keep the invariant.
LEMMA StartingKeeps ==
  ASSUME MembersInv, NEW h \in Handlers, NEW m \in Ids, NEW on \in BOOLEAN,
         \/ RotateKey(h, m) \/ CreateMemberToken(h, m)
         \/ SetMemberStatus(h, m, on) \/ OffboardMember(h, m) \/ ExpireMember(h, m)
         \/ Login(h, m) \/ ChangePassword(h, m) \/ ResetMemberPassword(h, m) \/ AssignRole(h, m)
  PROVE  MembersInv'
<1>0. /\ row[m] \in RowType /\ m \in Ids /\ m \in 0..MaxMembers
      /\ row[m].status = "active" => row[m].boot = "done"
      /\ row[m].ptr \in 0..MaxTokens /\ row[m].rot + 1 \in Nat
      /\ row[m].epoch \in Nat /\ row[m].rev \in Nat
  BY Parts DEF Books, RowsOK, Ids, RowType
<1>1. ASSUME RotateKey(h, m) PROVE MembersInv'
  <2> DEFINE d == [NoCall EXCEPT !.op = "key", !.at = "find", !.m = m, !.old = row[m].ptr,
                             !.rot = row[m].rot + 1]
  <2>1. d \in CallType /\ StepsFit(d) /\ ~Owns(d) /\ d.at # "idle"
    BY ZenonT(60), <1>0, NoCallTyped DEF CallType, CallOps, Steps, StepsFit, Owns, NoCall
  <2>2. /\ row[d.m].status # "none"
        /\ d.op \in {"key", "status", "offboard"} => row[d.m].boot = "done"
        /\ d.at = "issue" => d.epoch = row[d.m].epoch /\ d.rev = row[d.m].rev
    BY <1>1, <1>0 DEF RotateKey, loadManageableMember, GetMember, NoCall
  <2>3. Start(h, d) /\ call[h] = NoCall /\ UNCHANGED <<row, key, slots, token, sessions, handed, cut, faults>>
    BY <1>1 DEF RotateKey, Idle, NewKey
  <2> HIDE DEF d
  <2> QED
    BY <2>1, <2>2, <2>3, StartKeeps
<1>2. ASSUME CreateMemberToken(h, m) PROVE MembersInv'
  <2> DEFINE d == [NoCall EXCEPT !.op = "key", !.at = "find", !.m = m, !.old = row[m].ptr,
                             !.rot = row[m].rot + 1]
  <2>1. d \in CallType /\ StepsFit(d) /\ ~Owns(d) /\ d.at # "idle"
    BY ZenonT(60), <1>0, NoCallTyped DEF CallType, CallOps, Steps, StepsFit, Owns, NoCall
  <2>2. /\ row[d.m].status # "none"
        /\ d.op \in {"key", "status", "offboard"} => row[d.m].boot = "done"
        /\ d.at = "issue" => d.epoch = row[d.m].epoch /\ d.rev = row[d.m].rev
    BY <1>2, <1>0 DEF CreateMemberToken, loadManageableMember, GetMember, NoCall
  <2>3. Start(h, d) /\ call[h] = NoCall /\ UNCHANGED <<row, key, slots, token, sessions, handed, cut, faults>>
    BY <1>2 DEF CreateMemberToken, Idle, NewKey
  <2> HIDE DEF d
  <2> QED
    BY <2>1, <2>2, <2>3, StartKeeps
<1>3. ASSUME SetMemberStatus(h, m, on) PROVE MembersInv'
  <2> DEFINE d == [NoCall EXCEPT !.op = "status", !.m = m, !.on = on, !.old = row[m].ptr,
                             !.at = IF row[m].ptr = 0 THEN "write" ELSE "token"]
  <2>1. d \in CallType /\ StepsFit(d) /\ ~Owns(d) /\ d.at # "idle"
    BY ZenonT(60), <1>0, NoCallTyped DEF CallType, CallOps, Steps, StepsFit, Owns, NoCall
  <2>2. /\ row[d.m].status # "none"
        /\ d.op \in {"key", "status", "offboard"} => row[d.m].boot = "done"
        /\ d.at = "issue" => d.epoch = row[d.m].epoch /\ d.rev = row[d.m].rev
    BY <1>3, <1>0 DEF SetMemberStatus, loadManageableMember, GetMember, NoCall
  <2>3. Start(h, d) /\ call[h] = NoCall /\ UNCHANGED <<row, key, slots, token, sessions, handed, cut, faults>>
    BY <1>3 DEF SetMemberStatus, Idle
  <2> HIDE DEF d
  <2> QED
    BY <2>1, <2>2, <2>3, StartKeeps
<1>4. ASSUME OffboardMember(h, m) PROVE MembersInv'
  <2> DEFINE d == [NoCall EXCEPT !.op = "offboard", !.m = m, !.old = row[m].ptr,
                             !.at = IF row[m].ptr = 0 THEN "leave" ELSE "delete"]
  <2>1. d \in CallType /\ StepsFit(d) /\ ~Owns(d) /\ d.at # "idle"
    BY ZenonT(60), <1>0, NoCallTyped DEF CallType, CallOps, Steps, StepsFit, Owns, NoCall
  <2>2. /\ row[d.m].status # "none"
        /\ d.op \in {"key", "status", "offboard"} => row[d.m].boot = "done"
        /\ d.at = "issue" => d.epoch = row[d.m].epoch /\ d.rev = row[d.m].rev
    BY <1>4, <1>0 DEF OffboardMember, loadManageableMember, GetMember, NoCall
  <2>3. Start(h, d) /\ call[h] = NoCall /\ UNCHANGED <<row, key, slots, token, sessions, handed, cut, faults>>
    BY <1>4 DEF OffboardMember, Idle
  <2> HIDE DEF d
  <2> QED
    BY <2>1, <2>2, <2>3, StartKeeps
<1>5. ASSUME ExpireMember(h, m) PROVE MembersInv'
  <2> DEFINE d == [NoCall EXCEPT !.op = "expire", !.m = m, !.old = row[m].ptr,
                             !.at = IF row[m].ptr = 0 THEN "expire" ELSE "delete"]
  <2>1. d \in CallType /\ StepsFit(d) /\ ~Owns(d) /\ d.at # "idle"
    BY ZenonT(60), <1>0, NoCallTyped DEF CallType, CallOps, Steps, StepsFit, Owns, NoCall
  <2>2. /\ row[d.m].status # "none"
        /\ d.op \in {"key", "status", "offboard"} => row[d.m].boot = "done"
        /\ d.at = "issue" => d.epoch = row[d.m].epoch /\ d.rev = row[d.m].rev
    BY <1>5, <1>0 DEF ExpireMember, loadManageableMember, GetMember, NoCall
  <2>3. Start(h, d) /\ call[h] = NoCall /\ UNCHANGED <<row, key, slots, token, sessions, handed, cut, faults>>
    BY <1>5 DEF ExpireMember, Idle
  <2> HIDE DEF d
  <2> QED
    BY <2>1, <2>2, <2>3, StartKeeps
<1>6. ASSUME Login(h, m) PROVE MembersInv'
  <2> DEFINE d == [NoCall EXCEPT !.op = "login", !.at = "issue", !.m = m,
                             !.epoch = row[m].epoch, !.rev = row[m].rev]
  <2>1. d \in CallType /\ StepsFit(d) /\ ~Owns(d) /\ d.at # "idle"
    BY ZenonT(60), <1>0, NoCallTyped DEF CallType, CallOps, Steps, StepsFit, Owns, NoCall
  <2>2. /\ row[d.m].status # "none"
        /\ d.op \in {"key", "status", "offboard"} => row[d.m].boot = "done"
        /\ d.at = "issue" => d.epoch = row[d.m].epoch /\ d.rev = row[d.m].rev
    BY <1>6, <1>0 DEF Login, loadManageableMember, GetMember, NoCall
  <2>3. Start(h, d) /\ call[h] = NoCall /\ UNCHANGED <<row, key, slots, token, sessions, handed, cut, faults>>
    BY <1>6 DEF Login, Idle
  <2> HIDE DEF d
  <2> QED
    BY <2>1, <2>2, <2>3, StartKeeps
<1>7. ASSUME ChangePassword(h, m) PROVE MembersInv'
  <2> DEFINE d == [NoCall EXCEPT !.op = "password", !.at = "write", !.m = m]
  <2>1. d \in CallType /\ StepsFit(d) /\ ~Owns(d) /\ d.at # "idle"
    BY ZenonT(60), <1>0, NoCallTyped DEF CallType, CallOps, Steps, StepsFit, Owns, NoCall
  <2>2. /\ row[d.m].status # "none"
        /\ d.op \in {"key", "status", "offboard"} => row[d.m].boot = "done"
        /\ d.at = "issue" => d.epoch = row[d.m].epoch /\ d.rev = row[d.m].rev
    BY <1>7, <1>0 DEF ChangePassword, loadManageableMember, GetMember, NoCall
  <2>3. Start(h, d) /\ call[h] = NoCall /\ UNCHANGED <<row, key, slots, token, sessions, handed, cut, faults>>
    BY <1>7 DEF ChangePassword, Idle
  <2> HIDE DEF d
  <2> QED
    BY <2>1, <2>2, <2>3, StartKeeps
<1>8. ASSUME ResetMemberPassword(h, m) PROVE MembersInv'
  <2> DEFINE d == [NoCall EXCEPT !.op = "reset", !.at = "write", !.m = m]
  <2>1. d \in CallType /\ StepsFit(d) /\ ~Owns(d) /\ d.at # "idle"
    BY ZenonT(60), <1>0, NoCallTyped DEF CallType, CallOps, Steps, StepsFit, Owns, NoCall
  <2>2. /\ row[d.m].status # "none"
        /\ d.op \in {"key", "status", "offboard"} => row[d.m].boot = "done"
        /\ d.at = "issue" => d.epoch = row[d.m].epoch /\ d.rev = row[d.m].rev
    BY <1>8, <1>0 DEF ResetMemberPassword, loadManageableMember, GetMember, NoCall
  <2>3. Start(h, d) /\ call[h] = NoCall /\ UNCHANGED <<row, key, slots, token, sessions, handed, cut, faults>>
    BY <1>8 DEF ResetMemberPassword, Idle
  <2> HIDE DEF d
  <2> QED
    BY <2>1, <2>2, <2>3, StartKeeps
<1>9. ASSUME AssignRole(h, m) PROVE MembersInv'
  <2> DEFINE d == [NoCall EXCEPT !.op = "role", !.at = "write", !.m = m]
  <2>1. d \in CallType /\ StepsFit(d) /\ ~Owns(d) /\ d.at # "idle"
    BY ZenonT(60), <1>0, NoCallTyped DEF CallType, CallOps, Steps, StepsFit, Owns, NoCall
  <2>2. /\ row[d.m].status # "none"
        /\ d.op \in {"key", "status", "offboard"} => row[d.m].boot = "done"
        /\ d.at = "issue" => d.epoch = row[d.m].epoch /\ d.rev = row[d.m].rev
    BY <1>9, <1>0 DEF AssignRole, loadManageableMember, GetMember, NoCall
  <2>3. Start(h, d) /\ call[h] = NoCall /\ UNCHANGED <<row, key, slots, token, sessions, handed, cut, faults>>
    BY <1>9 DEF AssignRole, Idle
  <2> HIDE DEF d
  <2> QED
    BY <2>1, <2>2, <2>3, StartKeeps
<1> QED
  BY <1>1, <1>2, <1>3, <1>4, <1>5, <1>6, <1>7, <1>8, <1>9

\* An import starts with the list of tokens.
LEMMA ReimportKeeps ==
  ASSUME MembersInv, NEW h \in Handlers, ReimportOrgTokens(h)
  PROVE  MembersInv'
<1> DEFINE d == [NoCall EXCEPT !.op = "import", !.at = "next", !.todo = ListUserTokens]
<1>1. ListUserTokens \in SUBSET (Tokens \X BOOLEAN)
  BY Parts DEF ListUserTokens, Live, TokenType
<1>2. d \in CallType /\ StepsFit(d) /\ ~Owns(d) /\ d.at = "next" /\ d.op = "import"
  BY <1>1, NoCallTyped DEF CallType, CallOps, Steps, StepsFit, Owns, NoCall
<1> QED
  BY <1>2, StartKeeps DEF ReimportOrgTokens, Idle

\* Calls go on, and none that is to end sessions.
Quietly == Continues /\ \A g \in Handlers : call[g].at = "bump" => call'[g] = call[g]

\* A call goes to another step.
LEMMA GotoQuiet ==
  ASSUME TypedCalls, NEW h \in Handlers, NEW at \in Steps, Goto(h, at),
         call[h].at \notin {"idle", "next", "mark", "bump"}, at # "issue",
         \A d \in CallType : SameBut(call[h], d) /\ d.at = at => StepsFit(d)
  PROVE  Quietly
  BY GotoContinues DEF Quietly, Moves

\* A call ends.
LEMMA EndQuiet ==
  ASSUME TypedCalls, NEW h \in Handlers, End(h), call[h].at # "bump"
  PROVE  Quietly
  BY EndContinues DEF Quietly, Moves

\* A request for a key fails.
LEMMA FailsQuiet ==
  ASSUME TypedCalls, NEW h \in Handlers, call[h].at \in {"find", "post", "locate", "reveal"},
         Fails(h)
  PROVE  Quietly
<1>1. CASE call[h].op = "open"
  <2>1. Goto(h, "release") /\ "release" \in Steps
    BY <1>1 DEF Fails, Steps
  <2>2. \A d \in CallType : SameBut(call[h], d) /\ d.at = "release" => StepsFit(d)
    BY <1>1 DEF TypedCalls, StepsFit, SameBut
  <2> QED
    BY <2>1, <2>2, GotoQuiet
<1>2. CASE call[h].op # "open"
  BY <1>2, EndQuiet DEF Fails
<1> QED
  BY <1>1, <1>2

\* A token of the wanted name is found.
LEMMA FoundQuiet ==
  ASSUME TypedCalls, NEW h \in Handlers, call[h].at \in {"find", "locate"}, NEW t \in Tokens,
         call' = [call EXCEPT ![h].tok = t, ![h].at = "reveal"]
  PROVE  Quietly
<1> DEFINE d == [call[h] EXCEPT !.tok = t, !.at = "reveal"]
<1>1. call[h] \in CallType /\ StepsFit(call[h])
  BY DEF TypedCalls
<1>2. d \in CallType
  <2>1. t \in 0..MaxTokens /\ "reveal" \in Steps
    BY MembersAssumption DEF Steps, Tokens
  <2> QED
    BY <1>1, <2>1 DEF CallType
<1>3. d.op = call[h].op /\ d.m = call[h].m /\ d.old = call[h].old /\ d.at = "reveal" /\ d.tok = t
  BY <1>1 DEF CallType
<1>4. StepsFit(d) /\ Kept(call[h], d)
  BY <1>1, <1>3 DEF StepsFit, Kept, Owns
<1>5. call' = [call EXCEPT ![h] = d]
  OBVIOUS
<1> HIDE DEF d
<1>6. Moves(h, d)
  BY <1>2, <1>5, SetCall DEF TypedCalls
<1> QED
  BY <1>2, <1>4, <1>6, MoveContinues DEF Quietly, Moves

\* A step that changes calls and tokens only keeps the invariant.
LEMMA QuietKeeps ==
  ASSUME MembersInv, Quietly, UNCHANGED <<row, key, slots, handed, sessions, cut, calls>>,
         token' \in [Tokens -> TokenType], Fault \/ NoFault
  PROVE  MembersInv'
  BY Parts, Bounded, CallOnlyKeeps DEF Quietly

\* Deleting a token, or leaving the tokens alone, keeps them typed.
LEMMA TokensTyped ==
  ASSUME token \in [Tokens -> TokenType], NEW t
  PROVE  DeleteToken(t) \/ UNCHANGED token => token' \in [Tokens -> TokenType]
  BY DEF DeleteToken, TokenType

\* The requests that make, find, reveal, switch and delete tokens.
LEMMA GatewayKeeps ==
  ASSUME MembersInv, NEW h \in Handlers,
         \/ Provision(h) \/ Find(h) \/ Post(h) \/ Locate(h) \/ Reveal(h) \/ withOrgCred(h)
         \/ Drop(h) \/ Undo(h) \/ SetTokenStatus(h) \/ Delete(h)
  PROVE  MembersInv'
<1>0. TypedCalls /\ call[h] \in CallType /\ StepsFit(call[h]) /\ token \in [Tokens -> TokenType]
  BY Parts DEF TypedCalls
<1> USE DEF Steps
<1>1. ASSUME Provision(h) PROVE MembersInv'
  <2>1. \A at \in {"find", "release"} :
          \A d \in CallType : SameBut(call[h], d) /\ d.at = at => StepsFit(d)
    BY <1>0, <1>1 DEF Provision, At, StepsFit, SameBut
  <2>2. Quietly
    BY <1>0, <1>1, <2>1, GotoQuiet DEF Provision, At
  <2> QED
    BY <1>0, <1>1, <2>2, QuietKeeps DEF Provision
<1>2. ASSUME Find(h) PROVE MembersInv'
  <2>1. \A d \in CallType : SameBut(call[h], d) /\ d.at = "post" => StepsFit(d)
    BY <1>0, <1>2 DEF Find, StepsFit, SameBut
  <2>2. findTokenByName(call[h].m, call[h].rot) \subseteq Tokens
    BY DEF findTokenByName, Live
  <2>3. Quietly
    <3>1. CASE Fails(h)
      BY <1>0, <1>2, <3>1, FailsQuiet DEF Find
    <3>2. CASE Goto(h, "post")
      BY <1>0, <1>2, <2>1, <3>2, GotoQuiet DEF Find
    <3>3. CASE \E t \in findTokenByName(call[h].m, call[h].rot) :
                 call' = [call EXCEPT ![h].tok = t, ![h].at = "reveal"]
      BY <1>0, <1>2, <2>2, <3>3, FoundQuiet DEF Find
    <3> QED
      BY <1>2, <3>1, <3>2, <3>3 DEF Find
  <2> QED
    BY <1>0, <1>2, <2>3, QuietKeeps DEF Find
<1>3. ASSUME Post(h) PROVE MembersInv'
  <2>1. \A d \in CallType : SameBut(call[h], d) /\ d.at = "locate" => StepsFit(d)
    BY <1>0, <1>3 DEF Post, StepsFit, SameBut
  <2>2. Quietly
    BY <1>0, <1>3, <2>1, GotoQuiet, FailsQuiet DEF Post
  <2>3. ASSUME NEW t \in Tokens,
               token' = [token EXCEPT ![t] = [m |-> call[h].m, rot |-> call[h].rot,
                                              on |-> TRUE, st |-> "live"]]
        PROVE  token' \in [Tokens -> TokenType]
    BY <1>0, <2>3 DEF TokenType, CallType
  <2>4. token' \in [Tokens -> TokenType] /\ (Fault \/ NoFault)
    BY <1>0, <1>3, <2>3 DEF Post
  <2> QED
    BY <1>3, <2>2, <2>4, QuietKeeps DEF Post
<1>4. ASSUME Locate(h) PROVE MembersInv'
  <2>1. findTokenByName(call[h].m, call[h].rot) \subseteq Tokens
    BY DEF findTokenByName, Live
  <2>2. Quietly
    BY <1>0, <1>4, <2>1, FoundQuiet, FailsQuiet DEF Locate
  <2> QED
    BY <1>0, <1>4, <2>2, QuietKeeps DEF Locate
<1>5. ASSUME Reveal(h) PROVE MembersInv'
  <2>1. ASSUME NEW at, at = IF call[h].old \notin {0, call[h].tok} THEN "drop" ELSE "save"
        PROVE  /\ at \in {"drop", "save"}
               /\ \A d \in CallType : SameBut(call[h], d) /\ d.at = at => StepsFit(d)
    BY <1>0, <1>5, <2>1 DEF Reveal, StepsFit, SameBut
  <2>2. Quietly
    BY <1>0, <1>5, <2>1, GotoQuiet, FailsQuiet DEF Reveal
  <2> QED
    BY <1>0, <1>5, <2>2, QuietKeeps DEF Reveal
<1>6. ASSUME withOrgCred(h) PROVE MembersInv'
  <2> DEFINE d == [call[h] EXCEPT !.at = "find", !.fresh = TRUE]
  <2>1. d \in CallType /\ d.op = call[h].op /\ d.m = call[h].m /\ d.at = "find"
    BY <1>0 DEF CallType
  <2>2. StepsFit(d) /\ Kept(call[h], d)
    BY <1>0, <1>6, <2>1 DEF withOrgCred, StepsFit, Kept, Owns
  <2>3. call' = [call EXCEPT ![h] = d]
    BY <1>6 DEF withOrgCred
  <2> HIDE DEF d
  <2>4. Moves(h, d)
    BY <1>0, <2>1, <2>3, SetCall DEF TypedCalls
  <2>5. Quietly
    BY <1>0, <1>6, <2>1, <2>2, <2>4, MoveContinues DEF Quietly, Moves, withOrgCred
  <2> QED
    BY <1>0, <1>6, <2>5, QuietKeeps DEF withOrgCred
<1>7. ASSUME Drop(h) PROVE MembersInv'
  <2>1. \A d \in CallType : SameBut(call[h], d) /\ d.at = "save" => StepsFit(d)
    BY <1>0, <1>7 DEF Drop, StepsFit, SameBut
  <2>2. Quietly
    BY <1>0, <1>7, <2>1, GotoQuiet DEF Drop
  <2> QED
    BY <1>0, <1>7, <2>2, QuietKeeps, TokensTyped DEF Drop
<1>8. ASSUME Undo(h) PROVE MembersInv'
  <2>1. \A d \in CallType : SameBut(call[h], d) /\ d.at = "release" => StepsFit(d)
    BY <1>0, <1>8 DEF Undo, StepsFit, SameBut
  <2>2. Quietly
    BY <1>0, <1>8, <2>1, GotoQuiet DEF Undo
  <2> QED
    BY <1>0, <1>8, <2>2, QuietKeeps, TokensTyped DEF Undo
<1>9. ASSUME SetTokenStatus(h) PROVE MembersInv'
  <2>1. \A d \in CallType : SameBut(call[h], d) /\ d.at = "write" => StepsFit(d)
    BY <1>0, <1>9 DEF SetTokenStatus, StepsFit, SameBut
  <2>2. Quietly
    BY <1>0, <1>9, <2>1, GotoQuiet, EndQuiet DEF SetTokenStatus
  <2>3. ASSUME token' = [token EXCEPT ![call[h].old].on = call[h].on]
        PROVE  token' \in [Tokens -> TokenType]
    <3>1. call[h].on \in BOOLEAN
      BY <1>0 DEF CallType
    <3>2. \A r \in TokenType : [r EXCEPT !.on = call[h].on] \in TokenType
      BY <3>1 DEF TokenType
    <3> QED
      BY <1>0, <2>3, <3>2
  <2>4. token' \in [Tokens -> TokenType] /\ (Fault \/ NoFault)
    BY <1>0, <1>9, <2>3 DEF SetTokenStatus
  <2> QED
    BY <1>9, <2>2, <2>4, QuietKeeps DEF SetTokenStatus
<1>10. ASSUME Delete(h) PROVE MembersInv'
  <2>1. ASSUME NEW at, at = IF call[h].op = "offboard" THEN "leave" ELSE "clear"
        PROVE  /\ at \in {"leave", "clear"}
               /\ \A d \in CallType : SameBut(call[h], d) /\ d.at = at => StepsFit(d)
    BY <1>0, <1>10, <2>1 DEF Delete, StepsFit, SameBut
  <2>2. Quietly
    BY <1>0, <1>10, <2>1, GotoQuiet, EndQuiet DEF Delete
  <2>3. token' \in [Tokens -> TokenType] /\ (Fault \/ NoFault)
    BY <1>0, <1>10, TokensTyped DEF Delete
  <2> QED
    BY <1>10, <2>2, <2>3, QuietKeeps DEF Delete
<1> QED
  BY <1>1, <1>2, <1>3, <1>4, <1>5, <1>6, <1>7, <1>8, <1>9, <1>10

-----------------------------------------------------------------------------
(* Statements on the member row.                                           *)

\* One row is rewritten without ending sessions; whoever is still opening
\* this member sees it pending as before.
LEMMA RowWriteKeeps ==
  ASSUME MembersInv, Quietly, NEW m \in Ids, NEW r \in RowType, row' = [row EXCEPT ![m] = r],
         r.epoch = row[m].epoch, r.rev = row[m].rev, RowStep(row[m], r),
         \A g \in Handlers : Owns(call'[g]) /\ call[g].m = m => r.boot = row[m].boot,
         UNCHANGED <<key, slots, token, handed, sessions, cut>>,
         calls' \in 0..MaxCalls, faults' \in 0..MaxFaults
  PROVE  MembersInv'
<1>1. /\ row \in [Ids -> RowType] /\ row' \in [Ids -> RowType] /\ row'[m] = r
      /\ \A n \in Ids : n # m => row'[n] = row[n]
  BY Parts
<1>2. ASSUME NEW n \in Ids PROVE RowStep(row[n], row'[n])
  BY <1>1, RowSame
<1>3. ASSUME NEW n \in Ids PROVE Effect(n)
  BY <1>1 DEF Effect, Bumping, Quietly
<1>4. ASSUME NEW g \in Handlers, Owns(call'[g]) PROVE row'[call[g].m].boot = row[call[g].m].boot
  <2>1. call[g].m \in Ids
    BY <1>4, Parts DEF Quietly, Continues, Kept, Owns, TypedCalls, StepsFit
  <2> QED
    BY <1>1, <1>4, <2>1
<1> QED
  BY <1>1, <1>2, <1>3, <1>4, Parts, ContinueKeeps DEF Quietly

\* The row that is written follows from the row that was there.
LEMMA RowFields ==
  ASSUME MembersInv, NEW h \in Handlers, call[h].at \notin {"idle", "next"}
  PROVE  /\ call[h] \in CallType /\ StepsFit(call[h]) /\ call[h].m \in Ids
         /\ row[call[h].m] \in RowType /\ row[call[h].m].status # "none"
         /\ row[call[h].m].status = "active" \/ row[call[h].m].deleted =>
              row[call[h].m].boot = "done"
         /\ call[h].op \in {"key", "status", "offboard"} => row[call[h].m].boot = "done"
         /\ Owns(call[h]) => row[call[h].m].boot = "pending"
<1>1. call[h] \in CallType /\ StepsFit(call[h]) /\ call[h].m \in Ids
  BY Parts DEF TypedCalls, StepsFit
<1> QED
  BY <1>1, Parts DEF Books, RowsOK, CallsOK

\* A failed opening is released by the call that owns the row, and by no other.
LEMMA ReleaseKeeps ==
  ASSUME MembersInv, NEW h \in Handlers, Release(h)
  PROVE  MembersInv'
<1> DEFINE m == call[h].m
           r == [row[m] EXCEPT !.boot = "failed", !.status = "provisioning"]
<1>0. call[h].at = "release" /\ TypedCalls
  BY Parts DEF Release
<1>1. /\ call[h] \in CallType /\ StepsFit(call[h]) /\ m \in Ids /\ row[m] \in RowType
      /\ row[m].status # "none" /\ (row[m].deleted => row[m].boot = "done")
  BY <1>0, RowFields
<1>2. Owns(call[h]) /\ row[m].boot = "pending"
  BY <1>0, <1>1, RowFields DEF StepsFit, Owns, CallType, CallOps
<1>3. Quietly /\ ~Owns(call'[h])
  <2>1. CASE call[h].op = "import"
    <3>1. Goto(h, "next") /\ "next" \in Steps
      BY <2>1 DEF Release, Steps
    <3>2. \A d \in CallType : SameBut(call[h], d) /\ d.at = "next" => StepsFit(d)
      BY <1>1, <2>1 DEF StepsFit, SameBut
    <3> QED
      BY <1>0, <3>1, <3>2, GotoContinues DEF Quietly, Moves, Owns
  <2>2. CASE call[h].op # "import"
    <3>1. End(h)
      BY <2>2 DEF Release
    <3> QED
      BY <1>0, <3>1, EndContinues DEF Quietly, Moves, Owns, NoCall
  <2> QED
    BY <2>1, <2>2
<1>4. calls' \in 0..MaxCalls /\ faults' \in 0..MaxFaults
  BY Parts, Bounded DEF Release
<1>5. CASE UNCHANGED row
  BY <1>3, <1>5, Parts, QuietKeeps DEF Release
<1>6. CASE MarkBootstrapFailedAndRelease(m)
  <2>1. r \in RowType /\ r.epoch = row[m].epoch /\ r.rev = row[m].rev
    BY <1>1 DEF RowType, Statuses
  <2>2. RowStep(row[m], r)
    BY <1>1, <1>2 DEF RowType, RowStep
  <2>3. row' = [row EXCEPT ![m] = r]
    BY <1>6 DEF MarkBootstrapFailedAndRelease
  <2>4. ASSUME NEW g \in Handlers, Owns(call'[g]), call[g].m = m PROVE FALSE
    <3>1. Owns(call[g]) /\ g # h
      BY <1>3, <2>4 DEF Quietly, Continues, Kept
    <3> QED
      BY <1>2, <2>4, <3>1, Parts DEF Books, OwnersDiffer
  <2> HIDE DEF r, m
  <2> QED
    BY <1>1, <1>3, <1>4, <2>1, <2>2, <2>3, <2>4, RowWriteKeeps DEF Release
<1> QED
  BY <1>5, <1>6 DEF Release

\* A statement of a call that changes fields of the row only.
LEMMA StatementKeeps ==
  ASSUME MembersInv, NEW h \in Handlers, call[h].at \notin {"idle", "next"}, Quietly,
         NEW r \in RowType, RowStep(row[call[h].m], r),
         r.epoch = row[call[h].m].epoch, r.rev = row[call[h].m].rev,
         r.boot = row[call[h].m].boot,
         row' = [row EXCEPT ![call[h].m] = r] \/ UNCHANGED row,
         UNCHANGED <<key, slots, token, handed, sessions, cut, calls>>, Fault \/ NoFault
  PROVE  MembersInv'
<1>1. calls' \in 0..MaxCalls /\ faults' \in 0..MaxFaults
  BY Parts, Bounded
<1>2. PICK m \in Ids : m = call[h].m
  BY RowFields
<1>3. CASE UNCHANGED row
  BY <1>3, Parts, QuietKeeps
<1>4. CASE row' = [row EXCEPT ![m] = r]
  BY <1>1, <1>2, <1>4, RowWriteKeeps
<1> QED
  BY <1>2, <1>3, <1>4

\* The status of an imported token, departure, the cleared pointer, expiry.
LEMMA StatementsKeep ==
  ASSUME MembersInv, NEW h \in Handlers,
         ImportStatus(h) \/ Leave(h) \/ ClearMemberToken(h) \/ ExpireStatus(h)
  PROVE  MembersInv'
<1> DEFINE m == call[h].m
<1>0. TypedCalls /\ call[h].at \in {"mark", "leave", "clear", "expire"}
  BY Parts DEF ImportStatus, Leave, ClearMemberToken, ExpireStatus
<1>1. /\ call[h] \in CallType /\ StepsFit(call[h]) /\ m \in Ids /\ row[m] \in RowType
      /\ row[m].status # "none"
      /\ row[m].status = "active" \/ row[m].deleted => row[m].boot = "done"
      /\ call[h].op = "offboard" => row[m].boot = "done"
  BY <1>0, RowFields
<1>2. 0 \in 0..MaxTokens
  BY MembersAssumption
<1>3. ASSUME ImportStatus(h) PROVE MembersInv'
  <2> DEFINE r == [row[m] EXCEPT !.status = "disabled"]
  <2>1. r \in RowType /\ RowStep(row[m], r) /\ r.epoch = row[m].epoch /\ r.rev = row[m].rev
        /\ r.boot = row[m].boot
    BY <1>1 DEF RowType, RowStep, Statuses
  <2>2. \A d \in CallType : SameBut(call[h], d) /\ d.at = "next" => StepsFit(d)
    BY <1>1, <1>3 DEF ImportStatus, StepsFit, SameBut, CallType, CallOps
  <2>3. Goto(h, "next") /\ "next" \in Steps
    BY <1>3 DEF ImportStatus, Steps
  <2>4. Quietly
    BY <1>0, <2>2, <2>3, <1>3, GotoContinues DEF Quietly, Moves, ImportStatus
  <2>5. row' = [row EXCEPT ![m] = r] \/ UNCHANGED row
    BY <1>3 DEF ImportStatus
  <2> HIDE DEF r
  <2> QED
    BY <1>0, <1>3, <2>1, <2>4, <2>5, StatementKeeps DEF ImportStatus
<1>4. ASSUME Leave(h) PROVE MembersInv'
  <2> DEFINE r == [row[m] EXCEPT !.deleted = TRUE, !.status = "offboarded", !.ptr = 0]
  <2>1. call[h].op = "offboard"
    BY <1>1, <1>4 DEF Leave, StepsFit, CallType, CallOps
  <2>2. r \in RowType
    BY <1>1, <1>2 DEF RowType, Statuses
  <2>3. RowStep(row[m], r) /\ r.epoch = row[m].epoch /\ r.rev = row[m].rev /\ r.boot = row[m].boot
    BY <1>1, <2>1 DEF RowType, RowStep
  <2>4. Quietly
    BY <1>0, <1>4, EndQuiet DEF Leave
  <2>5. row' = [row EXCEPT ![m] = r] \/ UNCHANGED row
    BY <1>4 DEF Leave
  <2> HIDE DEF r
  <2> QED
    BY <1>0, <1>4, <2>2, <2>3, <2>4, <2>5, StatementKeeps DEF Leave
<1>5. ASSUME ClearMemberToken(h) PROVE MembersInv'
  <2> DEFINE r == [row[m] EXCEPT !.ptr = 0]
  <2>1. r \in RowType
    BY <1>1, <1>2 DEF RowType
  <2>2. RowStep(row[m], r) /\ r.epoch = row[m].epoch /\ r.rev = row[m].rev /\ r.boot = row[m].boot
    BY <1>1 DEF RowType, RowStep
  <2>3. \A d \in CallType : SameBut(call[h], d) /\ d.at = "expire" => StepsFit(d)
    BY <1>1, <1>5 DEF ClearMemberToken, StepsFit, SameBut, CallType, CallOps
  <2>4. Quietly
    <3>1. "expire" \in Steps
      BY DEF Steps
    <3> QED
      BY <1>0, <1>5, <2>3, <3>1, GotoQuiet, EndQuiet DEF ClearMemberToken
  <2>5. row' = [row EXCEPT ![m] = r] \/ UNCHANGED row
    BY <1>5 DEF ClearMemberToken
  <2> HIDE DEF r
  <2> QED
    BY <1>0, <1>5, <2>1, <2>2, <2>4, <2>5, StatementKeeps DEF ClearMemberToken
<1>6. ASSUME ExpireStatus(h) PROVE MembersInv'
  <2> DEFINE r == [row[m] EXCEPT !.status = "expired"]
  <2>1. r \in RowType /\ RowStep(row[m], r) /\ r.epoch = row[m].epoch /\ r.rev = row[m].rev
        /\ r.boot = row[m].boot
    BY <1>1 DEF RowType, RowStep, Statuses
  <2>2. Quietly
    BY <1>0, <1>6, EndQuiet DEF ExpireStatus
  <2>3. row' = [row EXCEPT ![m] = r] \/ UNCHANGED row
    BY <1>6 DEF ExpireStatus
  <2> HIDE DEF r
  <2> QED
    BY <1>0, <1>6, <2>1, <2>2, <2>3, StatementKeeps DEF ExpireStatus
<1> QED
  BY <1>3, <1>4, <1>5, <1>6

\* No call moves.
LEMMA StillQuiet == ASSUME TypedCalls, UNCHANGED call PROVE Quietly
  BY DEF TypedCalls, Quietly, Continues, Kept

\* A restored member is complete, as it was when it left.
LEMMA RestoreKeeps ==
  ASSUME MembersInv, NEW m \in Ids, RestoreOffboardedMember(m)
  PROVE  MembersInv'
<1> DEFINE r == [row[m] EXCEPT !.deleted = FALSE, !.status = "active"]
<1>1. /\ row[m] \in RowType /\ row[m].deleted /\ row[m].boot = "done" /\ TypedCalls
      /\ row[m].status # "none"
  BY Parts DEF RestoreOffboardedMember, Books, RowsOK, NoRow
<1>2. r \in RowType
  BY <1>1 DEF RowType, Statuses
<1>3. RowStep(row[m], r) /\ r.epoch = row[m].epoch /\ r.rev = row[m].rev /\ r.boot = row[m].boot
  BY <1>1 DEF RowType, RowStep
<1>4. Quietly
  BY <1>1, StillQuiet DEF RestoreOffboardedMember
<1>5. calls' \in 0..MaxCalls /\ faults' \in 0..MaxFaults
  BY Parts, Bounded DEF RestoreOffboardedMember
<1>6. row' = [row EXCEPT ![m] = r]
  BY DEF RestoreOffboardedMember
<1> HIDE DEF r
<1> QED
  BY <1>2, <1>3, <1>4, <1>5, <1>6, RowWriteKeeps DEF RestoreOffboardedMember

-----------------------------------------------------------------------------
(* Changes that end sessions.                                              *)

\* A change of password, role or status is followed by its bump: from the
\* statement on, the call that made it is about to end the sessions.
LEMMA ChangeKeeps ==
  ASSUME MembersInv, NEW h \in Handlers, WriteStatus(h) \/ WriteCredential(h)
  PROVE  MembersInv'
<1> DEFINE m == call[h].m
<1>0. TypedCalls /\ call[h].at = "write" /\ (Fault \/ NoFault) /\ calls' \in 0..MaxCalls
      /\ faults' \in 0..MaxFaults /\ UNCHANGED <<key, slots, token, sessions, handed, cut, calls>>
  BY Parts, Bounded DEF WriteStatus, WriteCredential, At
<1>1. /\ call[h] \in CallType /\ StepsFit(call[h]) /\ m \in Ids /\ row[m] \in RowType
      /\ row[m].status # "none"
      /\ row[m].status = "active" \/ row[m].deleted => row[m].boot = "done"
      /\ call[h].op = "status" => row[m].boot = "done"
  BY <1>0, RowFields
<1>2. CASE UNCHANGED row /\ End(h)
  BY <1>0, <1>2, Parts, EndQuiet, QuietKeeps
<1>3. ASSUME Goto(h, "bump"), NEW r \in RowType, row' = [row EXCEPT ![m] = r],
             RowStep(row[m], r), r.epoch = row[m].epoch, r.boot = row[m].boot
      PROVE  MembersInv'
  <2>1. "bump" \in Steps /\ \A d \in CallType : SameBut(call[h], d) /\ d.at = "bump" => StepsFit(d)
    BY <1>0, <1>1 DEF Steps, StepsFit, SameBut, CallType, CallOps
  <2>2. Continues /\ \E d \in CallType : Moves(h, d) /\ SameBut(call[h], d) /\ d.at = "bump"
    BY <1>0, <1>3, <2>1, GotoContinues
  <2>3. /\ call'[h].at = "bump" /\ call'[h].m = m
        /\ \A g \in Handlers : g # h => call'[g] = call[g]
    BY <2>2 DEF Moves, SameBut
  <2>4. /\ row' \in [Ids -> RowType] /\ row'[m] = r
        /\ \A n \in Ids : n # m => row'[n] = row[n]
    BY <1>1, <1>3, Parts
  <2>5. ASSUME NEW n \in Ids PROVE Effect(n)
    <3>1. CASE n = m
      <4>1. Bumping(n)'
        BY <2>3, <3>1 DEF Bumping
      <4> QED
        BY <1>3, <2>4, <3>1, <4>1 DEF Effect
    <3>2. CASE n # m
      <4>1. Bumping(n) => Bumping(n)'
        BY <2>3, <1>0 DEF Bumping
      <4> QED
        BY <1>0, <2>4, <3>2, <4>1 DEF Effect
    <3> QED
      BY <3>1, <3>2
  <2>6. ASSUME NEW n \in Ids PROVE RowStep(row[n], row'[n])
    BY <1>3, <2>4, RowSame
  <2>7. \A n \in Ids : row'[n].boot = row[n].boot
    BY <1>3, <2>4
  <2>8. ASSUME NEW g \in Handlers, Owns(call'[g])
        PROVE  row'[call[g].m].boot = row[call[g].m].boot
    <3>1. call[g].m \in Ids
      BY <1>0, <2>2, <2>8 DEF Continues, Kept, Owns, TypedCalls, StepsFit
    <3> QED
      BY <2>7, <3>1
  <2> QED
    BY <1>0, <2>2, <2>4, <2>5, <2>6, <2>8, Parts, ContinueKeeps
<1>4. ASSUME WriteStatus(h) PROVE MembersInv'
  <2> DEFINE s == IF call[h].on THEN "active" ELSE "disabled"
             r == [row[m] EXCEPT !.status = s, !.rev = @ + 1]
  <2>1. row[m].boot = "done" /\ s \in {"active", "disabled"}
    BY <1>1, <1>4 DEF WriteStatus, At
  <2>2. (row' = [row EXCEPT ![m] = r] /\ Goto(h, "bump")) \/ (UNCHANGED row /\ End(h))
    BY <1>4 DEF WriteStatus, UpdateMemberStatus
  <2> HIDE DEF s
  <2>3. r \in RowType
    <3>1. row[m].rev + 1 \in Nat /\ s \in Statuses
      BY <1>1, <2>1 DEF RowType, Statuses
    <3>2. PICK q \in RowType, v \in Nat, x \in Statuses :
            q = row[m] /\ v = row[m].rev + 1 /\ x = s
      BY <1>1, <3>1
    <3>3. [q EXCEPT !.status = x, !.rev = v] \in RowType
      BY DEF RowType
    <3>4. r = [q EXCEPT !.status = x, !.rev = v]
      BY <3>2 DEF RowType
    <3> HIDE DEF r
    <3> QED
      BY <3>3, <3>4
  <2>4. RowStep(row[m], r) /\ r.epoch = row[m].epoch /\ r.boot = row[m].boot
    BY <1>1, <2>1 DEF RowType, RowStep
  <2> HIDE DEF r
  <2> QED
    BY <1>2, <1>3, <2>2, <2>3, <2>4
<1>5. ASSUME WriteCredential(h) PROVE MembersInv'
  <2> DEFINE r == [row[m] EXCEPT !.rev = @ + 1]
  <2>1. r \in RowType
    BY <1>1 DEF RowType
  <2>2. RowStep(row[m], r) /\ r.epoch = row[m].epoch /\ r.boot = row[m].boot
    BY <1>1 DEF RowType, RowStep
  <2>3. (row' = [row EXCEPT ![m] = r] /\ Goto(h, "bump")) \/ (UNCHANGED row /\ End(h))
    BY <1>5 DEF WriteCredential
  <2> HIDE DEF r
  <2> QED
    BY <1>2, <1>3, <2>1, <2>2, <2>3
<1> QED
  BY <1>4, <1>5

\* The bump raises the epoch of its member, and clears nobody else; when it
\* fails the member is remembered as cut off from it.
LEMMA BumpKeeps ==
  ASSUME MembersInv, NEW h \in Handlers, BumpMemberSessionEpoch(h)
  PROVE  MembersInv'
<1> DEFINE m == call[h].m
           r == [row[m] EXCEPT !.epoch = @ + 1]
<1>0. TypedCalls /\ call[h].at = "bump" /\ End(h) /\ calls' \in 0..MaxCalls
      /\ faults' \in 0..MaxFaults /\ UNCHANGED <<key, slots, token, sessions, handed>>
  BY Parts, Bounded DEF BumpMemberSessionEpoch
<1>1. /\ m \in Ids /\ row[m] \in RowType /\ row[m].status # "none"
      /\ row[m].status = "active" \/ row[m].deleted => row[m].boot = "done"
  BY <1>0, RowFields
<1>2. Continues /\ Moves(h, NoCall)
  BY <1>0, EndContinues
<1>3. \A n \in Ids : n # m /\ Bumping(n) => Bumping(n)'
  BY <1>2 DEF Moves, Bumping
<1>4. ASSUME NEW g \in Handlers, Owns(call'[g]) PROVE call[g].m \in Ids
  BY <1>0, <1>2, <1>4 DEF Continues, Kept, Owns, TypedCalls, StepsFit
<1>5. CASE UNCHANGED row /\ cut' = cut \cup {m}
  <2>1. \A n \in Ids : RowStep(row[n], row'[n]) /\ Effect(n)
    BY <1>3, <1>5, RowSame DEF Effect
  <2> QED
    BY <1>0, <1>1, <1>2, <1>5, <2>1, Parts, ContinueKeeps
<1>6. CASE row' = [row EXCEPT ![m] = r] /\ cut' = cut \ {m}
  <2>1. r \in RowType /\ RowStep(row[m], r) /\ r.epoch = row[m].epoch + 1 /\ r.boot = row[m].boot
    <3>1. r \in RowType
      BY <1>1 DEF RowType
    <3> QED
      BY <1>1, <3>1 DEF RowType, RowStep
  <2> HIDE DEF r
  <2>2. /\ row' \in [Ids -> RowType] /\ row'[m] = r
        /\ \A n \in Ids : n # m => row'[n] = row[n]
    BY <1>1, <1>6, <2>1, Parts
  <2>3. ASSUME NEW n \in Ids PROVE Effect(n) /\ RowStep(row[n], row'[n])
    <3>1. CASE n = m
      BY <2>1, <2>2, <3>1 DEF Effect
    <3>2. CASE n # m
      <4>1. n \in cut => n \in cut'
        BY <1>6, <3>2
      <4>2. row'[n] = row[n]
        BY <2>2, <3>2
      <4> QED
        BY <1>3, <3>2, <4>1, <4>2, RowSame DEF Effect
    <3> QED
      BY <3>1, <3>2
  <2>4. \A n \in Ids : row'[n].boot = row[n].boot
    BY <2>1, <2>2
  <2>5. cut' \subseteq Ids /\ token' \in [Tokens -> TokenType]
    BY <1>0, <1>6, Parts
  <2> QED
    BY <1>0, <1>2, <1>4, <2>2, <2>3, <2>4, <2>5, ContinueKeeps
<1> QED
  BY <1>5, <1>6 DEF BumpMemberSessionEpoch

\* A hard stop ends the sessions of all members that are there.
LEMMA HardStopKeeps ==
  ASSUME MembersInv, BumpOrgMembersSessionEpoch
  PROVE  MembersInv'
<1>0. TypedCalls /\ calls' \in 0..MaxCalls /\ faults' \in 0..MaxFaults /\ Continues
      /\ UNCHANGED <<key, slots, token, sessions, handed, call>> /\ cut' \subseteq Ids
      /\ token' \in [Tokens -> TokenType]
  BY Parts, Bounded, StillQuiet DEF BumpOrgMembersSessionEpoch, Quietly
<1>1. ASSUME NEW n \in Ids
      PROVE  /\ row'[n] \in RowType /\ row'[n].boot = row[n].boot
             /\ Effect(n) /\ RowStep(row[n], row'[n])
  <2>0. row[n] \in RowType /\ RowStep(row[n], row[n])
    BY Parts, RowSame
  <2>1. CASE GetMember(n)
    <3>1. row'[n] = [row[n] EXCEPT !.epoch = @ + 1]
      BY <2>1 DEF BumpOrgMembersSessionEpoch
    <3>2. row'[n] \in RowType
      BY <2>0, <3>1 DEF RowType
    <3>3. row'[n].epoch = row[n].epoch + 1 /\ row'[n].boot = row[n].boot
          /\ row'[n].status = row[n].status /\ row'[n].deleted = row[n].deleted
          /\ row'[n].ptr = row[n].ptr /\ row[n].status # "none"
      BY <2>0, <2>1, <3>1 DEF RowType, GetMember
    <3> QED
      BY <2>0, <3>2, <3>3 DEF Effect, RowStep
  <2>2. CASE ~GetMember(n)
    <3>1. row'[n] = row[n] /\ (n \in cut => n \in cut')
      BY <2>2 DEF BumpOrgMembersSessionEpoch
    <3>2. Bumping(n) => Bumping(n)'
      BY <1>0 DEF Bumping
    <3> QED
      BY <2>0, <3>1, <3>2 DEF Effect
  <2> QED
    BY <2>1, <2>2
<1>2. row' \in [Ids -> RowType]
  BY <1>1 DEF BumpOrgMembersSessionEpoch
<1>3. ASSUME NEW g \in Handlers, Owns(call'[g]) PROVE call[g].m \in Ids
  BY <1>0, <1>3 DEF Owns, TypedCalls, StepsFit
<1> QED
  BY <1>0, <1>1, <1>2, <1>3, ContinueKeeps

\* A crash ends all calls; the members whose bump is lost are remembered.
LEMMA CrashKeeps ==
  ASSUME MembersInv, Crash
  PROVE  MembersInv'
<1>0. TypedCalls /\ calls' \in 0..MaxCalls /\ faults' \in 0..MaxFaults
      /\ UNCHANGED <<row, key, slots, token, sessions, handed>>
  BY Parts, Bounded DEF Crash
<1>1. Continues
  BY NoCallTyped, KeptEnd DEF Crash, Continues
<1>2. cut' \subseteq Ids
  BY <1>0, Parts DEF Crash, TypedCalls, StepsFit
<1>3. ASSUME NEW n \in Ids PROVE Effect(n) /\ RowStep(row[n], row'[n])
  <2>1. (Bumping(n) => n \in cut') /\ (n \in cut => n \in cut')
    BY DEF Crash, Bumping
  <2> QED
    BY <1>0, <2>1, RowSame DEF Effect
<1> QED
  BY <1>0, <1>1, <1>2, <1>3, Parts, ContinueKeeps

\* The session that a login issues carries what the login read.
LEMMA IssueKeeps ==
  ASSUME MembersInv, NEW h \in Handlers, Issue(h)
  PROVE  MembersInv'
<1>0. TypedCalls /\ call[h].at = "issue" /\ End(h) /\ sessions' = sessions \cup {Claims(h)}
      /\ UNCHANGED <<row, key, slots, token, handed, cut, faults, calls>>
  BY Parts DEF Issue
<1>1. call[h] \in CallType /\ call[h].m \in Ids
  BY <1>0, RowFields
<1>2. Continues /\ Moves(h, NoCall)
  BY <1>0, EndContinues
<1>3. Typed'
  <2>1. Claims(h) \in [m : Ids, epoch : Nat, rev : Nat]
    BY <1>1 DEF Claims, CallType
  <2>2. TypeOK'
    BY <1>0, <1>2, <2>1, Parts DEF TypeOK, Continues, CallType
  <2> QED
    BY <1>2, <2>2 DEF Typed, Continues, StepsFit
<1>4. Books'
  <2>1. \A m \in Ids : RowStep(row[m], row'[m])
    BY <1>0, RowSame
  <2> QED
    BY <1>0, <1>2, <2>1, Parts, BooksContinue
<1>5. \A n : Bumping(n) => Bumping(n)'
  BY <1>0, <1>2 DEF Bumping, Moves
<1>6. SessionsOK'
  <2>1. ASSUME NEW s, Since(s) PROVE Since(s)'
    BY <1>0, <1>5, <2>1 DEF Since
  <2>2. ASSUME NEW s \in sessions' PROVE Since(s)'
    <3>1. CASE s \in sessions
      BY <2>1, <3>1, Parts DEF SessionsOK
    <3>2. CASE s = Claims(h)
      <4>1. Since(call[h])
        BY <1>0, Parts DEF SessionsOK
      <4>2. s.m = call[h].m /\ s.epoch = call[h].epoch /\ s.rev = call[h].rev
        BY <3>2 DEF Claims
      <4>3. Since(s)
        BY <4>1, <4>2 DEF Since
      <4> QED
        BY <2>1, <4>3
    <3> QED
      BY <1>0, <3>1, <3>2
  <2>3. ASSUME NEW g \in Handlers, call'[g].at = "issue" PROVE Since(call[g])' /\ call'[g] = call[g]
    <3>1. call'[g] = call[g]
      BY <1>2, <2>3 DEF Continues, Kept
    <3>2. Since(call[g])
      BY <2>3, <3>1, Parts DEF SessionsOK
    <3>3. PICK c : c = call[g]
      OBVIOUS
    <3>4. Since(c)'
      BY <2>1, <3>2, <3>3
    <3> QED
      BY <3>1, <3>3, <3>4
  <2> QED
    BY <2>2, <2>3 DEF SessionsOK
<1> QED
  BY <1>3, <1>4, <1>6 DEF MembersInv

-----------------------------------------------------------------------------
(* Inserting a member.                                                     *)

\* The new row is one that nobody refers to; the call that inserted it owns
\* it, and is the only one.
LEMMA InsertKeeps ==
  ASSUME MembersInv, NEW h \in Handlers, NEW m \in NextId, CreateMemberProvisional(m),
         NEW d \in CallType, Moves(h, d), StepsFit(d), d.m = m, Owns(d),
         call[h].at \in {"idle", "next"},
         UNCHANGED <<key, slots, token, sessions, handed, cut>>,
         calls' \in 0..MaxCalls, faults' \in 0..MaxFaults
  PROVE  MembersInv'
<1> DEFINE r == [NoRow EXCEPT !.status = "provisioning"]
<1>0. /\ m \in Ids /\ row[m].status = "none" /\ row[m] = NoRow /\ slots[m] = 0
      /\ TypedCalls /\ row \in [Ids -> RowType]
  BY Parts DEF NextId, Books, RowsOK
<1>1. /\ r \in RowType /\ r.status = "provisioning" /\ ~r.deleted /\ r.boot = "pending"
      /\ r.ptr = 0 /\ r.epoch = 0 /\ r.rev = 0
  <2>1. 0 \in 0..MaxTokens
    BY MembersAssumption
  <2>2. r \in RowType
    BY <2>1 DEF NoRow, RowType, Statuses
  <2>3. /\ r.status = "provisioning" /\ r.deleted = FALSE /\ r.boot = "pending"
        /\ r.ptr = 0 /\ r.epoch = 0 /\ r.rev = 0
    BY DEF NoRow
  <2> QED
    BY <2>2, <2>3
<1>2. /\ row' \in [Ids -> RowType] /\ row'[m] = r
      /\ \A n \in Ids : n # m => row'[n] = row[n]
  BY <1>0, <1>1 DEF CreateMemberProvisional
<1> HIDE DEF r
<1>3. \A g \in Handlers : StepsFit(call[g]) /\ StepsFit(call'[g])
  BY <1>0 DEF Moves, TypedCalls
<1>4. ASSUME NEW g \in Handlers, g # h
      PROVE  /\ call'[g] = call[g]
             /\ call[g].at \notin {"idle", "next"} => call[g].m \in Ids /\ call[g].m # m
             /\ Owns(call[g]) => call[g].at \notin {"idle", "next"}
             /\ call[g].op \in {"key", "status", "offboard"} =>
                  call[g].at \notin {"idle", "next"}
  <2>1. StepsFit(call[g]) /\ call[g].op \in CallOps /\ call'[g] = call[g]
    BY <1>0, <1>3, <1>4 DEF Moves, TypedCalls, CallType
  <2>2. /\ Owns(call[g]) => call[g].at \notin {"idle", "next"}
        /\ call[g].op \in {"key", "status", "offboard"} => call[g].at \notin {"idle", "next"}
    BY <2>1 DEF StepsFit, Owns, CallOps
  <2>3. call[g].at \notin {"idle", "next"} => call[g].m \in Ids /\ call[g].m # m
    BY <1>0, <2>1, Parts DEF StepsFit, Books, CallsOK
  <2> QED
    BY <2>1, <2>2, <2>3
<1>5. /\ call'[h] = d /\ d.at \notin {"idle", "next", "issue", "bump"}
      /\ d.op \notin {"key", "status", "offboard"}
  BY <1>3 DEF Moves, StepsFit, Owns
<1>6. Typed'
  <2>1. TypeOK'
    BY <1>2, Parts DEF TypeOK, Moves, CallType, RowType
  <2> QED
    BY <1>3, <2>1 DEF Typed, StepsFit
<1>7. Books'
  <2>1. RowsOK'
    BY <1>0, <1>1, <1>2, Parts DEF Books, RowsOK
  <2>2. CallsOK'
    BY <1>0, <1>1, <1>2, <1>4, <1>5, Parts DEF Books, CallsOK, Owns
  <2>3. OwnersDiffer'
    <3>1. ASSUME NEW f \in Handlers, NEW g \in Handlers, Owns(call'[f]), Owns(call'[g]),
                 call'[f].m = call'[g].m
          PROVE  f = g
      <4>1. CASE f = h
        BY <1>4, <1>5, <3>1, <4>1
      <4>2. CASE g = h
        BY <1>4, <1>5, <3>1, <4>2
      <4>3. CASE f # h /\ g # h
        BY <1>4, <3>1, <4>3, Parts DEF Books, OwnersDiffer
      <4> QED
        BY <4>1, <4>2, <4>3
    <3> QED
      BY <3>1 DEF OwnersDiffer, Owns
  <2>4. KeysAttributed'
    BY Parts DEF Books, KeysAttributed
  <2>5. PointerIsCurrent'
    BY <1>1, <1>2, Parts DEF Books, PointerIsCurrent
  <2> QED
    BY <2>1, <2>2, <2>3, <2>4, <2>5 DEF Books
<1>8. SessionsOK'
  <2>1. \A n \in Ids : row[n].status # "none" => row'[n].status # "none"
    BY <1>0, <1>2
  <2>2. \A n \in Ids : row'[n].epoch = row[n].epoch /\ row'[n].rev = row[n].rev
    BY <1>0, <1>1, <1>2 DEF NoRow
  <2>3. \A n \in Ids : Bumping(n) => Bumping(n)'
    BY <1>4 DEF Bumping
  <2>4. \A n \in Ids : Effect(n)
    BY <2>2, <2>3 DEF Effect
  <2>5. \A g \in Handlers : call'[g].at = "issue" => call'[g] = call[g]
    BY <1>4, <1>5
  <2> QED
    BY <2>1, <2>4, <2>5, Parts, SessionsContinue
<1> QED
  BY <1>6, <1>7, <1>8 DEF MembersInv

\* A new member starts with its row; the token comes later.
LEMMA OpenKeeps ==
  ASSUME MembersInv, NEW h \in Handlers, OpenMember(h)
  PROVE  MembersInv'
<1>1. PICK m \in NextId :
        /\ CreateMemberProvisional(m)
        /\ Start(h, [NoCall EXCEPT !.op = "open", !.at = "provision", !.m = m, !.rot = 1])
  BY Zenon DEF OpenMember
<1> DEFINE d == [NoCall EXCEPT !.op = "open", !.at = "provision", !.m = m, !.rot = 1]
<1>2. m \in Ids /\ m \in 0..MaxMembers
  BY MembersAssumption DEF NextId, Ids
<1>3. d \in CallType /\ d.m = m /\ d.op = "open" /\ d.at = "provision" /\ d.old = 0
  BY <1>2, NoCallTyped DEF NoCall, CallType, CallOps, Steps
<1>4. StepsFit(d) /\ Owns(d)
  BY <1>2, <1>3 DEF StepsFit, Owns
<1>5. call' = [call EXCEPT ![h] = d] /\ Called
  BY <1>1 DEF Start
<1> HIDE DEF d
<1>6. Moves(h, d)
  BY <1>3, <1>5, SetCall, Parts DEF TypedCalls
<1>7. call[h] = NoCall /\ UNCHANGED <<key, slots, token, sessions, handed, cut, faults>>
  BY Zenon DEF OpenMember, Idle
<1>8. call[h].at = "idle" /\ calls' \in 0..MaxCalls /\ faults' \in 0..MaxFaults
  BY <1>5, <1>7, Parts, Bounded DEF NoCall
<1> QED
  BY <1>1, <1>3, <1>4, <1>6, <1>7, <1>8, InsertKeeps

\* One token of the import: skipped, made a member, or left.
LEMMA ImportKeeps ==
  ASSUME MembersInv, NEW h \in Handlers, importOrgTokens(h)
  PROVE  MembersInv'
<1>0. TypedCalls /\ call[h] \in CallType /\ StepsFit(call[h])
      /\ call[h].op = "import" /\ call[h].at = "next"
      /\ UNCHANGED <<key, slots, token, sessions, handed, cut, calls>>
      /\ token \in [Tokens -> TokenType] /\ calls' \in 0..MaxCalls
  <2>1. /\ At(h, "import", "next")
        /\ UNCHANGED <<key, slots, token, sessions, handed, cut, calls>>
    BY Zenon DEF importOrgTokens
  <2> QED
    BY <2>1, Parts DEF At, TypedCalls
<1>1. CASE End(h) /\ UNCHANGED <<row, faults>>
  <2>1. Quietly
    BY <1>0, <1>1, EndQuiet
  <2> QED
    BY <1>0, <1>1, <2>1, QuietKeeps DEF NoFault
<1>2. ASSUME NEW x \in call[h].todo, UNCHANGED row, Fault \/ NoFault,
             call' = [call EXCEPT ![h].todo = call[h].todo \ {x}]
      PROVE  MembersInv'
  <2> DEFINE d == [call[h] EXCEPT !.todo = call[h].todo \ {x}]
  <2>1. d \in CallType /\ d.op = "import" /\ d.at = "next"
    BY <1>0 DEF CallType
  <2>2. StepsFit(d) /\ Kept(call[h], d)
    BY <2>1 DEF StepsFit, Kept, Owns
  <2>3. call' = [call EXCEPT ![h] = d]
    BY <1>2
  <2> HIDE DEF d
  <2>4. Moves(h, d)
    BY <1>0, <2>1, <2>3, SetCall DEF TypedCalls
  <2>5. Quietly
    BY <1>0, <2>1, <2>2, <2>4, MoveContinues DEF Quietly, Moves
  <2> QED
    BY <1>0, <1>2, <2>5, QuietKeeps
<1>3. ASSUME NEW x \in call[h].todo, NEW m \in NextId, CreateMemberProvisional(m), NoFault,
             call' = [call EXCEPT ![h].todo = call[h].todo \ {x}, ![h].m = m,
                                  ![h].tok = x[1], ![h].on = x[2], ![h].at = "save"]
      PROVE  MembersInv'
  <2>1. m \in Ids /\ m \in 0..MaxMembers /\ "save" \in Steps
    BY MembersAssumption DEF NextId, Ids, Steps
  <2>2. x[1] \in Tokens /\ x[1] \in 0..MaxTokens /\ x[2] \in BOOLEAN
    BY SMTT(30), <1>0, MembersAssumption DEF CallType, Tokens
  <2>3. PICK t \in 0..MaxTokens, on \in BOOLEAN, rest \in SUBSET (Tokens \X BOOLEAN) :
          t = x[1] /\ on = x[2] /\ rest = call[h].todo \ {x}
    BY <1>0, <2>2 DEF CallType
  <2> DEFINE d == [call[h] EXCEPT !.todo = rest, !.m = m, !.tok = t, !.on = on, !.at = "save"]
  <2>4. d \in CallType
    BY <1>0, <2>1 DEF CallType
  <2>5. d.m = m /\ d.op = "import" /\ d.at = "save" /\ d.tok = t
    BY <1>0 DEF CallType
  <2>6. StepsFit(d) /\ Owns(d)
    BY <2>1, <2>2, <2>3, <2>5 DEF StepsFit, Owns
  <2>7. call' = [call EXCEPT ![h] = d]
    BY <1>3, <2>3
  <2> HIDE DEF d
  <2>8. Moves(h, d) /\ faults' \in 0..MaxFaults
    BY <1>0, <1>3, <2>4, <2>7, SetCall, Parts, Bounded DEF TypedCalls
  <2> QED
    BY <1>0, <1>3, <2>4, <2>5, <2>6, <2>8, InsertKeeps
<1>4. CASE call[h].todo = {}
  BY Zenon, <1>1, <1>4 DEF importOrgTokens
<1>5. CASE call[h].todo # {}
  <2>1. PICK x \in call[h].todo :
          \/ /\ \E m \in NextId :
                  /\ CreateMemberProvisional(m)
                  /\ call' = [call EXCEPT ![h].todo = call[h].todo \ {x}, ![h].m = m,
                                          ![h].tok = x[1], ![h].on = x[2], ![h].at = "save"]
             /\ NoFault
          \/ /\ IF Recordable(x[1]) THEN Fault ELSE NoFault
             /\ call' = [call EXCEPT ![h].todo = call[h].todo \ {x}] /\ UNCHANGED row
    BY Zenon, <1>5 DEF importOrgTokens
  <2>2. (IF Recordable(x[1]) THEN Fault ELSE NoFault) => Fault \/ NoFault
    OBVIOUS
  <2> QED
    BY Zenon, <1>2, <1>3, <2>1, <2>2
<1> QED
  BY <1>4, <1>5

-----------------------------------------------------------------------------
(* Recording a key.                                                        *)

KeyType == [m : 0..MaxMembers, slot : Nat, current : BOOLEAN]

\* What the transactions do to member_key_token: the token is the current one
\* of the member's only slot, and no other row changes its owner.
Records(m, t) ==
  /\ key' \in [Tokens -> KeyType] /\ slots' = [slots EXCEPT ![m] = 1]
  /\ key'[t] = [m |-> m, slot |-> 1, current |-> TRUE]
  /\ \A u \in Tokens : u # t => key'[u].m = key[u].m /\ key'[u].slot = key[u].slot
  /\ \A u \in Tokens : u # t /\ key[u].m # m => key'[u] = key[u]
  /\ \A u \in Tokens : u # t /\ key[u].m = m => ~key'[u].current

\* Recording a token that has no row yet keeps the invariant.
LEMMA RecordKeeps ==
  ASSUME MembersInv, Quietly, NEW m \in Ids, NEW t \in Tokens, NEW r \in RowType,
         key[t].m = 0, Records(m, t), row' = [row EXCEPT ![m] = r], r.ptr = t,
         r.epoch = row[m].epoch, r.rev = row[m].rev, r.boot = "done", r.status # "none",
         row[m].status # "none",
         \A g \in Handlers : Owns(call'[g]) => call[g].m # m,
         handed' \subseteq handed \cup {<<m, t>>},
         UNCHANGED <<token, sessions, cut, calls>>, NoFault
  PROVE  MembersInv'
<1>1. /\ row \in [Ids -> RowType] /\ row' \in [Ids -> RowType] /\ row'[m] = r
      /\ \A n \in Ids : n # m => row'[n] = row[n]
  BY Parts
<1>2. /\ slots \in [Ids -> Nat] /\ slots' \in [Ids -> Nat] /\ slots'[m] = 1
      /\ \A n \in Ids : n # m => slots'[n] = slots[n]
  BY Parts DEF TypeOK, Records
<1>3. 0 \notin Ids /\ 0 \notin Tokens
  BY DEF Ids, Tokens
<1>4. /\ key \in [Tokens -> KeyType] /\ TypedCalls /\ PointerIsCurrent /\ KeysAttributed
      /\ handed \subseteq Ids \X Tokens /\ faults' \in 0..MaxFaults
  BY Parts, Bounded DEF TypeOK, KeyType, Books
<1>5. Typed'
  <2>1. TypeOK'
    BY <1>1, <1>2, <1>4, Parts
       DEF TypeOK, Quietly, Continues, CallType, RowType, KeyType, Records
  <2> QED
    BY <2>1 DEF Typed, Quietly, Continues, StepsFit
<1>6. Books'
  <2>1. RowsOK'
    BY <1>1, <1>2, Parts DEF Books, RowsOK
  <2>2. CallsOK'
    <3> SUFFICES ASSUME NEW g \in Handlers
                 PROVE  /\ call'[g].at \notin {"idle", "next"} => row'[call'[g].m].status # "none"
                        /\ call'[g].op \in {"key", "status", "offboard"} =>
                             row'[call'[g].m].boot = "done"
                        /\ Owns(call'[g]) => /\ row'[call'[g].m].boot = "pending"
                                             /\ slots'[call'[g].m] = 0
      BY DEF CallsOK, Owns
    <3>1. StepsFit(call[g]) /\ StepsFit(call'[g]) /\ Kept(call[g], call'[g])
      BY <1>4 DEF TypedCalls, Quietly, Continues
    <3>2. /\ call[g].at \notin {"idle", "next"} => row[call[g].m].status # "none"
          /\ call[g].op \in {"key", "status", "offboard"} => row[call[g].m].boot = "done"
          /\ Owns(call[g]) => row[call[g].m].boot = "pending" /\ slots[call[g].m] = 0
      BY Parts DEF Books, CallsOK
    <3>3. call'[g].at \notin {"idle", "next"} => row'[call'[g].m].status # "none"
      BY <1>1, <3>1, <3>2 DEF Kept, StepsFit
    <3>4. call'[g].op \in {"key", "status", "offboard"} => row'[call'[g].m].boot = "done"
      BY <1>1, <3>1, <3>2 DEF Kept, StepsFit
    <3>5. ASSUME Owns(call'[g])
          PROVE  row'[call'[g].m].boot = "pending" /\ slots'[call'[g].m] = 0
      <4>1. call'[g].m = call[g].m /\ Owns(call[g]) /\ call[g].m # m
        BY <3>1, <3>5 DEF Kept
      <4>2. call[g].m \in Ids
        BY <3>1, <4>1 DEF StepsFit, Owns
      <4> QED
        BY <1>1, <1>2, <3>2, <4>1, <4>2
    <3> QED
      BY <3>3, <3>4, <3>5
  <2>3. OwnersDiffer'
    BY Parts DEF Books, OwnersDiffer, Quietly, Continues, Kept, Owns
  <2>4. KeysAttributed'
    <3>1. ASSUME NEW x \in handed' PROVE key'[x[2]].m = x[1]
      <4>1. CASE x = <<m, t>>
        BY <4>1 DEF Records
      <4>2. CASE x \in handed
        <5>1. key[x[2]].m = x[1] /\ x[1] \in Ids /\ x[2] \in Tokens
          BY <1>4, <4>2 DEF KeysAttributed
        <5>2. x[2] # t
          BY <1>3, <5>1
        <5> QED
          BY <5>1, <5>2 DEF Records
      <4> QED
        BY <4>1, <4>2
    <3> QED
      BY <3>1 DEF KeysAttributed
  <2>5. PointerIsCurrent'
    <3>1. ASSUME NEW u \in Tokens, key'[u].m # 0
          PROVE  key'[u].slot = 1 /\ slots'[key'[u].m] = 1
      <4>1. CASE u = t
        BY <1>2, <4>1 DEF Records
      <4>2. CASE u # t
        <5>1. key'[u].m = key[u].m /\ key'[u].slot = key[u].slot
          BY <4>2 DEF Records
        <5>2. key[u].slot = 1 /\ slots[key[u].m] = 1
          BY <1>4, <3>1, <5>1 DEF PointerIsCurrent
        <5>3. key[u].m \in Ids
          BY <1>4, <3>1, <5>1, MembersAssumption DEF KeyType, Ids
        <5> QED
          BY <1>2, <5>1, <5>2, <5>3
      <4> QED
        BY <4>1, <4>2
    <3>2. ASSUME NEW u \in Tokens, NEW v \in Tokens, key'[u].m # 0, key'[u].m = key'[v].m,
                 key'[u].current, key'[v].current
          PROVE  u = v
      <4>1. CASE u = t /\ v # t
        BY <3>2, <4>1 DEF Records
      <4>2. CASE v = t /\ u # t
        BY <3>2, <4>2 DEF Records
      <4>3. CASE u # t /\ v # t
        <5>1. key'[u] = key[u] /\ key'[v] = key[v]
          BY <3>2, <4>3 DEF Records
        <5> QED
          BY <1>4, <3>2, <5>1 DEF PointerIsCurrent
      <4> QED
        BY <4>1, <4>2, <4>3
    <3>3. ASSUME NEW n \in Ids, row'[n].ptr # 0
          PROVE  key'[row'[n].ptr].m = n /\ key'[row'[n].ptr].current
      <4>1. CASE n = m
        BY <1>1, <4>1 DEF Records
      <4>2. CASE n # m
        <5>1. row'[n] = row[n] /\ row[n].ptr \in Tokens
          BY <1>1, <3>3, <4>2, MembersAssumption DEF RowType, Tokens
        <5>2. key[row[n].ptr].m = n /\ key[row[n].ptr].current
          BY <1>4, <3>3, <5>1 DEF PointerIsCurrent
        <5>3. row[n].ptr # t
          BY <1>3, <5>2
        <5> QED
          BY <4>2, <5>1, <5>2, <5>3 DEF Records
      <4> QED
        BY <4>1, <4>2
    <3> QED
      BY <3>1, <3>2, <3>3 DEF PointerIsCurrent
  <2> QED
    BY <2>1, <2>2, <2>3, <2>4, <2>5 DEF Books
<1>7. SessionsOK'
  <2>1. \A n \in Ids : row[n].status # "none" => row'[n].status # "none"
    BY <1>1
  <2>2. \A n \in Ids : row'[n].epoch = row[n].epoch /\ row'[n].rev = row[n].rev
    BY <1>1
  <2>3. \A n \in Ids : Bumping(n) => Bumping(n)'
    BY DEF Bumping, Quietly
  <2>4. \A n \in Ids : Effect(n)
    BY <2>2, <2>3 DEF Effect
  <2> QED
    BY <2>1, <2>4, Parts, SessionsContinue DEF Quietly, Continues, Kept
<1> QED
  BY <1>5, <1>6, <1>7 DEF MembersInv

\* Both transactions record the token so, for a member with one slot or none.
LEMMA TransactionsRecord ==
  ASSUME MembersInv, NEW m \in Ids, NEW t \in Tokens
  PROVE  /\ slots[m] = 0 /\ ensurePrimaryKeyTx(m, t) => Records(m, t)
         /\ rotatePrimaryKeyTx(m, t) => Records(m, t)
<1>1. /\ key \in [Tokens -> KeyType] /\ slots \in [Ids -> Nat] /\ slots[m] \in 0..1
      /\ \A u \in Tokens : key[u].m # 0 => key[u].slot = 1 /\ slots[key[u].m] = 1
  BY Parts DEF TypeOK, KeyType, Books, RowsOK, PointerIsCurrent
<1>2. m # 0 /\ [m |-> m, slot |-> 1, current |-> TRUE] \in KeyType
  BY MembersAssumption DEF Ids, KeyType
<1>3. ASSUME slots[m] = 0, ensurePrimaryKeyTx(m, t) PROVE Records(m, t)
  <2>1. \A u \in Tokens : key[u].m # m
    BY <1>1, <1>2, <1>3
  <2>2. /\ slots' = [slots EXCEPT ![m] = 1]
        /\ key' = [key EXCEPT ![t] = [m |-> m, slot |-> 1, current |-> TRUE]]
    BY <1>1, <1>3 DEF ensurePrimaryKeyTx, insertKeyTokenTx
  <2> QED
    BY <1>1, <1>2, <2>1, <2>2 DEF Records
<1>4. ASSUME slots[m] = 1, rotatePrimaryKeyTx(m, t) PROVE Records(m, t)
  <2>1. /\ slots' = slots
        /\ key' = [Superseded(m, 1) EXCEPT ![t] = [m |-> m, slot |-> 1, current |-> TRUE]]
    BY <1>4 DEF rotatePrimaryKeyTx, insertKeyTokenTx
  <2>2. ASSUME NEW u \in Tokens
        PROVE  /\ Superseded(m, 1)[u] \in KeyType
               /\ Superseded(m, 1)[u].m = key[u].m /\ Superseded(m, 1)[u].slot = key[u].slot
               /\ key[u].m # m => Superseded(m, 1)[u] = key[u]
               /\ key[u].m = m => Superseded(m, 1)[u].current = FALSE
    <3>1. key[u] \in KeyType
      BY <1>1
    <3>2. CASE key[u].m = m
      <4>1. Superseded(m, 1)[u] = [key[u] EXCEPT !.current = FALSE]
        BY <1>1, <1>2, <3>2 DEF Superseded
      <4> QED
        BY <3>1, <3>2, <4>1 DEF KeyType
    <3>3. CASE key[u].m # m
      BY <3>1, <3>3 DEF Superseded
    <3> QED
      BY <3>2, <3>3
  <2>3. Superseded(m, 1) \in [Tokens -> KeyType]
    BY <2>2 DEF Superseded
  <2>4. slots' = [slots EXCEPT ![m] = 1]
    BY <1>1, <1>4, <2>1
  <2> QED
    BY <1>2, <2>1, <2>2, <2>3, <2>4 DEF Records
<1> QED
  BY <1>1, <1>3, <1>4 DEF rotatePrimaryKeyTx

\* The transaction of an opened, rotated or imported key, or its failure.
LEMMA SaveKeeps ==
  ASSUME MembersInv, NEW h \in Handlers, Save(h)
  PROVE  MembersInv'
<1> DEFINE m == call[h].m
           t == call[h].tok
<1>0. TypedCalls /\ call[h].at = "save" /\ UNCHANGED <<token, sessions, cut, calls>>
  BY Parts DEF Save
<1>1. /\ call[h] \in CallType /\ StepsFit(call[h]) /\ m \in Ids /\ t \in Tokens
      /\ row[m] \in RowType /\ row[m].status # "none"
      /\ call[h].op = "key" => row[m].boot = "done"
  BY <1>0, RowFields DEF StepsFit
<1>2. call[h].op \in {"open", "key", "import"}
  BY <1>0, <1>1 DEF StepsFit, CallType, CallOps
<1>3. call[h].op \in {"open", "import"} => Owns(call[h]) /\ slots[m] = 0
  BY <1>0, Parts DEF Owns, Books, CallsOK
<1>4. t \in 0..MaxTokens /\ 1 \in Nat /\ call[h].rot \in Nat
  BY <1>1, MembersAssumption DEF Tokens, CallType
<1>5. ASSUME Goto(h, "next") \/ Goto(h, "mark"), call[h].op = "import"
      PROVE  Quietly /\ ~Owns(call'[h])
  <2>1. \A at \in {"next", "mark"} :
          /\ at \in Steps
          /\ \A d \in CallType : SameBut(call[h], d) /\ d.at = at => StepsFit(d)
    BY <1>0, <1>1, <1>5 DEF StepsFit, SameBut, Steps
  <2> QED
    BY <1>0, <1>5, <2>1, GotoContinues DEF Quietly, Moves, Owns
<1>6. End(h) => Quietly /\ ~Owns(call'[h])
  BY <1>0, EndContinues DEF Quietly, Moves, Owns, NoCall
<1>7. ASSUME call[h].op \in {"open", "import"}, Quietly, ~Owns(call'[h]), Recordable(t),
             FinalizeBootstrap(m, t), handed' \subseteq handed \cup {<<m, t>>}, NoFault
      PROVE  MembersInv'
  <2> DEFINE r == [row[m] EXCEPT !.ptr = t, !.rot = 1, !.boot = "done", !.status = "active"]
  <2>1. r \in RowType
    BY <1>1, <1>4 DEF RowType, Statuses
  <2>2. /\ r.ptr = t /\ r.epoch = row[m].epoch /\ r.rev = row[m].rev /\ r.boot = "done"
        /\ r.status # "none"
    BY <1>1 DEF RowType
  <2>3. row' = [row EXCEPT ![m] = r] /\ ensurePrimaryKeyTx(m, t)
    BY <1>7 DEF FinalizeBootstrap
  <2>4. Records(m, t)
    BY <1>1, <1>3, <1>7, <2>3, TransactionsRecord
  <2>5. ASSUME NEW g \in Handlers, Owns(call'[g]), call[g].m = m PROVE FALSE
    <3>1. Owns(call[g]) /\ g # h
      BY <1>7, <2>5 DEF Quietly, Continues, Kept
    <3> QED
      BY <1>3, <1>7, <2>5, <3>1, Parts DEF Books, OwnersDiffer
  <2> HIDE DEF r, m, t
  <2> QED
    BY <1>0, <1>1, <1>7, <2>1, <2>2, <2>3, <2>4, <2>5, RecordKeeps DEF Recordable
<1>8. ASSUME call[h].op = "key", Quietly, Recordable(t), UpdateMemberKey(m, t, call[h].rot),
             handed' \subseteq handed \cup {<<m, t>>}, NoFault
      PROVE  MembersInv'
  <2> DEFINE r == [row[m] EXCEPT !.ptr = t, !.rot = call[h].rot]
  <2>1. r \in RowType
    BY <1>1, <1>4 DEF RowType
  <2>2. /\ r.ptr = t /\ r.epoch = row[m].epoch /\ r.rev = row[m].rev /\ r.boot = "done"
        /\ r.status # "none"
    BY <1>1, <1>8 DEF RowType
  <2>3. row' = [row EXCEPT ![m] = r] /\ rotatePrimaryKeyTx(m, t)
    BY <1>8 DEF UpdateMemberKey
  <2>4. Records(m, t)
    BY <1>1, <2>3, TransactionsRecord
  <2>5. ASSUME NEW g \in Handlers, Owns(call'[g]), call[g].m = m PROVE FALSE
    <3>1. Owns(call[g])
      BY <1>8, <2>5 DEF Quietly, Continues, Kept
    <3>2. row[call[g].m].boot = "pending"
      BY <3>1, Parts DEF Books, CallsOK
    <3> QED
      BY <1>1, <1>8, <2>5, <3>2
  <2> HIDE DEF r, m, t
  <2> QED
    BY <1>0, <1>1, <1>8, <2>1, <2>2, <2>3, <2>4, <2>5, RecordKeeps DEF Recordable
<1>9. ASSUME UNCHANGED <<row, key, slots, handed>>, Fault \/ NoFault,
             \/ call[h].op = "open" /\ Goto(h, "undo")
             \/ call[h].op = "key" /\ End(h)
             \/ call[h].op = "import" /\ Goto(h, "release")
      PROVE  MembersInv'
  <2>1. ASSUME call[h].op = "open", Goto(h, "undo") PROVE Quietly
    <3>1. "undo" \in Steps /\ \A d \in CallType : SameBut(call[h], d) /\ d.at = "undo" => StepsFit(d)
      BY <1>0, <1>1, <2>1 DEF StepsFit, SameBut, Steps
    <3> QED
      BY <1>0, <2>1, <3>1, GotoQuiet
  <2>2. ASSUME call[h].op = "import", Goto(h, "release") PROVE Quietly
    <3>1. "release" \in Steps
          /\ \A d \in CallType : SameBut(call[h], d) /\ d.at = "release" => StepsFit(d)
      BY <1>0, <1>1, <2>2 DEF StepsFit, SameBut, Steps
    <3> QED
      BY <1>0, <2>2, <3>1, GotoQuiet
  <2>3. Quietly
    BY <1>6, <1>9, <2>1, <2>2
  <2> QED
    BY <1>0, <1>9, <2>3, Parts, QuietKeeps
<1>10. (IF Recordable(t) THEN Fault ELSE NoFault) => Fault \/ NoFault
  OBVIOUS
<1>11. CASE /\ call[h].op = "open" /\ Recordable(t) /\ FinalizeBootstrap(m, t)
            /\ handed' = handed \cup {<<m, t>>} /\ End(h) /\ NoFault
  BY <1>6, <1>7, <1>11
<1>12. CASE /\ call[h].op = "key" /\ Recordable(t) /\ UpdateMemberKey(m, t, call[h].rot)
            /\ handed' = handed \cup {<<m, t>>} /\ End(h) /\ NoFault
  BY <1>6, <1>8, <1>12
<1>13. CASE /\ call[h].op = "import" /\ Recordable(t) /\ FinalizeBootstrap(m, t)
            /\ UNCHANGED handed /\ Goto(h, IF call[h].on THEN "next" ELSE "mark") /\ NoFault
  <2>1. Goto(h, "next") \/ Goto(h, "mark")
    BY <1>13
  <2> QED
    BY <1>5, <1>7, <1>13, <2>1
<1>14. CASE /\ IF Recordable(t) THEN Fault ELSE NoFault
            /\ CASE call[h].op = "open" -> Goto(h, "undo")
                 [] call[h].op = "key" -> End(h)
                 [] call[h].op = "import" -> Goto(h, "release")
            /\ UNCHANGED <<row, key, slots, handed>>
  <2>1. \/ call[h].op = "open" /\ Goto(h, "undo")
        \/ call[h].op = "key" /\ End(h)
        \/ call[h].op = "import" /\ Goto(h, "release")
    BY <1>2, <1>14
  <2> QED
    BY <1>9, <1>10, <1>14, <2>1
<1> HIDE DEF m, t
<1> QED
  BY <1>11, <1>12, <1>13, <1>14 DEF Save, m, t

-----------------------------------------------------------------------------
(* The invariant and what follows from it.                                 *)

\* No member but the administrator, no key, no call, no session.
LEMMA InitKeeps == Init => MembersInv
<1> SUFFICES ASSUME Init PROVE MembersInv
  OBVIOUS
<1>0. /\ 0 \in 0..MaxTokens /\ 0 \in 0..MaxMembers /\ 0 \in 0..MaxCalls /\ 0 \in 0..MaxFaults
      /\ 1 \in Ids /\ 0 \notin Ids /\ Ids \subseteq 0..MaxMembers
  BY MembersAssumption DEF Ids
<1>1. NoRow \in RowType /\ NoRow.status = "none" /\ NoRow.ptr = 0 /\ NoRow.deleted = FALSE
  BY <1>0 DEF NoRow, RowType, Statuses
<1> DEFINE r1 == [NoRow EXCEPT !.status = "active", !.boot = "done"]
<1>2. r1 \in RowType /\ r1.status = "active" /\ r1.ptr = 0 /\ r1.boot = "done"
  BY <1>0 DEF NoRow, RowType, Statuses
<1>3. row = [m \in Ids |-> IF m = 1 THEN r1 ELSE NoRow]
  BY DEF Init
<1> HIDE DEF r1
<1>4. \A m \in Ids : row[m].ptr = 0 /\ (row[m] = r1 \/ row[m] = NoRow)
  BY <1>1, <1>2, <1>3
<1>5. row \in [Ids -> RowType]
  BY <1>1, <1>2, <1>3
<1>6. NoKey \in [m : 0..MaxMembers, slot : Nat, current : BOOLEAN] /\ NoKey.m = 0
  BY <1>0 DEF NoKey
<1>7. token \in [Tokens -> TokenType]
  <2>1. PICK off \in SUBSET (1..Foreign) :
          token = [t \in Tokens |-> [m |-> 0, rot |-> 0, on |-> t \notin off,
                                     st |-> IF t <= Foreign THEN "live" ELSE "unborn"]]
    BY DEF Init
  <2>2. \A t \in Tokens : (t \notin off) \in BOOLEAN
    OBVIOUS
  <2>3. \A b \in BOOLEAN, s \in {"unborn", "live", "gone"} :
          [m |-> 0, rot |-> 0, on |-> b, st |-> s] \in TokenType
    BY <1>0 DEF TokenType
  <2> QED
    BY <2>1, <2>2, <2>3
<1>8. call \in [Handlers -> CallType] /\ \A h \in Handlers : StepsFit(call[h]) /\ call[h] = NoCall
  BY NoCallTyped DEF Init
<1>9. Typed
  <2>1. TypeOK
    BY <1>0, <1>5, <1>6, <1>7, <1>8 DEF Init, TypeOK, RowType, TokenType, CallType
  <2> QED
    BY <1>8, <2>1 DEF Typed
<1>10. RowsOK
  BY <1>0, <1>1, <1>2, <1>4 DEF RowsOK, Init
<1>11. CallsOK /\ OwnersDiffer
  BY <1>8 DEF CallsOK, OwnersDiffer, Owns, NoCall
<1>12. KeysAttributed /\ PointerIsCurrent
  BY <1>4, <1>6 DEF KeysAttributed, PointerIsCurrent, Init
<1>13. SessionsOK
  BY <1>8 DEF SessionsOK, NoCall, Init
<1> QED
  BY <1>9, <1>10, <1>11, <1>12, <1>13 DEF MembersInv, Books

\* Every step keeps the invariant.
LEMMA NextKeeps == MembersInv /\ [Next]_vars => MembersInv'
<1>1. ASSUME MembersInv, NEW h \in Handlers, Keys(h) PROVE MembersInv'
  <2>1. CASE \/ Provision(h) \/ Find(h) \/ Post(h) \/ Locate(h) \/ Reveal(h) \/ withOrgCred(h)
             \/ Drop(h) \/ Undo(h)
    BY <1>1, <2>1, GatewayKeeps
  <2>2. CASE \E m \in Ids : RotateKey(h, m) \/ CreateMemberToken(h, m)
    <3>1. TRUE \in BOOLEAN
      OBVIOUS
    <3> QED
      BY <1>1, <2>2, <3>1, StartingKeeps
  <2>3. CASE OpenMember(h)
    BY <1>1, <2>3, OpenKeeps
  <2>4. CASE Save(h)
    BY <1>1, <2>4, SaveKeeps
  <2>5. CASE Release(h)
    BY <1>1, <2>5, ReleaseKeeps
  <2>6. CASE ReimportOrgTokens(h)
    BY <1>1, <2>6, ReimportKeeps
  <2>7. CASE importOrgTokens(h)
    BY <1>1, <2>7, ImportKeeps
  <2>8. CASE ImportStatus(h)
    BY <1>1, <2>8, StatementsKeep
  <2> QED
    BY <1>1, <2>1, <2>2, <2>3, <2>4, <2>5, <2>6, <2>7, <2>8 DEF Keys
<1>2. ASSUME MembersInv, NEW h \in Handlers, Lifecycle(h) PROVE MembersInv'
  <2>1. CASE \E m \in Ids : \/ \E on \in BOOLEAN : SetMemberStatus(h, m, on)
                            \/ OffboardMember(h, m) \/ ExpireMember(h, m)
    <3>1. TRUE \in BOOLEAN
      OBVIOUS
    <3> QED
      BY <1>2, <2>1, <3>1, StartingKeeps
  <2>2. CASE SetTokenStatus(h) \/ Delete(h)
    BY <1>2, <2>2, GatewayKeeps
  <2>3. CASE WriteStatus(h)
    BY <1>2, <2>3, ChangeKeeps
  <2>4. CASE Leave(h) \/ ClearMemberToken(h) \/ ExpireStatus(h)
    BY <1>2, <2>4, StatementsKeep
  <2> QED
    BY <1>2, <2>1, <2>2, <2>3, <2>4 DEF Lifecycle
<1>3. ASSUME MembersInv, NEW h \in Handlers, Identity(h) PROVE MembersInv'
  <2>1. CASE \E m \in Ids : \/ Login(h, m) \/ ChangePassword(h, m)
                            \/ ResetMemberPassword(h, m) \/ AssignRole(h, m)
    <3>1. TRUE \in BOOLEAN
      OBVIOUS
    <3> QED
      BY <1>3, <2>1, <3>1, StartingKeeps
  <2>2. CASE Issue(h)
    BY <1>3, <2>2, IssueKeeps
  <2>3. CASE WriteCredential(h)
    BY <1>3, <2>3, ChangeKeeps
  <2>4. CASE BumpMemberSessionEpoch(h)
    BY <1>3, <2>4, BumpKeeps
  <2> QED
    BY <1>3, <2>1, <2>2, <2>3, <2>4 DEF Identity
<1>4. ASSUME MembersInv, UNCHANGED vars PROVE MembersInv'
  <2>1. Quietly /\ UNCHANGED <<row, key, slots, handed, sessions, cut, calls>> /\ NoFault
    BY <1>4, Parts, StillQuiet DEF vars, NoFault
  <2>2. token' \in [Tokens -> TokenType]
    BY <1>4, Parts DEF vars
  <2> QED
    BY <1>4, <2>1, <2>2, QuietKeeps
<1> QED
  BY <1>1, <1>2, <1>3, <1>4, RestoreKeeps, HardStopKeeps, CrashKeeps DEF Next

\* The invariant holds in every reachable state.
LEMMA MembersInvariant == Spec => []MembersInv
  BY InitKeeps, NextKeeps, PTL DEF Spec

\* Rows, keys, tokens, calls and sessions stay typed for any number of
\* members, tokens and handlers: no step of a handler leaves a pointer to a
\* token or member that was never made.
THEOREM MembersTyped == Spec => []TypeOK
<1>1. MembersInv => TypeOK
  BY DEF MembersInv, Typed
<1> QED
  BY <1>1, MembersInvariant, PTL

\* The plaintext of a key, once returned to a member, is attributed to that
\* member by member_key_token from then on, whatever rotations, imports,
\* departures, failures and crashes follow and however handlers interleave.
THEOREM KeysStayAttributed == Spec => []KeysAttributed
<1>1. MembersInv => KeysAttributed
  BY DEF MembersInv, Books
<1> QED
  BY <1>1, MembersInvariant, PTL

\* The pointer in the member row and member_key_token agree: one slot, one
\* current token at most, and the pointer is that one unless it was cleared.
THEOREM PointersCurrent == Spec => []PointerIsCurrent
<1>1. MembersInv => PointerIsCurrent
  BY DEF MembersInv, Books
<1> QED
  BY <1>1, MembersInvariant, PTL

\* A session that is accepted dates from the password, role and status in
\* force, or a bump that ends it is under way or failed: logins that read the
\* row before a change and sign after it included.
THEOREM SessionsEnd == Spec => []SessionsCurrent
<1>1. MembersInv => SessionsCurrent
  BY DEF MembersInv, SessionsOK, SessionsCurrent, Since, ValidateSession
<1> QED
  BY <1>1, MembersInvariant, PTL
=============================================================================
