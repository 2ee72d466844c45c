----------------------------- MODULE MCMembers -----------------------------
\* Small instances of the member lifecycle.
EXTENDS Members, TLC

SameHandlers == Permutations(Handlers)

\* What member.go says of its retries ("adopt-existing is idempotent"): the
\* token that the next rotation of a member would adopt by name can be
\* recorded for the member.
NextKeyRecordable ==
  \A m \in Ids : \A t \in findTokenByName(m, row[m].rot + 1) : Recordable(t)

\* What quota.go says of a disabled member: the key is dead at once.
DisabledKeyDead ==
  (\A h \in Handlers : call[h] = NoCall) =>
    \A x \in handed : row[x[1]].status = "disabled" => ~(x[2] \in Live /\ token[x[2]].on)

\* What quota.go says of a restored member: there is no key until a new one
\* is created.
RestoredWithoutKey ==
  \A x \in handed : row[x[1]].deleted => x[2] \notin Live
=============================================================================
