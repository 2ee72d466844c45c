------------------------------- MODULE Pricing -------------------------------
(***************************************************************************)
(* Discounts of organisations (service/pricing.go, adapter/newapi          *)
(* options.go and groups.go) on top of the keyed lock.                     *)
(*                                                                         *)
(* The gateway keeps the ratios, and the usable groups, of all             *)
(* organisations in one JSON option each.  A writer reads the option,      *)
(* replaces the entry of its organisation and writes everything back, as   *)
(* the holder of the option's lock; the platform's own copy of the         *)
(* discount is read before that lock is taken and written after it is      *)
(* given back.  KeyedLock has the steps of taking the lock.                *)
(*                                                                         *)
(* The entry of an organisation is a set of pairs, token group and rate;   *)
(* base ratios do not change, so that the rate stands for the product.     *)
(***************************************************************************)
EXTENDS KeyedLock

CONSTANTS
  Orgs,
  Groups, Default,        \* token groups; "default" is usable by everybody
  OrgGroup, TierGroups,   \* token groups of organisation and tiers, or None
  Offers,                 \* discounts: mode, token groups (or {}), rate
  RatioKey, UsableKey,    \* option:GroupGroupRatio, option:...usable_group
  Does,                   \* Does[t]: what call t may do
  Backoffs,               \* length of ggrVerifyBackoffs
  MaxWrites, MaxFaults    \* bounds: handlers that write, failing requests

ASSUME PricingAssumption ==
  /\ RatioKey # UsableKey /\ Default \in Groups
  /\ TierGroups \cup {OrgGroup} \subseteq Groups \cup {None} /\ {RatioKey, UsableKey} \subseteq Keys
  /\ \A f \in Offers : f.mode \in {"none", "total", "per_group"} /\ f.groups \subseteq Groups
  /\ {Backoffs, MaxWrites, MaxFaults} \subseteq Nat

VARIABLES
  option,    \* option[k][o]: the entry of organisation o at the gateway
  discount,  \* discount_mode and special_ratios of the organisation rows
  work,      \* what call t is doing with the lock
  writes, faults,
  torn       \* history: organisations whose last change failed half-way or
             \* was overlapped by another one
lockVars == <<locks, refs, owner, call>>
pricingVars == <<lockVars, option, discount, work, writes, faults, torn>>

\* Writing in the option of key: the step, the entry wanted, the option as
\* read, rewrites so far, whether a PUT was sent, whether no other change of
\* the organisation's discount ran meanwhile.
NoWork == [key |-> None, at |-> "none", org |-> None, grp |-> None, mode |-> "none",
           want |-> {}, copy |-> None, tries |-> 0, sent |-> FALSE, alone |-> TRUE]

PricingInit ==
  /\ Init
  /\ option = [k \in {RatioKey, UsableKey} |-> [o \in Orgs |-> {}]]
  /\ discount = [o \in Orgs |-> [mode |-> "none", entries |-> {}]]
  /\ work = [t \in Calls |-> NoWork]
  /\ writes = 0 /\ faults = 0 /\ torn = {}

Fault == faults < MaxFaults /\ faults' = faults + 1
NoFault == faults' = faults

Starts(t, op) ==
  /\ op \in Does[t] /\ work[t] = NoWork /\ call[t] = Ended
  /\ writes < MaxWrites /\ writes' = writes + 1

\* Changes of the discount of o that calls other than t have in hand.
Others(t, o) ==
  {u \in Calls \ {t} : work[u].org = o /\ work[u].at # "none" /\ work[u].key = RatioKey}

\* Call t goes for the ratios of o, from what it has read by now.
SetRatios(t, o, md, want) ==
  work' = [u \in Calls |->
             CASE u = t -> [NoWork EXCEPT !.key = RatioKey, !.at = "lock", !.org = o, !.mode = md,
                                          !.want = want, !.alone = Others(t, o) = {}]
               [] u \in Others(t, o) -> [work[u] EXCEPT !.alone = FALSE]
               [] OTHER -> work[u]]

loadDiscountEntries(o) == discount[o].entries

\* The group of the tier, else of the organisation, else the default.
resolveTokenGroup(g) ==
  CASE g # None -> g [] g = None /\ OrgGroup # None -> OrgGroup [] OTHER -> Default

orgInUseTokenGroups == {resolveTokenGroup(g) : g \in TierGroups \cup {None}}

\* The groups named, else all in use for a total discount.
Covered(f) ==
  CASE f.groups # {} -> f.groups
    [] f.groups = {} /\ f.mode = "total" -> orgInUseTokenGroups
    [] OTHER -> {Default}

\* The new set of discounts: nothing, this offer, or this offer added to the
\* entries read from the row.
ConfigureDiscount(t, o, f) ==
  LET new == {<<g, f.rate>> : g \in Covered(f)}
      kept == {e \in loadDiscountEntries(o) : e[1] \notin Covered(f)}
  IN /\ Starts(t, "configure")
     /\ SetRatios(t, o, f.mode, CASE f.mode = "none" -> {}
                                  [] f.mode = "total" -> new
                                  [] f.mode = "per_group" -> kept \cup new)
     /\ UNCHANGED <<lockVars, option, discount, faults, torn>>

\* OpenMember makes the group of the new key usable and then covered by a
\* total discount; the rest of it is in Members.
AddOrgUsableGroup(t, o, g) ==
  /\ Starts(t, "open") /\ g # Default
  /\ work' = [work EXCEPT ![t] = [NoWork EXCEPT !.key = UsableKey, !.at = "lock", !.org = o,
                                                !.grp = g]]
  /\ UNCHANGED <<lockVars, option, discount, faults, torn>>

ensureTotalDiscountCoversGroup(t) ==
  LET o == work[t].org g == work[t].grp had == loadDiscountEntries(o) IN
  /\ work[t].at = "cover"
  /\ IF discount[o].mode = "total" /\ had # {} /\ \A e \in had : e[1] # g
     THEN \E e \in had : SetRatios(t, o, "total", had \cup {<<g, e[2]>>})
     ELSE work' = [work EXCEPT ![t] = NoWork]
  /\ UNCHANGED <<lockVars, option, discount, writes, faults, torn>>

\* The write was refused or not attempted; only AddOrgUsableGroup is followed
\* by more.
GiveUp(t) == IF work[t].key = UsableKey THEN [work[t] EXCEPT !.at = "cover"] ELSE NoWork

-----------------------------------------------------------------------------
(* Under the lock.                                                         *)

Acquire(t) ==
  /\ work[t].at = "lock" /\ Get(t, work[t].key, "wait")
  /\ work' = [work EXCEPT ![t].at = "get"]
  /\ UNCHANGED <<option, discount, writes, faults, torn>>

\* The context ends while the call waits.
Cancelled(t) ==
  /\ Cancel(t) /\ work' = [work EXCEPT ![t] = GiveUp(t)]
  /\ UNCHANGED <<option, discount, writes, faults, torn>>

Holds(t, at) == call[t].ph = "hold" /\ work[t].at = at

\* Mutant: the option is read before the lock is held.
Ready_Early(t) == work[t].at = "get" /\ call[t].ph \in {"wait", "got", "hold"}

Ready(t) == Holds(t, "get")

\* The whole option is read; a group that is usable already ends the write.
getOptionJSON(t) ==
  LET k == work[t].key o == work[t].org g == work[t].grp IN
  /\ Ready(t)
  /\ \/ /\ k = RatioKey /\ NoFault
        /\ work' = [work EXCEPT ![t].copy = option[k], ![t].at = "put"]
     \/ /\ k = UsableKey /\ NoFault
        /\ work' = [work EXCEPT ![t].copy = option[k], ![t].want = option[k][o] \cup {<<g, 0>>},
                                ![t].at = IF <<g, 0>> \in option[k][o] THEN "done" ELSE "put"]
     \/ Fault /\ work' = [work EXCEPT ![t].at = "fail"]
  /\ UNCHANGED <<lockVars, option, discount, writes, torn>>

\* Own entry replaced, the others as read; an empty entry is a deleted one.
Merged(t) == [work[t].copy EXCEPT ![work[t].org] = work[t].want]

\* PUT /api/option/: performed or not, an answer that is lost is an error.
writeOnce(t) ==
  LET k == work[t].key IN
  /\ Holds(t, "put")
  /\ \/ /\ option' = [option EXCEPT ![k] = Merged(t)] /\ NoFault
        /\ work' = [work EXCEPT ![t].sent = TRUE, ![t].copy = None,
                                ![t].at = IF k = RatioKey /\ work[t].tries < Backoffs
                                          THEN "match" ELSE "done"]
     \/ /\ option' \in {option, [option EXCEPT ![k] = Merged(t)]} /\ Fault
        /\ work' = [work EXCEPT ![t].sent = TRUE, ![t].copy = None, ![t].at = "fail"]
  /\ UNCHANGED <<lockVars, discount, writes, torn>>

\* The ratios are read back; different or unreadable ones are written again
\* after a pause, in which the context may end.
orgRatiosMatch(t) ==
  LET same == option[RatioKey][work[t].org] = work[t].want IN
  /\ Holds(t, "match")
  /\ \/ same /\ NoFault /\ work' = [work EXCEPT ![t].at = "done"]
     \/ /\ IF same THEN Fault ELSE NoFault
        /\ \/ work' = [work EXCEPT ![t].at = "get", ![t].tries = @ + 1]
           \/ work' = [work EXCEPT ![t].at = "fail"]
  /\ UNCHANGED <<lockVars, option, discount, writes, torn>>

\* The deferred release, also of calls that do something else with the lock.
Release(t) ==
  /\ call[t].ph = "hold" => work[t].at \in {"done", "fail", "none"}
  /\ Unlock(t) /\ UNCHANGED <<option, discount, work, writes, faults, torn>>

-----------------------------------------------------------------------------
(* After the lock.                                                         *)

UpdateOrgDiscount(o, md, want) ==
  discount' = [discount EXCEPT ![o] = [mode |-> md, entries |-> want]]

\* The row is written if the gateway has accepted the ratios.
Finish(t) ==
  LET w == work[t] IN
  /\ w.at \in {"done", "fail"} /\ call[t] = Ended
  /\ work' = [work EXCEPT ![t] = GiveUp(t)]
  /\ \/ /\ w.key = RatioKey /\ w.at = "done" /\ UpdateOrgDiscount(w.org, w.mode, w.want)
        /\ torn' = (IF w.alone THEN torn \ {w.org} ELSE torn \cup {w.org}) /\ NoFault
     \/ /\ w.key = RatioKey /\ w.at = "done" /\ Fault
        /\ torn' = torn \cup {w.org} /\ UNCHANGED discount
     \/ /\ w.key = RatioKey /\ w.at = "fail" /\ NoFault
        /\ torn' = (IF w.sent THEN torn \cup {w.org} ELSE torn) /\ UNCHANGED discount
     \/ w.key = UsableKey /\ NoFault /\ UNCHANGED <<discount, torn>>
  /\ UNCHANGED <<lockVars, option, writes>>

-----------------------------------------------------------------------------
\* The rest of the lock's steps, and a TryAcquire by somebody else.
Waiting(t) ==
  /\ Locks(t) \/ Returns(t) \/ TryLocks(t) \/ Put(t)
  /\ UNCHANGED <<option, discount, work, writes, faults, torn>>

TryAcquire(t) ==
  /\ "try" \in Does[t] /\ work[t] = NoWork /\ Get(t, RatioKey, "try")
  /\ UNCHANGED <<option, discount, work, writes, faults, torn>>

Proceeds(t) ==
  \/ ensureTotalDiscountCoversGroup(t) \/ Acquire(t) \/ getOptionJSON(t) \/ writeOnce(t)
  \/ orgRatiosMatch(t) \/ Release(t) \/ Finish(t) \/ Waiting(t)

PricingNext ==
  \E t \in Calls :
    \/ \E o \in Orgs, f \in Offers : ConfigureDiscount(t, o, f)
    \/ \E o \in Orgs, g \in Groups : AddOrgUsableGroup(t, o, g)
    \/ TryAcquire(t) \/ Cancelled(t)
    \/ Proceeds(t)

PricingSpec == PricingInit /\ [][PricingNext]_pricingVars

\* A call goes on, and Go's mutex passes to a waiter in the end.
PricingFairSpec ==
  PricingSpec /\ \A t \in Calls : SF_pricingVars(Proceeds(t))

-----------------------------------------------------------------------------
\* The worker's comparison, which reports and changes nothing: entries of a
\* discounted organisation's row that the gateway lacks or has otherwise.
ListDiscountedOrgIDs == {o \in Orgs : discount[o].mode # "none"}
reconcileOrgDiscount(o) == loadDiscountEntries(o) \ option[RatioKey][o]
ReconcileDiscounts == {o \in ListDiscountedOrgIDs : reconcileOrgDiscount(o) # {}}

Quiet(o) == \A t \in Calls : work[t].org = o => work[t].key # RatioKey

\* Writers of other organisations read and write the same option: still the
\* discounts of an organisation at the gateway are those in its row, unless
\* its last change failed half-way or ran together with another one; a later
\* change that runs alone makes up for it, and the worker has nothing to report.
MirrorMatches ==
  \A o \in Orgs : (Quiet(o) /\ o \notin torn) =>
    option[RatioKey][o] = discount[o].entries /\ o \notin ReconcileDiscounts
=============================================================================
