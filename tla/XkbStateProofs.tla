---------------------------- MODULE XkbStateProofs ----------------------------
(***************************************************************************)
(* Proofs about XkbState, for any keymap, any number of keys and any       *)
(* number of filters.                                                      *)
(*                                                                         *)
(* Types and latches need no assumption.  Locks and the count of the base  *)
(* modifiers are right only of keymaps whose latches are plain             *)
(* (PlainLatches).  The invariant of the count, CInv, says what holds in   *)
(* the middle of an event: which filters have been told of it, and that    *)
(* what it has collected is the difference between the modifiers counted   *)
(* and the filters that hold them.                                         *)
(***************************************************************************)
EXTENDS XkbState, FiniteSetTheorems, WellFoundedInduction, TLAPS

(* The action of a key, and types *)

LEMMA WrapInt ==
  ASSUME NEW g \in Int, NEW n \in Nat \ {0}, NEW range, NEW redirect \in Nat
  PROVE  /\ WrapGroup(g, n, range, redirect) \in Nat
         /\ g \in Nat => WrapGroup(g, n, range, redirect) \in 0 .. n - 1
<1>1. \A x \in Nat : x % n \in 0 .. n - 1
  OBVIOUS
<1> QED
  BY <1>1 DEF WrapGroup

LEMMA ActionOfKey ==
  ASSUME NEW k \in Keys, group \in Nat
  PROVE  (ActionOf(k) = NoAction /\ ActionsOf(k) = {}) \/ ActionOf(k) \in ActionsOf(k)
<1>a. CASE Len(KeyMap[k].groups) = 0
  <2>1. DOMAIN KeyMap[k].groups = {}
    BY <1>a, StateAssumption
  <2> QED
    BY <1>a, <2>1 DEF ActionOf, ActionsOf
<1> SUFFICES ASSUME Len(KeyMap[k].groups) # 0 PROVE ActionOf(k) \in ActionsOf(k)
  BY <1>a
<1> DEFINE n == Len(KeyMap[k].groups)
           i == WrapGroup(group, n, KeyMap[k].range, KeyMap[k].redirect) + 1
           g == KeyMap[k].groups[i]
<1>1. n \in Nat \ {0} /\ KeyMap[k].redirect \in Nat /\ DOMAIN KeyMap[k].groups = 1 .. n
  BY StateAssumption
<1>2. i \in DOMAIN KeyMap[k].groups
  BY <1>1, WrapInt
<1>3. /\ 0 \in DOMAIN g.actions
      /\ \A active \in DOMAIN g.entries : g.entries[active] \in DOMAIN g.actions
  BY <1>2, StateAssumption
<1>4. ActionOf(k) = g.actions[KeyLevel(g, mods \cap g.mask)]
  BY DEF ActionOf, KeyGroup
<1>5. KeyLevel(g, mods \cap g.mask) \in DOMAIN g.actions
  BY <1>3 DEF KeyLevel
<1>6. ActionsOf(k) = UNION {{h.actions[l] : l \in DOMAIN h.actions} :
                              h \in {KeyMap[k].groups[j] : j \in DOMAIN KeyMap[k].groups}}
  BY DEF ActionsOf
<1>7. g \in {KeyMap[k].groups[j] : j \in DOMAIN KeyMap[k].groups}
  BY <1>2
<1> HIDE DEF n, i, g
<1>8. ActionOf(k) \in {g.actions[l] : l \in DOMAIN g.actions}
  BY <1>4, <1>5, Zenon
<1>9. {g.actions[l] : l \in DOMAIN g.actions}
        \in {{h.actions[l] : l \in DOMAIN h.actions} :
              h \in {KeyMap[k].groups[j] : j \in DOMAIN KeyMap[k].groups}}
  BY <1>7, Zenon
<1> QED
  BY <1>6, <1>8, <1>9, Zenon

TInv == StateTypeOK /\ group \in Nat

LEMMA NoFilterType == NoFilter \in FilterType /\ NoAction \in Actions
BY StateAssumption DEF NoFilter, FilterType, NoAction, Actions, FilterTypes, Breaking, Others, Flags

LEMMA TInit == StateInit => TInv
<1> SUFFICES ASSUME StateInit PROVE TInv
  OBVIOUS
<1> USE DEF StateInit
<1>1. filters \in Seq(FilterType) /\ at \in 1 .. Len(filters) + 1
  OBVIOUS
<1>2. {base_mods, latched_mods, locked_mods, mods, set_mods, clear_mods} \subseteq SUBSET Mods
  OBVIOUS
<1>3. {base_group, locked_group, group} \subseteq Int /\ group \in Nat
  OBVIOUS
<1>4. mod_key_count \in [Mods -> Nat] /\ held \in [Keys -> Nat]
  OBVIOUS
<1>5. key \in Keys \cup {NoKey} /\ down \in BOOLEAN /\ consumed \in BOOLEAN
  OBVIOUS
<1> QED
  BY <1>1, <1>2, <1>3, <1>4, <1>5, Zenon DEF TInv, StateTypeOK

LEMMA ThisType ==
  ASSUME StateTypeOK, NEW funcs, At(funcs)
  PROVE  /\ at \in DOMAIN filters /\ This \in FilterType /\ This.func \in funcs
         /\ key \in Keys /\ at + 1 \in 1 .. Len(filters) + 1
         /\ This.action \in Actions
<1>1. at \in 1 .. Len(filters)
  BY DEF At, StateTypeOK
<1>2. filters \in Seq(FilterType) /\ key \in Keys
  BY DEF At, StateTypeOK
<1>3. This \in FilterType
  BY <1>1, <1>2 DEF This
<1>4. This.action \in Actions
  BY <1>3 DEF FilterType
<1>5. This.func \in funcs
  BY DEF At
<1> QED
  BY <1>1, <1>2, <1>3, <1>4, <1>5

\* What a filter becomes is in its place, and the others are as they were.
LEMMA BecomesFacts ==
  ASSUME StateTypeOK, NEW funcs, At(funcs), NEW f \in FilterType, Becomes(f)
  PROVE  /\ filters' \in Seq(FilterType) /\ Len(filters') = Len(filters)
         /\ DOMAIN filters' = DOMAIN filters
         /\ at' = at + 1 /\ at' \in 1 .. Len(filters') + 1
         /\ filters'[at] = f
         /\ \A i \in DOMAIN filters \ {at} : filters'[i] = filters[i]
<1>1. at \in 1 .. Len(filters) /\ filters \in Seq(FilterType)
  BY ThisType DEF StateTypeOK
<1> QED
  BY <1>1 DEF Becomes

\* The values the filters of the model become.
LEMMA ChangedType ==
  ASSUME StateTypeOK, NEW funcs, At(funcs)
  PROVE  /\ [This EXCEPT !.action.flags = @ \ {"clearLocks"}] \in FilterType
         /\ [This EXCEPT !.refcnt = @ + 1] \in FilterType
         /\ This.refcnt > 1 => [This EXCEPT !.refcnt = @ - 1] \in FilterType
         /\ \A l \in {"noLatch", "pending"} : [This EXCEPT !.latch = l] \in FilterType
         /\ [This EXCEPT !.key = key, !.func = "modLock", !.action.type = "modLock",
                         !.saved = {Lock}] \in FilterType
         /\ [This EXCEPT !.key = key, !.func = "modSet", !.action.type = "modSet"]
              \in FilterType
<1>1. This \in FilterType /\ This.action \in Actions /\ key \in Keys /\ Lock \in Mods
  BY ThisType, StateAssumption
<1>2. [This.action EXCEPT !.flags = @ \ {"clearLocks"}] \in Actions
  BY <1>1 DEF Actions
<1>3. /\ [This.action EXCEPT !.type = "modLock"] \in Actions
      /\ [This.action EXCEPT !.type = "modSet"] \in Actions
  BY <1>1 DEF Actions, FilterTypes
<1>4. /\ [This EXCEPT !.refcnt = @ + 1] \in FilterType
      /\ This.refcnt > 1 => [This EXCEPT !.refcnt = @ - 1] \in FilterType
      /\ \A l \in {"noLatch", "pending"} : [This EXCEPT !.latch = l] \in FilterType
  BY <1>1 DEF FilterType
<1>5. [This EXCEPT !.action.flags = @ \ {"clearLocks"}] \in FilterType
  BY <1>1, <1>2 DEF FilterType
<1>6. [This EXCEPT !.key = key, !.func = "modLock", !.action.type = "modLock",
                   !.saved = {Lock}] \in FilterType
  BY <1>1, <1>3 DEF FilterType, FilterTypes
<1>7. [This EXCEPT !.key = key, !.func = "modSet", !.action.type = "modSet"] \in FilterType
  BY <1>1, <1>3 DEF FilterType, FilterTypes
<1> QED
  BY <1>4, <1>5, <1>6, <1>7

\* A new filter is in a free slot or in one more, and the others are as they were.
LEMMA InstallFacts ==
  ASSUME filters \in Seq(FilterType), NEW f \in FilterType, Install(f)
  PROVE  /\ filters' \in Seq(FilterType)
         /\ \E n \in DOMAIN filters' :
              /\ filters'[n] = f
              /\ n \in DOMAIN filters => filters[n].func = "none"
              /\ DOMAIN filters' = DOMAIN filters \cup {n}
              /\ \A i \in DOMAIN filters \ {n} : filters'[i] = filters[i]
<1> DEFINE free == {i \in DOMAIN filters : filters[i].func = "none"}
<1>1. CASE free = {}
  <2>1. filters' = Append(filters, f)
    BY <1>1 DEF Install
  <2>2. /\ filters' \in Seq(FilterType)
        /\ DOMAIN filters' = DOMAIN filters \cup {Len(filters) + 1}
        /\ Len(filters) + 1 \in DOMAIN filters' /\ Len(filters) + 1 \notin DOMAIN filters
        /\ filters'[Len(filters) + 1] = f
        /\ \A i \in DOMAIN filters : filters'[i] = filters[i]
    BY <2>1
  <2> QED
    BY <2>2, Zenon
<1>2. CASE free # {}
  <2> DEFINE first == CHOOSE i \in free : \A j \in free : i <= j
             less  == OpToRel(<, Nat)
  <2>1. free \subseteq Nat
    OBVIOUS
  <2>2. PICK n \in free : \A i \in free : <<i, n>> \notin less
    BY <1>2, <2>1, NatLessThanWellFounded, WFMin
  <2>a. \A j \in free : ~(j < n)
    BY <2>1, <2>2 DEF OpToRel
  <2>3. \A j \in free : n <= j
    BY <2>1, <2>a
  <2>4. first \in free
    BY <2>3
  <2>5. filters' = [filters EXCEPT ![first] = f]
    BY <1>2 DEF Install
  <2>6. first \in DOMAIN filters /\ filters[first].func = "none"
    BY <2>4
  <2> HIDE DEF first, free
  <2>7. /\ filters' \in Seq(FilterType) /\ DOMAIN filters' = DOMAIN filters
        /\ filters'[first] = f
        /\ \A i \in DOMAIN filters \ {first} : filters'[i] = filters[i]
    BY <2>5, <2>6
  <2>8. DOMAIN filters = DOMAIN filters \cup {first}
    BY <2>6
  <2> QED
    BY <2>6, <2>7, <2>8, Zenon
<1> QED
  BY <1>1, <1>2

LEMMA NewFilterType ==
  ASSUME StateTypeOK, key \in Keys, NEW a \in Actions, a.type \in FilterTypes
  PROVE  NewFilter(a) \in FilterType
<1> DEFINE l == IF a.type = "modLatch" THEN "keyDown" ELSE "none"
           s == IF a.type = "modLock" THEN locked_mods \cap a.mods ELSE {}
           g == IF a.type = "groupSet" THEN base_group ELSE 0
<1>1. /\ l \in {"none", "noLatch", "keyDown", "pending"}
      /\ s \in SUBSET Mods /\ g \in Int
  BY DEF StateTypeOK
<1>2. NewFilter(a) = [func |-> a.type, key |-> key, action |-> a, latch |-> l,
                      saved |-> s, group |-> g, refcnt |-> 1]
  BY DEF NewFilter
<1> HIDE DEF l, s, g
<1> QED
  BY <1>1, <1>2 DEF FilterType

LEMMA CountUpType ==
  ASSUME StateTypeOK, NEW set \in SUBSET Mods, NEW clear, CountUp(set, clear)
  PROVE  mod_key_count' \in [Mods -> Nat] /\ base_mods' \in SUBSET Mods
<1> DEFINE pressed == [m \in Mods |-> mod_key_count[m] + (IF m \in set THEN 1 ELSE 0)]
<1>1. mod_key_count \in [Mods -> Nat] /\ base_mods \in SUBSET Mods
  BY DEF StateTypeOK
<1>2. pressed \in [Mods -> Nat]
  BY <1>1
<1>3. /\ mod_key_count' =
           [m \in Mods |-> IF m \notin clear THEN pressed[m]
                           ELSE IF pressed[m] <= 1 THEN 0 ELSE pressed[m] - 1]
      /\ base_mods' = (base_mods \cup set) \ {m \in clear : pressed[m] <= 1}
  BY DEF CountUp
<1> HIDE DEF pressed
<1> QED
  BY <1>1, <1>2, <1>3

LEMMA FinishType ==
  ASSUME StateTypeOK, NEW set \in SUBSET Mods, NEW clear, NEW base \in Int, NEW locked \in Int,
         Finish(set, clear, base, locked),
         locked_mods' \in SUBSET Mods, filters' \in Seq(FilterType)
  PROVE  TInv'
<1>1. mod_key_count' \in [Mods -> Nat] /\ base_mods' \in SUBSET Mods
  BY CountUpType DEF Finish
<1>2. latched_mods' \in SUBSET Mods /\ held' \in [Keys -> Nat]
  BY DEF Finish, StateTypeOK
<1>3. /\ mods' \in SUBSET Mods /\ set_mods' = {} /\ clear_mods' = {}
      /\ key' = NoKey /\ down' = FALSE /\ consumed' = FALSE /\ at' = 1
  BY <1>1, <1>2 DEF Finish
<1>4. NumGroups \in Nat \ {0}
  BY StateAssumption
<1>5. base_group' \in Int /\ locked_group' \in Nat
  BY <1>4, WrapInt DEF Finish
<1>6. group' \in Nat
  BY <1>4, <1>5, WrapInt DEF Finish
<1>7. {base_mods', latched_mods', locked_mods', mods', set_mods', clear_mods'} \subseteq SUBSET Mods
  BY <1>1, <1>2, <1>3
<1>8. {base_group', locked_group', group'} \subseteq Int
  BY <1>5, <1>6
<1>9. at' \in 1 .. Len(filters') + 1
  BY <1>3
<1> QED
  BY <1>1, <1>2, <1>3, <1>6, <1>7, <1>8, <1>9, Zenon DEF TInv, StateTypeOK

\* What a step of one filter leaves to prove.
LEMMA FilterStepType ==
  ASSUME TInv, NEW funcs, At(funcs), NEW f \in FilterType,
         Becomes(f), Continue,
         {latched_mods', locked_mods', set_mods', clear_mods'} \subseteq SUBSET Mods,
         base_mods' = base_mods, base_group' \in Int, locked_group' \in Int,
         consumed' \in BOOLEAN
  PROVE  TInv'
<1> USE DEF TInv
<1>1. filters' \in Seq(FilterType) /\ at' \in 1 .. Len(filters') + 1
  BY BecomesFacts
<1>2. /\ mods' = mods /\ group' = group /\ mod_key_count' = mod_key_count
      /\ key' = key /\ down' = down /\ held' = held
  BY DEF Continue, derived
<1>3. {base_mods', latched_mods', locked_mods', mods', set_mods', clear_mods'} \subseteq SUBSET Mods
  BY <1>2 DEF StateTypeOK
<1>4. {base_group', locked_group', group'} \subseteq Int
  BY <1>2 DEF StateTypeOK
<1>5. /\ mod_key_count' \in [Mods -> Nat] /\ held' \in [Keys -> Nat]
      /\ key' \in Keys \cup {NoKey} /\ down' \in BOOLEAN /\ group' \in Nat
  BY <1>2 DEF StateTypeOK
<1> QED
  BY <1>1, <1>3, <1>4, <1>5, Zenon DEF StateTypeOK

LEMMA TFilterStep ==
  ASSUME TInv, FilterStep
  PROVE  TInv'
<1>1. /\ StateTypeOK /\ NoFilter \in FilterType
      /\ {base_group, locked_group} \subseteq Int /\ consumed \in BOOLEAN
      /\ {latched_mods, locked_mods, set_mods, clear_mods} \subseteq SUBSET Mods
  BY NoFilterType DEF TInv, StateTypeOK
<1> USE DEF modVars, groupVars
<1>2. CASE SkipFree
  <2>1. at' \in 1 .. Len(filters') + 1 /\ filters' = filters
    BY <1>1, <1>2, ThisType DEF SkipFree
  <2> QED
    BY <1>1, <1>2, <2>1 DEF SkipFree, Continue, derived, TInv, StateTypeOK
<1>3. CASE AnotherKey
  <2>1. At(Counted) /\ Continue
    BY <1>3 DEF AnotherKey
  <2>2. PICK f \in FilterType : Becomes(f)
    BY <1>1, <1>3, <2>1, ThisType, ChangedType, Zenon DEF AnotherKey
  <2> QED
    BY <1>1, <1>3, <2>1, <2>2, FilterStepType DEF AnotherKey
<1>4. CASE StillHeld
  <2>1. At(Counted) /\ Continue
    BY <1>4 DEF StillHeld
  <2>2. PICK f \in FilterType : Becomes(f)
    <3>1. CASE down
      BY <1>1, <1>4, <2>1, <3>1, ChangedType, Zenon DEF StillHeld
    <3>2. CASE ~down
      BY <1>1, <1>4, <2>1, <3>2, ChangedType, Zenon DEF StillHeld
    <3> QED  BY <3>1, <3>2
  <2> QED
    BY <1>1, <1>4, <2>1, <2>2, FilterStepType DEF StillHeld
<1>5. ASSUME NEW func, LastUp(func),
             locked_mods' \in SUBSET Mods, clear_mods' \in SUBSET Mods,
             UNCHANGED <<base_mods, latched_mods>>,
             base_group' \in Int, locked_group' \in Int
      PROVE  TInv'
  <2>1. At({func}) /\ Becomes(NoFilter) /\ Continue /\ UNCHANGED <<consumed, set_mods>>
    BY <1>5 DEF LastUp
  <2> QED
    BY <1>1, <1>5, <2>1, FilterStepType
<1>6. CASE ReleaseModSet
  <2>1. LastUp("modSet")
    BY <1>6 DEF ReleaseModSet
  <2>2. This.action.mods \in SUBSET Mods
    BY <1>1, <2>1, ThisType DEF LastUp, Actions
  <2> QED
    BY <1>1, <1>5, <1>6, <2>1, <2>2 DEF ReleaseModSet
<1>7. CASE ReleaseModLock
  <2>1. LastUp("modLock")
    BY <1>7 DEF ReleaseModLock
  <2>2. This.action.mods \in SUBSET Mods
    BY <1>1, <2>1, ThisType DEF LastUp, Actions
  <2> QED
    BY <1>1, <1>5, <1>7, <2>1, <2>2 DEF ReleaseModLock
<1>8. CASE ReleaseGroupSet
  <2>1. LastUp("groupSet")
    BY <1>8 DEF ReleaseGroupSet
  <2>2. This.group \in Int
    BY <1>1, <2>1, ThisType DEF LastUp, FilterType
  <2> QED
    BY <1>1, <1>5, <1>8, <2>1, <2>2 DEF ReleaseGroupSet
<1>9. CASE ReleaseGroupLock
  <2>1. LastUp("groupLock")
    BY <1>9 DEF ReleaseGroupLock
  <2> QED
    BY <1>1, <1>5, <1>9, <2>1 DEF ReleaseGroupLock
<1>10. ASSUME At({"modLatch"}) PROVE This.action.mods \in SUBSET Mods
  BY <1>1, <1>10, ThisType DEF Actions
<1>11. CASE LatchAgain
  <2>1. At({"modLatch"}) /\ Continue
    BY <1>11 DEF LatchAgain
  <2>2. PICK f \in FilterType : Becomes(f)
    BY <1>1, <1>11, <2>1, ChangedType, Zenon DEF LatchAgain
  <2>3. {latched_mods', locked_mods', set_mods', clear_mods'} \subseteq SUBSET Mods
    BY <1>1, <1>10, <1>11, <2>1 DEF LatchAgain
  <2> QED
    BY <1>1, <1>11, <2>1, <2>2, <2>3, FilterStepType DEF LatchAgain
<1>12. CASE LatchBroken
  <2>1. At({"modLatch"}) /\ Continue /\ Becomes(NoFilter)
    BY <1>12 DEF LatchBroken
  <2> QED
    BY <1>1, <1>12, <2>1, FilterStepType DEF LatchBroken
<1>13. CASE LatchCancelled
  <2>1. At({"modLatch"}) /\ Continue /\ Becomes(NoFilter)
    BY <1>13 DEF LatchCancelled
  <2>2. {latched_mods', locked_mods', set_mods', clear_mods'} \subseteq SUBSET Mods
    BY <1>1, <1>10, <1>13, <2>1 DEF LatchCancelled
  <2> QED
    BY <1>1, <1>13, <2>1, <2>2, FilterStepType DEF LatchCancelled
<1>14. CASE LatchReleased
  <2>1. At({"modLatch"}) /\ Continue
    BY <1>14 DEF LatchReleased
  <2>2. PICK f \in FilterType : Becomes(f)
    BY <1>1, <1>14, <2>1, ChangedType, Zenon DEF LatchReleased
  <2>3. {latched_mods', locked_mods', set_mods', clear_mods'} \subseteq SUBSET Mods
    BY <1>1, <1>10, <1>14, <2>1 DEF LatchReleased
  <2> QED
    BY <1>1, <1>14, <2>1, <2>2, <2>3, FilterStepType DEF LatchReleased
<1>15. CASE LatchSpoilt
  <2>1. At({"modLatch"}) /\ Continue
    BY <1>15 DEF LatchSpoilt
  <2>2. PICK f \in FilterType : Becomes(f)
    BY <1>1, <1>15, <2>1, ChangedType, Zenon DEF LatchSpoilt
  <2> QED
    BY <1>1, <1>15, <2>1, <2>2, FilterStepType DEF LatchSpoilt
<1>16. CASE LatchIdle
  <2>1. at' \in 1 .. Len(filters') + 1 /\ filters' = filters
    BY <1>1, <1>16, ThisType DEF LatchIdle
  <2> QED
    BY <1>1, <1>16, <2>1 DEF LatchIdle, Continue, derived, TInv, StateTypeOK
<1> QED
  BY <1>2, <1>3, <1>4, <1>6, <1>7, <1>8, <1>9, <1>11, <1>12, <1>13, <1>14, <1>15, <1>16
     DEF FilterStep

LEMMA TNext ==
  ASSUME TInv, [StateNext]_stateVars
  PROVE  TInv'
<1>1. StateTypeOK /\ group \in Nat
  BY DEF TInv
<1>2. ASSUME NEW k \in Keys, NEW d \in BOOLEAN, UpdateKey(k, d) PROVE TInv'
  <2>1. held' \in [Keys -> Nat]
    <3>1. CASE d
      BY <1>1, <1>2, <3>1 DEF UpdateKey, StateTypeOK
    <3>2. CASE ~d
      BY <1>1, <1>2, <3>2 DEF UpdateKey, StateTypeOK
    <3> QED  BY <3>1, <3>2
  <2>2. at' \in 1 .. Len(filters') + 1 /\ filters' = filters
    BY <1>1, <1>2 DEF UpdateKey, StateTypeOK
  <2>3. /\ key' \in Keys \cup {NoKey} /\ down' \in BOOLEAN /\ consumed' \in BOOLEAN
        /\ set_mods' = {} /\ clear_mods' = {}
    BY <1>2 DEF UpdateKey
  <2>4. UNCHANGED <<base_mods, latched_mods, locked_mods, mods, base_group, locked_group,
                    group, mod_key_count>>
    BY <1>2 DEF UpdateKey, modVars, groupVars, derived
  <2> QED
    BY <1>1, <2>1, <2>2, <2>3, <2>4 DEF TInv, StateTypeOK
<1>3. CASE FilterStep
  BY <1>3, TFilterStep
<1>4. CASE FinishOld
  <2>1. locked_mods' \in SUBSET Mods /\ filters' \in Seq(FilterType)
    BY <1>1, <1>4 DEF FinishOld, StateTypeOK
  <2>2. set_mods \in SUBSET Mods /\ base_group \in Int /\ locked_group \in Int
    BY <1>1 DEF StateTypeOK
  <2>3. Finish(set_mods, clear_mods, base_group, locked_group)
    BY <1>4 DEF FinishOld
  <2> QED
    BY <1>1, <2>1, <2>2, <2>3, FinishType
<1>5. CASE FinishNew
  <2> DEFINE a == ActionOf(key)
             set == IF a.type \in {"modSet", "modLatch"} THEN a.mods
                    ELSE IF a.type = "modLock" THEN set_mods \cup a.mods ELSE set_mods
             base == IF a.type = "groupSet" THEN Moved(base_group, a) ELSE base_group
             locked == IF a.type = "groupLock" THEN Moved(locked_group, a) ELSE locked_group
  <2>1. key \in Keys
    BY <1>1, <1>5 DEF FinishNew, AllSeen, StateTypeOK
  <2>2. a \in Actions
    BY <1>1, <2>1, ActionOfKey, StateAssumption, NoFilterType
  <2>3. a.mods \in SUBSET Mods /\ a.group \in Int
    BY <2>2 DEF Actions
  <2>4. Finish(set, clear_mods, base, locked) /\ a.type \in FilterTypes /\ Install(NewFilter(a))
    BY <1>5 DEF FinishNew
  <2>5. filters' \in Seq(FilterType)
    <3>1. NewFilter(a) \in FilterType /\ filters \in Seq(FilterType)
      BY <1>1, <2>1, <2>2, <2>4, NewFilterType DEF StateTypeOK
    <3> QED
      BY <2>4, <3>1, InstallFacts
  <2>6. locked_mods' \in SUBSET Mods
    BY <1>1, <1>5, <2>3 DEF FinishNew, StateTypeOK
  <2>7. set \in SUBSET Mods /\ base \in Int /\ locked \in Int
    BY <1>1, <2>3 DEF StateTypeOK, Moved
  <2> HIDE DEF a, set, base, locked
  <2> QED
    BY <1>1, <2>4, <2>5, <2>6, <2>7, FinishType
<1>6. CASE UNCHANGED stateVars
  BY <1>1, <1>6 DEF stateVars, modVars, groupVars, derived, TInv, StateTypeOK
<1> QED
  BY <1>2, <1>3, <1>4, <1>5, <1>6 DEF StateNext

\* Whatever the keymap and the keys, every variable keeps its type: an action is found in
\* the group and level that the state picks (state.c:232).
THEOREM StateTypeCorrect == StateSpec => []StateTypeOK
<1>1. TInv => StateTypeOK
  BY DEF TInv
<1> QED
  BY <1>1, TInit, TNext, PTL DEF StateSpec

-----------------------------------------------------------------------------
(* Latches *)

Pending(f) == f.func = "modLatch" /\ f.latch = "pending"

Awaited == ModsOf({i \in DOMAIN filters : Pending(filters[i])})

LEMMA AwaitedIs ==
  \A m : m \in Awaited <=> \E i \in DOMAIN filters : Pending(filters[i]) /\ m \in filters[i].action.mods
BY DEF Awaited, ModsOf

\* When one filter changes, what is awaited is at most what that filter awaited less.
LEMMA AwaitedStep ==
  ASSUME StateTypeOK, NEW funcs, At(funcs), NEW f \in FilterType, Becomes(f)
  PROVE  /\ \A m \in Awaited : m \in Awaited' \/ (Pending(This) /\ m \in This.action.mods)
         /\ Pending(f) /\ f.action.mods = This.action.mods => Awaited \subseteq Awaited'
         /\ Pending(f) => f.action.mods \subseteq Awaited'
<1>1. /\ at \in DOMAIN filters /\ DOMAIN filters' = DOMAIN filters /\ filters'[at] = f
      /\ \A i \in DOMAIN filters \ {at} : filters'[i] = filters[i]
  BY ThisType, BecomesFacts
<1>2. \A m : m \in Awaited' <=>
        \E i \in DOMAIN filters' : Pending(filters'[i]) /\ m \in filters'[i].action.mods
  BY DEF Awaited, ModsOf, Pending
<1>3. ASSUME NEW m \in Awaited
      PROVE  m \in Awaited' \/ (Pending(This) /\ m \in This.action.mods)
  <2>1. PICK i \in DOMAIN filters : Pending(filters[i]) /\ m \in filters[i].action.mods
    BY <1>3, AwaitedIs
  <2>2. CASE i = at
    BY <2>1, <2>2 DEF This
  <2>3. CASE i # at
    BY <1>1, <1>2, <2>1, <2>3
  <2> QED
    BY <2>2, <2>3
<1>4. ASSUME Pending(f) PROVE f.action.mods \subseteq Awaited'
  BY <1>1, <1>2, <1>4
<1> QED
  BY <1>3, <1>4

\* A new filter, and no change at all, take nothing from what is awaited.
LEMMA AwaitedKept ==
  ASSUME filters \in Seq(FilterType), NEW f \in FilterType,
         Install(f) \/ UNCHANGED filters
  PROVE  Awaited \subseteq Awaited'
<1>1. CASE UNCHANGED filters
  BY <1>1 DEF Awaited, ModsOf, Pending
<1>2. CASE Install(f)
  <2>1. PICK n \in DOMAIN filters' :
          /\ n \in DOMAIN filters => filters[n].func = "none"
          /\ DOMAIN filters' = DOMAIN filters \cup {n}
          /\ \A i \in DOMAIN filters \ {n} : filters'[i] = filters[i]
    BY <1>2, InstallFacts
  <2>2. \A i \in DOMAIN filters : Pending(filters[i]) => i \in DOMAIN filters' /\ filters'[i] = filters[i]
    BY <2>1 DEF Pending
  <2>3. \A m : m \in Awaited' <=>
          \E i \in DOMAIN filters' : Pending(filters'[i]) /\ m \in filters'[i].action.mods
    BY DEF Awaited, ModsOf, Pending
  <2> QED
    BY <2>2, <2>3, AwaitedIs
<1> QED
  BY <1>1, <1>2

LEMMA LatchesNext ==
  ASSUME TInv, latched_mods \subseteq Awaited, [StateNext]_stateVars
  PROVE  latched_mods' \subseteq Awaited'
<1>1. StateTypeOK /\ filters \in Seq(FilterType) /\ NoFilter \in FilterType
  BY NoFilterType DEF TInv, StateTypeOK
<1>2. ASSUME NEW f \in FilterType, Install(f) \/ UNCHANGED filters, latched_mods' = latched_mods
      PROVE  latched_mods' \subseteq Awaited'
  BY <1>1, <1>2, AwaitedKept
<1>3. ASSUME NEW funcs, At(funcs), NEW f \in FilterType, Becomes(f), latched_mods' = latched_mods,
             ~Pending(This)
      PROVE  latched_mods' \subseteq Awaited'
  BY <1>1, <1>3, AwaitedStep
<1>4. ASSUME NEW funcs, At(funcs), NEW f \in FilterType, Becomes(f),
             latched_mods' = latched_mods \ This.action.mods
      PROVE  latched_mods' \subseteq Awaited'
  BY <1>1, <1>4, AwaitedStep
<1> USE DEF modVars
<1>5. CASE SkipFree \/ LatchIdle \/ FinishOld \/ \E k \in Keys, d \in BOOLEAN : UpdateKey(k, d)
  BY <1>1, <1>2, <1>5 DEF SkipFree, LatchIdle, FinishOld, Finish, UpdateKey
<1>6. CASE AnotherKey
  <2>1. At(Counted) /\ ~Pending(This) /\ latched_mods' = latched_mods
    BY <1>6, ThisType DEF AnotherKey, At, Counted, Pending
  <2>2. PICK f \in FilterType : Becomes(f)
    BY <1>1, <1>6, <2>1, ThisType, ChangedType, Zenon DEF AnotherKey
  <2> QED
    BY <1>3, <2>1, <2>2
<1>7. CASE StillHeld
  <2>1. At(Counted) /\ ~Pending(This) /\ latched_mods' = latched_mods
    BY <1>7, ThisType DEF StillHeld, At, Counted, Pending
  <2>2. PICK f \in FilterType : Becomes(f)
    <3>1. CASE down
      BY <1>1, <1>7, <2>1, <3>1, ChangedType, Zenon DEF StillHeld
    <3>2. CASE ~down
      BY <1>1, <1>7, <2>1, <3>2, ChangedType, Zenon DEF StillHeld
    <3> QED  BY <3>1, <3>2
  <2> QED
    BY <1>3, <2>1, <2>2
<1>8. CASE ReleaseModSet \/ ReleaseModLock \/ ReleaseGroupSet \/ ReleaseGroupLock
  <2>1. PICK func \in Counted : LastUp(func)
    BY <1>8 DEF ReleaseModSet, ReleaseModLock, ReleaseGroupSet, ReleaseGroupLock,
                Counted, FilterTypes
  <2>2. At({func}) /\ Becomes(NoFilter) /\ ~Pending(This)
    BY <2>1 DEF LastUp, At, Counted, Pending
  <2>3. latched_mods' = latched_mods
    BY <1>8 DEF ReleaseModSet, ReleaseModLock, ReleaseGroupSet, ReleaseGroupLock
  <2> QED
    BY <1>1, <1>3, <2>2, <2>3
<1>9. CASE LatchAgain
  <2>1. At({"modLatch"}) /\ latched_mods' = latched_mods \ This.action.mods
    BY <1>9 DEF LatchAgain
  <2>2. PICK f \in FilterType : Becomes(f)
    BY <1>1, <1>9, <2>1, ChangedType, Zenon DEF LatchAgain
  <2> QED
    BY <1>4, <2>1, <2>2
<1>10. CASE LatchBroken
  BY <1>1, <1>4, <1>10 DEF LatchBroken
<1>11. CASE LatchCancelled
  <2>1. CASE This.latch = "pending"
    BY <1>1, <1>4, <1>11, <2>1 DEF LatchCancelled
  <2>2. CASE This.latch # "pending"
    BY <1>1, <1>3, <1>11, <2>2 DEF LatchCancelled, Pending
  <2> QED
    BY <2>1, <2>2
<1>12. CASE LatchReleased
  <2> DEFINE f == [This EXCEPT !.latch = "pending"]
  <2>1. At({"modLatch"}) /\ Becomes(f) /\ latched_mods' = latched_mods \cup This.action.mods
    BY <1>12 DEF LatchReleased
  <2>2. This \in FilterType /\ This.func = "modLatch"
    BY <1>1, <2>1, ThisType
  <2>3. f \in FilterType /\ Pending(f) /\ f.action.mods = This.action.mods
    BY <2>2 DEF FilterType, Pending
  <2> HIDE DEF f
  <2> QED
    BY <1>1, <2>1, <2>3, AwaitedStep
<1>13. CASE LatchSpoilt
  <2>1. At({"modLatch"}) /\ ~Pending(This) /\ latched_mods' = latched_mods
    BY <1>13 DEF LatchSpoilt, Pending
  <2>2. PICK f \in FilterType : Becomes(f)
    BY <1>1, <1>13, <2>1, ChangedType, Zenon DEF LatchSpoilt
  <2> QED
    BY <1>3, <2>1, <2>2
<1>14. CASE FinishNew
  <2> DEFINE a == ActionOf(key)
  <2>1. key \in Keys /\ group \in Nat
    BY <1>1, <1>14 DEF FinishNew, AllSeen, StateTypeOK, TInv
  <2>2. a \in Actions
    BY <2>1, ActionOfKey, StateAssumption, NoFilterType
  <2>3. a.type \in FilterTypes /\ Install(NewFilter(a)) /\ latched_mods' = latched_mods
    BY <1>14 DEF FinishNew, Finish
  <2> HIDE DEF a
  <2>4. NewFilter(a) \in FilterType
    BY <1>1, <2>1, <2>2, <2>3, NewFilterType
  <2> QED
    BY <1>2, <2>3, <2>4
<1>15. CASE UNCHANGED stateVars
  BY <1>1, <1>2, <1>15 DEF stateVars
<1> QED
  BY <1>5, <1>6, <1>7, <1>8, <1>9, <1>10, <1>11, <1>12, <1>13, <1>14, <1>15
     DEF StateNext, FilterStep

\* For any keymap and any number of latches, a modifier is latched only while a filter
\* waits for the key that ends it (state.c:473, 501).
THEOREM LatchesCanBreak == StateSpec => []LatchBreakable
<1>1. LatchBreakable <=> latched_mods \subseteq Awaited
  BY DEF LatchBreakable, Awaited, Pending
<1>2. StateInit => LatchBreakable
  BY <1>1 DEF StateInit
<1>3. (LatchBreakable <=> latched_mods \subseteq Awaited)'
  BY <1>1, PTL
<1>4. TInv /\ LatchBreakable /\ [StateNext]_stateVars => LatchBreakable'
  BY <1>1, <1>3, LatchesNext
<1> QED
  BY <1>2, <1>4, TInit, TNext, PTL DEF StateSpec

-----------------------------------------------------------------------------
(* Locks *)

\* A latch is the action of its key and does not become a lock, and a lock unlocks no
\* more than its own modifiers.
OneShape(f) ==
  /\ f.func = "modLatch" => /\ f.key \in Keys /\ f.action \in ActionsOf(f.key)
                            /\ f.action.type = "modLatch"
                            /\ f.latch # "none" /\ f.refcnt = 1
  /\ f.func = "modLock" => f.saved \subseteq f.action.mods

Shapes == \A i \in DOMAIN filters : OneShape(filters[i])

LEMMA ShapesBecome ==
  ASSUME StateTypeOK, Shapes, NEW funcs, At(funcs), NEW f \in FilterType, Becomes(f), OneShape(f)
  PROVE  Shapes'
<1>1. /\ at \in DOMAIN filters /\ DOMAIN filters' = DOMAIN filters /\ filters'[at] = f
      /\ \A i \in DOMAIN filters \ {at} : filters'[i] = filters[i]
  BY ThisType, BecomesFacts
<1>2. \A i \in DOMAIN filters' : OneShape(filters'[i])
  BY <1>1 DEF Shapes
<1> QED
  BY <1>2 DEF Shapes, OneShape

LEMMA ThisShape ==
  ASSUME StateTypeOK, Shapes, NEW funcs, At(funcs)
  PROVE  OneShape(This)
BY ThisType DEF Shapes, This

LEMMA ShapesNext ==
  ASSUME PlainLatches, TInv, Shapes, [StateNext]_stateVars
  PROVE  Shapes'
<1>1. StateTypeOK /\ filters \in Seq(FilterType) /\ NoFilter \in FilterType /\ OneShape(NoFilter)
  BY NoFilterType DEF TInv, StateTypeOK, OneShape, NoFilter
<1>2. CASE UNCHANGED filters
  BY <1>2 DEF Shapes, OneShape
<1>3. ASSUME NEW funcs, At(funcs), NEW f \in FilterType, Becomes(f), OneShape(f) PROVE Shapes'
  BY <1>1, <1>3, ShapesBecome
<1>4. CASE AnotherKey
  <2>1. At(Counted) /\ This \in FilterType /\ This.func # "modLatch" /\ OneShape(This)
    BY <1>1, <1>4, ThisType, ThisShape DEF AnotherKey, At, Counted
  <2>2. CASE Becomes(This)
    BY <1>3, <2>1, <2>2
  <2>3. CASE ~Becomes(This)
    <3> DEFINE f == [This EXCEPT !.action.flags = @ \ {"clearLocks"}]
    <3>1. f \in FilterType /\ Becomes(f)
      BY <1>1, <1>4, <2>1, <2>3, ChangedType, Zenon DEF AnotherKey
    <3>2. /\ f.func = This.func /\ f.saved = This.saved /\ f.action.mods = This.action.mods
      BY <2>1 DEF FilterType, Actions
    <3> HIDE DEF f
    <3>3. OneShape(f)
      BY <2>1, <3>2 DEF OneShape
    <3> QED  BY <1>3, <2>1, <3>1, <3>3
  <2> QED
    BY <2>2, <2>3
<1>5. CASE StillHeld
  <2>1. At(Counted) /\ This \in FilterType /\ This.func # "modLatch" /\ OneShape(This)
    BY <1>1, <1>5, ThisType, ThisShape DEF StillHeld, At, Counted
  <2> DEFINE f == [This EXCEPT !.refcnt = IF down THEN @ + 1 ELSE @ - 1]
  <2>2. Becomes(f)
    BY <1>5 DEF StillHeld
  <2>3. f \in FilterType
    <3>1. CASE down
      BY <1>1, <1>5, <2>1, <3>1, ChangedType, Zenon DEF StillHeld
    <3>2. CASE ~down
      BY <1>1, <1>5, <2>1, <3>2, ChangedType, Zenon DEF StillHeld
    <3> QED  BY <3>1, <3>2
  <2>4. f.func = This.func /\ f.saved = This.saved /\ f.action = This.action
    BY <2>1 DEF FilterType
  <2> HIDE DEF f
  <2>5. OneShape(f)
    BY <2>1, <2>4 DEF OneShape
  <2> QED
    BY <1>3, <2>1, <2>2, <2>3, <2>5
<1>6. CASE ReleaseModSet \/ ReleaseModLock \/ ReleaseGroupSet \/ ReleaseGroupLock
  <2>1. PICK func : LastUp(func)
    BY <1>6 DEF ReleaseModSet, ReleaseModLock, ReleaseGroupSet, ReleaseGroupLock
  <2> QED
    BY <1>1, <1>3, <2>1 DEF LastUp
<1>7. CASE LatchBroken \/ LatchCancelled
  BY <1>1, <1>3, <1>7 DEF LatchBroken, LatchCancelled
<1>8. ASSUME At({"modLatch"})
      PROVE  /\ This \in FilterType /\ OneShape(This) /\ This.func = "modLatch"
             /\ "latchToLock" \notin This.action.flags
  <2>1. This \in FilterType /\ OneShape(This) /\ This.func = "modLatch"
    BY <1>1, <1>8, ThisType, ThisShape
  <2> QED
    BY <2>1 DEF OneShape, PlainLatches
<1>9. CASE LatchAgain
  <2> DEFINE f == [This EXCEPT !.key = key, !.func = "modSet", !.action.type = "modSet"]
  <2>1. At({"modLatch"}) /\ Becomes(f)
    BY <1>8, <1>9 DEF LatchAgain
  <2>2. f \in FilterType
    BY <1>1, <2>1, ChangedType
  <2>3. f.func = "modSet"
    BY <1>8, <2>1 DEF FilterType
  <2> HIDE DEF f
  <2> QED
    BY <1>3, <2>1, <2>2, <2>3 DEF OneShape
<1>10. ASSUME At({"modLatch"}), NEW l \in {"noLatch", "pending"}, Becomes([This EXCEPT !.latch = l])
       PROVE  Shapes'
  <2> DEFINE f == [This EXCEPT !.latch = l]
  <2>1. This \in FilterType /\ OneShape(This) /\ This.func = "modLatch" /\ f \in FilterType
    BY <1>1, <1>8, <1>10, ChangedType
  <2>2. f.func = This.func /\ f.key = This.key /\ f.action = This.action /\ f.refcnt = This.refcnt /\ f.latch = l
    BY <2>1 DEF FilterType
  <2>3. Becomes(f)
    BY <1>10
  <2> HIDE DEF f
  <2> QED
    BY <1>3, <1>10, <2>1, <2>2, <2>3 DEF OneShape
<1>11. CASE LatchReleased \/ LatchSpoilt
  BY <1>10, <1>11 DEF LatchReleased, LatchSpoilt
<1>12. CASE FinishNew
  <2> DEFINE a == ActionOf(key)
  <2>1. key \in Keys /\ group \in Nat
    BY <1>1, <1>12 DEF FinishNew, AllSeen, StateTypeOK, TInv
  <2>2. a.type \in FilterTypes /\ Install(NewFilter(a))
    BY <1>12 DEF FinishNew
  <2>3. a \in ActionsOf(key) /\ a \in Actions
    BY <2>1, <2>2, ActionOfKey, StateAssumption DEF NoAction, FilterTypes
  <2> HIDE DEF a
  <2>4. NewFilter(a) \in FilterType
    BY <1>1, <2>1, <2>2, <2>3, NewFilterType
  <2>5. OneShape(NewFilter(a))
    BY <2>1, <2>3 DEF OneShape, NewFilter
  <2>6. PICK n \in DOMAIN filters' :
          /\ filters'[n] = NewFilter(a)
          /\ DOMAIN filters' = DOMAIN filters \cup {n}
          /\ \A i \in DOMAIN filters \ {n} : filters'[i] = filters[i]
    BY <1>1, <2>2, <2>4, InstallFacts
  <2>7. \A i \in DOMAIN filters' : OneShape(filters'[i])
    BY <2>5, <2>6 DEF Shapes
  <2> QED
    BY <2>7 DEF Shapes, OneShape
<1>13. CASE SkipFree \/ LatchIdle \/ FinishOld \/ (\E k \in Keys, d \in BOOLEAN : UpdateKey(k, d))
         \/ UNCHANGED stateVars
  BY <1>2, <1>13 DEF SkipFree, LatchIdle, FinishOld, UpdateKey, stateVars
<1> QED
  BY <1>4, <1>5, <1>6, <1>7, <1>9, <1>11, <1>12, <1>13 DEF StateNext, FilterStep

LocksStep ==
  \A m \in locked_mods \ locked_mods' :
    /\ key # NoKey /\ ~down
    /\ \E i \in DOMAIN filters : filters[i].key = key /\ m \in filters[i].action.mods

LEMMA LocksNext ==
  ASSUME PlainLatches, TInv, Shapes, [StateNext]_stateVars
  PROVE  [LocksStep]_stateVars
<1>1. StateTypeOK
  BY DEF TInv
<1>2. CASE locked_mods \subseteq locked_mods'
  BY <1>2 DEF LocksStep
<1>3. ASSUME NEW funcs, At(funcs), ~down, This.key = key,
             locked_mods \ This.action.mods \subseteq locked_mods'
      PROVE  LocksStep
  <2>1. at \in DOMAIN filters /\ key # NoKey
    BY <1>1, <1>3, ThisType DEF At
  <2> QED
    BY <1>3, <2>1 DEF LocksStep, This
<1>4. CASE ReleaseModSet
  BY <1>2, <1>3, <1>4 DEF ReleaseModSet, LastUp
<1>5. CASE ReleaseModLock
  <2>1. At({"modLock"}) /\ ~down /\ This.key = key
    BY <1>5 DEF ReleaseModLock, LastUp
  <2>2. This.saved \subseteq This.action.mods
    BY <1>1, <2>1, ThisType, ThisShape DEF OneShape
  <2> QED
    BY <1>3, <1>5, <2>1, <2>2 DEF ReleaseModLock
<1>6. CASE LatchCancelled
  BY <1>3, <1>6 DEF LatchCancelled
<1>7. CASE ReleaseGroupSet \/ ReleaseGroupLock \/ LatchAgain \/ LatchBroken \/ LatchReleased
             \/ LatchSpoilt \/ LatchIdle \/ SkipFree \/ AnotherKey \/ StillHeld
  BY <1>2, <1>7 DEF ReleaseGroupSet, ReleaseGroupLock, LatchAgain, LatchBroken, LatchReleased,
                    LatchSpoilt, LatchIdle, SkipFree, AnotherKey, StillHeld, modVars
<1>8. CASE FinishOld \/ FinishNew \/ (\E k \in Keys, d \in BOOLEAN : UpdateKey(k, d))
  BY <1>2, <1>8 DEF FinishOld, FinishNew, UpdateKey, modVars
<1>9. CASE UNCHANGED stateVars
  BY <1>9
<1> QED
  BY <1>4, <1>5, <1>6, <1>7, <1>8, <1>9 DEF StateNext, FilterStep

LEMMA ShapesInit == StateInit => Shapes
BY DEF StateInit, Shapes

\* If latches do not lock, then for any keys, however they are struck, a modifier that is
\* locked is unlocked only when a key of that modifier goes up (state.c:367, 401, 495).
THEOREM LocksStay == PlainLatches => (StateSpec => LocksLostOnlyByTheirKeys)
<1> SUFFICES ASSUME PlainLatches PROVE StateSpec => LocksLostOnlyByTheirKeys
  OBVIOUS
<1>1. TInv /\ Shapes /\ [StateNext]_stateVars => Shapes' /\ [LocksStep]_stateVars
  BY ShapesNext, LocksNext
<1>2. TInv /\ [StateNext]_stateVars => TInv'
  BY TNext
<1>3. StateSpec => [][LocksStep]_stateVars
  BY <1>1, <1>2, TInit, ShapesInit, PTL DEF StateSpec
<1> QED
  BY <1>3 DEF LocksLostOnlyByTheirKeys, LocksStep

-----------------------------------------------------------------------------
(* The modifiers that are counted *)

\* The key of the filter is down as far as the filter goes.
Active(f) == f.func \in Counted \/ (f.func = "modLatch" /\ f.latch # "pending")
KeyDown(f) == f.func = "modLatch" /\ f.latch = "keyDown"
Alike(f, g) == f.action.mods = g.action.mods /\ f.action.flags = g.action.flags
Renews(f, a) == a.type = "modLatch" /\ a.flags = f.action.flags /\ a.mods = f.action.mods

HoldersOf(fs, m) == {i \in DOMAIN fs : Holding(fs[i]) /\ m \in fs[i].action.mods}
Holders(fs, m) == Cardinality(HoldersOf(fs, m))

One(b) == IF b THEN 1 ELSE 0

\* How often key k is down as far as the filter in slot i has been told.
Known(k, i) ==
  IF k # key \/ i < at THEN held[k] ELSE IF down THEN held[k] - 1 ELSE held[k] + 1

Event ==
  /\ key = NoKey => set_mods = {} /\ clear_mods = {}
  /\ down => clear_mods = {}
  /\ ~down => set_mods = {}
  /\ set_mods # {} => consumed
  /\ key # NoKey /\ down => held[key] >= 1
  /\ key # NoKey /\ ~down => held[key] + 1 <= MaxHeld[key]
  /\ \A k \in Keys : held[k] <= MaxHeld[k]

OneActivePerKey ==
  \A i, j \in DOMAIN filters :
    Active(filters[i]) /\ Active(filters[j]) /\ filters[i].key = filters[j].key => i = j

ActiveKnown ==
  \A i \in DOMAIN filters : Active(filters[i]) =>
    /\ filters[i].key \in Keys
    /\ 1 <= filters[i].refcnt /\ filters[i].refcnt <= Known(filters[i].key, i)

\* The filter of the key at work consumes its press, and is the first to clear.
ActiveFirst ==
  \A i \in DOMAIN filters : Active(filters[i]) /\ filters[i].key = key =>
    /\ down /\ i < at => consumed
    /\ ~down => clear_mods = {}

PendingDiffer ==
  \A i, j \in DOMAIN filters : Pending(filters[i]) =>
    /\ Pending(filters[j]) /\ Alike(filters[i], filters[j]) => i = j
    /\ ~(KeyDown(filters[j]) /\ Alike(filters[i], filters[j]))

PendingUp ==
  \A i \in DOMAIN filters : Pending(filters[i]) =>
    IF key # filters[i].key THEN held[filters[i].key] = 0
    ELSE IF down THEN i >= at ELSE i < at /\ held[key] = 0

\* A latch that has seen the press, or a press that is consumed, does not renew it.
PendingPassed ==
  \A i \in DOMAIN filters : Pending(filters[i]) /\ key # NoKey /\ down /\ (i < at \/ consumed) =>
    ~Renews(filters[i], ActionOf(key))

OneKeyDown ==
  /\ \A i, j \in DOMAIN filters : KeyDown(filters[i]) /\ KeyDown(filters[j]) => i = j
  /\ \A i \in DOMAIN filters : key # NoKey /\ down /\ i < at => ~KeyDown(filters[i])

Counts ==
  \A m \in Mods :
    /\ mod_key_count[m] + One(m \in set_mods) = Holders(filters, m) + One(m \in clear_mods)
    /\ m \in base_mods <=> mod_key_count[m] >= 1

CInv ==
  /\ TInv /\ Shapes /\ Event /\ OneActivePerKey /\ ActiveKnown /\ ActiveFirst
  /\ PendingDiffer /\ PendingUp /\ PendingPassed /\ OneKeyDown /\ Counts

Holds(f, m) == Holding(f) /\ m \in f.action.mods

\* One slot at most is another one.
LEMMA HoldersStep ==
  ASSUME NEW fs \in Seq(FilterType), NEW gs \in Seq(FilterType), NEW n,
         DOMAIN gs = DOMAIN fs \cup {n}, \A i \in DOMAIN fs \ {n} : gs[i] = fs[i], NEW m
  PROVE  /\ Holders(fs, m) \in Nat /\ Holders(gs, m) \in Nat
         /\ Holders(gs, m) + One(n \in HoldersOf(fs, m)) = Holders(fs, m) + One(n \in HoldersOf(gs, m))
<1> DEFINE F == HoldersOf(fs, m)
           G == HoldersOf(gs, m)
           rest == F \ {n}
<1>1. IsFiniteSet(F) /\ IsFiniteSet(G)
  <2>1. F \subseteq 1 .. Len(fs) /\ G \subseteq 1 .. Len(gs)
    BY DEF HoldersOf
  <2> QED
    BY <2>1, FS_Interval, FS_Subset
<1>2. G \ {n} = rest
  BY DEF HoldersOf
<1>3. IsFiniteSet(rest) /\ n \notin rest
  BY <1>1, FS_Subset
<1>4. Cardinality(rest) \in Nat /\ Cardinality(rest \cup {n}) = Cardinality(rest) + 1
  BY <1>3, FS_CardinalityType, FS_AddElement
<1>5. Holders(fs, m) = Cardinality(F) /\ Holders(gs, m) = Cardinality(G)
  BY DEF Holders
<1> HIDE DEF F, G
<1>6. Cardinality(F) = Cardinality(rest) + One(n \in F)
  <2>1. CASE n \in F
    <3>1. F = rest \cup {n} /\ One(n \in F) = 1
      BY <2>1 DEF One
    <3> QED  BY <1>4, <3>1
  <2>2. CASE n \notin F
    <3>1. F = rest /\ One(n \in F) = 0
      BY <2>2 DEF One
    <3> HIDE DEF rest
    <3> QED  BY <1>4, <3>1
  <2> QED
    BY <2>1, <2>2
<1>7. Cardinality(G) = Cardinality(rest) + One(n \in G)
  <2>1. CASE n \in G
    <3>1. G = rest \cup {n} /\ One(n \in G) = 1
      BY <1>2, <2>1 DEF One
    <3> QED  BY <1>4, <3>1
  <2>2. CASE n \notin G
    <3>1. G = rest /\ One(n \in G) = 0
      BY <1>2, <2>2 DEF One
    <3> QED  BY <1>4, <3>1
  <2> QED  BY <2>1, <2>2
<1>8. One(n \in F) \in Nat /\ One(n \in G) \in Nat
  BY DEF One
<1> HIDE DEF rest
<1>9. /\ Holders(fs, m) \in Nat /\ Holders(gs, m) \in Nat
      /\ Holders(gs, m) + One(n \in F) = Holders(fs, m) + One(n \in G)
  BY <1>4, <1>5, <1>6, <1>7, <1>8
<1> QED
  BY <1>9 DEF F, G

LEMMA HoldersNat ==
  ASSUME NEW fs \in Seq(FilterType), NEW m
  PROVE  IsFiniteSet(HoldersOf(fs, m)) /\ Holders(fs, m) \in Nat
<1>1. HoldersOf(fs, m) \subseteq 1 .. Len(fs)
  BY DEF HoldersOf
<1>2. IsFiniteSet(HoldersOf(fs, m))
  BY <1>1, FS_Interval, FS_Subset
<1> QED
  BY <1>2, FS_CardinalityType DEF Holders

LEMMA LatchKey ==
  ASSUME PlainLatches, NEW k \in Keys, NEW a \in ActionsOf(k), a.type = "modLatch"
  PROVE  /\ MaxHeld[k] <= 1 /\ "latchToLock" \notin a.flags
         /\ \A b \in ActionsOf(k) : b = a
BY DEF PlainLatches

\* A latch whose key is held is not struck again: the key is on one keyboard.
LEMMA HeldLatchUp ==
  ASSUME PlainLatches, CInv, At({"modLatch"}), This.latch # "pending", This.key = key
  PROVE  ~down
<1>1. /\ at \in DOMAIN filters /\ This.func = "modLatch" /\ key \in Keys /\ OneShape(This)
  BY ThisType, ThisShape DEF CInv, TInv
<1>2. Active(This) /\ filters[at] = This
  BY <1>1 DEF Active, This
<1>3. This.refcnt = 1 /\ MaxHeld[key] <= 1
  BY <1>1, LatchKey DEF OneShape
<1>4. This.refcnt <= Known(key, at)
  BY <1>1, <1>2 DEF CInv, ActiveKnown
<1>5. at \in Nat /\ held[key] \in Nat /\ MaxHeld[key] \in Nat /\ held[key] <= MaxHeld[key]
  BY <1>1, StateAssumption DEF CInv, TInv, StateTypeOK, Event
<1> QED
  BY <1>3, <1>4, <1>5 DEF Known

\* A latch that waits is renewed by its own key.
LEMMA OwnRenews ==
  ASSUME PlainLatches, CInv, At({"modLatch"}), This.key = key
  PROVE  Renews(This, ActionOf(key))
<1>1. key \in Keys /\ This.func = "modLatch" /\ OneShape(This) /\ group \in Nat
  BY ThisType, ThisShape DEF CInv, TInv
<1>2. This.action \in ActionsOf(key) /\ This.action.type = "modLatch"
  BY <1>1 DEF OneShape
<1>3. ActionOf(key) \in ActionsOf(key)
  BY <1>1, <1>2, ActionOfKey
<1>4. ActionOf(key) = This.action
  BY <1>1, <1>2, <1>3, LatchKey
<1> QED
  BY <1>2, <1>4 DEF Renews

-----------------------------------------------------------------------------
(* One filter's answer *)

\* What the filter at work may become.
Fits(f) ==
  /\ Active(f) =>
       /\ f.key \in Keys /\ 1 <= f.refcnt /\ f.refcnt <= held[f.key]
       /\ \A i \in DOMAIN filters \ {at} : Active(filters[i]) => filters[i].key # f.key
       /\ f.key = key => (down => consumed') /\ (~down => clear_mods' = {})
  /\ Pending(f) =>
       /\ held[f.key] = 0 /\ (f.key = key => ~down)
       /\ \A i \in DOMAIN filters \ {at} :
            Pending(filters[i]) \/ KeyDown(filters[i]) => ~Alike(f, filters[i])
       /\ down => ~Renews(f, ActionOf(key))
  /\ KeyDown(f) => f = This /\ ~down

\* What the filter at work may do to what the event collects.
Collects ==
  /\ Event'
  /\ consumed => consumed'
  /\ consumed' /\ ~consumed /\ down =>
       \A i \in DOMAIN filters \ {at} : Pending(filters[i]) => ~Renews(filters[i], ActionOf(key))
  /\ clear_mods' = clear_mods
       \/ \A i \in DOMAIN filters \ {at} : Active(filters[i]) => filters[i].key # key

\* What it hands over: a modifier it ceases to hold is to be cleared, and one it holds
\* newly is to be set.
Balanced(f, m) ==
  One(m \in set_mods') + One(m \in clear_mods) + One(Holds(This, m))
    = One(m \in set_mods) + One(m \in clear_mods') + One(Holds(f, m))

LEMMA BalancedCounts ==
  ASSUME TInv, Counts, NEW funcs, At(funcs), NEW f \in FilterType, Becomes(f),
         base_mods' = base_mods, mod_key_count' = mod_key_count,
         \A m \in Mods : Balanced(f, m)
  PROVE  Counts'
<1>1. /\ filters \in Seq(FilterType) /\ filters' \in Seq(FilterType)
      /\ at \in DOMAIN filters /\ DOMAIN filters' = DOMAIN filters \cup {at}
      /\ filters[at] = This /\ filters'[at] = f
      /\ \A i \in DOMAIN filters \ {at} : filters'[i] = filters[i]
  BY ThisType, BecomesFacts DEF TInv, StateTypeOK, This
<1> SUFFICES ASSUME NEW m \in Mods
             PROVE  mod_key_count[m] + One(m \in set_mods')
                      = Holders(filters', m) + One(m \in clear_mods')
  BY DEF Counts
<1>2. /\ Holders(filters, m) \in Nat /\ Holders(filters', m) \in Nat
      /\ Holders(filters', m) + One(at \in HoldersOf(filters, m))
           = Holders(filters, m) + One(at \in HoldersOf(filters', m))
  BY <1>1, HoldersStep
<1>3. /\ (at \in HoldersOf(filters, m)) = Holds(This, m)
      /\ (at \in HoldersOf(filters', m)) = Holds(f, m)
  BY <1>1 DEF HoldersOf, Holds
<1>4. mod_key_count[m] + One(m \in set_mods) = Holders(filters, m) + One(m \in clear_mods)
  BY DEF Counts
<1>5. Balanced(f, m)
  OBVIOUS
<1>6. mod_key_count[m] \in Nat
  BY DEF TInv, StateTypeOK
<1>7. /\ One(m \in set_mods') \in Nat /\ One(m \in clear_mods) \in Nat /\ One(Holds(This, m)) \in Nat
      /\ One(m \in set_mods) \in Nat /\ One(m \in clear_mods') \in Nat /\ One(Holds(f, m)) \in Nat
  BY DEF One
<1> QED
  BY <1>2, <1>3, <1>4, <1>5, <1>6, <1>7 DEF Balanced

LEMMA FilterStepKeeps ==
  ASSUME CInv, TInv', Shapes', NEW funcs, At(funcs), NEW f \in FilterType, Becomes(f), Continue,
         base_mods' = base_mods, Fits(f), Collects, \A m \in Mods : Balanced(f, m)
  PROVE  CInv'
<1>1. /\ TInv /\ StateTypeOK /\ Shapes /\ Event /\ OneActivePerKey /\ ActiveKnown /\ ActiveFirst
      /\ PendingDiffer /\ PendingUp /\ PendingPassed /\ OneKeyDown /\ Counts
  BY DEF CInv, TInv
<1>2. /\ at \in DOMAIN filters /\ DOMAIN filters' = DOMAIN filters /\ at' = at + 1
      /\ filters[at] = This /\ filters'[at] = f /\ key \in Keys /\ at \in Nat
      /\ \A i \in DOMAIN filters \ {at} : filters'[i] = filters[i]
      /\ DOMAIN filters \subseteq Nat
  BY <1>1, ThisType, BecomesFacts DEF This, StateTypeOK
<1>3. /\ key' = key /\ down' = down /\ held' = held /\ mod_key_count' = mod_key_count
      /\ ActionOf(key)' = ActionOf(key) /\ key # NoKey
  BY <1>2, StateAssumption DEF Continue, derived, ActionOf, KeyGroup
<1>4. Event' /\ Counts'
  BY <1>1, <1>3, BalancedCounts DEF Collects
<1>5. \A i \in DOMAIN filters \ {at} : i < at' <=> i < at
  BY <1>2
<1>6. OneActivePerKey'
  BY <1>1, <1>2 DEF OneActivePerKey, Fits
<1>7. ActiveKnown'
  <2> SUFFICES ASSUME NEW i \in DOMAIN filters', Active(filters'[i])
               PROVE  (/\ filters[i].key \in Keys /\ 1 <= filters[i].refcnt
                       /\ filters[i].refcnt <= Known(filters[i].key, i))'
    BY DEF ActiveKnown
  <2>1. CASE i = at
    <3>1. Known(filters[i].key, i)' = held[f.key]
      BY <1>2, <1>3, <2>1 DEF Known
    <3> QED
      BY <1>2, <2>1, <3>1 DEF Fits
  <2>2. CASE i # at
    <3>1. Known(filters[i].key, i)' = Known(filters[i].key, i)
      BY <1>2, <1>3, <1>5, <2>2 DEF Known
    <3> QED
      BY <1>1, <1>2, <2>2, <3>1 DEF ActiveKnown
  <2> QED
    BY <2>1, <2>2
<1>8. ActiveFirst'
  BY <1>1, <1>2, <1>3, <1>5 DEF ActiveFirst, Fits, Collects
<1>9. PendingDiffer'
  <2> SUFFICES ASSUME NEW i \in DOMAIN filters', NEW j \in DOMAIN filters', Pending(filters'[i])
               PROVE  /\ Pending(filters'[j]) /\ Alike(filters'[i], filters'[j]) => i = j
                      /\ ~(KeyDown(filters'[j]) /\ Alike(filters'[i], filters'[j]))
    BY DEF PendingDiffer
  <2>1. CASE i # at /\ j # at
    BY <1>1, <1>2, <2>1 DEF PendingDiffer
  <2>2. CASE i = at /\ j # at
    BY <1>2, <2>2 DEF Fits
  <2>3. CASE i = at /\ j = at
    BY <1>2, <2>3 DEF Pending, KeyDown
  <2>4. CASE i # at /\ j = at
    BY <1>1, <1>2, <2>4 DEF Fits, Alike, PendingDiffer
  <2> QED
    BY <2>1, <2>2, <2>3, <2>4
<1>10. PendingUp'
  <2> SUFFICES ASSUME NEW i \in DOMAIN filters', Pending(filters'[i])
               PROVE  IF key # filters'[i].key THEN held[filters'[i].key] = 0
                      ELSE IF down THEN i >= at' ELSE i < at' /\ held[key] = 0
    BY <1>3 DEF PendingUp
  <2>1. CASE i = at
    BY <1>2, <2>1 DEF Fits
  <2>2. CASE i # at
    BY <1>1, <1>2, <1>5, <2>2 DEF PendingUp
  <2> QED
    BY <2>1, <2>2
<1>11. PendingPassed'
  <2> SUFFICES ASSUME NEW i \in DOMAIN filters', Pending(filters'[i]), down, i < at' \/ consumed'
               PROVE  ~Renews(filters'[i], ActionOf(key))
    BY <1>3 DEF PendingPassed
  <2>1. CASE i = at
    BY <1>2, <2>1 DEF Fits
  <2>2. CASE i # at
    BY <1>1, <1>2, <1>3, <1>5, <2>2 DEF PendingPassed, Collects
  <2> QED
    BY <2>1, <2>2
<1>12. OneKeyDown'
  BY <1>1, <1>2, <1>3, <1>5 DEF OneKeyDown, Fits
<1> QED
  BY <1>4, <1>6, <1>7, <1>8, <1>9, <1>10, <1>11, <1>12 DEF CInv

\* What the invariant says of the filter at work.
LEMMA ThisFacts ==
  ASSUME CInv, NEW funcs, At(funcs)
  PROVE  /\ StateTypeOK /\ at \in DOMAIN filters /\ filters[at] = This /\ at \in Nat
         /\ This \in FilterType /\ This.func \in funcs /\ OneShape(This)
         /\ key \in Keys /\ key # NoKey /\ held[key] \in Nat /\ MaxHeld[key] \in Nat
         /\ Active(This) =>
              /\ This.key \in Keys /\ 1 <= This.refcnt /\ This.refcnt <= Known(This.key, at)
              /\ \A i \in DOMAIN filters \ {at} : Active(filters[i]) => filters[i].key # This.key
              /\ This.key = key /\ ~down => clear_mods = {}
         /\ Pending(This) =>
              /\ IF key # This.key THEN held[This.key] = 0 ELSE down
              /\ \A i \in DOMAIN filters \ {at} :
                   Pending(filters[i]) \/ KeyDown(filters[i]) => ~Alike(This, filters[i])
         /\ KeyDown(This) =>
              \A i \in DOMAIN filters \ {at} :
                ~KeyDown(filters[i]) /\ (Pending(filters[i]) => ~Alike(filters[i], This))
         /\ down => clear_mods = {} /\ held[key] >= 1
         /\ ~down => set_mods = {} /\ held[key] + 1 <= MaxHeld[key]
         /\ held[key] <= MaxHeld[key] /\ (set_mods # {} => consumed)
         /\ Known(key, at) = IF down THEN held[key] - 1 ELSE held[key] + 1
         /\ This.key # key => Known(This.key, at) = held[This.key]
<1>1. TInv /\ StateTypeOK /\ Shapes
  BY DEF CInv, TInv
<1>2. /\ at \in DOMAIN filters /\ filters[at] = This /\ This \in FilterType /\ This.func \in funcs
      /\ key \in Keys /\ OneShape(This)
  BY <1>1, ThisType, ThisShape DEF This
<1>3. at \in Nat /\ held[key] \in Nat /\ key # NoKey /\ MaxHeld[key] \in Nat
  BY <1>1, <1>2, StateAssumption DEF StateTypeOK
<1>4. /\ Known(key, at) = IF down THEN held[key] - 1 ELSE held[key] + 1
      /\ This.key # key => Known(This.key, at) = held[This.key]
  BY <1>3 DEF Known
<1>5. Active(This) =>
        /\ This.key \in Keys /\ 1 <= This.refcnt /\ This.refcnt <= Known(This.key, at)
        /\ \A i \in DOMAIN filters \ {at} : Active(filters[i]) => filters[i].key # This.key
        /\ This.key = key /\ ~down => clear_mods = {}
  BY <1>2 DEF CInv, ActiveKnown, OneActivePerKey, ActiveFirst
<1>6. Pending(This) => IF key # This.key THEN held[This.key] = 0 ELSE down
  BY <1>2, <1>3 DEF CInv, PendingUp
<1>7. Pending(This) => \A i \in DOMAIN filters \ {at} :
                         Pending(filters[i]) \/ KeyDown(filters[i]) => ~Alike(This, filters[i])
  BY <1>2 DEF CInv, PendingDiffer
<1>8. KeyDown(This) =>
        \A i \in DOMAIN filters \ {at} :
          ~KeyDown(filters[i]) /\ (Pending(filters[i]) => ~Alike(filters[i], This))
  BY <1>2 DEF CInv, PendingDiffer, OneKeyDown
<1>9. /\ down => clear_mods = {} /\ held[key] >= 1
      /\ ~down => set_mods = {} /\ held[key] + 1 <= MaxHeld[key]
      /\ held[key] <= MaxHeld[key] /\ (set_mods # {} => consumed)
  BY <1>2, <1>3 DEF CInv, Event
<1> QED
  BY <1>1, <1>2, <1>3, <1>4, <1>5, <1>6, <1>7, <1>8, <1>9

\* What an event has collected stays in order.
LEMMA EventKept ==
  ASSUME CInv, NEW funcs, At(funcs), Continue,
         down => clear_mods' = {}, ~down => set_mods' = {}, set_mods' # {} => consumed'
  PROVE  Event'
<1>1. Event /\ key # NoKey
  BY ThisFacts DEF CInv
<1>2. key' = key /\ down' = down /\ held' = held
  BY DEF Continue
<1> QED
  BY <1>1, <1>2 DEF Event

LEMMA SameBalanced ==
  ASSUME NEW f, NEW m, UNCHANGED <<set_mods, clear_mods>>, Holds(f, m) = Holds(This, m)
  PROVE  Balanced(f, m)
<1>1. set_mods' = set_mods /\ clear_mods' = clear_mods
  OBVIOUS
<1>2. /\ One(m \in set_mods) \in Nat /\ One(m \in clear_mods) \in Nat /\ One(Holds(This, m)) \in Nat
  BY DEF One
<1> QED
  BY <1>1, <1>2 DEF Balanced

\* The modifiers of the filter that goes are to be cleared, and no other's yet are.
LEMMA ReleaseBalanced ==
  ASSUME NEW f, NEW m, set_mods' = set_mods, clear_mods = {}, clear_mods' = This.action.mods,
         Holding(This), ~Holding(f)
  PROVE  Balanced(f, m)
<1>1. One(m \in clear_mods) = 0 /\ One(Holds(f, m)) = 0 /\ One(m \in clear_mods') = One(Holds(This, m))
  BY DEF One, Holds
<1>2. /\ One(m \in set_mods) \in Nat /\ One(Holds(This, m)) \in Nat /\ One(m \in set_mods') = One(m \in set_mods)
  BY DEF One
<1> QED
  BY <1>1, <1>2 DEF Balanced

LEMMA NoFilterFits == Fits(NoFilter) /\ ~Holding(NoFilter)
BY DEF Fits, Active, Pending, KeyDown, Holding, NoFilter, Counted, FilterTypes

LEMMA CFilterStep ==
  ASSUME PlainLatches, CInv, FilterStep
  PROVE  CInv'
<1>1. TInv /\ Shapes /\ StateTypeOK /\ TInv' /\ Shapes' /\ NoFilter \in FilterType
  BY TNext, ShapesNext, NoFilterType DEF CInv, TInv, StateNext
<1> USE DEF modVars, groupVars
<1>2. ASSUME NEW funcs, At(funcs), NEW f \in FilterType, Becomes(f), Continue,
             base_mods' = base_mods, Fits(f), Collects, \A m \in Mods : Balanced(f, m)
      PROVE  CInv'
  BY <1>1, <1>2, FilterStepKeeps
<1>3. ASSUME NEW funcs, At(funcs), NEW f \in FilterType, Becomes(f), Continue,
             UNCHANGED <<base_mods, consumed, set_mods, clear_mods>>, Fits(f),
             \A m \in Mods : Holds(f, m) = Holds(This, m)
      PROVE  CInv'
  <2>1. Event'
    BY <1>3, ThisFacts, EventKept
  <2>2. Collects
    BY <1>3, <2>1 DEF Collects
  <2>3. \A m \in Mods : Balanced(f, m)
    BY <1>3, SameBalanced
  <2> QED
    BY <1>2, <1>3, <2>2, <2>3
<1>4. ASSUME NEW funcs, At(funcs), filters' = filters, at' = at + 1 PROVE Becomes(This)
  BY <1>1, <1>4, ThisFacts DEF Becomes, This, StateTypeOK
<1>5. CASE SkipFree
  <2>1. At({"none"}) /\ Becomes(This) /\ Continue
    BY <1>4, <1>5 DEF SkipFree
  <2>2. This \in FilterType /\ This.func = "none"
    BY <2>1, ThisFacts
  <2>3. Fits(This)
    BY <2>2 DEF Fits, Active, Pending, KeyDown, Counted, FilterTypes
  <2> QED
    BY <1>3, <1>5, <2>1, <2>2, <2>3 DEF SkipFree
<1>6. CASE AnotherKey
  <2>1. At(Counted) /\ Continue /\ This.key # key
    BY <1>6 DEF AnotherKey
  <2>2. /\ This \in FilterType /\ This.func \in Counted /\ Active(This)
        /\ [This EXCEPT !.action.flags = @ \ {"clearLocks"}] \in FilterType
    BY <1>1, <2>1, ThisFacts, ChangedType DEF Active
  <2>3. PICK f \in FilterType :
          /\ Becomes(f) /\ f.func = This.func /\ f.key = This.key /\ f.refcnt = This.refcnt
          /\ f.action.mods = This.action.mods
    <3>1. CASE Becomes(This)
      BY <2>2, <3>1
    <3>2. CASE ~Becomes(This)
      <4> DEFINE f == [This EXCEPT !.action.flags = @ \ {"clearLocks"}]
      <4>1. f.func = This.func /\ f.key = This.key /\ f.refcnt = This.refcnt
            /\ f.action.mods = This.action.mods
        BY <2>2 DEF FilterType, Actions
      <4>2. Becomes(f)
        BY <1>6, <3>2 DEF AnotherKey
      <4> HIDE DEF f
      <4> QED
        BY <2>2, <4>1, <4>2 DEF f
    <3> QED  BY <3>1, <3>2
  <2>4. /\ \A m \in Mods : Holds(f, m) = Holds(This, m)
        /\ ~Pending(f) /\ ~KeyDown(f)
    BY <2>2, <2>3 DEF Holds, Holding, Pending, KeyDown, Counted
  <2>5. Fits(f)
    BY <2>1, <2>2, <2>3, <2>4, ThisFacts DEF Fits
  <2> QED
    BY <1>3, <1>6, <2>1, <2>3, <2>4, <2>5 DEF AnotherKey
<1>7. CASE StillHeld
  <2>1. At(Counted) /\ Continue /\ This.key = key /\ (down \/ This.refcnt > 1) /\ consumed' = TRUE
    BY <1>7 DEF StillHeld
  <2>2. /\ This \in FilterType /\ This.func \in Counted /\ Active(This)
        /\ 1 <= This.refcnt /\ This.refcnt <= Known(key, at) /\ This.refcnt \in Nat
        /\ Known(key, at) = IF down THEN held[key] - 1 ELSE held[key] + 1
    BY <1>1, <2>1, ThisFacts DEF Active, FilterType
  <2> DEFINE f == [This EXCEPT !.refcnt = IF down THEN @ + 1 ELSE @ - 1]
  <2>3. f.func = This.func /\ f.key = This.key /\ f.action = This.action
        /\ f.refcnt = IF down THEN This.refcnt + 1 ELSE This.refcnt - 1
    BY <2>2 DEF FilterType
  <2>4. f \in FilterType /\ Becomes(f)
    <3>1. CASE down
      BY <1>1, <1>7, <2>1, <3>1, ChangedType, Zenon DEF StillHeld
    <3>2. CASE ~down
      BY <1>1, <1>7, <2>1, <3>2, ChangedType, Zenon DEF StillHeld
    <3> QED  BY <3>1, <3>2
  <2> HIDE DEF f
  <2>5. /\ \A m \in Mods : Holds(f, m) = Holds(This, m)
        /\ ~Pending(f) /\ ~KeyDown(f)
    BY <2>2, <2>3 DEF Holds, Holding, Pending, KeyDown, Counted
  <2>6. held[key] \in Nat /\ 1 <= f.refcnt /\ f.refcnt <= held[key]
    <3>1. held[key] \in Nat
      BY <2>1, ThisFacts
    <3> QED
      BY <2>1, <2>2, <2>3, <3>1
  <2>7. UNCHANGED <<set_mods, clear_mods, base_mods>>
    BY <1>7 DEF StillHeld
  <2>8. /\ \A i \in DOMAIN filters \ {at} : Active(filters[i]) => filters[i].key # key
        /\ ~down => clear_mods' = {}
        /\ key \in Keys
    BY <2>1, <2>2, <2>7, ThisFacts
  <2>9. Fits(f)
    BY <2>1, <2>3, <2>5, <2>6, <2>8 DEF Fits
  <2>10. Event'
    <3>1. (down => clear_mods = {}) /\ (~down => set_mods = {})
      BY <2>1, ThisFacts
    <3> QED
      BY <2>1, <2>7, <3>1, EventKept
  <2>11. down => \A i \in DOMAIN filters : ~Renews(filters[i], ActionOf(key))
    <3> SUFFICES ASSUME down, ActionOf(key).type = "modLatch" PROVE FALSE
      BY DEF Renews
    <3>1. ActionOf(key) \in ActionsOf(key)
      BY <1>1, <2>8, ActionOfKey DEF TInv, NoAction
    <3>2. MaxHeld[key] <= 1
      BY <2>8, <3>1, LatchKey
    <3>3. held[key] <= MaxHeld[key] /\ MaxHeld[key] \in Nat
      BY <2>1, ThisFacts
    <3> QED
      BY <2>2, <2>6, <3>2, <3>3
  <2>12. Collects
    BY <2>1, <2>7, <2>10, <2>11 DEF Collects
  <2>13. \A m \in Mods : Balanced(f, m)
    BY <2>5, <2>7, SameBalanced
  <2> QED
    BY <1>2, <2>1, <2>4, <2>7, <2>9, <2>12, <2>13
<1>8. ASSUME NEW funcs, At(funcs), Becomes(NoFilter), Continue, ~down, This.key = key, Active(This),
             UNCHANGED <<base_mods, consumed, set_mods>>,
             \/ ~Holding(This) /\ clear_mods' = clear_mods
             \/ Holding(This) /\ clear_mods' = clear_mods \cup This.action.mods
             \/ Holding(This) /\ clear_mods' = This.action.mods
      PROVE  CInv'
  <2>1. /\ clear_mods = {} /\ set_mods = {}
        /\ \A i \in DOMAIN filters \ {at} : Active(filters[i]) => filters[i].key # key
    BY <1>8, ThisFacts
  <2>2. Event'
    BY <1>8, <2>1, EventKept
  <2>3. Collects
    BY <1>8, <2>1, <2>2 DEF Collects
  <2>4. \A m \in Mods : Balanced(NoFilter, m)
    <3>1. CASE ~Holding(This)
      <4>1. clear_mods' = clear_mods /\ set_mods' = set_mods
        BY <1>8, <3>1
      <4>2. \A m \in Mods : Holds(NoFilter, m) = Holds(This, m)
        BY <3>1, NoFilterFits DEF Holds
      <4> QED  BY <4>1, <4>2, SameBalanced
    <3>2. CASE Holding(This)
      <4>1. clear_mods' = This.action.mods /\ set_mods' = set_mods
        BY <1>8, <2>1, <3>2
      <4> QED  BY <2>1, <3>2, <4>1, NoFilterFits, ReleaseBalanced
    <3> QED  BY <3>1, <3>2
  <2> QED
    BY <1>1, <1>2, <1>8, <2>3, <2>4, NoFilterFits
<1>9. CASE ReleaseModSet \/ ReleaseModLock \/ ReleaseGroupSet \/ ReleaseGroupLock
  <2>1. PICK func \in Counted : LastUp(func)
    BY <1>9 DEF ReleaseModSet, ReleaseModLock, ReleaseGroupSet, ReleaseGroupLock, Counted, FilterTypes
  <2>2. /\ At({func}) /\ Becomes(NoFilter) /\ Continue /\ ~down /\ This.key = key
        /\ UNCHANGED <<consumed, set_mods>>
    BY <2>1 DEF LastUp
  <2>3. This.func = func /\ Active(This)
    BY <2>1, <2>2, ThisFacts DEF Active
  <2>4. CASE ReleaseModSet \/ ReleaseModLock
    <3>1. Holding(This)
      BY <2>4, <2>2, <2>3, ThisFacts DEF ReleaseModSet, ReleaseModLock, LastUp, At, Holding
    <3> QED
      BY <1>8, <2>2, <2>3, <2>4, <3>1 DEF ReleaseModSet, ReleaseModLock
  <2>5. CASE ReleaseGroupSet \/ ReleaseGroupLock
    <3>1. ~Holding(This)
      BY <2>5, <2>2, <2>3, ThisFacts DEF ReleaseGroupSet, ReleaseGroupLock, LastUp, At, Holding
    <3> QED
      BY <1>8, <2>2, <2>3, <2>5, <3>1 DEF ReleaseGroupSet, ReleaseGroupLock
  <2> QED
    BY <1>9, <2>4, <2>5
<1>10. ASSUME At({"modLatch"})
       PROVE  /\ This \in FilterType /\ This.func = "modLatch" /\ This.refcnt = 1
              /\ This.key \in Keys /\ This.action \in ActionsOf(This.key)
              /\ This.action.type = "modLatch" /\ MaxHeld[This.key] <= 1
              /\ "latchToLock" \notin This.action.flags
              /\ This.latch \in {"noLatch", "keyDown", "pending"}
  <2>1. This \in FilterType /\ This.func = "modLatch" /\ OneShape(This)
    BY <1>10, ThisFacts
  <2> QED
    BY <2>1, LatchKey DEF OneShape, FilterType
<1>11. CASE LatchAgain
  <2>1. /\ At({"modLatch"}) /\ down /\ This.latch = "pending" /\ SameLatch(ActionOf(key))
        /\ consumed' = TRUE /\ Continue /\ base_mods' = base_mods /\ clear_mods' = clear_mods
    BY <1>11 DEF LatchAgain
  <2> DEFINE f == [This EXCEPT !.key = key, !.func = "modSet", !.action.type = "modSet"]
  <2>2. Becomes(f) /\ set_mods' = This.action.mods
    BY <1>10, <1>11, <2>1 DEF LatchAgain
  <2>3. f \in FilterType
    BY <1>1, <2>1, ChangedType
  <2>4. f.func = "modSet" /\ f.key = key /\ f.refcnt = 1 /\ f.action.mods = This.action.mods
    BY <1>10, <2>1 DEF FilterType, Actions
  <2> HIDE DEF f
  <2>5. Renews(This, ActionOf(key)) /\ Pending(This) /\ ~Holding(This) /\ Holding(f) /\ Active(f)
        /\ ~Pending(f) /\ ~KeyDown(f)
    BY <1>10, <2>1, <2>4 DEF Renews, SameLatch, Pending, KeyDown, Holding, Active, Counted, FilterTypes
  <2>6. /\ at \in DOMAIN filters /\ filters[at] = This /\ key \in Keys /\ key # NoKey
        /\ clear_mods = {} /\ held[key] \in Nat /\ 1 <= held[key] /\ (set_mods # {} => consumed)
        /\ held[key] <= MaxHeld[key] /\ MaxHeld[key] \in Nat
    BY <2>1, ThisFacts
  <2>7. ~consumed /\ set_mods = {}
    BY <2>1, <2>5, <2>6 DEF CInv, PendingPassed
  <2>8. held[key] <= 1
    <3>1. ActionOf(key) \in ActionsOf(key) /\ ActionOf(key).type = "modLatch"
      BY <1>1, <2>5, <2>6, ActionOfKey DEF Renews, TInv, NoAction
    <3>2. MaxHeld[key] <= 1
      BY <2>6, <3>1, LatchKey
    <3> QED
      BY <2>6, <3>2
  <2>9. ASSUME NEW i \in DOMAIN filters, Active(filters[i]), filters[i].key = key PROVE FALSE
    <3>1. ~(i < at)
      BY <2>1, <2>7, <2>9 DEF CInv, ActiveFirst
    <3>2. 1 <= filters[i].refcnt /\ filters[i].refcnt <= Known(key, i)
      BY <2>9 DEF CInv, ActiveKnown
    <3>3. Known(key, i) = held[key] - 1
      BY <2>1, <3>1 DEF Known
    <3>4. filters[i].refcnt \in Nat
      <4>1. filters[i] \in FilterType
        BY <1>1, <2>9 DEF StateTypeOK
      <4> QED
        BY <4>1 DEF FilterType
    <3> QED
      BY <2>6, <2>8, <3>2, <3>3, <3>4
  <2>10. Fits(f)
    BY <2>1, <2>4, <2>5, <2>6, <2>9 DEF Fits
  <2>11. \A i \in DOMAIN filters \ {at} : Pending(filters[i]) => ~Renews(filters[i], ActionOf(key))
    <3> SUFFICES ASSUME NEW i \in DOMAIN filters \ {at}, Pending(filters[i]),
                        Renews(filters[i], ActionOf(key))
                 PROVE  FALSE
      OBVIOUS
    <3>1. Alike(This, filters[i])
      BY <2>5 DEF Renews, Alike
    <3> QED
      BY <2>1, <2>5, <3>1, ThisFacts
  <2>12. Collects
    <3>1. Event'
      BY <2>1, <2>6, EventKept
    <3> QED
      BY <2>1, <2>11, <3>1 DEF Collects
  <2>13. \A m \in Mods : Balanced(f, m)
    <3> TAKE m \in Mods
    <3>1. /\ One(m \in set_mods) = 0 /\ One(m \in clear_mods) = 0 /\ One(m \in clear_mods') = 0
          /\ One(Holds(This, m)) = 0 /\ One(Holds(f, m)) = One(m \in set_mods')
          /\ One(m \in set_mods') \in Nat
      BY <2>1, <2>2, <2>4, <2>5, <2>6, <2>7 DEF One, Holds
    <3> QED
      BY <3>1 DEF Balanced
  <2> QED
    BY <1>2, <2>1, <2>2, <2>3, <2>10, <2>12, <2>13
<1>12. CASE LatchBroken
  <2>1. /\ At({"modLatch"}) /\ Continue /\ Becomes(NoFilter) /\ This.latch = "pending"
        /\ UNCHANGED <<base_mods, consumed, set_mods, clear_mods>>
    BY <1>12 DEF LatchBroken
  <2>2. \A m \in Mods : Holds(NoFilter, m) = Holds(This, m)
    BY <1>10, <2>1, NoFilterFits DEF Holds, Holding
  <2> QED
    BY <1>1, <1>3, <2>1, <2>2, NoFilterFits
<1>13. CASE LatchCancelled
  <2>1. /\ At({"modLatch"}) /\ Continue /\ Becomes(NoFilter) /\ ~down /\ This.key = key
        /\ UNCHANGED <<base_mods, consumed, set_mods>>
    BY <1>13 DEF LatchCancelled
  <2>2. CASE This.latch = "pending"
    <3>1. \A m \in Mods : Holds(NoFilter, m) = Holds(This, m)
      BY <1>10, <2>1, <2>2, NoFilterFits DEF Holds, Holding
    <3> QED
      BY <1>1, <1>3, <1>13, <2>1, <2>2, <3>1, NoFilterFits DEF LatchCancelled
  <2>3. CASE This.latch # "pending"
    <3>1. Active(This) /\ Holding(This) /\ clear_mods' = This.action.mods
      BY <1>10, <1>13, <2>1, <2>3 DEF Active, Holding, LatchCancelled
    <3> QED
      BY <1>8, <2>1, <3>1
  <2> QED
    BY <2>2, <2>3
<1>14. ASSUME At({"modLatch"}), NEW l \in {"noLatch", "pending"}, Becomes([This EXCEPT !.latch = l])
       PROVE  \E f \in FilterType :
                /\ Becomes(f) /\ f.func = "modLatch" /\ f.key = This.key /\ f.action = This.action
                /\ f.refcnt = 1 /\ f.latch = l
  <2> DEFINE f == [This EXCEPT !.latch = l]
  <2>1. f \in FilterType
    BY <1>1, <1>14, ChangedType
  <2>2. /\ f.func = "modLatch" /\ f.key = This.key /\ f.action = This.action
        /\ f.refcnt = 1 /\ f.latch = l
    BY <1>10, <1>14 DEF FilterType
  <2> QED
    BY <1>14, <2>1, <2>2
<1>15. CASE LatchReleased
  <2>1. /\ At({"modLatch"}) /\ Continue /\ ~down /\ This.key = key /\ This.latch # "noLatch"
        /\ clear_mods' = This.action.mods /\ UNCHANGED <<base_mods, consumed, set_mods>>
    BY <1>15 DEF LatchReleased
  <2>2. KeyDown(This) /\ Holding(This) /\ Active(This)
    <3>1. ~Pending(This)
      BY <2>1, ThisFacts
    <3> QED
      BY <1>10, <2>1, <3>1 DEF Pending, KeyDown, Holding, Active
  <2>3. PICK f \in FilterType :
          /\ Becomes(f) /\ f.func = "modLatch" /\ f.key = This.key /\ f.action = This.action
          /\ f.refcnt = 1 /\ f.latch = "pending"
    BY <1>14, <1>15, <2>1 DEF LatchReleased
  <2>4. Pending(f) /\ ~Holding(f) /\ ~Active(f) /\ ~KeyDown(f)
    BY <2>3 DEF Pending, KeyDown, Holding, Active, Counted
  <2>5. /\ clear_mods = {} /\ set_mods = {} /\ held[key] = 0
        /\ \A i \in DOMAIN filters \ {at} : Active(filters[i]) => filters[i].key # key
    <3>1. held[key] + 1 <= MaxHeld[key] /\ held[key] \in Nat /\ MaxHeld[key] \in Nat
      BY <2>1, ThisFacts
    <3>2. MaxHeld[key] <= 1
      BY <1>10, <2>1
    <3>3. held[key] = 0
      BY <3>1, <3>2
    <3> QED
      BY <2>1, <2>2, <3>3, ThisFacts
  <2>6. \A i \in DOMAIN filters \ {at} : Pending(filters[i]) \/ KeyDown(filters[i]) => ~Alike(f, filters[i])
    <3>1. \A i \in DOMAIN filters \ {at} :
            ~KeyDown(filters[i]) /\ (Pending(filters[i]) => ~Alike(filters[i], This))
      BY <2>1, <2>2, ThisFacts
    <3> QED
      BY <2>3, <3>1 DEF Alike
  <2>7. Fits(f)
    BY <2>1, <2>3, <2>4, <2>5, <2>6 DEF Fits
  <2>8. Event'
    BY <2>1, <2>5, EventKept
  <2>9. Collects
    BY <2>1, <2>5, <2>8 DEF Collects
  <2>10. \A m \in Mods : Balanced(f, m)
    BY <2>1, <2>2, <2>4, <2>5, ReleaseBalanced
  <2> QED
    BY <1>2, <2>1, <2>3, <2>7, <2>9, <2>10
<1>16. CASE LatchSpoilt
  <2>1. /\ At({"modLatch"}) /\ Continue /\ down /\ This.latch = "keyDown"
        /\ UNCHANGED <<base_mods, consumed, set_mods, clear_mods>>
    BY <1>16 DEF LatchSpoilt
  <2>2. This.key # key
    BY <2>1, HeldLatchUp
  <2>3. PICK f \in FilterType :
          /\ Becomes(f) /\ f.func = "modLatch" /\ f.key = This.key /\ f.action = This.action
          /\ f.refcnt = 1 /\ f.latch = "noLatch"
    BY <1>14, <1>16, <2>1 DEF LatchSpoilt
  <2>4. /\ ~Pending(f) /\ Holding(f) /\ Active(f) /\ ~KeyDown(f) /\ Holding(This) /\ Active(This)
    BY <1>10, <2>1, <2>3 DEF Pending, KeyDown, Holding, Active
  <2>5. /\ This.refcnt <= held[This.key]
        /\ \A i \in DOMAIN filters \ {at} : Active(filters[i]) => filters[i].key # This.key
    BY <2>1, <2>2, <2>4, ThisFacts
  <2>6. Fits(f)
    BY <1>10, <2>1, <2>2, <2>3, <2>4, <2>5 DEF Fits
  <2>7. \A m \in Mods : Holds(f, m) = Holds(This, m)
    BY <2>3, <2>4 DEF Holds
  <2> QED
    BY <1>3, <2>1, <2>3, <2>6, <2>7
<1>17. CASE LatchIdle
  <2>1. /\ At({"modLatch"}) /\ Continue /\ Becomes(This)
        /\ UNCHANGED <<base_mods, consumed, set_mods, clear_mods>>
    BY <1>4, <1>17 DEF LatchIdle
  <2>2. Active(This) \/ Pending(This) => This.key # key
    <3>1. CASE ~down
      BY <1>17, <3>1 DEF LatchIdle
    <3>2. CASE down /\ This.latch = "noLatch"
      BY <2>1, <3>2, HeldLatchUp
    <3>3. CASE down /\ This.latch = "pending" /\ ~SameLatch(ActionOf(key))
      BY <2>1, <3>3, OwnRenews DEF Renews, SameLatch
    <3> QED
      BY <1>17, <3>1, <3>2, <3>3 DEF LatchIdle
  <2>3. /\ KeyDown(This) => ~down
        /\ Pending(This) /\ down => ~Renews(This, ActionOf(key))
    BY <1>10, <1>17, <2>1 DEF LatchIdle, KeyDown, Pending, Renews, SameLatch
  <2>4. /\ Active(This) => /\ This.key \in Keys /\ 1 <= This.refcnt /\ This.refcnt <= held[This.key]
                           /\ \A i \in DOMAIN filters \ {at} : Active(filters[i]) => filters[i].key # This.key
        /\ Pending(This) => /\ held[This.key] = 0
                            /\ \A i \in DOMAIN filters \ {at} :
                                 Pending(filters[i]) \/ KeyDown(filters[i]) => ~Alike(This, filters[i])
    BY <2>1, <2>2, ThisFacts
  <2>5. Fits(This)
    BY <2>2, <2>3, <2>4 DEF Fits
  <2> QED
    BY <1>3, <1>10, <2>1, <2>5
<1> QED
  BY <1>5, <1>6, <1>7, <1>9, <1>11, <1>12, <1>13, <1>15, <1>16, <1>17 DEF FilterStep

-----------------------------------------------------------------------------
(* The event begins and ends *)

LEMMA CUpdateKey ==
  ASSUME CInv, NEW k \in Keys, NEW d \in BOOLEAN, UpdateKey(k, d), TInv', Shapes'
  PROVE  CInv'
<1>1. /\ TInv /\ StateTypeOK /\ Shapes /\ Event /\ OneActivePerKey /\ ActiveKnown /\ ActiveFirst
      /\ PendingDiffer /\ PendingUp /\ PendingPassed /\ OneKeyDown /\ Counts
  BY DEF CInv, TInv
<1>2. /\ key = NoKey /\ key' = k /\ down' = d /\ at' = 1 /\ consumed' = FALSE
      /\ set_mods' = {} /\ clear_mods' = {} /\ set_mods = {} /\ clear_mods = {}
      /\ filters' = filters /\ mod_key_count' = mod_key_count /\ base_mods' = base_mods
      /\ NoKey \notin Keys /\ k # NoKey
  BY <1>1, StateAssumption DEF UpdateKey, Event, modVars
<1>3. /\ held' = [held EXCEPT ![k] = IF d THEN held[k] + 1 ELSE held[k] - 1]
      /\ IF d THEN held[k] < MaxHeld[k] ELSE held[k] > 0
      /\ held \in [Keys -> Nat] /\ \A h \in Keys : MaxHeld[h] \in Nat /\ held[h] <= MaxHeld[h]
  BY <1>1, StateAssumption DEF UpdateKey, StateTypeOK, Event
<1>4. /\ \A h \in Keys \ {k} : held'[h] = held[h]
      /\ held'[k] = IF d THEN held[k] + 1 ELSE held[k] - 1
  BY <1>3
<1>5. \A i \in DOMAIN filters : ~(i < at')
  BY <1>1, <1>2 DEF StateTypeOK
<1>6. Event'
  BY <1>2, <1>3, <1>4 DEF Event
<1>7. OneActivePerKey' /\ PendingDiffer'
  BY <1>1, <1>2 DEF OneActivePerKey, PendingDiffer
<1>8. ActiveKnown'
  <2> SUFFICES ASSUME NEW i \in DOMAIN filters, Active(filters[i])
               PROVE  (/\ filters[i].key \in Keys /\ 1 <= filters[i].refcnt
                       /\ filters[i].refcnt <= Known(filters[i].key, i))'
    BY <1>2 DEF ActiveKnown
  <2>1. /\ filters[i].key \in Keys /\ 1 <= filters[i].refcnt
        /\ filters[i].refcnt <= Known(filters[i].key, i)
    BY <1>1 DEF ActiveKnown
  <2>2. Known(filters[i].key, i) = held[filters[i].key]
    BY <1>2, <2>1 DEF Known
  <2>3. Known(filters[i].key, i)' = held[filters[i].key]
    <3>1. CASE filters[i].key = k
      BY <1>2, <1>3, <1>4, <1>5, <3>1 DEF Known
    <3>2. CASE filters[i].key # k
      BY <1>2, <1>4, <2>1, <3>2 DEF Known
    <3> QED  BY <3>1, <3>2
  <2> QED
    BY <1>2, <2>1, <2>2, <2>3
<1>9. ActiveFirst' /\ PendingPassed' /\ OneKeyDown'
  BY <1>1, <1>2, <1>5 DEF ActiveFirst, PendingPassed, OneKeyDown
<1>10. PendingUp'
  <2> SUFFICES ASSUME NEW i \in DOMAIN filters, Pending(filters[i])
               PROVE  (IF key # filters[i].key THEN held[filters[i].key] = 0
                       ELSE IF down THEN i >= at ELSE i < at /\ held[key] = 0)'
    BY <1>2 DEF PendingUp
  <2>1. filters[i].key \in Keys /\ held[filters[i].key] = 0 /\ i \in Nat /\ i >= 1
    BY <1>1, <1>2 DEF PendingUp, Shapes, OneShape, Pending, StateTypeOK
  <2>2. CASE filters[i].key = k
    BY <1>2, <1>3, <2>1, <2>2
  <2>3. CASE filters[i].key # k
    BY <1>2, <1>4, <2>1, <2>3
  <2> QED
    BY <2>2, <2>3
<1>11. Counts'
  BY <1>1, <1>2 DEF Counts
<1> QED
  BY <1>6, <1>7, <1>8, <1>9, <1>10, <1>11 DEF CInv

\* What has been collected is counted exactly.
LEMMA CountUpExact ==
  ASSUME TInv, Counts, NEW set \in SUBSET Mods, NEW clear, CountUp(set, clear),
         NEW m \in Mods, NEW h \in Nat,
         mod_key_count[m] + One(m \in set) = h + One(m \in clear)
  PROVE  mod_key_count'[m] = h /\ (m \in base_mods' <=> h >= 1)
<1> DEFINE pressed == [x \in Mods |-> mod_key_count[x] + (IF x \in set THEN 1 ELSE 0)]
<1>1. mod_key_count[m] \in Nat /\ (m \in base_mods <=> mod_key_count[m] >= 1)
  BY DEF TInv, StateTypeOK, Counts
<1>2. pressed[m] = mod_key_count[m] + One(m \in set)
  BY DEF One
<1>3. /\ mod_key_count' =
           [x \in Mods |-> IF x \notin clear THEN pressed[x]
                           ELSE IF pressed[x] <= 1 THEN 0 ELSE pressed[x] - 1]
      /\ base_mods' = (base_mods \cup set) \ {x \in clear : pressed[x] <= 1}
  BY DEF CountUp
<1> HIDE DEF pressed
<1>4. mod_key_count'[m] = IF m \notin clear THEN pressed[m]
                          ELSE IF pressed[m] <= 1 THEN 0 ELSE pressed[m] - 1
  BY <1>3
<1>5. m \in base_mods' <=> (m \in base_mods \/ m \in set) /\ ~(m \in clear /\ pressed[m] <= 1)
  BY <1>3
<1>6. /\ m \in set => One(m \in set) = 1
      /\ m \notin set => One(m \in set) = 0
      /\ m \in clear => One(m \in clear) = 1
      /\ m \notin clear => One(m \in clear) = 0
  BY DEF One
<1>7. CASE m \in clear
  <2>1. pressed[m] = h + 1
    BY <1>2, <1>6, <1>7
  <2> QED
    BY <1>1, <1>2, <1>4, <1>5, <1>6, <1>7, <2>1
<1>8. CASE m \notin clear
  <2>1. pressed[m] = h
    BY <1>2, <1>6, <1>8
  <2> QED
    BY <1>1, <1>2, <1>4, <1>5, <1>6, <1>8, <2>1
<1> QED
  BY <1>7, <1>8

\* Between events nothing is left to collect, and the filters know what is held.
LEMMA CFinished ==
  ASSUME CInv, AllSeen, TInv', Shapes',
         NEW set \in SUBSET Mods, NEW base, NEW locked, Finish(set, clear_mods, base, locked),
         \A m \in Mods :
           mod_key_count[m] + One(m \in set) = Holders(filters', m) + One(m \in clear_mods),
         \A i \in DOMAIN filters' :
           \/ i \in DOMAIN filters /\ filters'[i] = filters[i]
           \/ /\ filters'[i].key = key /\ filters'[i].refcnt = 1 /\ down /\ ~Pending(filters'[i])
              /\ \A j \in DOMAIN filters' \ {i} :
                   /\ j \in DOMAIN filters /\ filters'[j] = filters[j]
                   /\ Active(filters[j]) => filters[j].key # key
                   /\ KeyDown(filters'[i]) => ~KeyDown(filters[j])
                   /\ KeyDown(filters'[i]) /\ Pending(filters[j]) => ~Alike(filters[j], filters'[i])
  PROVE  CInv'
<1>1. /\ TInv /\ StateTypeOK /\ Shapes /\ Event /\ OneActivePerKey /\ ActiveKnown /\ ActiveFirst
      /\ PendingDiffer /\ PendingUp /\ PendingPassed /\ OneKeyDown /\ Counts
  BY DEF CInv, TInv
<1>2. /\ key' = NoKey /\ down' = FALSE /\ at' = 1 /\ consumed' = FALSE
      /\ set_mods' = {} /\ clear_mods' = {} /\ held' = held
      /\ key \in Keys /\ NoKey \notin Keys
  BY <1>1, StateAssumption DEF Finish, AllSeen, StateTypeOK
<1>3. \A i \in DOMAIN filters : i < at
  BY <1>1 DEF AllSeen, StateTypeOK
<1>4. held \in [Keys -> Nat] /\ down \in BOOLEAN
  BY <1>1 DEF StateTypeOK
<1>5. Event'
  BY <1>1, <1>2 DEF Event
<1>6. OneActivePerKey'
  BY <1>1 DEF OneActivePerKey
<1>7. \A i \in DOMAIN filters' : Active(filters'[i]) =>
        /\ filters'[i].key \in Keys
        /\ 1 <= filters'[i].refcnt /\ filters'[i].refcnt <= held[filters'[i].key]
  <2> SUFFICES ASSUME NEW i \in DOMAIN filters', Active(filters'[i])
               PROVE  /\ filters'[i].key \in Keys
                      /\ 1 <= filters'[i].refcnt /\ filters'[i].refcnt <= held[filters'[i].key]
    OBVIOUS
  <2>1. CASE i \in DOMAIN filters /\ filters'[i] = filters[i]
    BY <1>1, <1>3, <2>1 DEF ActiveKnown, Known
  <2>2. CASE filters'[i].key = key /\ filters'[i].refcnt = 1 /\ down
    BY <1>1, <1>2, <2>2 DEF Event
  <2> QED
    BY <2>1, <2>2
<1>8. ActiveKnown'
  <2> SUFFICES ASSUME NEW i \in DOMAIN filters', Active(filters'[i])
               PROVE  (/\ filters[i].key \in Keys /\ 1 <= filters[i].refcnt
                       /\ filters[i].refcnt <= Known(filters[i].key, i))'
    BY DEF ActiveKnown
  <2>1. Known(filters[i].key, i)' = held[filters'[i].key]
    BY <1>2, <1>7 DEF Known
  <2> QED
    BY <1>7, <2>1
<1>9. ActiveFirst'
  BY <1>2 DEF ActiveFirst
<1>10. PendingDiffer'
  <2> SUFFICES ASSUME NEW i \in DOMAIN filters', NEW j \in DOMAIN filters', Pending(filters'[i])
               PROVE  /\ Pending(filters'[j]) /\ Alike(filters'[i], filters'[j]) => i = j
                      /\ ~(KeyDown(filters'[j]) /\ Alike(filters'[i], filters'[j]))
    BY DEF PendingDiffer
  <2>1. i \in DOMAIN filters /\ filters'[i] = filters[i]
    OBVIOUS
  <2>2. CASE j \in DOMAIN filters /\ filters'[j] = filters[j]
    BY <1>1, <2>1, <2>2 DEF PendingDiffer
  <2>3. CASE i # j /\ ~Pending(filters'[j])
               /\ (KeyDown(filters'[j]) /\ Pending(filters[i]) => ~Alike(filters[i], filters'[j]))
    BY <2>1, <2>3
  <2> QED
    BY <2>1, <2>2, <2>3
<1>11. PendingUp'
  <2> SUFFICES ASSUME NEW i \in DOMAIN filters', Pending(filters'[i])
               PROVE  filters'[i].key \in Keys /\ held[filters'[i].key] = 0
    BY <1>2 DEF PendingUp
  <2>1. i \in DOMAIN filters /\ filters'[i] = filters[i] /\ i < at
    BY <1>3
  <2>2. i \in Nat /\ at \in Nat
    BY <1>1, <2>1 DEF StateTypeOK
  <2> QED
    BY <1>1, <2>1, <2>2 DEF PendingUp, Shapes, OneShape, Pending
<1>12. PendingPassed' /\ OneKeyDown'
  BY <1>1, <1>2 DEF PendingPassed, OneKeyDown
<1>13. Counts'
  <2>1. filters' \in Seq(FilterType)
    BY DEF TInv, StateTypeOK
  <2> SUFFICES ASSUME NEW m \in Mods
               PROVE  /\ mod_key_count'[m] = Holders(filters', m)
                      /\ m \in base_mods' <=> Holders(filters', m) >= 1
    <3>1. \A m \in Mods : Holders(filters', m) \in Nat
      BY <2>1, HoldersNat
    <3> QED
      BY <1>2, <3>1 DEF Counts, One
  <2>2. Holders(filters', m) \in Nat
    BY <2>1, HoldersNat
  <2> QED
    BY <1>1, <2>2, CountUpExact DEF Finish
<1> QED
  BY <1>5, <1>6, <1>8, <1>9, <1>10, <1>11, <1>12, <1>13 DEF CInv

LEMMA CFinishOld ==
  ASSUME CInv, FinishOld, TInv', Shapes'
  PROVE  CInv'
<1>1. /\ AllSeen /\ filters' = filters /\ Finish(set_mods, clear_mods, base_group, locked_group)
      /\ set_mods \in SUBSET Mods
  BY DEF FinishOld, CInv, TInv, StateTypeOK
<1>2. \A m \in Mods :
        mod_key_count[m] + One(m \in set_mods) = Holders(filters', m) + One(m \in clear_mods)
  BY <1>1 DEF CInv, Counts
<1> QED
  BY <1>1, <1>2, CFinished

LEMMA CFinishNew ==
  ASSUME CInv, FinishNew, TInv', Shapes'
  PROVE  CInv'
<1>1. /\ TInv /\ StateTypeOK /\ Shapes /\ Event /\ ActiveFirst /\ PendingPassed /\ OneKeyDown /\ Counts
  BY DEF CInv, TInv
<1>2. AllSeen /\ ~consumed /\ down /\ key \in Keys /\ key # NoKey /\ group \in Nat
  BY <1>1 DEF FinishNew, AllSeen, StateTypeOK, TInv
<1>3. \A i \in DOMAIN filters : i < at
  BY <1>1, <1>2 DEF AllSeen, StateTypeOK
<1>4. set_mods = {} /\ clear_mods = {}
  BY <1>1, <1>2 DEF Event
<1> DEFINE a == ActionOf(key)
           f == NewFilter(a)
           set == IF a.type \in {"modSet", "modLatch"} THEN a.mods
                  ELSE IF a.type = "modLock" THEN set_mods \cup a.mods ELSE set_mods
<1>5. a.type \in FilterTypes /\ Install(f)
  BY DEF FinishNew
<1>6. PICK base, locked : Finish(set, clear_mods, base, locked)
  BY DEF FinishNew
<1>7. a \in Actions
  BY <1>2, <1>5, ActionOfKey, StateAssumption DEF NoAction, FilterTypes
<1>8. a.mods \in SUBSET Mods /\ set \in SUBSET Mods
  BY <1>4, <1>7 DEF Actions
<1>9. /\ f.func = a.type /\ f.key = key /\ f.refcnt = 1 /\ f.action = a
      /\ f.latch = IF a.type = "modLatch" THEN "keyDown" ELSE "none"
  BY DEF NewFilter
<1>10. f \in FilterType
  BY <1>1, <1>2, <1>5, <1>7, NewFilterType
<1>11. \A m \in Mods : One(m \in set) = One(Holds(f, m))
  BY <1>4, <1>5, <1>9 DEF One, Holds, Holding, FilterTypes
<1>12. ~Pending(f) /\ (KeyDown(f) => a.type = "modLatch")
  BY <1>9 DEF Pending, KeyDown
<1>13. /\ \A j \in DOMAIN filters : Active(filters[j]) => filters[j].key # key
       /\ \A j \in DOMAIN filters : ~KeyDown(filters[j])
       /\ \A j \in DOMAIN filters : Pending(filters[j]) => ~Renews(filters[j], a)
  BY <1>1, <1>2, <1>3 DEF ActiveFirst, OneKeyDown, PendingPassed
<1>14. \A j \in DOMAIN filters :
         KeyDown(f) /\ Pending(filters[j]) => ~Alike(filters[j], f)
  BY <1>9, <1>12, <1>13 DEF Renews, Alike
<1> HIDE DEF a, f, set
<1>15. filters \in Seq(FilterType) /\ filters' \in Seq(FilterType)
  BY <1>1 DEF StateTypeOK, TInv
<1>16. PICK n \in DOMAIN filters' :
         /\ filters'[n] = f
         /\ n \in DOMAIN filters => filters[n].func = "none"
         /\ DOMAIN filters' = DOMAIN filters \cup {n}
         /\ \A i \in DOMAIN filters \ {n} : filters'[i] = filters[i]
  BY <1>5, <1>10, <1>15, InstallFacts
<1>17. ASSUME NEW m \in Mods
       PROVE  mod_key_count[m] + One(m \in set) = Holders(filters', m) + One(m \in clear_mods)
  <2>1. /\ Holders(filters, m) \in Nat /\ Holders(filters', m) \in Nat
        /\ Holders(filters', m) + One(n \in HoldersOf(filters, m))
             = Holders(filters, m) + One(n \in HoldersOf(filters', m))
    BY <1>15, <1>16, HoldersStep
  <2>2. One(n \in HoldersOf(filters, m)) = 0
    BY <1>16 DEF HoldersOf, Holding, One
  <2>3. (n \in HoldersOf(filters', m)) = Holds(f, m)
    BY <1>16 DEF HoldersOf, Holds
  <2>4. One(m \in clear_mods) = 0 /\ One(m \in set_mods) = 0
    BY <1>4 DEF One
  <2>5. mod_key_count[m] + One(m \in set_mods) = Holders(filters, m) + One(m \in clear_mods)
    BY <1>1 DEF Counts
  <2>6. mod_key_count[m] \in Nat /\ One(Holds(f, m)) \in Nat
    BY <1>1 DEF StateTypeOK, One
  <2> QED
    BY <1>11, <2>1, <2>2, <2>3, <2>4, <2>5, <2>6
<1>18. ASSUME NEW i \in DOMAIN filters'
       PROVE  \/ i \in DOMAIN filters /\ filters'[i] = filters[i]
              \/ /\ filters'[i].key = key /\ filters'[i].refcnt = 1 /\ down /\ ~Pending(filters'[i])
                 /\ \A j \in DOMAIN filters' \ {i} :
                      /\ j \in DOMAIN filters /\ filters'[j] = filters[j]
                      /\ Active(filters[j]) => filters[j].key # key
                      /\ KeyDown(filters'[i]) => ~KeyDown(filters[j])
                      /\ KeyDown(filters'[i]) /\ Pending(filters[j]) => ~Alike(filters[j], filters'[i])
  <2>1. CASE i = n
    BY <1>2, <1>9, <1>12, <1>13, <1>14, <1>16, <2>1
  <2>2. CASE i # n
    BY <1>16, <2>2
  <2> QED
    BY <2>1, <2>2
<1> QED
  BY <1>2, <1>6, <1>8, <1>17, <1>18, CFinished

LEMMA CNext ==
  ASSUME PlainLatches, CInv, [StateNext]_stateVars
  PROVE  CInv'
<1>1. TInv' /\ Shapes'
  BY TNext, ShapesNext DEF CInv
<1>2. ASSUME NEW k \in Keys, NEW d \in BOOLEAN, UpdateKey(k, d) PROVE CInv'
  BY <1>1, <1>2, CUpdateKey
<1>3. CASE FilterStep
  BY <1>3, CFilterStep
<1>4. CASE FinishOld
  BY <1>1, <1>4, CFinishOld
<1>5. CASE FinishNew
  BY <1>1, <1>5, CFinishNew
<1>6. CASE UNCHANGED stateVars
  <2>1. /\ filters' = filters /\ key' = key /\ down' = down /\ at' = at /\ consumed' = consumed
        /\ set_mods' = set_mods /\ clear_mods' = clear_mods /\ held' = held
        /\ mod_key_count' = mod_key_count /\ base_mods' = base_mods
        /\ ActionOf(key)' = ActionOf(key)
    BY <1>6 DEF stateVars, modVars, derived, ActionOf, KeyGroup
  <2>2. Event' /\ OneActivePerKey' /\ ActiveFirst' /\ PendingDiffer' /\ PendingUp' /\ OneKeyDown' /\ Counts'
    BY <2>1 DEF CInv, Event, OneActivePerKey, ActiveFirst, PendingDiffer, PendingUp, OneKeyDown, Counts
  <2>3. ActiveKnown' /\ PendingPassed'
    BY <2>1 DEF CInv, ActiveKnown, Known, PendingPassed
  <2> QED
    BY <1>1, <2>2, <2>3 DEF CInv
<1> QED
  BY <1>2, <1>3, <1>4, <1>5, <1>6 DEF StateNext

LEMMA CInit == StateInit => CInv
<1> SUFFICES ASSUME StateInit PROVE CInv
  OBVIOUS
<1>1. TInv /\ Shapes
  BY TInit, ShapesInit
<1>2. DOMAIN filters = {}
  BY DEF StateInit
<1>3. /\ OneActivePerKey /\ ActiveKnown /\ ActiveFirst /\ PendingDiffer /\ PendingUp
      /\ PendingPassed /\ OneKeyDown
  BY <1>2 DEF OneActivePerKey, ActiveKnown, ActiveFirst, PendingDiffer, PendingUp,
              PendingPassed, OneKeyDown
<1>4. Event
  BY StateAssumption DEF StateInit, Event
<1>5. \A m \in Mods : Holders(filters, m) = 0
  BY <1>2, FS_EmptySet DEF Holders, HoldersOf
<1>6. Counts
  BY <1>5 DEF StateInit, Counts, One
<1> QED
  BY <1>1, <1>3, <1>4, <1>6 DEF CInv

LEMMA CountsHeld == CInv => BaseModsHeld
<1> SUFFICES ASSUME CInv, key = NoKey
             PROVE  /\ base_mods = ModsOf(HeldFilters)
                    /\ \A i \in HeldFilters : held[filters[i].key] > 0
  BY DEF BaseModsHeld
<1>1. /\ TInv /\ StateTypeOK /\ Event /\ ActiveKnown /\ Counts /\ filters \in Seq(FilterType)
      /\ NoKey \notin Keys /\ held \in [Keys -> Nat]
  BY StateAssumption DEF CInv, TInv, StateTypeOK
<1>2. \A i \in HeldFilters : held[filters[i].key] > 0
  <2> SUFFICES ASSUME NEW i \in HeldFilters PROVE held[filters[i].key] > 0
    OBVIOUS
  <2>1. i \in DOMAIN filters /\ Active(filters[i])
    BY DEF HeldFilters, Holding, Active, Counted, FilterTypes
  <2>2. /\ filters[i].key \in Keys /\ 1 <= filters[i].refcnt
        /\ filters[i].refcnt <= Known(filters[i].key, i) /\ filters[i].refcnt \in Nat
    <3>1. filters[i] \in FilterType
      BY <1>1, <2>1
    <3> QED
      BY <1>1, <2>1, <3>1 DEF ActiveKnown, FilterType
  <2>3. Known(filters[i].key, i) = held[filters[i].key]
    BY <1>1, <2>2 DEF Known
  <2> QED
    BY <1>1, <2>2, <2>3
<1>3. ASSUME NEW m \in Mods
      PROVE  m \in base_mods <=> HoldersOf(filters, m) # {}
  <2>1. mod_key_count[m] = Holders(filters, m)
    <3>1. One(m \in set_mods) = 0 /\ One(m \in clear_mods) = 0
      BY <1>1 DEF Event, One
    <3>2. mod_key_count[m] \in Nat /\ Holders(filters, m) \in Nat
      BY <1>1, HoldersNat DEF StateTypeOK
    <3> QED
      BY <1>1, <3>1, <3>2 DEF Counts
  <2>2. /\ IsFiniteSet(HoldersOf(filters, m)) /\ Holders(filters, m) \in Nat
    BY <1>1, HoldersNat
  <2>3. Holders(filters, m) = 0 <=> HoldersOf(filters, m) = {}
    BY <2>2, FS_EmptySet DEF Holders
  <2> QED
    BY <1>1, <2>1, <2>2, <2>3 DEF Counts
<1>4. ASSUME NEW m PROVE m \in ModsOf(HeldFilters) <=> HoldersOf(filters, m) # {}
  BY DEF ModsOf, HeldFilters, HoldersOf
<1>5. ModsOf(HeldFilters) \subseteq Mods /\ base_mods \subseteq Mods
  <2>1. \A i \in DOMAIN filters : filters[i].action.mods \in SUBSET Mods
    <3>1. \A i \in DOMAIN filters : filters[i] \in FilterType
      BY <1>1
    <3> QED
      BY <3>1 DEF FilterType, Actions
  <2> QED
    BY <1>1, <2>1 DEF ModsOf, HeldFilters, StateTypeOK
<1>6. base_mods = ModsOf(HeldFilters)
  BY <1>3, <1>4, <1>5
<1> QED
  BY <1>2, <1>6

\* If latches are plain, then for any keymap and any number of keys, however they are
\* struck and on however many keyboards, the base modifiers between two events are
\* exactly those of the filters whose keys are down: the counting of state.c:760-777
\* neither loses a modifier that is held nor keeps one that is not.
THEOREM HeldKeysCount == PlainLatches => (StateSpec => []BaseModsHeld)
<1> SUFFICES ASSUME PlainLatches PROVE StateSpec => []BaseModsHeld
  OBVIOUS
<1>1. CInv /\ [StateNext]_stateVars => CInv'
  BY CNext
<1> QED
  BY <1>1, CInit, CountsHeld, PTL DEF StateSpec
===============================================================================
