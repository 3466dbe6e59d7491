------------------------------- MODULE XkbState -------------------------------
(***************************************************************************)
(* What libxkbcommon makes of the keys that are held: xkb_state_update_key *)
(* (libxkbcommon/xkbcommon/src/state.c).                                   *)
(*                                                                         *)
(* A key that goes down leaves a filter behind, and every filter sees      *)
(* every later event, in the order of its slots.  A step of the model is   *)
(* one filter's answer to the event at work (At), or the end of that event *)
(* (Finish), where the collected modifiers are counted and the effective   *)
(* state is derived.  A mask is a set of modifiers.  A filter whose        *)
(* function is null is NoFilter: its slot is used again.  The keymap is a  *)
(* constant.  Left out: LEDs and xkb_state_update_mask, and with it the    *)
(* latched group, which no key sets.                                       *)
(***************************************************************************)
EXTENDS Integers, Sequences, FiniteSets

CONSTANTS
  Keys,
  NoKey,       \* no event is at work
  Mods,        \* the modifiers
  Lock,        \* the modifier of mask 2, which is the value of LATCH_PENDING
  NumGroups,   \* keymap->num_groups
  KeyMap,      \* the groups of each key and how it wraps a group it has not
  MaxHeld,     \* bound: how often each key is down at once, on several keyboards
  MaxDown      \* bound: how many keys are down at once

Flags == {"clearLocks", "latchToLock", "noLock", "noUnlock", "absolute"}
FilterTypes == {"modSet", "modLatch", "modLock", "groupSet", "groupLock"}
Breaking == {"none", "pointerButton"}   \* the types that break a latch
Others == {"pointerMove"}               \* the types that do nothing here

Actions == [type : FilterTypes \cup Breaking \cup Others, mods : SUBSET Mods,
            group : Int, flags : SUBSET Flags]

\* The actions of a key, in all its groups and levels.
ActionsOf(k) ==
  UNION {{g.actions[l] : l \in DOMAIN g.actions} : g \in {KeyMap[k].groups[i] :
                                                           i \in DOMAIN KeyMap[k].groups}}

ASSUME StateAssumption ==
  /\ NoKey \notin Keys /\ Lock \in Mods
  /\ NumGroups \in Nat \ {0}
  /\ \A k \in Keys :
       /\ MaxHeld[k] \in Nat
       /\ ActionsOf(k) \subseteq Actions
       /\ KeyMap[k].redirect \in Nat
       /\ Len(KeyMap[k].groups) \in Nat
       /\ DOMAIN KeyMap[k].groups = 1 .. Len(KeyMap[k].groups)
       /\ \A i \in DOMAIN KeyMap[k].groups :
            LET g == KeyMap[k].groups[i] IN
            /\ 0 \in DOMAIN g.actions
            /\ \A active \in DOMAIN g.entries : g.entries[active] \in DOMAIN g.actions

\* The keymaps for which the counting of modifiers is right: a key that latches does
\* so in every group and level, does not lock, and is not on two keyboards.
PlainLatches ==
  \A k \in Keys : \A a, b \in ActionsOf(k) :
    a.type = "modLatch" => b = a /\ "latchToLock" \notin a.flags /\ MaxHeld[k] <= 1

NoAction == [type |-> "none", mods |-> {}, group |-> 0, flags |-> {}]

VARIABLES
  base_mods, latched_mods, locked_mods, mods,   \* mods: effective
  base_group, locked_group, group,              \* group: effective
  mod_key_count,
  filters,
  key, down, at, consumed,   \* the event at work, and the filter that sees it next
  set_mods, clear_mods,      \* what the event has collected
  held                       \* how often each key is down

modVars   == <<base_mods, latched_mods, locked_mods>>
groupVars == <<base_group, locked_group>>
derived   == <<mods, group>>
stateVars == <<modVars, groupVars, derived, mod_key_count, filters, key, down, at,
               consumed, set_mods, clear_mods, held>>

-----------------------------------------------------------------------------
(* The action of a key *)

\* XkbWrapGroupIntoRange.  The remainder of C has the dividend's sign.
WrapGroup(g, n, range, redirect) ==
  IF 0 <= g /\ g < n THEN g
  ELSE IF range = "redirect" THEN (IF redirect >= n THEN 0 ELSE redirect)
  ELSE IF range = "saturate" THEN (IF g < 0 THEN 0 ELSE n - 1)
  ELSE IF g < 0 THEN n - ((-g) % n) ELSE g % n

KeyGroup(k) ==
  KeyMap[k].groups[WrapGroup(group, Len(KeyMap[k].groups), KeyMap[k].range,
                             KeyMap[k].redirect) + 1]

\* A combination of modifiers that the key's type has no entry for is level 0.
KeyLevel(type, active) ==
  IF active \in DOMAIN type.entries THEN type.entries[active] ELSE 0

ActionOf(k) ==
  IF Len(KeyMap[k].groups) = 0 THEN NoAction
  ELSE LET g == KeyGroup(k) IN g.actions[KeyLevel(g, mods \cap g.mask)]

-----------------------------------------------------------------------------
NoFilter ==
  [func |-> "none", key |-> NoKey, action |-> NoAction, latch |-> "none",
   saved |-> {}, group |-> 0, refcnt |-> 0]

StateInit ==
  /\ base_mods = {} /\ latched_mods = {} /\ locked_mods = {} /\ mods = {}
  /\ base_group = 0 /\ locked_group = 0 /\ group = 0
  /\ mod_key_count = [m \in Mods |-> 0]
  /\ filters = << >>
  /\ key = NoKey /\ down = FALSE /\ at = 1 /\ consumed = FALSE
  /\ set_mods = {} /\ clear_mods = {}
  /\ held = [k \in Keys |-> 0]

DownKeys == {k \in Keys : held[k] > 0}

\* xkb_state_update_key is called.
UpdateKey(k, d) ==
  /\ key = NoKey
  /\ IF d THEN held[k] < MaxHeld[k] /\ Cardinality(DownKeys \cup {k}) <= MaxDown
          ELSE held[k] > 0
  /\ held' = [held EXCEPT ![k] = IF d THEN @ + 1 ELSE @ - 1]
  /\ key' = k /\ down' = d /\ at' = 1 /\ consumed' = FALSE
  /\ set_mods' = {} /\ clear_mods' = {}
  /\ UNCHANGED <<modVars, groupVars, derived, mod_key_count, filters>>

-----------------------------------------------------------------------------
(* The filters, one at a time *)

This == filters[at]

At(funcs) == key # NoKey /\ at <= Len(filters) /\ This.func \in funcs

\* This filter becomes f, and the next one is called.
Becomes(f) == filters' = [filters EXCEPT ![at] = f] /\ at' = at + 1

Continue == UNCHANGED <<derived, mod_key_count, key, down, held>>

SkipFree ==
  /\ At({"none"}) /\ at' = at + 1
  /\ UNCHANGED <<modVars, groupVars, filters, consumed, set_mods, clear_mods>> /\ Continue

Counted == FilterTypes \ {"modLatch"}

\* Another key: a key that clears locks does so only if it is hit alone.
AnotherKey ==
  /\ At(Counted) /\ This.key # key
  /\ Becomes(IF This.func \in {"modSet", "groupSet"}
             THEN [This EXCEPT !.action.flags = @ \ {"clearLocks"}] ELSE This)
  /\ UNCHANGED <<modVars, groupVars, consumed, set_mods, clear_mods>> /\ Continue

\* The key goes down once more, or is not up everywhere.
StillHeld ==
  /\ At(Counted) /\ This.key = key /\ (down \/ This.refcnt > 1)
  /\ Becomes([This EXCEPT !.refcnt = IF down THEN @ + 1 ELSE @ - 1])
  /\ consumed' = TRUE
  /\ UNCHANGED <<modVars, groupVars, set_mods, clear_mods>> /\ Continue

LastUp(func) ==
  /\ At({func}) /\ This.key = key /\ ~down /\ This.refcnt <= 1
  /\ Becomes(NoFilter)
  /\ UNCHANGED <<consumed, set_mods>> /\ Continue

\* Mistake: the key clears every lock.
ReleaseClearingAll ==
  /\ LastUp("modSet")
  /\ clear_mods' = This.action.mods
  /\ locked_mods' = IF "clearLocks" \in This.action.flags THEN {} ELSE locked_mods
  /\ UNCHANGED <<base_mods, latched_mods, groupVars>>

ReleaseModSet ==
  /\ LastUp("modSet")
  /\ clear_mods' = This.action.mods
  /\ locked_mods' = IF "clearLocks" \in This.action.flags
                    THEN locked_mods \ This.action.mods ELSE locked_mods
  /\ UNCHANGED <<base_mods, latched_mods, groupVars>>

\* A second stroke unlocks: what was locked at the press is unlocked now.
ReleaseModLock ==
  /\ LastUp("modLock")
  /\ clear_mods' = clear_mods \cup This.action.mods
  /\ locked_mods' = IF "noUnlock" \in This.action.flags
                    THEN locked_mods ELSE locked_mods \ This.saved
  /\ UNCHANGED <<base_mods, latched_mods, groupVars>>

ReleaseGroupSet ==
  /\ LastUp("groupSet")
  /\ base_group' = This.group
  /\ locked_group' = IF "clearLocks" \in This.action.flags THEN 0 ELSE locked_group
  /\ UNCHANGED <<modVars, clear_mods>>

ReleaseGroupLock ==
  /\ LastUp("groupLock") /\ UNCHANGED <<modVars, groupVars, clear_mods>>

-----------------------------------------------------------------------------
(* xkb_filter_mod_latch_func *)

SameLatch(a) ==
  a.type = "modLatch" /\ a.flags = This.action.flags /\ a.mods = This.action.mods

\* The key that is latched, or one like it, goes down again: it locks, or sets.
\* A lock does not set base modifiers here, and finds LATCH_PENDING where a lock
\* that is pressed keeps the modifiers that were locked before.
LatchAgain ==
  /\ At({"modLatch"}) /\ down /\ This.latch = "pending" /\ SameLatch(ActionOf(key))
  /\ IF "latchToLock" \in This.action.flags
     THEN /\ Becomes([This EXCEPT !.key = key, !.func = "modLock", !.action.type = "modLock",
                                  !.saved = {Lock}])
          /\ locked_mods' = locked_mods \cup This.action.mods
          /\ UNCHANGED set_mods
     ELSE /\ Becomes([This EXCEPT !.key = key, !.func = "modSet", !.action.type = "modSet"])
          /\ set_mods' = This.action.mods
          /\ UNCHANGED locked_mods
  /\ latched_mods' = latched_mods \ This.action.mods
  /\ consumed' = TRUE
  /\ UNCHANGED <<base_mods, groupVars, clear_mods>> /\ Continue

\* Mistake: the modifier stays latched.
LatchBrokenKeeping ==
  /\ At({"modLatch"}) /\ down /\ This.latch = "pending"
  /\ ~SameLatch(ActionOf(key)) /\ ActionOf(key).type \in Breaking
  /\ Becomes(NoFilter)
  /\ UNCHANGED <<modVars, groupVars, consumed, set_mods, clear_mods>> /\ Continue

\* The latch is spent on the key that goes down.
LatchBroken ==
  /\ At({"modLatch"}) /\ down /\ This.latch = "pending"
  /\ ~SameLatch(ActionOf(key)) /\ ActionOf(key).type \in Breaking
  /\ Becomes(NoFilter)
  /\ latched_mods' = latched_mods \ This.action.mods
  /\ UNCHANGED <<base_mods, locked_mods, groupVars, consumed, set_mods, clear_mods>> /\ Continue

Unlocks == "clearLocks" \in This.action.flags /\ This.action.mods \subseteq locked_mods

\* The key goes up and does not latch: it was not hit alone, or it unlocks.
LatchCancelled ==
  /\ At({"modLatch"}) /\ ~down /\ This.key = key
  /\ This.latch = "noLatch" \/ Unlocks
  /\ Becomes(NoFilter)
  /\ IF This.latch = "pending"
     THEN latched_mods' = latched_mods \ This.action.mods /\ UNCHANGED clear_mods
     ELSE clear_mods' = This.action.mods /\ UNCHANGED latched_mods
  /\ locked_mods' = locked_mods \ This.action.mods
  /\ UNCHANGED <<base_mods, groupVars, consumed, set_mods>> /\ Continue

\* The key goes up, and the next key will find its modifier latched.
LatchReleased ==
  /\ At({"modLatch"}) /\ ~down /\ This.key = key
  /\ This.latch # "noLatch" /\ ~Unlocks
  /\ Becomes([This EXCEPT !.latch = "pending"])
  /\ clear_mods' = This.action.mods
  /\ latched_mods' = latched_mods \cup This.action.mods
  /\ UNCHANGED <<base_mods, locked_mods, groupVars, consumed, set_mods>> /\ Continue

\* A key goes down while the latching key is held.
LatchSpoilt ==
  /\ At({"modLatch"}) /\ down /\ This.latch = "keyDown"
  /\ Becomes([This EXCEPT !.latch = "noLatch"])
  /\ UNCHANGED <<modVars, groupVars, consumed, set_mods, clear_mods>> /\ Continue

LatchIdle ==
  /\ At({"modLatch"})
  /\ IF down THEN \/ This.latch = "noLatch"
                  \/ /\ This.latch = "pending" /\ ~SameLatch(ActionOf(key))
                     /\ ActionOf(key).type \notin Breaking
             ELSE This.key # key
  /\ at' = at + 1
  /\ UNCHANGED <<modVars, groupVars, filters, consumed, set_mods, clear_mods>> /\ Continue

-----------------------------------------------------------------------------
(* The end of the event *)

\* Mistake: a modifier is cleared with the first of its keys.
CountUpOnce(set, clear) ==
  LET pressed == [m \in Mods |-> mod_key_count[m] + (IF m \in set THEN 1 ELSE 0)]
  IN  /\ mod_key_count' =
           [m \in Mods |-> IF m \notin clear THEN pressed[m]
                           ELSE IF pressed[m] <= 1 THEN 0 ELSE pressed[m] - 1]
      /\ base_mods' = (base_mods \cup set) \ clear

\* The collected modifiers are counted, and the effective state is derived.
CountUp(set, clear) ==
  LET pressed == [m \in Mods |-> mod_key_count[m] + (IF m \in set THEN 1 ELSE 0)]
  IN  /\ mod_key_count' =
           [m \in Mods |-> IF m \notin clear THEN pressed[m]
                           ELSE IF pressed[m] <= 1 THEN 0 ELSE pressed[m] - 1]
      /\ base_mods' = (base_mods \cup set) \ {m \in clear : pressed[m] <= 1}

Finish(set, clear, base, locked) ==
  /\ CountUp(set, clear)
  /\ base_group' = base
  /\ locked_group' = WrapGroup(locked, NumGroups, "wrap", 0)
  /\ mods' = base_mods' \cup latched_mods \cup locked_mods'
  /\ group' = WrapGroup(base + locked_group', NumGroups, "wrap", 0)
  /\ key' = NoKey /\ down' = FALSE /\ at' = 1 /\ consumed' = FALSE
  /\ set_mods' = {} /\ clear_mods' = {}
  /\ UNCHANGED <<latched_mods, held>>

AllSeen == key # NoKey /\ at > Len(filters)

FinishOld ==
  /\ AllSeen
  /\ consumed \/ ~down \/ ActionOf(key).type \notin FilterTypes
  /\ UNCHANGED <<locked_mods, filters>>
  /\ Finish(set_mods, clear_mods, base_group, locked_group)

\* The filter of a key that nobody has consumed (the functions "new").
NewFilter(a) ==
  [func |-> a.type, key |-> key, action |-> a,
   latch |-> IF a.type = "modLatch" THEN "keyDown" ELSE "none",
   saved |-> IF a.type = "modLock" THEN locked_mods \cap a.mods ELSE {},
   group |-> IF a.type = "groupSet" THEN base_group ELSE 0,
   refcnt |-> 1]

\* xkb_filter_new: the first free slot, or one more.
Install(f) ==
  LET free == {i \in DOMAIN filters : filters[i].func = "none"}
  IN  IF free = {} THEN filters' = Append(filters, f)
      ELSE LET first == CHOOSE i \in free : \A j \in free : i <= j
           IN  filters' = [filters EXCEPT ![first] = f]

Moved(g, a) == IF "absolute" \in a.flags THEN a.group ELSE g + a.group

FinishNew ==
  /\ AllSeen /\ ~consumed /\ down
  /\ LET a == ActionOf(key) IN
     /\ a.type \in FilterTypes
     /\ Install(NewFilter(a))
     /\ locked_mods' = IF a.type = "modLock" /\ "noLock" \notin a.flags
                       THEN locked_mods \cup a.mods ELSE locked_mods
     /\ Finish(IF a.type \in {"modSet", "modLatch"} THEN a.mods
               ELSE IF a.type = "modLock" THEN set_mods \cup a.mods ELSE set_mods,
               clear_mods,
               IF a.type = "groupSet" THEN Moved(base_group, a) ELSE base_group,
               IF a.type = "groupLock" THEN Moved(locked_group, a) ELSE locked_group)

-----------------------------------------------------------------------------
FilterStep ==
  \/ SkipFree \/ AnotherKey \/ StillHeld
  \/ ReleaseModSet \/ ReleaseModLock \/ ReleaseGroupSet \/ ReleaseGroupLock
  \/ LatchAgain \/ LatchBroken \/ LatchCancelled \/ LatchReleased
  \/ LatchSpoilt \/ LatchIdle

StateNext ==
  \/ \E k \in Keys, d \in BOOLEAN : UpdateKey(k, d)
  \/ FilterStep \/ FinishOld \/ FinishNew

StateSpec == StateInit /\ [][StateNext]_stateVars

-----------------------------------------------------------------------------
FilterType ==
  [func : FilterTypes \cup {"none"}, key : Keys \cup {NoKey}, action : Actions,
   latch : {"none", "noLatch", "keyDown", "pending"}, saved : SUBSET Mods,
   group : Int, refcnt : Nat]

StateTypeOK ==
  /\ {base_mods, latched_mods, locked_mods, mods, set_mods, clear_mods} \subseteq SUBSET Mods
  /\ {base_group, locked_group, group} \subseteq Int
  /\ mod_key_count \in [Mods -> Nat]
  /\ filters \in Seq(FilterType)
  /\ key \in Keys \cup {NoKey} /\ down \in BOOLEAN /\ consumed \in BOOLEAN
  /\ at \in 1 .. Len(filters) + 1
  /\ held \in [Keys -> Nat]

\* The filter keeps its modifiers among the base modifiers.
Holding(f) ==
  f.func \in {"modSet", "modLock"} \/ (f.func = "modLatch" /\ f.latch # "pending")

HeldFilters == {i \in DOMAIN filters : Holding(filters[i])}

ModsOf(S) == UNION {filters[i].action.mods : i \in S}

\* "We mustn't clear a base modifier if there's another depressed key which affects
\* it" (state.c:108), nor keep one for ever: between events the base modifiers are
\* those of the filters of keys that are down.
BaseModsHeld ==
  key = NoKey =>
    /\ base_mods = ModsOf(HeldFilters)
    /\ \A i \in HeldFilters : held[filters[i].key] > 0

\* A latched modifier can be got rid of: a filter waits for the key it is for.
LatchBreakable ==
  latched_mods \subseteq
    ModsOf({i \in DOMAIN filters : filters[i].func = "modLatch" /\ filters[i].latch = "pending"})

\* A modifier that is locked stays locked until a key of that modifier goes up,
\* whatever other keys and latches do meanwhile.
LocksLostOnlyByTheirKeys ==
  [][\A m \in locked_mods \ locked_mods' :
       /\ key # NoKey /\ ~down
       /\ \E i \in DOMAIN filters : filters[i].key = key /\ m \in filters[i].action.mods]_stateVars
=============================================================================
