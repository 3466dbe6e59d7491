------------------------------ MODULE MCKeyPath ------------------------------
(* What a key goes through, for TLC: Keyboard, the keycodes of the keymap that *)
(* is compiled (XkbKeycodes) and the state of the keys (XkbState).  The three  *)
(* have no variable in common: each is explored while the others rest.         *)
EXTENDS Keyboard, XkbKeycodes, XkbState

CONSTANTS shift, caps, level2, level3, next, letter

Act(type, m, g, flags) == [type |-> type, mods |-> m, group |-> g, flags |-> flags]

OneLevel(a) == [mask |-> {}, entries |-> << >>, actions |-> [l \in {0} |-> a]]

TwoLevels(a, b) ==
  [mask |-> {"Shift"}, entries |-> [active \in {{"Shift"}} |-> 1],
   actions |-> [l \in {0, 1} |-> IF l = 0 THEN a ELSE b]]

OneGroup(g) == [groups |-> <<g>>, range |-> "wrap", redirect |-> 0]

\* Shift; caps lock, with Shift a lock of the third level; a latch of Shift and one of
\* the third level; a key that goes to the next group and, with Shift, to the group
\* before while it is held; a letter.
MCKeyMap ==
  [k \in Keys |-> OneGroup(
     CASE k = shift  -> OneLevel(Act("modSet", {"Shift"}, 0, {"clearLocks"}))
       [] k = caps   -> TwoLevels(Act("modLock", {"Lock"}, 0, {}), Act("modLock", {"LevelThree"}, 0, {}))
       [] k = level2 -> OneLevel(Act("modLatch", {"Shift"}, 0, {"clearLocks"}))
       [] k = level3 -> OneLevel(Act("modLatch", {"LevelThree"}, 0, {"clearLocks"}))
       [] k = next   -> TwoLevels(Act("groupLock", {}, 1, {}), Act("groupSet", {}, -1, {}))
       [] k = letter -> OneLevel(NoAction))]

\* Shift is on two keyboards.
MCMaxHeld == [k \in Keys |-> IF k = shift THEN 2 ELSE 1]

\* The counting of modifiers is right for the keymap of this run.
ASSUME KeyPathAssumption == PlainLatches

KeyPathInit == Init /\ KeycodesInit /\ StateInit

KeyPathNext ==
  \/ /\ KeycodesInit /\ StateInit
     /\ Next /\ UNCHANGED <<keycodesVars, stateVars>>
  \/ /\ Init /\ StateInit
     /\ KeycodesNext /\ UNCHANGED <<vars, stateVars>>
  \/ /\ Init /\ KeycodesInit
     /\ StateNext /\ UNCHANGED <<vars, keycodesVars>>

KeyPathSpec == KeyPathInit /\ [][KeyPathNext]_<<vars, keycodesVars, stateVars>>

\* Each of the three keeps to its types.
KeyPathTypeOK == TypeOK /\ KeycodesTypeOK /\ StateTypeOK
=============================================================================
