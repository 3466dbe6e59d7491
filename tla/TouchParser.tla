----------------------------- MODULE TouchParser -----------------------------
(***************************************************************************)
(* From touches to pointer buttons: the gesture machine of TouchParser     *)
(* (TouchParser.java) in its mouse and touchpad modes.  Android calls      *)
(* onTouchEvent for the fingers and the handler for the delayed messages,  *)
(* all on the UI thread; the delays only order them loosely, because that  *)
(* thread may be late.                                                     *)
(*                                                                         *)
(* Positions are reduced to how far a finger has moved.  mInContextClick   *)
(* is never set and mDeferConfirmSingleTap never read: both are left out,  *)
(* and so is the SHOW_PRESS message, which does nothing.                   *)
(***************************************************************************)
EXTENDS Naturals

CONSTANT MaxFingers   \* bound: fingers on the screen

ASSUME TouchAssumption == MaxFingers \in Nat \ {0}

VARIABLES
  mode,                     \* mMode, set before the view gets any event
  fingers,                  \* how many fingers the view has been told of
  messages,                 \* the delayed messages the handler holds
  mStillDown, mInLongPress, mIsDoubleTapping,
  mAlwaysInTapRegion, mAlwaysInBiggerTapRegion,
  mInDrag, mWasInDrag,
  left,                     \* history: the left button was pressed and not released
  second,                   \* history: the gesture had a second finger
  sent                      \* history: the click the last step sent

tapVars  == <<mStillDown, mAlwaysInTapRegion, mAlwaysInBiggerTapRegion>>
dragVars == <<mInDrag, mWasInDrag>>
gestures == <<mInLongPress, mIsDoubleTapping>>
vars == <<mode, fingers, messages, tapVars, gestures, dragVars, left, second, sent>>

Messages == {"LONG_PRESS", "TAP", "RIGHT_TAP"}
Clicks == {"none", "click", "doubleClick", "rightClick"}

Init ==
  /\ mode \in {"mouse", "touchpad"}
  /\ fingers = 0 /\ messages = {}
  /\ mStillDown = FALSE /\ mInLongPress = FALSE /\ mIsDoubleTapping = FALSE
  /\ mAlwaysInTapRegion = FALSE /\ mAlwaysInBiggerTapRegion = FALSE
  /\ mInDrag = FALSE /\ mWasInDrag = FALSE
  /\ left = FALSE /\ second = FALSE /\ sent = "none"

-----------------------------------------------------------------------------
(* Dragging *)

\* startDrag: press, unless a drag is on or the gesture had one.
StartDrag ==
  IF mWasInDrag \/ mInDrag THEN UNCHANGED <<dragVars, left>>
  ELSE mInDrag' = TRUE /\ left' = TRUE /\ UNCHANGED mWasInDrag

\* Mistake: the release is sent and the drag still counts as on.
StopDragKeepingFlag ==
  /\ UNCHANGED mInDrag /\ mWasInDrag' = TRUE
  /\ left' = (left /\ ~mInDrag)

\* stopDrag: release if a drag is on.
StopDrag ==
  /\ mInDrag' = FALSE /\ mWasInDrag' = TRUE
  /\ left' = (left /\ ~mInDrag)

\* onScroll: one finger drags in mouse mode; anything else moves or scrolls.
Scroll ==
  IF fingers = 1 /\ mode = "mouse" THEN StartDrag ELSE UNCHANGED <<dragVars, left>>

-----------------------------------------------------------------------------
(* Fingers *)

\* ACTION_DOWN.  A TAP still waiting makes it a second tap, if it is in time
\* and near the first (near) and that one did not move.
Down(near) ==
  LET hadTap == "TAP" \in messages
      double == hadTap /\ mAlwaysInBiggerTapRegion /\ near
  IN  /\ fingers = 0 /\ fingers' = 1
      /\ mIsDoubleTapping' = (double \/ mIsDoubleTapping)
      /\ messages' = (IF hadTap THEN {} ELSE messages \ {"LONG_PRESS"})
                       \cup (IF double THEN {} ELSE {"TAP"})
                       \cup (IF mIsDoubleTapping' THEN {} ELSE {"LONG_PRESS"})
      /\ mAlwaysInTapRegion' = TRUE /\ mAlwaysInBiggerTapRegion' = TRUE
      /\ mStillDown' = TRUE /\ mInLongPress' = FALSE
      /\ second' = FALSE /\ sent' = "none"
      /\ UNCHANGED <<mode, dragVars, left>>

\* Mistake: the TAP and LONG_PRESS messages stay.
PointerDownKeepingTaps ==
  /\ 0 < fingers /\ fingers < MaxFingers /\ fingers' = fingers + 1
  /\ StopDrag
  /\ messages' = messages \cup {"RIGHT_TAP"}
  /\ mIsDoubleTapping' = FALSE /\ mInLongPress' = FALSE
  /\ mAlwaysInTapRegion' = FALSE /\ mAlwaysInBiggerTapRegion' = FALSE
  /\ second' = TRUE /\ sent' = "none"
  /\ UNCHANGED <<mode, mStillDown>>

\* ACTION_POINTER_DOWN: stopDrag, cancelTaps.
PointerDown ==
  /\ 0 < fingers /\ fingers < MaxFingers /\ fingers' = fingers + 1
  /\ StopDrag
  /\ messages' = (messages \ {"LONG_PRESS", "TAP"}) \cup {"RIGHT_TAP"}
  /\ mIsDoubleTapping' = FALSE /\ mInLongPress' = FALSE
  /\ mAlwaysInTapRegion' = FALSE /\ mAlwaysInBiggerTapRegion' = FALSE
  /\ second' = TRUE /\ sent' = "none"
  /\ UNCHANGED <<mode, mStillDown>>

\* ACTION_POINTER_UP
PointerUp ==
  /\ fingers > 1 /\ fingers' = fingers - 1
  /\ StopDrag
  /\ sent' = "none"
  /\ UNCHANGED <<mode, messages, tapVars, gestures, second>>

\* ACTION_MOVE out of the tap region, or outside of it already.
MoveFar ==
  /\ fingers > 0
  /\ Scroll
  /\ messages' = IF mAlwaysInTapRegion THEN {} ELSE messages
  /\ mAlwaysInTapRegion' = FALSE
  /\ mAlwaysInBiggerTapRegion' = (mAlwaysInBiggerTapRegion /\ ~mAlwaysInTapRegion)
  /\ sent' = "none"
  /\ UNCHANGED <<mode, fingers, mStillDown, gestures, second>>

\* ACTION_MOVE inside of the tap region, too far for half a double tap.
MoveNear ==
  /\ fingers > 0 /\ mAlwaysInTapRegion
  /\ mAlwaysInBiggerTapRegion' = FALSE
  /\ sent' = "none"
  /\ UNCHANGED <<mode, fingers, messages, mStillDown, mAlwaysInTapRegion,
                 gestures, dragVars, left, second>>

\* The click ACTION_UP sends, besides the release of what was held.
UpClick ==
  IF mIsDoubleTapping THEN "doubleClick"
  ELSE IF ~mInLongPress /\ ~mAlwaysInTapRegion /\ "RIGHT_TAP" \in messages
  THEN "rightClick" ELSE "none"

\* ACTION_UP
Up ==
  /\ fingers = 1 /\ fingers' = 0
  /\ sent' = UpClick
  /\ left' = (left /\ ~(mode = "mouse" /\ mInDrag) /\ ~mIsDoubleTapping /\ ~mInLongPress)
  /\ messages' = messages \ ({"LONG_PRESS", "RIGHT_TAP"}
                   \cup IF mInLongPress /\ ~mIsDoubleTapping THEN {"TAP"} ELSE {})
  /\ mStillDown' = FALSE
  /\ mIsDoubleTapping' = FALSE /\ mInLongPress' = FALSE
  /\ mInDrag' = FALSE /\ mWasInDrag' = FALSE
  /\ UNCHANGED <<mode, mAlwaysInTapRegion, mAlwaysInBiggerTapRegion, second>>

\* ACTION_CANCEL: the gesture is forgotten; a drag is not.
Cancel ==
  /\ fingers > 0 /\ fingers' = 0
  /\ messages' = {}
  /\ mStillDown' = FALSE /\ mInLongPress' = FALSE /\ mIsDoubleTapping' = FALSE
  /\ mAlwaysInTapRegion' = FALSE /\ mAlwaysInBiggerTapRegion' = FALSE
  /\ sent' = "none"
  /\ UNCHANGED <<mode, dragVars, left, second>>

-----------------------------------------------------------------------------
(* The handler *)

\* dispatchLongPress: the left button is held from now on.
LongPress ==
  /\ "LONG_PRESS" \in messages
  /\ messages' = messages \ {"LONG_PRESS", "TAP"}
  /\ mInLongPress' = TRUE
  /\ left' = TRUE /\ sent' = "none"
  /\ UNCHANGED <<mode, fingers, tapVars, mIsDoubleTapping, dragVars, second>>

\* Mistake: a tap is sent while the finger is still down.
TapAnyway ==
  /\ "TAP" \in messages
  /\ messages' = messages \ {"TAP"}
  /\ left' = FALSE /\ sent' = "click"
  /\ UNCHANGED <<mode, fingers, tapVars, gestures, dragVars, second>>

\* TAP: a click, if the finger has left.
Tap ==
  /\ "TAP" \in messages
  /\ messages' = messages \ {"TAP"}
  /\ IF mStillDown THEN UNCHANGED left /\ sent' = "none"
                   ELSE left' = FALSE /\ sent' = "click"
  /\ UNCHANGED <<mode, fingers, tapVars, gestures, dragVars, second>>

\* RIGHT_TAP only waits to be found by ACTION_UP.
RightTap ==
  /\ "RIGHT_TAP" \in messages
  /\ messages' = messages \ {"RIGHT_TAP"}
  /\ sent' = "none"
  /\ UNCHANGED <<mode, fingers, tapVars, gestures, dragVars, left, second>>

-----------------------------------------------------------------------------
Next ==
  \/ \E near \in BOOLEAN : Down(near)
  \/ PointerDown \/ PointerUp \/ MoveFar \/ MoveNear \/ Up \/ Cancel
  \/ LongPress \/ Tap \/ RightTap

Spec == Init /\ [][Next]_vars

-----------------------------------------------------------------------------
FlagsOK ==
  /\ mStillDown \in BOOLEAN /\ mInLongPress \in BOOLEAN /\ mIsDoubleTapping \in BOOLEAN
  /\ mAlwaysInTapRegion \in BOOLEAN /\ mAlwaysInBiggerTapRegion \in BOOLEAN
  /\ mInDrag \in BOOLEAN /\ mWasInDrag \in BOOLEAN
  /\ left \in BOOLEAN /\ second \in BOOLEAN

TypeOK ==
  /\ mode \in {"mouse", "touchpad"}
  /\ fingers \in 0 .. MaxFingers
  /\ messages \subseteq Messages
  /\ FlagsOK
  /\ sent \in Clicks

\* While a drag or a long press is on, the left button is held, whatever taps,
\* fingers and late messages come in between.
GestureHolds == mInDrag \/ mInLongPress => left

\* A long press is neither a tap nor half of a double tap any more.
LongPressExcludesTaps ==
  mInLongPress => fingers = 1 /\ ~mIsDoubleTapping /\ "TAP" \notin messages

\* The click of a single tap is sent with no finger on the screen, a double
\* click ends a gesture of one finger, a right click one of several.
ClickFitsGesture ==
  /\ sent = "click" => fingers = 0
  /\ sent = "doubleClick" => ~second
  /\ sent = "rightClick" => second

\* "Cancel long press and taps" (TouchParser.java 267): what holds the left
\* button is a gesture that is still on.
HeldByGesture == left => mInDrag \/ mInLongPress
=============================================================================
