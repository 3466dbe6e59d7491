-------------------------- MODULE TouchParserProofs --------------------------
(***************************************************************************)
(* For any number of fingers: the left button is held while a drag or a    *)
(* long press is on, a long press excludes the taps, and the click sent    *)
(* fits the gesture.                                                       *)
(***************************************************************************)
EXTENDS TouchParser, TLAPS

\* The finger that makes a gesture is the only one while its LONG_PRESS waits.
PressPending ==
  "LONG_PRESS" \in messages => fingers = 1 /\ ~mIsDoubleTapping /\ ~mInLongPress

\* A TAP cannot end a drag: a canceled drag that is still on has none waiting.
TapWhileDown == mInDrag /\ "TAP" \in messages => mStillDown

\* Only mouse mode drags: Up, which releases in mouse mode only, forgets none.
DragInMouseMode == mInDrag => mode = "mouse"

\* The inductive invariant: what the gestures promise, and why.
Gestures ==
  /\ mStillDown <=> fingers > 0
  /\ fingers = 0 => ~mIsDoubleTapping
  /\ mIsDoubleTapping => "TAP" \notin messages
  /\ PressPending /\ TapWhileDown /\ DragInMouseMode
  /\ GestureHolds /\ LongPressExcludesTaps

GInv == TypeOK /\ Gestures

LEMMA GInit == Init => GInv
<1> SUFFICES ASSUME Init PROVE GInv
  OBVIOUS
<1>1. TypeOK
  <2>1. FlagsOK
    BY DEF Init, FlagsOK
  <2> QED
    BY <2>1, TouchAssumption DEF Init, TypeOK, Messages, Clicks
<1>2. Gestures
  BY DEF Init, Gestures, PressPending, TapWhileDown, DragInMouseMode, GestureHolds,
         LongPressExcludesTaps
<1> QED
  BY <1>1, <1>2 DEF GInv

LEMMA GNext == GInv /\ [Next]_vars => GInv'
<1> SUFFICES ASSUME GInv, [Next]_vars PROVE TypeOK' /\ Gestures'
  BY DEF GInv
<1> USE TouchAssumption DEF GInv, TypeOK, Gestures, PressPending, TapWhileDown,
     DragInMouseMode, GestureHolds, LongPressExcludesTaps, Messages, Clicks
<1>1. ASSUME NEW near \in BOOLEAN, Down(near) PROVE TypeOK' /\ Gestures'
  <2>1. FlagsOK'
    BY <1>1 DEF FlagsOK, Down, dragVars
  <2>2. TypeOK'
    <3>1. messages' \subseteq Messages
      BY <1>1, Zenon DEF Down
    <3> HIDE DEF Messages
    <3> QED
      BY <2>1, <3>1, <1>1 DEF Down, dragVars
  <2>3. Gestures'
    BY <1>1 DEF FlagsOK, Down, dragVars
  <2> QED
    BY <2>2, <2>3
<1>2. CASE PointerDown
  <2>1. FlagsOK'
    BY <1>2 DEF FlagsOK, PointerDown, StopDrag
  <2>2. TypeOK'
    BY <2>1, <1>2 DEF PointerDown, StopDrag
  <2>3. Gestures'
    BY <1>2 DEF FlagsOK, PointerDown, StopDrag
  <2> QED
    BY <2>2, <2>3
<1>3. CASE PointerUp
  <2>1. FlagsOK'
    BY <1>3 DEF FlagsOK, PointerUp, StopDrag, tapVars, gestures
  <2>2. TypeOK'
    BY <2>1, <1>3 DEF PointerUp, StopDrag, tapVars, gestures
  <2>3. Gestures'
    BY <1>3 DEF FlagsOK, PointerUp, StopDrag, tapVars, gestures
  <2> QED
    BY <2>2, <2>3
<1>4. CASE MoveFar
  <2>1. FlagsOK'
    BY <1>4 DEF FlagsOK, MoveFar, Scroll, StartDrag, gestures, dragVars
  <2>2. TypeOK'
    BY <2>1, <1>4 DEF MoveFar, Scroll, StartDrag, gestures, dragVars
  <2>3. Gestures'
    BY <1>4 DEF FlagsOK, MoveFar, Scroll, StartDrag, gestures, dragVars
  <2> QED
    BY <2>2, <2>3
<1>5. CASE MoveNear
  <2>1. FlagsOK'
    BY <1>5 DEF FlagsOK, MoveNear, gestures, dragVars
  <2>2. TypeOK'
    BY <2>1, <1>5 DEF MoveNear, gestures, dragVars
  <2>3. Gestures'
    BY <1>5 DEF FlagsOK, MoveNear, gestures, dragVars
  <2> QED
    BY <2>2, <2>3
<1>6. CASE Up
  <2>1. FlagsOK'
    BY <1>6 DEF FlagsOK, Up, UpClick
  <2>2. TypeOK'
    BY <2>1, <1>6 DEF Up, UpClick
  <2>3. Gestures'
    BY <1>6 DEF FlagsOK, Up, UpClick
  <2> QED
    BY <2>2, <2>3
<1>7. CASE Cancel
  <2>1. FlagsOK'
    BY <1>7 DEF FlagsOK, Cancel, dragVars
  <2>2. TypeOK'
    BY <2>1, <1>7 DEF Cancel, dragVars
  <2>3. Gestures'
    BY <1>7 DEF FlagsOK, Cancel, dragVars
  <2> QED
    BY <2>2, <2>3
<1>8. CASE LongPress
  <2>1. FlagsOK'
    BY <1>8 DEF FlagsOK, LongPress, tapVars, dragVars
  <2>2. TypeOK'
    BY <2>1, <1>8 DEF LongPress, tapVars, dragVars
  <2>3. Gestures'
    BY <1>8 DEF FlagsOK, LongPress, tapVars, dragVars
  <2> QED
    BY <2>2, <2>3
<1>9. CASE Tap
  <2>1. FlagsOK'
    BY <1>9 DEF FlagsOK, Tap, tapVars, gestures, dragVars
  <2>2. TypeOK'
    BY <2>1, <1>9 DEF Tap, tapVars, gestures, dragVars
  <2>3. Gestures'
    BY <1>9 DEF FlagsOK, Tap, tapVars, gestures, dragVars
  <2> QED
    BY <2>2, <2>3
<1>10. CASE RightTap
  <2>1. FlagsOK'
    BY <1>10 DEF FlagsOK, RightTap, tapVars, gestures, dragVars
  <2>2. TypeOK'
    BY <2>1, <1>10 DEF RightTap, tapVars, gestures, dragVars
  <2>3. Gestures'
    BY <1>10 DEF FlagsOK, RightTap, tapVars, gestures, dragVars
  <2> QED
    BY <2>2, <2>3
<1>11. CASE UNCHANGED vars
  <2>1. FlagsOK'
    BY <1>11 DEF FlagsOK, vars, tapVars, gestures, dragVars
  <2>2. TypeOK'
    BY <2>1, <1>11 DEF vars, tapVars, gestures, dragVars
  <2>3. Gestures'
    BY <1>11 DEF FlagsOK, vars, tapVars, gestures, dragVars
  <2> QED
    BY <2>2, <2>3
<1> QED
  BY <1>1, <1>2, <1>3, <1>4, <1>5, <1>6, <1>7, <1>8, <1>9, <1>10, <1>11 DEF Next

\* TouchParser.onTouchEvent and GestureHandler.handleMessage: whatever order
\* fingers and late messages come in, the left button is down while a drag or
\* a long press is on.
THEOREM ButtonHeld == Spec => []GestureHolds
  <1>1. GInv => GestureHolds
    BY DEF GInv, Gestures
  <1> QED
    BY <1>1, GInit, GNext, PTL DEF Spec

\* cancelTaps and dispatchLongPress: a long press has one finger, is not half
\* of a double tap and leaves no tap to be confirmed.
THEOREM LongPressAlone == Spec => []LongPressExcludesTaps
  <1>1. GInv => LongPressExcludesTaps
    BY DEF GInv, Gestures
  <1> QED
    BY <1>1, GInit, GNext, PTL DEF Spec

\* The types of the gesture machine (TouchParser.java 92-116).
THEOREM TypeCorrect == Spec => []TypeOK
  <1>1. GInv => TypeOK
    BY DEF GInv
  <1> QED
    BY <1>1, GInit, GNext, PTL DEF Spec

-----------------------------------------------------------------------------
(* Clicks *)

\* A double tap is of one finger, and RIGHT_TAP waits only while two were down.
ClickCauses ==
  /\ mIsDoubleTapping => ~second
  /\ "RIGHT_TAP" \in messages => fingers > 0 /\ second

CInv == ClickCauses /\ ClickFitsGesture

LEMMA CInit == Init => CInv
BY DEF Init, CInv, ClickCauses, ClickFitsGesture

LEMMA CNext == GInv /\ CInv /\ [Next]_vars => CInv'
<1> SUFFICES ASSUME GInv, CInv, [Next]_vars PROVE CInv'
  OBVIOUS
<1>1. /\ mStillDown <=> fingers > 0
      /\ fingers \in Nat /\ mIsDoubleTapping \in BOOLEAN /\ second \in BOOLEAN
  BY TouchAssumption DEF GInv, TypeOK, FlagsOK, Gestures
<1> USE DEF CInv, ClickCauses, ClickFitsGesture
<1>2. ASSUME NEW near \in BOOLEAN, Down(near) PROVE CInv'
  BY <1>1, <1>2 DEF Down
<1>3. CASE PointerDown \/ PointerUp
  BY <1>1, <1>3 DEF PointerDown, PointerUp, gestures
<1>4. CASE MoveFar \/ MoveNear
  BY <1>1, <1>4 DEF MoveFar, MoveNear, gestures
<1>5. CASE Up
  <2>1. "RIGHT_TAP" \notin messages' /\ ~mIsDoubleTapping' /\ second' = second /\ sent' = UpClick
    BY <1>5 DEF Up
  <2>2. /\ UpClick # "click" /\ (UpClick = "doubleClick" => mIsDoubleTapping)
        /\ UpClick = "rightClick" => "RIGHT_TAP" \in messages
    BY DEF UpClick
  <2> QED
    BY <2>1, <2>2
<1>6. CASE Cancel
  BY <1>6 DEF Cancel
<1>7. CASE LongPress \/ RightTap
  BY <1>7 DEF LongPress, RightTap, gestures
<1>8. CASE Tap
  BY <1>1, <1>8 DEF Tap, gestures
<1>9. CASE UNCHANGED vars
  BY <1>9 DEF vars, gestures
<1> QED
  BY <1>2, <1>3, <1>4, <1>5, <1>6, <1>7, <1>8, <1>9 DEF Next

\* A late TAP clicks only when no finger is down, a double click ends a gesture of one
\* finger and a right click one of several (TouchParser.java 138, 366, 383).
THEOREM ClickFits == Spec => []ClickFitsGesture
  <1>1. CInv => ClickFitsGesture
    BY DEF CInv
  <1> QED
    BY <1>1, CInit, CNext, GInit, GNext, PTL DEF Spec

-----------------------------------------------------------------------------
(* What leaves the button down *)

\* Nobody cuts a long press short that is not a drag as well: no second finger,
\* no ACTION_CANCEL.
NotCut == mInLongPress /\ ~mInDrag => ~PointerDown /\ ~Cancel

LEMMA HeldKept == GInv /\ HeldByGesture /\ [Next /\ NotCut]_vars => HeldByGesture'
<1> SUFFICES ASSUME GInv, HeldByGesture, [Next /\ NotCut]_vars, left'
             PROVE mInDrag' \/ mInLongPress'
  BY DEF HeldByGesture
<1>1. /\ mInLongPress => fingers = 1
      /\ mInDrag => mode = "mouse"
      /\ fingers \in Nat
  BY TouchAssumption
     DEF GInv, TypeOK, Gestures, LongPressExcludesTaps, DragInMouseMode
<1>2. left => mInDrag \/ mInLongPress
  BY DEF HeldByGesture
<1>3. CASE Next /\ NotCut
  <2>1. ASSUME NEW near \in BOOLEAN, Down(near) PROVE mInDrag' \/ mInLongPress'
    <3>1. left /\ fingers = 0 /\ (mInDrag' <=> mInDrag)
      BY <2>1 DEF Down, dragVars
    <3>2. ~mInLongPress
      BY <1>1, <3>1
    <3> QED
      BY <1>2, <3>1, <3>2
  <2>2. CASE PointerDown
    <3>1. left /\ ~mInDrag
      BY <2>2 DEF PointerDown, StopDrag
    <3> QED
      BY <1>2, <1>3, <2>2, <3>1 DEF NotCut
  <2>3. CASE PointerUp
    <3>1. left /\ ~mInDrag /\ fingers > 1
      BY <2>3 DEF PointerUp, StopDrag
    <3> QED
      BY <1>1, <1>2, <3>1
  <2>4. CASE MoveFar
    BY <1>2, <2>4 DEF MoveFar, Scroll, StartDrag, gestures, dragVars
  <2>5. CASE MoveNear
    BY <1>2, <2>5 DEF MoveNear, gestures, dragVars
  <2>6. CASE Up
    <3>1. left /\ ~(mode = "mouse" /\ mInDrag) /\ ~mInLongPress
      BY <2>6 DEF Up
    <3> QED
      BY <1>1, <1>2, <3>1
  <2>7. CASE Cancel
    <3>1. left /\ (mInDrag' <=> mInDrag)
      BY <2>7 DEF Cancel, dragVars
    <3> QED
      BY <1>2, <1>3, <2>7, <3>1 DEF NotCut
  <2>8. CASE LongPress
    BY <2>8 DEF LongPress
  <2>9. CASE Tap \/ RightTap
    BY <1>2, <2>9 DEF Tap, RightTap, gestures, dragVars
  <2> QED
    BY <1>3, <2>1, <2>2, <2>3, <2>4, <2>5, <2>6, <2>7, <2>8, <2>9 DEF Next
<1>4. CASE UNCHANGED vars
  BY <1>2, <1>4 DEF vars, gestures, dragVars
<1> QED
  BY <1>3, <1>4

\* cancelTaps and cancel (TouchParser.java 457-478) are the only code that lets a
\* gesture go and the button not: where neither meets a long press, what holds
\* the left button is a gesture that is still on.
THEOREM HeldUnlessCut == Spec /\ [][NotCut]_vars => []HeldByGesture
  <1>1. Init => HeldByGesture
    BY DEF Init, HeldByGesture
  <1>2. [Next]_vars /\ [NotCut]_vars => [Next /\ NotCut]_vars
    OBVIOUS
  <1> QED
    BY <1>1, <1>2, HeldKept, GInit, GNext, PTL DEF Spec
=============================================================================
