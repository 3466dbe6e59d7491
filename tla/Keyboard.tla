------------------------------- MODULE Keyboard -------------------------------
(***************************************************************************)
(* From a key of Android to a key of the client: keyboardKey on the UI     *)
(* thread, the closures it posts, and the layout they are meant for        *)
(* (backend/android/android-app.cpp, backend/android/utils.c).             *)
(*                                                                         *)
(* A keystroke is a code, which belongs to the layout "us", or a character *)
(* that the tables find in some layout.  The UI thread looks at the layout *)
(* the compositor thread has set last, posts a change if that is another   *)
(* one, and posts the key between a press and a release of shift if it     *)
(* needs shift.  The compositor thread runs what is posted in that order   *)
(* (FifoWork).  backend_init is over.  Left out: keys without an event     *)
(* code, the right shift key, a toplevel that changes between clients.     *)
(***************************************************************************)
EXTENDS Naturals, Sequences

CONSTANTS
  Clients,
  Layouts,     \* the layouts of the tables
  Us,          \* "us"
  None,        \* the null pointer; no wl_keyboard; no key
  MaxStrokes   \* bound: keystrokes

ASSUME KeyboardAssumption ==
  /\ Us \in Layouts
  /\ None \notin Layouts \cup Clients
  /\ MaxStrokes \in Nat

VARIABLES
  strokes,    \* keystrokes so far
  posting,    \* the closures keyboardKey has still to post
  queue,      \* the closures posted and not yet run
  layout,     \* xkb_names.layout
  compiling,  \* layout_change_callback is at work
  keymap,     \* the layout of xkb_keymap, or the null pointer
  toplevel,   \* the client of the toplevel
  known,      \* the layout of the keymap each client's wl_keyboard was sent last
  shifted,    \* the clients that hold shift to be pressed
  last,       \* history: how the last key to be pressed was meant and was read
  crashed     \* a null pointer was dereferenced

clientVars == <<toplevel, known, shifted, last>>
vars == <<strokes, posting, queue, layout, compiling, keymap, clientVars, crashed>>

Init ==
  /\ strokes = 0 /\ posting = << >> /\ queue = << >>
  /\ layout = Us /\ compiling = FALSE /\ keymap = Us
  /\ toplevel = None
  /\ known = [c \in Clients |-> None] /\ shifted = {}
  /\ last = None
  /\ crashed = FALSE

-----------------------------------------------------------------------------
(* keyboardKey *)

ToLayout(l)       == [what |-> "layout", layout |-> l]
SendKeymap        == [what |-> "keymap"]
Shift(down)       == [what |-> "shift", down |-> down]
Key(down, stroke) == [what |-> "key", down |-> down, layout |-> stroke.layout,
                      shift |-> stroke.shift]

Closures ==
  [what : {"layout"}, layout : Layouts] \cup [what : {"keymap"}]
    \cup [what : {"shift"}, down : BOOLEAN]
    \cup [what : {"key"}, down : BOOLEAN, layout : Layouts, shift : BOOLEAN]

\* A key's shift is the table's or the one Android says is held.  The shift key
\* says so itself while it goes down, and when it goes up if the other one is held.
CodeStrokes ==
  {s \in [key : {"code", "shift"}, layout : {Us}, shift : BOOLEAN, down : BOOLEAN] :
     s.key = "shift" /\ s.down => s.shift}

\* No table has the name "us".
CharacterStrokes ==
  [key : {"character"}, layout : Layouts \ {Us}, shift : BOOLEAN, down : {FALSE}]

\* Mistake: the release of shift overtakes the key.
KeyAfterShift(stroke) ==
  (IF stroke.shift THEN <<Shift(TRUE), Shift(FALSE)>> ELSE << >>)
    \o (IF stroke.key = "character" THEN <<Key(TRUE, stroke)>> ELSE << >>)
    \o (IF stroke.key = "shift" THEN <<Shift(stroke.down)>> ELSE <<Key(stroke.down, stroke)>>)

\* Mistake: shift is left to the next key.
KeyLeavingShift(stroke) ==
  (IF stroke.shift THEN <<Shift(TRUE)>> ELSE <<Shift(FALSE)>>)
    \o (IF stroke.key = "character" THEN <<Key(TRUE, stroke)>> ELSE << >>)
    \o (IF stroke.key = "shift" THEN <<Shift(stroke.down)>> ELSE <<Key(stroke.down, stroke)>>)

\* A character has no down event of its own: its press is made up for.
KeyInShift(stroke) ==
  (IF stroke.shift THEN <<Shift(TRUE)>> ELSE << >>)
    \o (IF stroke.key = "character" THEN <<Key(TRUE, stroke)>> ELSE << >>)
    \o (IF stroke.key = "shift" THEN <<Shift(stroke.down)>> ELSE <<Key(stroke.down, stroke)>>)
    \o (IF stroke.shift THEN <<Shift(FALSE)>> ELSE << >>)

\* The layout compared is the one set last, whatever change is posted already.
Strike(stroke) ==
  /\ ~crashed /\ posting = << >> /\ strokes < MaxStrokes
  /\ strokes' = strokes + 1
  /\ posting' = (IF stroke.layout # layout THEN <<ToLayout(stroke.layout)>> ELSE << >>)
                  \o KeyInShift(stroke)
  /\ UNCHANGED <<queue, layout, compiling, keymap, clientVars, crashed>>

Post ==
  /\ ~crashed /\ posting # << >>
  /\ queue' = Append(queue, Head(posting)) /\ posting' = Tail(posting)
  /\ UNCHANGED <<strokes, layout, compiling, keymap, clientVars, crashed>>

-----------------------------------------------------------------------------
(* The compositor thread *)

\* The closure at the head of the queue is run.
Running(what) ==
  /\ ~crashed /\ ~compiling
  /\ queue # << >> /\ Head(queue).what = what /\ queue' = Tail(queue)

\* layout_change_callback: the UI thread sees the layout while it is compiled.
ChangeLayout ==
  /\ Running("layout")
  /\ layout' = Head(queue).layout /\ compiling' = TRUE /\ keymap' = None
  /\ UNCHANGED <<strokes, posting, clientVars, crashed>>

\* Mistake: the client is not told.
CompiledUnsent ==
  /\ ~crashed /\ compiling /\ compiling' = FALSE
  /\ keymap' \in {layout, None}
  /\ UNCHANGED <<strokes, posting, queue, layout, clientVars, crashed>>

\* Its end: the keymap is posted for the client, if there is one.
Compiled ==
  /\ ~crashed /\ compiling /\ compiling' = FALSE
  /\ \/ keymap' = layout /\ queue' = Append(queue, SendKeymap)
     \/ UNCHANGED <<keymap, queue>>
  /\ UNCHANGED <<strokes, posting, layout, clientVars, crashed>>

\* keyboard_keymap_changed: only the toplevel's client is told.  There may be no
\* keymap by now.
KeymapChanged ==
  /\ Running("keymap")
  /\ IF toplevel = None \/ known[toplevel] = None THEN UNCHANGED <<known, crashed>>
     ELSE IF keymap = None THEN crashed' = TRUE /\ UNCHANGED known
     ELSE known' = [known EXCEPT ![toplevel] = keymap] /\ UNCHANGED crashed
  /\ UNCHANGED <<strokes, posting, layout, compiling, keymap, toplevel, shifted, last>>

\* keyboard_key of the shift key.
ShiftKey ==
  /\ Running("shift")
  /\ shifted' = IF toplevel = None \/ known[toplevel] = None THEN shifted
                ELSE IF Head(queue).down THEN shifted \cup {toplevel}
                ELSE shifted \ {toplevel}
  /\ UNCHANGED <<strokes, posting, layout, compiling, keymap, toplevel, known, last, crashed>>

\* keyboard_key of another key, which the client reads by the keymap it knows.
OtherKey ==
  /\ Running("key")
  /\ last' = IF toplevel = None \/ known[toplevel] = None \/ ~Head(queue).down THEN last
             ELSE [layout |-> Head(queue).layout, read  |-> known[toplevel],
                   shift  |-> Head(queue).shift,  shifted |-> toplevel \in shifted]
  /\ UNCHANGED <<strokes, posting, layout, compiling, keymap, toplevel, known, shifted, crashed>>

\* request_get_keyboard, the first or a later one: the embedded object takes the new
\* wl_keyboard, which is sent the keymap at once and holds no key.
GetKeyboard(c) ==
  /\ ~crashed /\ ~compiling
  /\ IF keymap = None THEN crashed' = TRUE /\ UNCHANGED known
     ELSE known' = [known EXCEPT ![c] = keymap] /\ UNCHANGED crashed
  /\ shifted' = shifted \ {c}
  /\ UNCHANGED <<strokes, posting, queue, layout, compiling, keymap, toplevel, last>>

\* request_release: the embedded object has no wl_keyboard any more, whichever one
\* was meant.
ReleaseKeyboard(c) ==
  /\ ~crashed /\ ~compiling /\ known[c] # None
  /\ known' = [known EXCEPT ![c] = None] /\ shifted' = shifted \ {c}
  /\ UNCHANGED <<strokes, posting, queue, layout, compiling, keymap, toplevel, last, crashed>>

SetToplevel(c) ==
  /\ ~crashed /\ ~compiling /\ toplevel' = c /\ toplevel # c
  /\ UNCHANGED <<strokes, posting, queue, layout, compiling, keymap, known, shifted, last, crashed>>

-----------------------------------------------------------------------------
Typing ==
  \/ \E stroke \in CodeStrokes \cup CharacterStrokes : Strike(stroke)
  \/ Post
  \/ ChangeLayout \/ Compiled \/ KeymapChanged \/ ShiftKey \/ OtherKey

\* One client has the toplevel before the first key, and keeps it.  It gets a
\* keyboard at any time but in the middle of a key, and releases it at any time.
EarlyToplevel(c) == SetToplevel(c) /\ strokes = 0 /\ toplevel = None

BetweenKeys ==
  posting = << >> /\ \A i \in DOMAIN queue : queue[i].what \in {"layout", "keymap"}

Next ==
  \/ Typing
  \/ \E c \in Clients :
       \/ EarlyToplevel(c) \/ ReleaseKeyboard(c)
       \/ GetKeyboard(c) /\ (BetweenKeys \/ c # toplevel)

Spec == Init /\ [][Next]_vars

-----------------------------------------------------------------------------
TypeOK ==
  /\ strokes \in 0 .. MaxStrokes
  /\ posting \in Seq(Closures) /\ queue \in Seq(Closures)
  /\ layout \in Layouts /\ keymap \in Layouts \cup {None}
  /\ compiling \in BOOLEAN /\ (compiling => keymap = None)
  /\ toplevel \in Clients \cup {None}
  /\ known \in [Clients -> Layouts \cup {None}] /\ shifted \subseteq Clients
  /\ last # None => {last.layout, last.read} \subseteq Layouts
  /\ crashed \in BOOLEAN

\* A key is pressed in the client with shift exactly when it is meant with
\* shift, whatever shift keys are held and whatever is posted in between.
ShiftAsMeant == last # None => last.shifted = last.shift

\* When every key that was struck has been run, the client holds no shift.
ShiftReleased == posting = << >> /\ queue = << >> => shifted = {}

\* When nothing is left to do, the toplevel's client has the keymap of the
\* layout the UI thread goes by, or the layout has none.
KeymapSettles ==
  posting = << >> /\ queue = << >> /\ ~compiling /\ keymap # None
    /\ toplevel # None /\ ~crashed
    => known[toplevel] \in {layout, None}

\* Key 44 of layout ru is a Cyrillic letter (keymaps.h:61): a key is read in the layout
\* whose table it was taken from.
KeyReadAsMeant == last # None => last.read = last.layout
=============================================================================
