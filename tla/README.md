# A formal model of VRCode

VRCode is an Android application that runs a Linux desktop.  It carries a small
Wayland compositor ("Lorie", C++ under `src/app/src/main/jni/lorie/`), the Java
and Kotlin code that feeds it windows, touches and keys
(`src/app/src/main/java/top/vrcode/app/`), and an installer for the Termux
packages the desktop needs.  This directory holds TLA+ modules of the parts in
which order, failure and shared state matter, the TLC configurations that check
them, and proofs of the main results for any size of the system.

`J/` stands below for `src/app/src/main/java/top/vrcode/app/`, `L/` for
`src/app/src/main/jni/lorie/`, `X/` for
`src/app/src/main/jni/libxkbcommon/xkbcommon/src/`.

## 1. The system

### Threads and how the parts meet

* The **UI thread** of the application runs the activities, the service, the
  gesture parser and the handler's delayed messages.  It calls the compositor
  through JNI functions (`L/backend/android/android-app.cpp` 186-364), which
  wrap each call in a closure and *post* it.
* The **compositor thread** (`LorieCompositor::start`) runs libwayland's event
  loop: requests of the clients, posted closures (through an eventfd) and idle
  callbacks (redraws).  Everything in the compositor is touched by this thread
  only, except the queue of closures and `xkb_names.layout`.
* **Wayland clients** (Xwayland, mostly) send requests in any order, share the
  memory of their buffers with the compositor and may disconnect at any time.
* **Installer threads**, one per attempt, unpack the bootstrap packages.
* **Android** takes windows away, recreates activities and kills the process;
  the **GL driver** fails calls and loses contexts.

### Components

| component | state | operations | what is hard | correct when | module |
|---|---|---|---|---|---|
| Message queue `L/message-queue.cpp` | mutex, eventfd, queue | write, run; posts from JNI and from closures; terminate | the mutex is released around each closure; a blocking read under the mutex; posts that race the end of run | nothing slept over, nothing blocks, run in order, terminate returns | `MessageQueue`, `FifoWork` |
| Surfaces and renderer `L/surface.cpp`, `L/renderer.cpp` | textures, roles, pending idle source, ready | attach, damage, frame, commit, roles, redraw, init | redraws are deferred; init() forgets idle sources; names are deleted with and without a context | no redraw lost, names own and alive, one answer per frame callback, a released buffer not read | `Renderer`, `SurfaceProtocol` |
| EGL window and context `L/egl-helper.cpp` | win, sfc, ctx | init, setWindow, swap | any call fails half-way; swap and setWindow call each other; lost contexts | one surface, of the window noted; calls return | `EglHelper`, `DrawTarget` |
| Compositor objects and seat `L/compositor.cpp`, `client.cpp`, `seat.cpp`, `output.cpp` | clients, role pointers, embedded devices, outputs | bind, roles, devices, destruction, input | pointers to objects whose life the client decides; devices and roles in either order | pointers live; input goes to what was entered; contacts end | `Compositor` |
| libxkbcommon, as `jni/Android.mk` compiles it: `X/state.c`, `X/xkbcomp/keycodes.c` | filters, counts and masks of the keys held; the key names gathered so far | xkb_state_update_key; one statement, include or merge of a keycodes section | every filter answers every event, and what they answer is shared; names are moved between keycodes in four merge modes | base modifiers are those of the keys down; latches can be got rid of; a name is one key's | `XkbState`, `XkbKeycodes` |
| Keyboard layouts and keymaps `android-app.cpp` 129-166, 296-364 | layout, keymap, each client's keymap | keyboardKey, layout change, keymap delivery | the UI thread reads what the other thread writes; closures posted by closures go to the end | shift as meant and let go; the client's keymap is the layout's | `Keyboard` |
| Touch gestures `J/TouchParser.java` | drag, long press, tap flags, delayed messages | touch events, handler messages | messages are late; fingers come and go | a gesture holds the button while it is on; the click fits | `TouchParser` |
| Bootstrap installer `J/utils/TermuxInstaller.java` | the disk | one attempt, its retries | kills and failures between file operations; two attempts | $PREFIX holds nothing or everything | `TermuxInstaller`, `InstallOnce` |
| Service and activities `J/LorieService.kt`, `MainActivity.kt`, `InitActivity.kt` | statics, the native handle | onCreate, onStartCommand, setListeners, terminate | redelivered intents in a new process, an activity recreated while its stop intent is queued | no callback without its activity; one thread | not modelled (section 6) |
| Scripts `J/utils/Utils.kt`, terminal dialog | script files | BashScript | a half-written script is cached for ever | the script run is the script written | not modelled (section 6) |
| Preferences, screens, additional keyboard view, clipboard, logger | none that outlives a screen | | | | not modelled |
| X11 backend, scanner, generated protocol, the rest of libxkbcommon, libwayland | | | | | not modelled: not part of the Android build, generated, tables, or a prebuilt binary |

`PROJECT.json` lists the components with what each model leaves out, and the
hazards, each at its line with the properties that would show it going wrong.

## 2. The modules and the code

Every action is a handler or the code between two points where another actor can
interfere.  History variables (marked `history` where they are declared) are only
read by properties.  Operators called "Mistake" are variants of the definition
that follows them which a plausible bug would produce; no specification uses
them, and each makes a named property fail.

**FifoWork** is the abstract promise of the queue: work accepted in some order is
started in that order, each piece once.

**MessageQueue** has one action per line of `write` (lock, push, write to the
eventfd, unlock) and of `run` (lock, read, pop, call, relock, return), threads
with a program counter, the closures that post others (`FollowUp`: window →
resize → redraw, layout → keymap), the failure of eventfd(), termination and the
join.  `Abstract` maps it to FifoWork: accepted is what was popped followed by
the queue.

**Renderer** has the wl_surface requests, the textures with their GL names, the
idle source and the pointer to it, roles and the cursor.  Windows are reduced to
whether a context is current.  **SurfaceProtocol** adds one history, the buffers
the client was told it may use again, and states the protocol's promise on it.

**EglHelper** is the inside of the steps Renderer takes in one: setWindow, swap,
the renderer's init and redraw as a stack of calls, a step per EGL call, each of
which may fail.  Textures and programs are reduced to the context they belong to.

**DrawTarget** is where the two meet: of the window, its context and the
renderer's readiness, the steps that a caller of the helper can see.  EglHelper
implements it by calls that fail half-way, Renderer takes no other steps, so what
Renderer assumes of its window is what the helper does.

**Compositor** has the objects at addresses that are used again, the two role
pointers, shell surfaces, outputs, the device resources, what each device has
entered, and touch contacts.  What libwayland does when a client goes (the
destroy listener first, then the resources) is the order of `Gone` and
`DestroyResources`.  `TidySpec` is the part of the behaviour in which clients
destroy a surface only after it lost its role and its shell surface; `Spec` is
all of it.

**Keyboard** has keyboardKey as one step that reads the layout, then a step per
closure posted; layout_change_callback in two steps, because the UI thread reads
the layout in between; and, of each client, the keymap it was sent last and
whether it holds shift to be down.  A client asks for a keyboard at any time,
also for a second one, and releases it at any time; only the toplevel's client does
not ask for one in the middle of a key.  It relies on the order FifoWork states.  One
client has the toplevel throughout.

**XkbState** is xkb_state_update_key.  A key that goes down leaves a filter, and
every filter sees every later event in the order of its slots, so a step of the
model is one filter's answer to the event at work (modSet, modLatch, modLock,
groupSet, groupLock, each as its function in state.c), and `Finish` is what the
function does after the loop: counting the modifiers collected and deriving the
effective state.  The keymap is a constant: of each key its groups, of each group
its levels and actions.  In the Android program the state machine runs in the
clients, which get the keymap this library wrote; `L/backend/x11/x11.cpp` 102-113
calls it itself, in the build for the desktop.

**XkbKeycodes** is the keycodes section of a keymap as it is compiled: a stack of
the name tables at work (the file, the include statement in it, the file that is
included), one action per statement, and one per key, alias table and indicator
of a merge.  A file is any sequence of statements, so the model covers every file
up to its bounds.

**MCKeyPath** puts Keyboard, XkbKeycodes and XkbState into one run.  They have no
variable in common, and none reads what another writes; each is explored while
the other two rest in their initial states.  Every behaviour of one of them is
thus a behaviour of the run, and nothing is claimed of their steps in turn.

**TouchParser** has one action per case of onTouchEvent and per message of the
handler, in mouse and touchpad mode.  A message may be handled at any time after
it was sent: the delays are not modelled, because the UI thread may be late.
Positions are reduced to whether the finger is still in the tap region.

**TermuxInstaller** has the steps of the installer's thread in their order
(`Following`), with entries and links one by one, open files that follow a
renamed directory, failures after any step, the error dialog with its two
buttons, and kills that keep only the disk.  **InstallOnce** is what that
promises the application: $PREFIX becomes whole in one step, no retry and no kill
takes it away again, and an attempt is done only when it found or made it whole.

`MC*` modules only give TLC what a .cfg cannot say.

### Abstractions

Coordinates, serials, time stamps, pixel formats, log messages and layout are
left out everywhere.  A buffer is a value whose contents do not matter; a
closure is its kind and its poster; a zip is two sets.

## 3. What TLC checks

Each run finishes in at most two minutes on two cores.

| run | module, bounds | what it shows |
|---|---|---|
| `message_queue` | MessageQueue: 2 callers, 2 posts each, windows (three closures in a row) and terminate | mutual exclusion, no self-deadlock, the read never blocks, no lost wakeup, joined means ran, refinement of FifoWork, what is posted is run, terminate returns |
| `renderer` | Renderer: 2 surfaces, 1 buffer, 3 names, 1 window change, 1 frame callback | redraws are scheduled and happen, valid textures own live names, one answer per callback |
| `egl_helper` | EglHelper: 2 windows, 3 contexts, 3 failures | one EGL surface, of the window noted, and it is what is current; names of the current context unless one was lost; the calls return; refinement of DrawTarget |
| `compositor_roles` | Compositor: 2 clients, 3 addresses, pointer and touch, 2 device resources, 2 outputs, 1 finger | role pointers live, devices have entered the toplevel, the output pointer follows, a client with the toplevel is told of the end of its touches |
| `keyboard_steady` | MCKeyPath. Keyboard: 2 clients, 2 layouts, 3 keystrokes. XkbKeycodes: 2 names, 2 keycodes, 2 indicators, 4 statements, files one deep. XkbState: 6 keys, 2 of them down at once, one on two keyboards | shift is as meant and let go after each stroke, the keymap settles on the layout; a name is one key's, an override has the last word, an augment takes nothing; the base modifiers are those of the keys down, latches can be broken, locks go only with their keys |
| `touch_safe` | TouchParser: 3 fingers | the button is held during a gesture, long press excludes taps, clicks fit |
| `installer_safe` | TermuxInstaller: 3 entries, 2 links, 4 failures or kills, 1 attempt at a time | $PREFIX whole or empty, restart only when whole, no inherited errors; refinement of InstallOnce |

The other five runs end in a counterexample; section 5 tells them.

### Bounds, and why they are enough

* *MessageQueue*: the hazards need one thread in write, one in run and a closure
  that posts.  Two callers give every pair of them and two posts each let a
  caller post behind its own.  Layout changes follow up in the same way as
  windows do and are left to the proofs, which cover every kind.
* *Renderer*: a name can only be taken by *another* surface, so two are needed.
  Three names run out soon; a step that could want a name is not taken without
  two free ones (`NamesLeft`), and RedrawHappens says so.  One window change is
  enough because a swap that fails loses the context and a later one brings it
  back.  The two safety properties are proved for any bounds.
* *EglHelper*: three failures reach every pair of failures in nested calls and a
  third after them.  That contexts run out is eglCreateContext failing.
* *Compositor*: three addresses for toplevel, cursor and one used again by
  another client; pointer and keyboard are alike, so that the one stands for both.
  While a client has a wl_touch it has only one, and there are at most two surfaces
  (`FewTouches`): a contact is passed on by two toplevels, and the third surface is
  for the roles, which touch has no part in.
* *Keyboard*: three keystrokes, each up to five closures: the layout, there, back
  and there again.
* *XkbKeycodes*: a name can only be lost to another keycode, or a keycode's to
  another name: two of each.  Four statements give an include and three others,
  or an include of a file that names two keys; one file inside another reaches
  every merge, and a deeper one merges in the same way.
* *XkbState*: the keymap has a modifier set on two keyboards, a lock with and
  without Shift, latches of two modifiers, both kinds of group actions and a
  letter, which breaks latches.  Filters outlast their keys, so that two keys
  down at a time still give any number of earlier ones a part.  A third is left
  to the proofs, which cover any keymap and any number of keys.
* *TouchParser* is finite but for the fingers; the third finger does what the
  second did.
* *TermuxInstaller*: an attempt, a failing retry, a kill and another attempt.

### Fairness

Only what the code's scheduling gives.  The compositor thread takes its next
step when it can, and so does a caller in write or join; the mutex is not fair,
but there are finitely many posts.  libwayland runs idle sources on every turn of
its loop (`WF(IdleDraw)`).  A thread that is inside EGL calls goes on
(`WF(Step)`); that these return is only claimed for a driver that stops failing,
which the bound on failures expresses.  No client is assumed to do anything.

`CHECK_DEADLOCK FALSE` is used where the system may stop: a terminated loop, a
crash, or bounds on keystrokes, posts and names.

## 4. What is proved

The eight `*Proofs` modules hold 48 theorems checked by TLAPS; they assume only the `ASSUME`s
of the modules, which TLC evaluates in the runs.

* **MessageQueueProofs** — `TypeCorrect`, `QueueAccess`, `SelfDeadlockFree`,
  `ReadReady`, `WakeupKept`, `Refinement`.  The inductive invariant adds to the
  types: the owner of the mutex is exactly the thread at a pc that holds it
  (`MutexInv`); when run is about to read, the counter is positive already while
  it waits for the mutex (`ReadInv`; nobody else reads); a queue that is not
  empty has a wakeup also on the way into run (`WakeupInv`).  The refinement
  needs that closures are distinct: each carries its poster and number, and those
  pushed have numbers below the poster's next one (`PostInv`).  `JoinWaits`, that
  terminate returns only when its caller's posts have run, needs four facts more:
  closures of one thread are popped, and wait, in the order of their numbers
  (`OrderInv`); what was pushed is in one of the sequences (`KeptInv`); a thread
  that has terminate in its hand is the only one and posts nothing after it
  (`HandInv`); and the loop ends only by a terminate that was popped and that
  thread still holds (`StopInv`).  `RunInOrder`, that a closure runs after all its
  thread posted before it, comes from `OrderInv` and `KeptInv`.
* **RendererProofs** — `RedrawNotLost`, which is inductive together with its two
  conjuncts, and `TexturesLive`.  The latter needs that *every* name a texture
  holds is in use and held once, valid or not, which lemmas carry through
  uninit, attach, and the two draws of a redraw.  `FramesAnsweredOnce`: a callback
  that waits does so with one surface, is not newer than the last one asked for,
  and was not answered.  `TypeCorrect`.
  `WindowIsDrawTarget`: the renderer's steps are DrawTarget's.
* **EglHelperProofs** — `SurfaceNeverLost`, `SurfaceFitsWindow`.  The invariant
  says that only `init` waits below the innermost call, so that a return never
  lands in the middle of setWindow, and at each point of setWindow what is
  current and which surface exists: none at "create", sfc and not current at
  "destroy" and "bind".  `NamesFitContext`: program and texture belong to ctx or to
  a lost context, and only to lost ones while the current context is lost, since
  every context is lost with it; so the next one to be bound finds no stale name
  that still works.  `TypeCorrect`.  `Refinement`, of DrawTarget, needs of the
  same invariant that what is current has a surface and a surface has a window.
* **CompositorProofs** — `TypeCorrect` and `OutputPointer` for clients that do as
  they like (`Spec`); `RolesStayLive` and `FocusFollowsToplevel` under TidySpec,
  which need that shell surfaces keep surfaces that exist, of the same client.
  `ContactsEndUnlessTaken`, under TidySpec: as long as no client takes the toplevel
  from another one while a finger is down (`NotTaken`), every finger a client knows
  of is on the screen.  A client that knows of one is then the toplevel's and has a
  touch device, so that the up event goes to it (`ContactsReachable`).  Without
  NotTaken TLC refutes it (section 5): the theorem says that this is the only cause.
  `ContactsLost` says it of each step and with no assumption on the clients: whoever
  is left with such a contact has not the toplevel when the finger leaves.
* **TouchParserProofs** — `ButtonHeld`, `LongPressAlone`.  A TAP message waiting
  during a drag finds the finger still down (`TapWhileDown`), drags happen in
  mouse mode, and a LONG_PRESS message waits only for a gesture that can become
  one.  `ClickFits` needs what the flags say of the fingers that are down and of
  the messages that still wait.  `TypeCorrect`.
  `HeldUnlessCut`: the button stays down without a gesture (section 5) for two
  causes only, a second finger or an ACTION_CANCEL during a long press that is no
  drag (`NotCut` excludes both).
* **KeyPathProofs**, keycodes — `KeycodesTypeCorrect`, `KeyNamesStaySound`,
  `OverrideHasLastWord`, `AugmentTakesNothing`.  A table is sound if no two keycodes
  have a name and every keycode with a name is between min and max, where
  FindKeyByName looks; each way to add a name keeps that, and so does each step
  of a merge, because the table that is merged is sound too.
* **KeyPathProofs**, keyboard — `KeyboardTypeCorrect`, `ShiftMeant`, `ShiftLetGo`,
  `KeymapArrives`, for any clients, layouts and strokes.  A sequence of closures is
  read as a machine of its own (`Runs(s, a, b)`: run from shift state a, every key
  in s is pressed as meant, and shift ends as b); lemmas say what it does to a head,
  an append and a concatenation.  The invariant is that the closures waiting, then
  those still to be posted, run from what the toplevel's client holds to "up"
  (`ShiftInv`), that nobody else holds shift (`HeldInToplevel`), that before the
  first stroke nothing waits (`BeforeKeys`), and that a keymap the client has not got
  still has its closure in the queue (`KeymapSent`).
* **KeyPathProofs**, together — `PathImplementsParts`: a behaviour of MCKeyPath is
  one of each of the three machines, so all that is proved of one holds in the run;
  `KeyPathTypes` is the first use of it.
* **XkbStateProofs** — `StateTypeCorrect` and `LatchesCanBreak` for any keymap;
  `LocksStay` and `HeldKeysCount` for keymaps whose latches are plain
  (`PlainLatches`: a key that latches has that action at every level, it does not
  latch to a lock, and it is on one keyboard).  The count is right *between*
  events; the invariant (`CInv`) says what is right during one: which filters have
  been told, that a key has one filter at most for the stroke it is in, that of
  latches alike no two wait and at most one is in its first stroke, and that the
  count of a modifier is the number of filters that hold it, plus one if it is
  collected to be cleared, less one if it is collected to be set (`Counts`).
  Without PlainLatches the theorems are false; section 5 has the sequence.
* **TermuxInstallerProofs** — `TypeCorrect` for any number of attempts;
  `NeverBroken`, `DoneInstalled`, `NoInheritedErrors` for one attempt at a time
  (`OneAttempt`).  Until the rename $PREFIX is empty, staging starts clean, and
  what the attempt has no longer to do is whole in staging.  `Refinement`, of
  InstallOnce, from the same invariant: the rename is `Install`, and every other step
  leaves $PREFIX to a later start as it was.

Only model-checked: liveness (`PostedIsRun`, `TerminateReturns`, `RedrawHappens`,
`CallsReturn`), which is out of the prover's reach.  Every other property of a
passing run is a theorem.  The converse does not hold: the types of EglHelper,
TouchParser and the keyboard's machines, `RunInOrder`, `DoneInstalled` (which
InstallOnce implies) and `HeldUnlessCut` are proved and no run is spent on them.

## 5. Where code and documents part

Each is a run that ends in a counterexample; `PROJECT.json` quotes the lines.

* `protocol_released_not_read` — request_commit releases the buffer at once; the
  redraw that uploads it comes later (`L/surface.cpp` 34, `L/renderer.cpp` 326).
* `objects_roles_live` — a client that destroys the surface of the toplevel or
  the cursor leaves the role pointer at freed memory.
* `keyboard_key_read_as_meant` — the keymap of a new layout is posted behind the
  key it was needed for, so the client reads the first key by the old one.  (The
  layout compared is also the one applied last, not the one posted last.)
* `touch_held_by_gesture` — a second finger after a long press: the long press is
  cancelled and the left button stays down.
* `installer_two` — a recreated activity can start a second attempt, which clears
  the directory the first is filling; the first installs what is left.

* A touch that does not end (not a run; give `ContactsEnd` to TLC as an invariant of
  TidySpec, and Devices "touch").  Another client's surface becomes the toplevel
  between a finger's down and its up: the up goes to the new toplevel's client
  (`L/compositor.cpp` 116-122), and the one that got the down waits for ever, where
  `L/scanner/protocol/wayland.xml` 2217-2219 ends each contact with an up event.
* A latch that becomes a lock (not a run: it needs a keymap the application does
  not ship, though libxkbcommon's test data have such keymaps, `test/data/compat/basic`
  line 13 and `iso9995` line 11).  With a key that latches Shift with clearLocks and latchToLock: the key
  down and up latches; down again makes the filter a lock (`X/state.c` 458) that
  has set no base modifier and whose priv, taken for the modifiers to unlock, is
  still LATCH_PENDING, the mask of Lock (399-401); Shift goes down; the first key
  goes up.  The lock filter clears Shift, so its count is 0 and the base modifier
  goes while Shift is held, which the comment at 108-113 excludes; and Lock is
  unlocked in the place of Shift.  TLC finds this once the
  key level2 of MCKeyPath has latchToLock and the assumption PlainLatches is dropped.

What the models show beyond these, without a line of the repository to hold it
against, is in the notes of the hazards: null dereferences (`crashed`), GL names
and contexts that leak, a window forgotten when its predecessor cannot be
released, a lost context whose replacement is never made current.  Some properties excuse such a
case by name and claim nothing about it: PostedIsRun an eventfd that could not be
created, NamesOfContext a lost context, ContactsLostElsewhere a toplevel that changed,
KeymapSettles a layout that did not compile.

## 6. Not modelled

* *Service and activities*: what could go wrong in their life (a START intent
  redelivered to a new process, where LorieService dereferences `act`, which is
  null; a service on its way out that isServiceRunningInForeground still reports)
  depends on how Android redelivers intents and how long it keeps the record of a
  killed service.  None of that is in the repository, and a model of it would be
  a model of Android.  The one step that meets the compositor, terminate, is in
  MessageQueue.
* *Scripts*: BashScript writes a file unless there is one of its name; a write cut
  short stays.  It is listed as a hazard and has no further state.
* `LorieEGLHelper::uninit`, `TermuxInstaller.setupStorageSymlinks`,
  `keyboard_key_modifiers`: nobody calls them.
* Direct mode and the hardware mouse of TouchParser: the first forwards, the
  second compares two masks.  setMode is taken before the view gets events; the
  service also calls it when a preference changes (`J/LorieService.kt` 434), and a
  change in the middle of a drag would leave the button down.
* Regions, data devices and the clipboard: their requests do nothing.  A shell
  surface that outlives its surface, surfaceDestroyed after the service is gone
  and a buffer the client has destroyed are not covered either.
* A keyboard used before backend_init has run, keys the tables do not have, the
  right shift key.
* Of libxkbcommon: LEDs, xkb_state_update_mask and the queries; symbols, types and
  compat sections, rules, the parser, the writer of keymaps, and the tables of
  keysyms.  Things seen there and not checked: a key that sets the group and is
  released after another one leaves the base group displaced;
  XkbWrapGroupIntoRange gives num_groups, one too many, for a negative multiple of
  it; an alias's own merge mode is not kept; AddLedName under replace keeps the
  old index although it logs that it uses the new one; files that include each
  other are read until the stack ends.
* The X11 backend and libwayland: not in the Android build, and a prebuilt binary.
  Compositor has what the code relies on in libwayland.

The models stand for a few hundred lines of control each; by far most of the
repository's lines are keysym tables, generated parsers and protocol headers
(with a second, prebuilt copy of some), which hold data and no behaviour.

## 7. Plan

Order: what every other part stands on came first.

1. Done: MessageQueue; Renderer, SurfaceProtocol; Compositor; TouchParser;
   TermuxInstaller; EglHelper; Keyboard; XkbState; XkbKeycodes; the abstractions
   FifoWork, DrawTarget, InstallOnce; the proofs of all of them.
2. Model next: a toplevel that changes between keystrokes (the new client never
   gets the keymap), over Compositor and Keyboard together; the symbols section of
   a keymap, whose merges are those of XkbKeycodes with groups and levels.
3. Prove next: the results of 2.
