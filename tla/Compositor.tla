----------------------------- MODULE Compositor -----------------------------
(***************************************************************************)
(* The compositor's objects and who points at whom: LorieClient, the       *)
(* surfaces with the toplevel and cursor roles, shell surfaces, outputs    *)
(* and the seat's devices (compositor.cpp, client.cpp, seat.cpp,           *)
(* output.cpp, surface.cpp, scanner/wayland-server.hpp).                   *)
(*                                                                         *)
(* A LorieSurface lives at an address and addresses are used again, so the *)
(* role pointers may outlive what they pointed at.  What a step does with  *)
(* a deleted surface is undefined: the steps that follow the role pointers *)
(* are taken only while these point at surfaces (RolesLive).               *)
(***************************************************************************)
EXTENDS Naturals, FiniteSets

CONSTANTS
  Clients,
  Slots,      \* the addresses LorieSurface objects are allocated at
  None,       \* the null pointer
  Devices,    \* "pointer", "keyboard", "touch", or some of them
  Ids,        \* bound: the device resources of a kind a client has at a time
  Outputs,    \* bound: the outputs it has at a time
  Fingers     \* touch points

ASSUME CompositorAssumption ==
  /\ None \notin Clients \cup Slots \cup Ids \cup Outputs
  /\ Devices \subseteq {"pointer", "keyboard", "touch"}

VARIABLES
  connected,        \* clients that have a LorieClient
  owner,            \* the client of the surface at an address, None: no surface
  toplevel, cursor, \* the role pointers (LorieRenderer)
  shells,           \* shell surfaces: <<client, the surface pointer it keeps>>
  outputs,          \* the LorieOutput objects of each client
  output,           \* LorieClient::output
  live,             \* the device resources of each client
  device,           \* the resource in LorieClient::pointer, keyboard, touch
  focus,            \* history: the surface that resource was told it entered
  fingers,          \* fingers on the screen
  down,             \* history: fingers the client's wl_touch knows to be down
  crashed           \* a null pointer was dereferenced

roleVars   == <<toplevel, cursor>>
outputVars == <<outputs, output>>
seatVars   == <<live, device, focus, down>>
vars == <<connected, owner, roleVars, shells, outputVars, seatVars, fingers, crashed>>

NoDevice == [d \in Devices |-> None]

Init ==
  /\ connected = {}
  /\ owner = [s \in Slots |-> None]
  /\ toplevel = None /\ cursor = None
  /\ shells = {}
  /\ outputs = [c \in Clients |-> {}] /\ output = [c \in Clients |-> None]
  /\ live = [c \in Clients |-> [d \in Devices |-> {}]]
  /\ device = [c \in Clients |-> NoDevice]
  /\ focus = [c \in Clients |-> NoDevice]
  /\ down = [c \in Clients |-> {}]
  /\ fingers = {}
  /\ crashed = FALSE

\* The role pointers point at surfaces.
RolesLive ==
  \A s \in {toplevel, cursor} : s # None => owner[s] # None

\* get_toplevel_client
ToplevelClient == IF toplevel = None THEN None ELSE owner[toplevel]

-----------------------------------------------------------------------------
(* Clients *)

Connect(c) ==
  /\ ~crashed /\ c \notin connected
  /\ connected' = connected \cup {c}
  /\ UNCHANGED <<owner, roleVars, shells, outputVars, seatVars, fingers, crashed>>

\* libwayland destroys the resources of a client after LorieClient::destroyed;
\* annihilate deletes their objects and does not call on_destroy.
DestroyResources(c) ==
  /\ connected' = connected \ {c}
  /\ owner' = [s \in Slots |-> IF owner[s] = c THEN None ELSE owner[s]]
  /\ shells' = {sh \in shells : sh[1] # c}
  /\ outputs' = [outputs EXCEPT ![c] = {}] /\ output' = [output EXCEPT ![c] = None]
  /\ live' = [live EXCEPT ![c] = [d \in Devices |-> {}]]
  /\ device' = [device EXCEPT ![c] = NoDevice]
  /\ focus' = [focus EXCEPT ![c] = NoDevice]
  /\ down' = [down EXCEPT ![c] = {}]

\* Mistake: only the toplevel is given up.
GoneKeepingCursor(c) ==
  /\ toplevel' = IF ToplevelClient = c THEN None ELSE toplevel
  /\ cursor' = cursor
  /\ DestroyResources(c)

\* A client goes: LorieClient::destroyed gives up the roles its surfaces have.
Gone(c) ==
  /\ toplevel' = IF ToplevelClient = c THEN None ELSE toplevel
  /\ cursor' = IF cursor # None /\ owner[cursor] = c THEN None ELSE cursor
  /\ DestroyResources(c)

Disconnect(c) ==
  /\ ~crashed /\ c \in connected /\ RolesLive
  /\ Gone(c)
  /\ UNCHANGED <<fingers, crashed>>

-----------------------------------------------------------------------------
(* Surfaces and roles *)

CreateSurface(c, s) ==
  /\ ~crashed /\ c \in connected /\ owner[s] = None
  /\ owner' = [owner EXCEPT ![s] = c]
  /\ UNCHANGED <<connected, roleVars, shells, outputVars, seatVars, fingers, crashed>>

\* wl_surface.destroy deletes the object and touches nothing that points at it.
DestroySurface(s) ==
  /\ ~crashed /\ owner[s] # None
  /\ owner' = [owner EXCEPT ![s] = None]
  /\ UNCHANGED <<connected, roleVars, shells, outputVars, seatVars, fingers, crashed>>

\* Mistake: the two pointers are stored in the wrong order.
GetShellSurfaceSwapped(c, s) ==
  /\ ~crashed /\ owner[s] = c
  /\ shells' = shells \cup {<<s, c>>}
  /\ UNCHANGED <<connected, owner, roleVars, outputVars, seatVars, fingers, crashed>>

GetShellSurface(c, s) ==
  /\ ~crashed /\ owner[s] = c
  /\ shells' = shells \cup {<<c, s>>}
  /\ UNCHANGED <<connected, owner, roleVars, outputVars, seatVars, fingers, crashed>>

\* The devices that are told which surface they enter.
Entering(c) == {d \in Devices \ {"touch"} : device[c][d] # None}

\* Mistake: the devices are not told.
SetToplevelSilently(c, s) ==
  /\ ~crashed /\ RolesLive
  /\ <<c, s>> \in shells /\ owner[s] # None
  /\ toplevel' = s
  /\ UNCHANGED <<connected, owner, cursor, shells, outputVars, seatVars, fingers, crashed>>

\* wl_shell_surface.set_toplevel.  An enter event that names the surface of
\* another client (the address was used again) is refused by libwayland, which
\* disconnects the client.
SetToplevel(c, s) ==
  /\ ~crashed /\ RolesLive
  /\ <<c, s>> \in shells /\ owner[s] # None
  /\ IF owner[s] # c /\ Entering(c) # {}
       THEN /\ toplevel' = s
            /\ cursor' = IF cursor # None /\ owner[cursor] = c THEN None ELSE cursor
            /\ DestroyResources(c)
       ELSE /\ toplevel' = s
            /\ focus' = [focus EXCEPT ![c] = [d \in Devices |->
                           IF d \in Entering(c) THEN s ELSE @[d]]]
            /\ UNCHANGED <<connected, owner, cursor, shells, outputVars, live, device, down>>
  /\ UNCHANGED <<fingers, crashed>>

\* wl_pointer.set_cursor, of any wl_pointer the client has: it is for the embedded
\* object, which ignores it once it was released.
SetCursor(c, s) ==
  /\ ~crashed /\ RolesLive
  /\ "pointer" \in Devices /\ live[c]["pointer"] # {} /\ device[c]["pointer"] # None
  /\ s # None => owner[s] = c
  /\ cursor' = s
  /\ UNCHANGED <<connected, owner, toplevel, shells, outputVars, seatVars, fingers, crashed>>

-----------------------------------------------------------------------------
(* The output *)

\* Mistake: the output the client had already stays.
BindKeepingOld(c, o) ==
  /\ ~crashed /\ c \in connected /\ o \notin outputs[c]
  /\ outputs' = [outputs EXCEPT ![c] = @ \cup {o}]
  /\ output' = [output EXCEPT ![c] = o]
  /\ UNCHANGED <<connected, owner, roleVars, shells, seatVars, fingers, crashed>>

\* LorieOutput::on_create destroys the output the client had.
BindOutput(c, o) ==
  /\ ~crashed /\ c \in connected /\ o \notin outputs[c]
  /\ outputs' = [outputs EXCEPT ![c] = (@ \ {output[c]}) \cup {o}]
  /\ output' = [output EXCEPT ![c] = o]
  /\ UNCHANGED <<connected, owner, roleVars, shells, seatVars, fingers, crashed>>

\* Mistake: on_destroy leaves the client's pointer.
ReleaseKeepingPointer(c, o) ==
  /\ ~crashed /\ o \in outputs[c]
  /\ outputs' = [outputs EXCEPT ![c] = @ \ {o}]
  /\ UNCHANGED <<connected, owner, output, roleVars, shells, seatVars, fingers, crashed>>

ReleaseOutput(c, o) ==
  /\ ~crashed /\ o \in outputs[c]
  /\ outputs' = [outputs EXCEPT ![c] = @ \ {o}]
  /\ output' = [output EXCEPT ![c] = IF @ = o THEN None ELSE @]
  /\ UNCHANGED <<connected, owner, roleVars, shells, seatVars, fingers, crashed>>

\* LorieRenderer::resize reports the new mode through the toplevel client's
\* output, whether it has one or not.
Resize ==
  /\ ~crashed /\ RolesLive /\ ToplevelClient # None
  /\ crashed' = (output[ToplevelClient] = None)
  /\ UNCHANGED <<connected, owner, roleVars, shells, outputVars, seatVars, fingers>>

-----------------------------------------------------------------------------
(* The seat's devices *)

\* get_pointer, get_keyboard, get_touch: the one embedded object takes the new
\* resource, and on_create tells it the toplevel; one of another client's
\* surfaces gets the client disconnected.
GetDevice(c, d, id) ==
  /\ ~crashed /\ c \in connected /\ id \notin live[c][d] /\ RolesLive
  /\ IF d # "touch" /\ ToplevelClient \notin {None, c}
       THEN Gone(c)
       ELSE /\ live' = [live EXCEPT ![c][d] = @ \cup {id}]
            /\ device' = [device EXCEPT ![c][d] = id]
            /\ focus' = [focus EXCEPT ![c][d] = IF d = "touch" THEN None ELSE toplevel]
            /\ down' = [down EXCEPT ![c] = IF d = "touch" THEN {} ELSE @]
            /\ UNCHANGED <<connected, owner, roleVars, shells, outputVars>>
  /\ UNCHANGED <<fingers, crashed>>

\* release, asked of any of the client's resources, destroys the one the
\* embedded object holds, if it holds one.
ReleaseDevice(c, d, id) ==
  /\ ~crashed /\ id \in live[c][d]
  /\ live' = [live EXCEPT ![c][d] = @ \ {device[c][d]}]
  /\ device' = [device EXCEPT ![c][d] = None]
  /\ focus' = [focus EXCEPT ![c][d] = None]
  /\ down' = [down EXCEPT ![c] = IF d = "touch" THEN {} ELSE @]
  /\ UNCHANGED <<connected, owner, roleVars, shells, outputVars, fingers, crashed>>

\* The client a touch event is sent to.
TouchTarget ==
  IF "touch" \in Devices /\ ToplevelClient # None
    THEN {c \in {ToplevelClient} : device[c]["touch"] # None} ELSE {}

TouchDown(f) ==
  /\ ~crashed /\ f \notin fingers /\ RolesLive
  /\ fingers' = fingers \cup {f}
  /\ down' = [c \in Clients |-> IF c \in TouchTarget THEN down[c] \cup {f} ELSE down[c]]
  /\ UNCHANGED <<connected, owner, roleVars, shells, outputVars, live, device, focus, crashed>>

\* Mistake: the up event is for the client whose cursor is shown.
TouchUpToCursor(f) ==
  /\ ~crashed /\ f \in fingers /\ RolesLive
  /\ fingers' = fingers \ {f}
  /\ down' = [c \in Clients |-> IF cursor # None /\ owner[cursor] = c THEN down[c] \ {f} ELSE down[c]]
  /\ UNCHANGED <<connected, owner, roleVars, shells, outputVars, live, device, focus, crashed>>

TouchUp(f) ==
  /\ ~crashed /\ f \in fingers /\ RolesLive
  /\ fingers' = fingers \ {f}
  /\ down' = [c \in Clients |-> IF c \in TouchTarget THEN down[c] \ {f} ELSE down[c]]
  /\ UNCHANGED <<connected, owner, roleVars, shells, outputVars, live, device, focus, crashed>>

-----------------------------------------------------------------------------
\* What clients and the user may do besides destroying surfaces.
Step ==
  \/ \E c \in Clients : Connect(c) \/ Disconnect(c)
  \/ \E c \in Clients, s \in Slots :
       CreateSurface(c, s) \/ GetShellSurface(c, s) \/ SetToplevel(c, s)
  \/ \E c \in Clients, s \in Slots \cup {None} : SetCursor(c, s)
  \/ \E c \in Clients, o \in Outputs : BindOutput(c, o) \/ ReleaseOutput(c, o)
  \/ \E c \in Clients, d \in Devices, id \in Ids : GetDevice(c, d, id) \/ ReleaseDevice(c, d, id)
  \/ \E f \in Fingers : TouchDown(f) \/ TouchUp(f)
  \/ Resize

Next == Step \/ \E s \in Slots : DestroySurface(s)

Spec == Init /\ [][Next]_vars

\* A client that destroys a surface only if it has no role and no shell surface.
TidyDestroy(s) ==
  /\ DestroySurface(s)
  /\ s \notin {toplevel, cursor} /\ \A sh \in shells : sh[2] # s

TidyNext == Step \/ \E s \in Slots : TidyDestroy(s)

TidySpec == Init /\ [][TidyNext]_vars

-----------------------------------------------------------------------------
TypeOK ==
  /\ connected \subseteq Clients
  /\ owner \in [Slots -> Clients \cup {None}]
  /\ toplevel \in Slots \cup {None} /\ cursor \in Slots \cup {None}
  /\ shells \subseteq Clients \X Slots
  /\ outputs \in [Clients -> SUBSET Outputs] /\ output \in [Clients -> Outputs \cup {None}]
  /\ live \in [Clients -> [Devices -> SUBSET Ids]]
  /\ device \in [Clients -> [Devices -> Ids \cup {None}]]
  /\ focus \in [Clients -> [Devices -> Slots \cup {None}]]
  /\ down \in [Clients -> SUBSET Fingers] /\ fingers \subseteq Fingers
  /\ crashed \in BOOLEAN

\* LorieClient::output points at the client's one output, or at none when it
\* has none, whatever it binds and releases.
OutputPointerLive ==
  \A c \in Clients : outputs[c] = {output[c]} \ {None}

\* Key and pointer events go to a resource that was told it entered the surface
\* they are for: the toplevel client's devices have entered the toplevel.
FocusOnToplevel ==
  ToplevelClient # None =>
    \A d \in Entering(ToplevelClient) : focus[ToplevelClient][d] = toplevel

\* "For each contact, a series of events is generated, starting with a down
\* event ... and ending with an up event" (wayland.xml 2217-2219): a client knows
\* no finger to be down that has left the screen.
ContactsEnd == \A c \in Clients : down[c] \subseteq fingers

\* That is broken (touch_up, compositor.cpp 116), but only for a client that has not
\* the toplevel when the finger leaves: the one that has it is told of every finger
\* it knows of, through roles, devices and clients that come and go.
ContactsLostElsewhere ==
  [][\A c \in Clients :
       down[c] \subseteq fingers /\ ~(down'[c] \subseteq fingers') => ToplevelClient # c]_vars
=============================================================================
