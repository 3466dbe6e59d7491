--------------------------- MODULE CompositorProofs ---------------------------
(***************************************************************************)
(* Proofs about Compositor for any clients, surfaces and devices: clients  *)
(* that destroy only surfaces without a role never make a role pointer     *)
(* dangle, whatever connects, disconnects and changes roles in between;    *)
(* and input goes to devices that entered the surface it is for.           *)
(***************************************************************************)
EXTENDS Compositor, TLAPS

\* The types the proofs need.
Types ==
  /\ owner \in [Slots -> Clients \cup {None}]
  /\ toplevel \in Slots \cup {None} /\ cursor \in Slots \cup {None}
  /\ device \in [Clients -> [Devices -> Ids \cup {None}]]
  /\ focus \in [Clients -> [Devices -> Slots \cup {None}]]
  /\ shells \subseteq Clients \X Slots
  /\ outputs \in [Clients -> SUBSET Outputs] /\ output \in [Clients -> Outputs \cup {None}]

\* A shell surface points at a surface of its client.
ShellSurfaceHasSurface == \A sh \in shells : owner[sh[2]] = sh[1]

\* Shell surfaces matter to the focus: their client is told it entered the
\* surface they point at, so that has to be its own.
Inv ==
  Types /\ RolesLive /\ ShellSurfaceHasSurface /\ FocusOnToplevel /\ OutputPointerLive

LEMMA InitInv == Init => Inv
  <1> SUFFICES ASSUME Init PROVE Inv
    OBVIOUS
  <1>1. Types
    BY CompositorAssumption DEF Init, Types, NoDevice
  <1>2. RolesLive /\ FocusOnToplevel /\ ShellSurfaceHasSurface
    BY DEF Init, RolesLive, FocusOnToplevel, ToplevelClient, ShellSurfaceHasSurface
  <1>3. OutputPointerLive
    BY DEF Init, OutputPointerLive
  <1>. QED BY <1>1, <1>2, <1>3 DEF Inv

\* Steps that leave the pointers and what they point at alone.
LEMMA SameRoles ==
  ASSUME Inv, UNCHANGED <<owner, roleVars, device, focus>>,
         Types', OutputPointerLive', ShellSurfaceHasSurface'
  PROVE  Inv'
  <1>1. RolesLive'
    BY DEF Inv, RolesLive, roleVars
  <1>2. FocusOnToplevel'
    BY DEF Inv, FocusOnToplevel, ToplevelClient, Entering, roleVars
  <1>. QED BY <1>1, <1>2 DEF Inv

\* A client that goes takes its surfaces, and the roles they have, along.
LEMMA GoneInv ==
  ASSUME Inv, NEW c \in Clients, Gone(c)
  PROVE  Inv'
  <1>1. Types'
    BY CompositorAssumption DEF Inv, Types, Gone, DestroyResources, NoDevice
  <1>2. \A s \in Slots : owner'[s] = IF owner[s] = c THEN None ELSE owner[s]
    BY DEF Gone, DestroyResources
  <1>3. RolesLive'
    BY <1>2, CompositorAssumption DEF Inv, Types, RolesLive, Gone, ToplevelClient
  <1>4. FocusOnToplevel'
    <2> SUFFICES ASSUME toplevel' # None, owner'[toplevel'] # None,
                        NEW d \in Devices \ {"touch"}, device'[owner'[toplevel']][d] # None
                 PROVE  focus'[owner'[toplevel']][d] = toplevel'
      BY DEF FocusOnToplevel, ToplevelClient, Entering
    <2>. DEFINE q == owner[toplevel]
    <2>1. toplevel' = toplevel /\ toplevel # None /\ q # c /\ owner'[toplevel] = q
      BY <1>2 DEF Types, Gone, ToplevelClient, Inv
    <2>2. q \in Clients
      BY <2>1 DEF Inv, Types
    <2>3. device'[q] = device[q] /\ focus'[q] = focus[q]
      BY <2>1, <2>2 DEF Gone, DestroyResources, Inv, Types
    <2>. QED BY <2>1, <2>3 DEF Inv, FocusOnToplevel, ToplevelClient, Entering
  <1>5. OutputPointerLive'
    BY DEF Gone, DestroyResources, Inv, Types, OutputPointerLive
  <1>6. ShellSurfaceHasSurface'
    BY <1>2 DEF Gone, DestroyResources, Inv, Types, ShellSurfaceHasSurface
  <1>. QED BY <1>1, <1>3, <1>4, <1>5, <1>6 DEF Inv

LEMMA StepInv ==
  ASSUME Inv, Step PROVE Inv'
  <1>1. ASSUME NEW c \in Clients, Gone(c) PROVE Inv'
    BY <1>1, GoneInv
  <1>2. ASSUME NEW c \in Clients, Connect(c) PROVE Inv'
    BY <1>2, SameRoles DEF Connect, Inv, Types, OutputPointerLive,
       ShellSurfaceHasSurface, roleVars, outputVars, seatVars
  <1>3. ASSUME NEW c \in Clients, Disconnect(c) PROVE Inv'
    BY <1>1, <1>3 DEF Disconnect
  <1>4. ASSUME NEW c \in Clients, NEW s \in Slots, CreateSurface(c, s) PROVE Inv'
    <2>. USE <1>4 DEF CreateSurface, roleVars, outputVars, seatVars
    <2>1. Types' /\ OutputPointerLive' /\ ShellSurfaceHasSurface'
      BY CompositorAssumption DEF Inv, Types, OutputPointerLive, ShellSurfaceHasSurface
    <2>2. s \notin {toplevel, cursor} /\ \A q \in Slots \ {s} : owner'[q] = owner[q]
      BY CompositorAssumption DEF Inv, RolesLive, Types
    <2>3. RolesLive' /\ ToplevelClient' = ToplevelClient
      BY <2>2 DEF Inv, RolesLive, Types, ToplevelClient
    <2>4. FocusOnToplevel'
      BY <2>3 DEF Inv, FocusOnToplevel, Entering
    <2>. QED BY <2>1, <2>3, <2>4 DEF Inv
  <1>5. ASSUME NEW c \in Clients, NEW s \in Slots, GetShellSurface(c, s) PROVE Inv'
    BY <1>5, SameRoles DEF GetShellSurface, Inv, Types, OutputPointerLive,
       ShellSurfaceHasSurface, roleVars, outputVars, seatVars
  <1>6. ASSUME NEW c \in Clients, NEW s \in Slots, SetToplevel(c, s) PROVE Inv'
    <2>1. owner[s] = c
      BY <1>6 DEF SetToplevel, Inv, ShellSurfaceHasSurface
    <2>2. /\ toplevel' = s
          /\ focus' = [focus EXCEPT ![c] = [d \in Devices |->
                         IF d \in Entering(c) THEN s ELSE @[d]]]
          /\ UNCHANGED <<owner, cursor, shells, outputs, output, device>>
      BY <1>6, <2>1 DEF SetToplevel, outputVars
    <2>3. Types' /\ OutputPointerLive' /\ ShellSurfaceHasSurface'
      BY <2>2 DEF Inv, Types, OutputPointerLive, ShellSurfaceHasSurface
    <2>4. RolesLive'
      BY <2>1, <2>2, CompositorAssumption DEF Inv, RolesLive
    <2>5. FocusOnToplevel'
      BY <2>1, <2>2 DEF Inv, Types, FocusOnToplevel, ToplevelClient, Entering
    <2>. QED BY <2>3, <2>4, <2>5 DEF Inv
  <1>7. ASSUME NEW c \in Clients, NEW s \in Slots \cup {None}, SetCursor(c, s) PROVE Inv'
    <2>. USE <1>7 DEF SetCursor, outputVars, seatVars
    <2>1. Types' /\ OutputPointerLive' /\ ShellSurfaceHasSurface'
      BY DEF Inv, Types, OutputPointerLive, ShellSurfaceHasSurface
    <2>2. RolesLive'
      BY CompositorAssumption DEF Inv, RolesLive
    <2>3. FocusOnToplevel'
      BY DEF Inv, FocusOnToplevel, ToplevelClient, Entering
    <2>. QED BY <2>1, <2>2, <2>3 DEF Inv
  <1>8. ASSUME NEW c \in Clients, NEW o \in Outputs, BindOutput(c, o) \/ ReleaseOutput(c, o)
        PROVE Inv'
    <2>. DEFINE old == outputs[c]
                was == output[c]
    <2>1. old = {was} \ {None} /\ old \in SUBSET Outputs
      BY Zenon DEF Inv, Types, OutputPointerLive
    <2>2. o # None
      BY CompositorAssumption
    <2>3. ASSUME NEW os \in SUBSET Outputs, NEW p \in Outputs \cup {None}, os = {p} \ {None},
                 outputs' = [outputs EXCEPT ![c] = os], output' = [output EXCEPT ![c] = p],
                 UNCHANGED <<owner, toplevel, cursor, device, focus, shells>>
          PROVE  Inv'
      <3>1. Types'
        BY <2>3 DEF Inv, Types
      <3>2. outputs'[c] = os /\ output'[c] = p
        BY <2>3 DEF Inv, Types
      <3>3. \A q \in Clients \ {c} : outputs'[q] = outputs[q] /\ output'[q] = output[q]
        BY <2>3 DEF Inv, Types
      <3>4. OutputPointerLive'
        BY <2>3, <3>2, <3>3, Zenon DEF Inv, OutputPointerLive
      <3>5. ShellSurfaceHasSurface'
        BY <2>3 DEF Inv, ShellSurfaceHasSurface
      <3>. QED BY <2>3, <3>1, <3>4, <3>5, SameRoles DEF roleVars
    <2>4. UNCHANGED <<owner, toplevel, cursor, device, focus, shells>>
      BY <1>8 DEF BindOutput, ReleaseOutput, roleVars, seatVars
    <2>5. CASE BindOutput(c, o)
      <3>1. outputs' = [outputs EXCEPT ![c] = (old \ {was}) \cup {o}]
            /\ output' = [output EXCEPT ![c] = o]
        BY <2>5 DEF BindOutput
      <3>2. (old \ {was}) \cup {o} \in SUBSET Outputs /\ (old \ {was}) \cup {o} = {o} \ {None}
        <4>. HIDE DEF old, was
        <4>. QED BY <2>1, <2>2
      <3>. QED BY <2>3, <2>4, <3>1, <3>2
    <2>6. CASE ReleaseOutput(c, o)
      <3>1. o \in old
        BY <2>6 DEF ReleaseOutput
      <3>2. o = was
        <4>. HIDE DEF old, was
        <4>. QED BY <2>1, <3>1
      <3>3. outputs' = [outputs EXCEPT ![c] = old \ {o}]
            /\ output' = [output EXCEPT ![c] = None]
        BY <2>6, <3>2 DEF ReleaseOutput
      <3>4. old \ {o} \in SUBSET Outputs /\ old \ {o} = {None} \ {None}
        <4>. HIDE DEF old, was
        <4>. QED BY <2>1, <3>2
      <3>. QED BY <2>3, <2>4, <3>3, <3>4
    <2>. QED BY <1>8, <2>5, <2>6
  <1>9. ASSUME NEW c \in Clients, NEW d \in Devices, NEW id \in Ids, GetDevice(c, d, id)
        PROVE Inv'
    <2>1. CASE d # "touch" /\ ToplevelClient \notin {None, c}
      BY <1>1, <1>9, <2>1 DEF GetDevice
    <2>2. CASE ~(d # "touch" /\ ToplevelClient \notin {None, c})
      <3>1. /\ device' = [device EXCEPT ![c][d] = id]
            /\ focus' = [focus EXCEPT ![c][d] = IF d = "touch" THEN None ELSE toplevel]
            /\ UNCHANGED <<owner, toplevel, cursor, shells, outputs, output>>
        BY <1>9, <2>2 DEF GetDevice, roleVars, outputVars
      <3>2. Types' /\ OutputPointerLive' /\ ShellSurfaceHasSurface' /\ RolesLive'
        BY <3>1 DEF Inv, Types, OutputPointerLive, ShellSurfaceHasSurface, RolesLive
      <3>3. FocusOnToplevel'
        BY <3>1 DEF Inv, Types, FocusOnToplevel, ToplevelClient, Entering
      <3>. QED BY <3>2, <3>3 DEF Inv
    <2>. QED BY <2>1, <2>2
  <1>10. ASSUME NEW c \in Clients, NEW d \in Devices, NEW id \in Ids, ReleaseDevice(c, d, id)
         PROVE Inv'
    <2>1. /\ device' = [device EXCEPT ![c][d] = None]
          /\ focus' = [focus EXCEPT ![c][d] = None]
          /\ UNCHANGED <<owner, toplevel, cursor, shells, outputs, output>>
      BY <1>10 DEF ReleaseDevice, roleVars, outputVars
    <2>2. Types' /\ OutputPointerLive' /\ ShellSurfaceHasSurface' /\ RolesLive'
      BY <2>1 DEF Inv, Types, OutputPointerLive, ShellSurfaceHasSurface, RolesLive
    <2>3. FocusOnToplevel'
      BY <2>1 DEF Inv, Types, FocusOnToplevel, ToplevelClient, Entering
    <2>. QED BY <2>2, <2>3 DEF Inv
  <1>11. ASSUME NEW f \in Fingers, TouchDown(f) \/ TouchUp(f) PROVE Inv'
    BY <1>11, SameRoles DEF TouchDown, TouchUp, Inv, Types, OutputPointerLive,
       ShellSurfaceHasSurface, roleVars, outputVars
  <1>12. CASE Resize
    BY <1>12, SameRoles DEF Resize, Inv, Types, OutputPointerLive,
       ShellSurfaceHasSurface, roleVars, outputVars, seatVars
  <1>. QED BY <1>2, <1>3, <1>4, <1>5, <1>6, <1>7, <1>8, <1>9, <1>10, <1>11, <1>12 DEF Step

LEMMA TidyDestroyInv ==
  ASSUME Inv, NEW s \in Slots, TidyDestroy(s) PROVE Inv'
  <1>. USE DEF TidyDestroy, DestroySurface, roleVars, outputVars, seatVars
  <1>1. Types' /\ OutputPointerLive' /\ ShellSurfaceHasSurface'
    BY DEF Inv, Types, OutputPointerLive, ShellSurfaceHasSurface
  <1>2. RolesLive' /\ ToplevelClient' = ToplevelClient
    BY DEF Inv, Types, RolesLive, ToplevelClient
  <1>3. FocusOnToplevel'
    BY <1>2 DEF Inv, FocusOnToplevel, Entering
  <1>. QED BY <1>1, <1>2, <1>3 DEF Inv

LEMMA TidyInv == TidySpec => []Inv
  <1>1. Inv /\ [TidyNext]_vars => Inv'
    <2> SUFFICES ASSUME Inv, [TidyNext]_vars PROVE Inv'
      OBVIOUS
    <2>1. CASE UNCHANGED vars
      BY <2>1, SameRoles DEF vars, Inv, Types, OutputPointerLive, ShellSurfaceHasSurface,
         roleVars, outputVars, seatVars
    <2>. QED BY <2>1, StepInv, TidyDestroyInv DEF TidyNext
  <1>. QED BY <1>1, InitInv, PTL DEF TidySpec

\* The toplevel and cursor pointers never outlive the surfaces of clients that
\* come, go and take roles from each other.
THEOREM RolesStayLive == TidySpec => []RolesLive
  <1>1. Inv => RolesLive
    BY DEF Inv
  <1>. QED BY <1>1, TidyInv, PTL

\* The toplevel client's pointer and keyboard have entered the toplevel.
THEOREM FocusFollowsToplevel == TidySpec => []FocusOnToplevel
  <1>1. Inv => FocusOnToplevel
    BY DEF Inv
  <1>. QED BY <1>1, TidyInv, PTL

-----------------------------------------------------------------------------
(* Whatever clients destroy *)

CountTypes ==
  /\ connected \subseteq Clients
  /\ live \in [Clients -> [Devices -> SUBSET Ids]]
  /\ down \in [Clients -> SUBSET Fingers] /\ fingers \subseteq Fingers
  /\ crashed \in BOOLEAN

LEMMA CountTypesKept == Spec => []CountTypes
  <1>1. Init => CountTypes
    BY DEF Init, CountTypes
  <1>2. CountTypes /\ [Next]_vars => CountTypes'
    <2> SUFFICES ASSUME CountTypes, [Next]_vars PROVE CountTypes'
      OBVIOUS
    <2>. USE DEF CountTypes, roleVars, outputVars, seatVars
    <2>1. ASSUME NEW c \in Clients, Gone(c), UNCHANGED <<fingers, crashed>> PROVE CountTypes'
      BY <2>1 DEF Gone, DestroyResources
    <2>2. ASSUME NEW c \in Clients, Connect(c) \/ Disconnect(c) PROVE CountTypes'
      BY <2>1, <2>2 DEF Connect, Disconnect
    <2>3. ASSUME NEW c \in Clients, NEW s \in Slots,
                 CreateSurface(c, s) \/ GetShellSurface(c, s) \/ SetToplevel(c, s)
          PROVE  CountTypes'
      <3>1. CASE CreateSurface(c, s) \/ GetShellSurface(c, s)
        BY <3>1 DEF CreateSurface, GetShellSurface
      <3>2. CASE SetToplevel(c, s)
        <4>1. UNCHANGED <<fingers, crashed>>
          BY <3>2 DEF SetToplevel
        <4>2. DestroyResources(c) \/ UNCHANGED <<connected, live, down>>
          BY <3>2 DEF SetToplevel
        <4>. QED BY <4>1, <4>2 DEF DestroyResources
      <3>. QED BY <2>3, <3>1, <3>2
    <2>4. ASSUME NEW c \in Clients, NEW s \in Slots \cup {None}, SetCursor(c, s) PROVE CountTypes'
      BY <2>4 DEF SetCursor
    <2>5. ASSUME NEW c \in Clients, NEW o \in Outputs, BindOutput(c, o) \/ ReleaseOutput(c, o)
          PROVE  CountTypes'
      BY <2>5 DEF BindOutput, ReleaseOutput
    <2>6. ASSUME NEW c \in Clients, NEW d \in Devices, NEW id \in Ids, GetDevice(c, d, id)
          PROVE  CountTypes'
      BY <2>1, <2>6 DEF GetDevice
    <2>7. ASSUME NEW c \in Clients, NEW d \in Devices, NEW id \in Ids, ReleaseDevice(c, d, id)
          PROVE  CountTypes'
      BY <2>7 DEF ReleaseDevice
    <2>8. ASSUME NEW f \in Fingers, TouchDown(f) \/ TouchUp(f) PROVE CountTypes'
      BY <2>8 DEF TouchDown, TouchUp
    <2>9. CASE Resize \/ UNCHANGED vars
      BY <2>9 DEF Resize, vars
    <2>10. ASSUME NEW s \in Slots, DestroySurface(s) PROVE CountTypes'
      BY <2>10 DEF DestroySurface
    <2>. QED BY <2>2, <2>3, <2>4, <2>5, <2>6, <2>7, <2>8, <2>9, <2>10 DEF Next, Step
  <1>. QED BY <1>1, <1>2, PTL DEF Spec

LEMMA TypesKept == Spec => []Types
  <1>1. Init => Types
    BY InitInv DEF Inv
  <1>2. Types /\ [Next]_vars => Types'
    <2> SUFFICES ASSUME Types, [Next]_vars PROVE Types'
      OBVIOUS
    <2>. USE CompositorAssumption DEF Types, roleVars, outputVars, seatVars
    <2>1. ASSUME NEW c \in Clients, DestroyResources(c),
                 toplevel' \in Slots \cup {None}, cursor' \in Slots \cup {None}
          PROVE  Types'
      BY <2>1 DEF DestroyResources, NoDevice
    <2>2. ASSUME NEW c \in Clients, Gone(c) PROVE Types'
      BY <2>1, <2>2 DEF Gone
    <2>3. ASSUME NEW c \in Clients, Connect(c) \/ Disconnect(c) PROVE Types'
      BY <2>2, <2>3 DEF Connect, Disconnect
    <2>4. ASSUME NEW c \in Clients, NEW s \in Slots,
                 CreateSurface(c, s) \/ GetShellSurface(c, s)
          PROVE  Types'
      BY <2>4 DEF CreateSurface, GetShellSurface
    <2>5. ASSUME NEW c \in Clients, NEW s \in Slots, SetToplevel(c, s) PROVE Types'
      <3>1. CASE owner[s] # c /\ Entering(c) # {}
        BY <2>1, <2>5, <3>1 DEF SetToplevel
      <3>2. CASE ~(owner[s] # c /\ Entering(c) # {})
        <4>1. /\ toplevel' = s
              /\ focus' = [focus EXCEPT ![c] = [d \in Devices |->
                             IF d \in Entering(c) THEN s ELSE @[d]]]
              /\ UNCHANGED <<owner, cursor, shells, outputs, output, device>>
          BY <2>5, <3>2 DEF SetToplevel
        <4>2. focus' \in [Clients -> [Devices -> Slots \cup {None}]]
          BY <4>1
        <4>. QED BY <4>1, <4>2
      <3>. QED BY <3>1, <3>2
    <2>6. ASSUME NEW c \in Clients, NEW s \in Slots \cup {None}, SetCursor(c, s) PROVE Types'
      BY <2>6 DEF SetCursor
    <2>7. ASSUME NEW c \in Clients, NEW o \in Outputs, BindOutput(c, o) \/ ReleaseOutput(c, o)
          PROVE  Types'
      <3>1. CASE BindOutput(c, o)
        <4>1. outputs' \in [Clients -> SUBSET Outputs] /\ output' \in [Clients -> Outputs \cup {None}]
          BY <3>1 DEF BindOutput
        <4>. QED BY <3>1, <4>1 DEF BindOutput
      <3>2. CASE ReleaseOutput(c, o)
        <4>1. outputs' \in [Clients -> SUBSET Outputs] /\ output' \in [Clients -> Outputs \cup {None}]
          BY <3>2 DEF ReleaseOutput
        <4>. QED BY <3>2, <4>1 DEF ReleaseOutput
      <3>. QED BY <2>7, <3>1, <3>2
    <2>8. ASSUME NEW c \in Clients, NEW d \in Devices, NEW id \in Ids, GetDevice(c, d, id)
          PROVE  Types'
      <3>1. CASE d # "touch" /\ ToplevelClient \notin {None, c}
        BY <2>2, <2>8, <3>1 DEF GetDevice
      <3>2. CASE ~(d # "touch" /\ ToplevelClient \notin {None, c})
        <4>1. /\ device' = [device EXCEPT ![c][d] = id]
              /\ focus' = [focus EXCEPT ![c][d] = IF d = "touch" THEN None ELSE toplevel]
              /\ UNCHANGED <<owner, toplevel, cursor, shells, outputs, output>>
          BY <2>8, <3>2 DEF GetDevice
        <4>2. /\ device' \in [Clients -> [Devices -> Ids \cup {None}]]
              /\ focus' \in [Clients -> [Devices -> Slots \cup {None}]]
          BY <4>1
        <4>. QED BY <4>1, <4>2
      <3>. QED BY <3>1, <3>2
    <2>9. ASSUME NEW c \in Clients, NEW d \in Devices, NEW id \in Ids, ReleaseDevice(c, d, id)
          PROVE  Types'
      BY <2>9 DEF ReleaseDevice
    <2>10. ASSUME NEW f \in Fingers, TouchDown(f) \/ TouchUp(f) PROVE Types'
      BY <2>10 DEF TouchDown, TouchUp
    <2>11. CASE Resize \/ UNCHANGED vars
      BY <2>11 DEF Resize, vars
    <2>12. ASSUME NEW s \in Slots, DestroySurface(s) PROVE Types'
      BY <2>12 DEF DestroySurface
    <2>. QED BY <2>3, <2>4, <2>5, <2>6, <2>7, <2>8, <2>9, <2>10, <2>11, <2>12 DEF Next, Step
  <1>. QED BY <1>1, <1>2, PTL DEF Spec

\* Every variable of the compositor keeps its type, also once a role pointer
\* dangles.
THEOREM TypeCorrect == Spec => []TypeOK
  <1>1. Types /\ CountTypes => TypeOK
    BY DEF Types, CountTypes, TypeOK
  <1>. QED BY <1>1, TypesKept, CountTypesKept, PTL

\* What the client's output pointer needs when it binds or releases one output.
LEMMA PointerMoves ==
  ASSUME Types, OutputPointerLive, NEW c \in Clients, NEW o \in Outputs,
         BindOutput(c, o) \/ ReleaseOutput(c, o)
  PROVE  OutputPointerLive'
  <1>. DEFINE old == outputs[c]
              was == output[c]
  <1>1. old = {was} \ {None} /\ o # None
    BY CompositorAssumption, Zenon DEF OutputPointerLive
  <1>2. ASSUME NEW os, NEW p, os = {p} \ {None},
               outputs' = [outputs EXCEPT ![c] = os], output' = [output EXCEPT ![c] = p]
        PROVE  OutputPointerLive'
    <2>1. outputs'[c] = os /\ output'[c] = p
      BY <1>2 DEF Types
    <2>2. \A q \in Clients \ {c} : outputs'[q] = outputs[q] /\ output'[q] = output[q]
      BY <1>2 DEF Types
    <2>. QED BY <1>2, <2>1, <2>2, Zenon DEF OutputPointerLive
  <1>3. CASE BindOutput(c, o)
    <2>1. outputs' = [outputs EXCEPT ![c] = (old \ {was}) \cup {o}]
          /\ output' = [output EXCEPT ![c] = o]
      BY <1>3 DEF BindOutput
    <2>2. (old \ {was}) \cup {o} = {o} \ {None}
      <3>. HIDE DEF old, was
      <3>. QED BY <1>1
    <2>. QED BY <1>2, <2>1, <2>2
  <1>4. CASE ReleaseOutput(c, o)
    <2>1. o \in old
      BY <1>4 DEF ReleaseOutput
    <2>2. o = was
      <3>. HIDE DEF old, was
      <3>. QED BY <1>1, <2>1
    <2>3. outputs' = [outputs EXCEPT ![c] = old \ {o}]
          /\ output' = [output EXCEPT ![c] = None]
      BY <1>4, <2>2 DEF ReleaseOutput
    <2>4. old \ {o} = {None} \ {None}
      <3>. HIDE DEF old, was
      <3>. QED BY <1>1, <2>2
    <2>. QED BY <1>2, <2>3, <2>4
  <1>. QED BY <1>3, <1>4

\* LorieClient::output is the client's output, or null when it has none,
\* whatever clients destroy.
THEOREM OutputPointer == Spec => []OutputPointerLive
  <1>1. Init => OutputPointerLive
    BY InitInv DEF Inv
  <1>2. Types /\ OutputPointerLive /\ [Next]_vars => OutputPointerLive'
    <2> SUFFICES ASSUME Types, OutputPointerLive, [Next]_vars PROVE OutputPointerLive'
      OBVIOUS
    <2>1. ASSUME NEW c \in Clients, DestroyResources(c) PROVE OutputPointerLive'
      BY <2>1 DEF DestroyResources, Types, OutputPointerLive
    <2>2. CASE UNCHANGED <<outputs, output>>
      BY <2>2 DEF OutputPointerLive
    <2>3. ASSUME NEW c \in Clients, NEW o \in Outputs, BindOutput(c, o) \/ ReleaseOutput(c, o)
          PROVE  OutputPointerLive'
      BY <2>3, PointerMoves
    <2>4. ASSUME NEW c \in Clients, NEW s \in Slots,
                 CreateSurface(c, s) \/ GetShellSurface(c, s) \/ SetToplevel(c, s)
          PROVE  DestroyResources(c) \/ UNCHANGED <<outputs, output>>
      BY <2>4 DEF CreateSurface, GetShellSurface, SetToplevel, outputVars
    <2>5. ASSUME NEW c \in Clients, Connect(c) \/ Disconnect(c)
          PROVE  DestroyResources(c) \/ UNCHANGED <<outputs, output>>
      BY <2>5 DEF Connect, Disconnect, Gone, outputVars
    <2>6. ASSUME NEW c \in Clients, NEW d \in Devices, NEW id \in Ids,
                 GetDevice(c, d, id) \/ ReleaseDevice(c, d, id)
          PROVE  DestroyResources(c) \/ UNCHANGED <<outputs, output>>
      BY <2>6 DEF GetDevice, ReleaseDevice, Gone, outputVars
    <2>7. ASSUME NEW c \in Clients, NEW s \in Slots \cup {None}, SetCursor(c, s)
          PROVE  UNCHANGED <<outputs, output>>
      BY <2>7 DEF SetCursor, outputVars
    <2>8. ASSUME NEW f \in Fingers, TouchDown(f) \/ TouchUp(f) PROVE UNCHANGED <<outputs, output>>
      BY <2>8 DEF TouchDown, TouchUp, outputVars
    <2>9. ASSUME NEW s \in Slots, DestroySurface(s) PROVE UNCHANGED <<outputs, output>>
      BY <2>9 DEF DestroySurface, outputVars
    <2>10. CASE Resize \/ UNCHANGED vars
      BY <2>2, <2>10 DEF Resize, vars, outputVars
    <2>. QED BY <2>1, <2>2, <2>3, <2>4, <2>5, <2>6, <2>7, <2>8, <2>9, <2>10 DEF Next, Step
  <1>. QED BY <1>1, <1>2, TypesKept, PTL DEF Spec

-----------------------------------------------------------------------------
(* Contacts *)

\* A client that knows of a finger has the touch device it learned it by.
ContactHasDevice ==
  \A c \in Clients : down[c] # {} => "touch" \in Devices /\ device[c]["touch"] # None

KeptContacts ==
  \A c \in Clients :
    down[c] \subseteq fingers /\ ~(down'[c] \subseteq fingers') => ToplevelClient # c

LEMMA ContactStep ==
  ASSUME Types, CountTypes, ContactHasDevice, [Next]_vars
  PROVE  ContactHasDevice' /\ KeptContacts
<1>. DEFINE Kept == ContactHasDevice' /\ KeptContacts
<1>1. /\ down \in [Clients -> SUBSET Fingers]
      /\ device \in [Clients -> [Devices -> Ids \cup {None}]]
  BY DEF Types, CountTypes
<1>2. ASSUME UNCHANGED <<down, device, fingers>> PROVE Kept
  BY <1>2 DEF ContactHasDevice, KeptContacts
<1>3. ASSUME NEW c \in Clients, DestroyResources(c), UNCHANGED fingers PROVE Kept
  <2>1. down' = [down EXCEPT ![c] = {}] /\ device' = [device EXCEPT ![c] = NoDevice]
    BY <1>3 DEF DestroyResources
  <2>2. \A e \in Clients : e # c => down'[e] = down[e] /\ device'[e] = device[e]
    BY <1>1, <2>1
  <2>3. down'[c] = {}
    BY <1>1, <2>1
  <2>. QED BY <1>3, <2>2, <2>3 DEF ContactHasDevice, KeptContacts
<1>4. ASSUME NEW c \in Clients, NEW d \in Devices, NEW new \in Ids \cup {None},
             device' = [device EXCEPT ![c][d] = new],
             down' = [down EXCEPT ![c] = IF d = "touch" THEN {} ELSE @],
             UNCHANGED fingers
      PROVE  Kept
  <2>1. \A e \in Clients : down'[e] \subseteq down[e]
    BY <1>1, <1>4
  <2>2. ASSUME NEW e \in Clients, down'[e] # {}
        PROVE  "touch" \in Devices /\ device'[e]["touch"] # None
    <3>1. down[e] # {} /\ ~(e = c /\ d = "touch")
      BY <1>1, <1>4, <2>2
    <3>2. "touch" \in Devices /\ device[e]["touch"] # None
      BY <3>1 DEF ContactHasDevice
    <3>3. device'[e]["touch"] = device[e]["touch"]
      BY <1>1, <1>4, <3>1, <3>2
    <3>. QED BY <3>2, <3>3
  <2>. QED BY <1>4, <2>1, <2>2 DEF ContactHasDevice, KeptContacts
<1>5. \A c \in Clients : c \in TouchTarget => "touch" \in Devices /\ device[c]["touch"] # None
  BY DEF TouchTarget
<1>6. ASSUME NEW f \in Fingers, TouchDown(f) PROVE Kept
  BY <1>1, <1>5, <1>6 DEF TouchDown, ContactHasDevice, KeptContacts
<1>7. ASSUME NEW f \in Fingers, TouchUp(f) PROVE Kept
  <2>1. /\ fingers' = fingers \ {f} /\ device' = device
        /\ \A c \in Clients : down'[c] = IF c \in TouchTarget THEN down[c] \ {f} ELSE down[c]
    BY <1>7 DEF TouchUp
  <2>2. ASSUME NEW c \in Clients, down[c] \subseteq fingers, ~(down'[c] \subseteq fingers')
        PROVE  ToplevelClient # c
    <3>1. c \notin TouchTarget /\ down[c] # {}
      BY <2>1, <2>2
    <3>2. "touch" \in Devices /\ device[c]["touch"] # None
      BY <3>1 DEF ContactHasDevice
    <3>. QED BY <3>1, <3>2, CompositorAssumption DEF TouchTarget
  <2>. QED BY <2>1, <2>2 DEF ContactHasDevice, KeptContacts
<1>8. ASSUME NEW c \in Clients, Connect(c) \/ Disconnect(c) PROVE Kept
  BY <1>2, <1>3, <1>8 DEF Connect, Disconnect, Gone, seatVars
<1>9. ASSUME NEW c \in Clients, NEW s \in Slots,
             CreateSurface(c, s) \/ GetShellSurface(c, s) \/ SetToplevel(c, s)
      PROVE  Kept
  <2>1. (DestroyResources(c) /\ UNCHANGED fingers) \/ UNCHANGED <<down, device, fingers>>
    BY <1>9 DEF CreateSurface, GetShellSurface, SetToplevel, Gone, seatVars
  <2>. QED BY <1>2, <1>3, <2>1
<1>10. ASSUME NEW c \in Clients, NEW s \in Slots \cup {None}, SetCursor(c, s) PROVE Kept
  BY <1>2, <1>10 DEF SetCursor, seatVars
<1>11. ASSUME NEW c \in Clients, NEW o \in Outputs, BindOutput(c, o) \/ ReleaseOutput(c, o)
       PROVE  Kept
  BY <1>2, <1>11 DEF BindOutput, ReleaseOutput, seatVars
<1>12. ASSUME NEW c \in Clients, NEW d \in Devices, NEW id \in Ids,
              GetDevice(c, d, id) \/ ReleaseDevice(c, d, id)
       PROVE  Kept
  <2>1. CASE Gone(c) /\ UNCHANGED fingers
    BY <1>3, <2>1 DEF Gone
  <2>2. CASE ~(Gone(c) /\ UNCHANGED fingers)
    <3>1. \E new \in Ids \cup {None} : device' = [device EXCEPT ![c][d] = new]
      BY <1>12, <2>2 DEF GetDevice, ReleaseDevice
    <3>2. /\ down' = [down EXCEPT ![c] = IF d = "touch" THEN {} ELSE @]
          /\ UNCHANGED fingers
      BY <1>12, <2>2 DEF GetDevice, ReleaseDevice
    <3>. QED BY <1>4, <3>1, <3>2
  <2>. QED BY <2>1, <2>2
<1>13. ASSUME NEW s \in Slots, DestroySurface(s) PROVE Kept
  BY <1>2, <1>13 DEF DestroySurface, seatVars
<1>14. CASE Resize \/ UNCHANGED vars
  BY <1>2, <1>14 DEF Resize, vars, seatVars
<1>. QED
  BY <1>6, <1>7, <1>8, <1>9, <1>10, <1>11, <1>12, <1>13, <1>14 DEF Next, Step

\* LorieCompositor::touch_up: only a client that has not the toplevel when a finger
\* leaves can be left with a contact that never ends, whatever clients destroy.
THEOREM ContactsLost == Spec => ContactsLostElsewhere
<1>1. Init => ContactHasDevice
  BY DEF Init, ContactHasDevice
<1>2. Types /\ CountTypes /\ ContactHasDevice /\ [Next]_vars => ContactHasDevice'
  BY ContactStep
<1>3. Types /\ CountTypes /\ ContactHasDevice /\ [Next]_vars => [KeptContacts]_vars
  BY ContactStep
<1>4. [][KeptContacts]_vars => ContactsLostElsewhere
  BY PTL DEF ContactsLostElsewhere, KeptContacts
<1>. QED BY <1>1, <1>2, <1>3, <1>4, TypesKept, CountTypesKept, PTL DEF Spec

\* No client takes the toplevel from another one while a finger is down.
NotTaken ==
  fingers # {} /\ ToplevelClient # None => ToplevelClient' \in {None, ToplevelClient}

\* Who knows of a finger is the client its up event will go to.
ContactsReachable ==
  \A c \in Clients : down[c] # {} =>
    "touch" \in Devices /\ ToplevelClient = c /\ device[c]["touch"] # None

CInv == ContactsEnd /\ ContactsReachable

\* Steps that do not touch the screen, and whose toplevel client either stays or
\* was none.
LEMMA SameContacts ==
  ASSUME CInv, UNCHANGED <<down, device, fingers>>,
         ToplevelClient' = ToplevelClient \/ ToplevelClient = None \/ fingers = {}
  PROVE  CInv'
<1>1. ContactsEnd'
  BY DEF CInv, ContactsEnd
<1>2. ASSUME NEW c \in Clients, down[c] # {} PROVE ToplevelClient' = c
  <2>1. ToplevelClient = c /\ fingers # {}
    BY <1>2 DEF CInv, ContactsEnd, ContactsReachable
  <2>2. ToplevelClient # None
    BY <2>1, CompositorAssumption
  <2>. QED BY <2>1, <2>2
<1>. QED BY <1>1, <1>2 DEF CInv, ContactsReachable

\* A client that goes is told of nothing any more, and the others keep what
\* they had.
LEMMA GoneContacts ==
  ASSUME Inv, CountTypes, CInv, NEW c \in Clients, Gone(c), UNCHANGED fingers
  PROVE  CInv'
<1>1. /\ down' = [down EXCEPT ![c] = {}] /\ device' = [device EXCEPT ![c] = NoDevice]
      /\ owner' = [s \in Slots |-> IF owner[s] = c THEN None ELSE owner[s]]
      /\ toplevel' = IF ToplevelClient = c THEN None ELSE toplevel
  BY DEF Gone, DestroyResources
<1>2. /\ down \in [Clients -> SUBSET Fingers]
      /\ device \in [Clients -> [Devices -> Ids \cup {None}]]
      /\ toplevel \in Slots \cup {None}
  BY DEF Inv, Types, CountTypes
<1>3. ContactsEnd'
  BY <1>1, <1>2 DEF CInv, ContactsEnd
<1>4. ASSUME NEW e \in Clients, down'[e] # {}
      PROVE  "touch" \in Devices /\ ToplevelClient' = e /\ device'[e]["touch"] # None
  <2>1. e # c /\ down[e] # {} /\ device'[e] = device[e]
    BY <1>1, <1>2, <1>4
  <2>2. "touch" \in Devices /\ ToplevelClient = e /\ device[e]["touch"] # None /\ e # None
    BY <2>1, CompositorAssumption DEF CInv, ContactsReachable
  <2>3. toplevel # None /\ toplevel \in Slots /\ owner[toplevel] = e
    BY <1>2, <2>2 DEF ToplevelClient
  <2>4. toplevel' = toplevel /\ owner'[toplevel] = e
    BY <1>1, <2>1, <2>2, <2>3
  <2>. QED BY <2>1, <2>2, <2>3, <2>4 DEF ToplevelClient
<1>. QED BY <1>3, <1>4 DEF CInv, ContactsReachable

\* What a finger does reaches the client that knows of the others.
LEMMA TouchContacts ==
  ASSUME Inv, CountTypes, CInv, NEW f \in Fingers, TouchDown(f) \/ TouchUp(f)
  PROVE  CInv'
<1>1. /\ down \in [Clients -> SUBSET Fingers]
      /\ UNCHANGED <<owner, toplevel, device>>
  BY DEF CountTypes, TouchDown, TouchUp, roleVars
<1>2. ToplevelClient' = ToplevelClient
  BY <1>1 DEF ToplevelClient
<1>3. \A c \in Clients : c \in TouchTarget =>
        "touch" \in Devices /\ ToplevelClient = c /\ device[c]["touch"] # None
  BY DEF TouchTarget
<1>4. \A c \in Clients : down[c] # {} => c \in TouchTarget
  <2>1. ASSUME NEW c \in Clients, down[c] # {} PROVE c \in TouchTarget
    <3>1. ToplevelClient = c /\ device[c]["touch"] # None /\ c # None
      BY <2>1, CompositorAssumption DEF CInv, ContactsReachable
    <3>2. "touch" \in Devices
      BY <2>1 DEF CInv, ContactsReachable
    <3>. QED BY <3>1, <3>2 DEF TouchTarget
  <2>. QED BY <2>1
<1>5. CASE TouchDown(f)
  BY <1>1, <1>2, <1>3, <1>4, <1>5 DEF TouchDown, CInv, ContactsEnd, ContactsReachable
<1>6. CASE TouchUp(f)
  BY <1>1, <1>2, <1>3, <1>4, <1>6 DEF TouchUp, CInv, ContactsEnd, ContactsReachable
<1>. QED BY <1>5, <1>6

\* A device that comes is told of no finger yet; a touch device that goes knows
\* of none any more.
LEMMA DeviceContacts ==
  ASSUME Inv, CountTypes, CInv, NEW c \in Clients, NEW d \in Devices, NEW new \in Ids \cup {None},
         device' = [device EXCEPT ![c][d] = new],
         down' = [down EXCEPT ![c] = IF d = "touch" THEN {} ELSE @],
         UNCHANGED <<owner, toplevel, fingers>>
  PROVE  CInv'
<1>1. /\ down \in [Clients -> SUBSET Fingers]
      /\ device \in [Clients -> [Devices -> Ids \cup {None}]]
  BY DEF Inv, Types, CountTypes
<1>2. ToplevelClient' = ToplevelClient
  BY DEF ToplevelClient
<1>3. \A e \in Clients : down'[e] \subseteq down[e]
  BY <1>1
<1>4. ContactsEnd'
  BY <1>3 DEF CInv, ContactsEnd
<1>5. ASSUME NEW e \in Clients, down'[e] # {}
      PROVE  "touch" \in Devices /\ ToplevelClient' = e /\ device'[e]["touch"] # None
  <2>1. down[e] # {} /\ ~(e = c /\ d = "touch")
    BY <1>1, <1>5
  <2>2. "touch" \in Devices /\ ToplevelClient = e /\ device[e]["touch"] # None
    BY <2>1 DEF CInv, ContactsReachable
  <2>3. device'[e]["touch"] = device[e]["touch"]
    BY <1>1, <2>1, <2>2
  <2>. QED BY <1>2, <2>2, <2>3
<1>. QED BY <1>4, <1>5 DEF CInv, ContactsReachable

LEMMA NextContacts ==
  ASSUME Inv, CountTypes, CInv, [TidyNext /\ NotTaken]_vars
  PROVE  CInv'
<1>1. ASSUME NEW c \in Clients, Connect(c) \/ Disconnect(c) PROVE CInv'
  <2>1. CASE Connect(c)
    BY <2>1, SameContacts DEF Connect, roleVars, seatVars, ToplevelClient
  <2>2. CASE Disconnect(c)
    BY <2>2, GoneContacts DEF Disconnect
  <2>. QED BY <1>1, <2>1, <2>2
<1>2. ASSUME NEW c \in Clients, NEW s \in Slots, CreateSurface(c, s) PROVE CInv'
  <2>1. toplevel # s
    BY <1>2, CompositorAssumption DEF CreateSurface, Inv, RolesLive
  <2>2. ToplevelClient' = ToplevelClient
    BY <1>2, <2>1 DEF CreateSurface, roleVars, ToplevelClient, Inv, Types
  <2>. QED BY <1>2, <2>2, SameContacts DEF CreateSurface, seatVars
<1>3. ASSUME NEW c \in Clients, NEW s \in Slots, GetShellSurface(c, s) PROVE CInv'
  BY <1>3, SameContacts DEF GetShellSurface, roleVars, seatVars, ToplevelClient
<1>4. ASSUME NEW c \in Clients, NEW s \in Slots, SetToplevel(c, s), NotTaken PROVE CInv'
  <2>1. owner[s] = c /\ c # None /\ s # None
    BY <1>4, CompositorAssumption DEF SetToplevel, Inv, ShellSurfaceHasSurface
  <2>2. toplevel' = s /\ UNCHANGED <<owner, down, device, fingers>>
    BY <1>4, <2>1 DEF SetToplevel
  <2>3. ToplevelClient' = c
    BY <2>1, <2>2 DEF ToplevelClient
  <2>4. ToplevelClient' = ToplevelClient \/ ToplevelClient = None \/ fingers = {}
    BY <1>4, <2>1, <2>3 DEF NotTaken
  <2>. QED BY <2>2, <2>4, SameContacts
<1>5. ASSUME NEW c \in Clients, NEW s \in Slots \cup {None}, SetCursor(c, s) PROVE CInv'
  BY <1>5, SameContacts DEF SetCursor, seatVars, ToplevelClient
<1>6. ASSUME NEW c \in Clients, NEW o \in Outputs, BindOutput(c, o) \/ ReleaseOutput(c, o)
      PROVE  CInv'
  BY <1>6, SameContacts DEF BindOutput, ReleaseOutput, roleVars, seatVars, ToplevelClient
<1>7. ASSUME NEW c \in Clients, NEW d \in Devices, NEW id \in Ids, GetDevice(c, d, id)
      PROVE  CInv'
  <2>1. CASE d # "touch" /\ ToplevelClient \notin {None, c}
    BY <1>7, <2>1, GoneContacts DEF GetDevice
  <2>2. CASE ~(d # "touch" /\ ToplevelClient \notin {None, c})
    BY <1>7, <2>2, DeviceContacts DEF GetDevice, roleVars
  <2>. QED BY <2>1, <2>2
<1>8. ASSUME NEW c \in Clients, NEW d \in Devices, NEW id \in Ids, ReleaseDevice(c, d, id)
      PROVE  CInv'
  BY <1>8, DeviceContacts DEF ReleaseDevice, roleVars
<1>9. ASSUME NEW f \in Fingers, TouchDown(f) \/ TouchUp(f) PROVE CInv'
  BY <1>9, TouchContacts
<1>10. ASSUME NEW s \in Slots, TidyDestroy(s) PROVE CInv'
  <2>1. ToplevelClient' = ToplevelClient
    BY <1>10 DEF TidyDestroy, DestroySurface, roleVars, ToplevelClient, Inv, Types
  <2>. QED BY <1>10, <2>1, SameContacts DEF TidyDestroy, DestroySurface, seatVars
<1>11. CASE Resize \/ UNCHANGED vars
  BY <1>11, SameContacts DEF Resize, vars, roleVars, seatVars, ToplevelClient
<1>. QED
  BY <1>1, <1>2, <1>3, <1>4, <1>5, <1>6, <1>7, <1>8, <1>9, <1>10, <1>11 DEF TidyNext, Step

\* LorieCompositor::touch_down and touch_up: if no client takes the toplevel from
\* another one while a finger is down, every client is told when a finger it
\* knows of leaves, whatever clients and devices come and go in between.
THEOREM ContactsEndUnlessTaken ==
  TidySpec /\ [][NotTaken]_vars => []ContactsEnd
<1>1. Init => CInv
  BY DEF Init, CInv, ContactsEnd, ContactsReachable
<1>2. Inv /\ CountTypes /\ CInv /\ [TidyNext]_vars /\ [NotTaken]_vars => CInv'
  BY NextContacts
<1>3. TidySpec => Spec
  <2>1. [TidyNext]_vars => [Next]_vars
    BY DEF TidyNext, Next, TidyDestroy
  <2>. QED BY <2>1, PTL DEF TidySpec, Spec
<1>4. CInv => ContactsEnd
  BY DEF CInv
<1>. QED BY <1>1, <1>2, <1>3, <1>4, TidyInv, CountTypesKept, PTL DEF TidySpec
=============================================================================
